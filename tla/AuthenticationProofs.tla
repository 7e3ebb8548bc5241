------------------------ MODULE AuthenticationProofs ------------------------
(***************************************************************************)
(* What the Base64 functions and the Authorization header preserve, for    *)
(* strings of bytes of any length.                                         *)
(***************************************************************************)
EXTENDS Authentication, WellFoundedInduction, TLAPS

Smaller == OpToRel(<, Nat)

LEMMA SmallerIsLess == \A x, y \in Nat : <<x, y>> \in Smaller <=> x < y
  BY DEF Smaller, OpToRel

LEMMA SmallerIsWellFounded == IsWellFoundedOn(Smaller, Nat)
  BY NatLessThanWellFounded DEF Smaller

LEMMA LeastElement ==
    ASSUME NEW T, T \subseteq Nat, T # {}
    PROVE  \E x \in T : \A y \in T : x <= y
  <1>1. PICK x \in T : \A y \in T : ~ (<<y, x>> \in Smaller)
    BY SmallerIsWellFounded, WFMin
  <1>2. x \in Nat /\ \A y \in T : y \in Nat /\ ~ (y < x)
    BY <1>1, SmallerIsLess, Zenon
  <1>3. \A y \in T : x <= y
    BY <1>2
  <1> QED
    BY <1>3

LEMMA MinIs ==
    ASSUME NEW S \in SUBSET Nat, NEW m \in S, \A x \in S : m <= x
    PROVE  Min(S) = m
  <1>1. \A x \in S : (\A y \in S : x <= y) <=> x = m
    OBVIOUS
  <1> QED
    BY <1>1 DEF Min
-----------------------------------------------------------------------------
(* How many digits there are, and how many bytes those hold.                  *)
DigitCount(n) == 4 * (n \div 3) + (IF n % 3 = 0 THEN 0 ELSE (n % 3) + 1)

LEMMA Counts ==
    ASSUME NEW n \in Nat
    PROVE  /\ DigitCount(n) \in Nat
           /\ DigitCount(n) <= EncodedSize(n)
           /\ (6 * DigitCount(n)) \div 8 = n
           /\ n <= DecodedSize(EncodedSize(n))
           /\ EncodedSize(n) \in Nat
  <1> DEFINE q == n \div 3
             r == n % 3
  <1>1. q \in Nat /\ r \in 0 .. 2 /\ n = 3 * q + r
    OBVIOUS
  <1> HIDE DEF q, r
  <1>2. DigitCount(n) = 4 * q + (IF r = 0 THEN 0 ELSE r + 1)
    BY DEF DigitCount, q, r
  <1>3. (n + 2) \div 3 = IF r = 0 THEN q ELSE q + 1
    BY <1>1
  <1>4. EncodedSize(n) = IF r = 0 THEN 4 * q ELSE 4 * q + 4
    BY <1>1, <1>3 DEF EncodedSize
  <1>5. (6 * DigitCount(n)) \div 8 = n
    BY <1>1, <1>2
  <1>6. n <= DecodedSize(EncodedSize(n))
    BY <1>1, <1>4 DEF DecodedSize
  <1> QED
    BY <1>1, <1>2, <1>4, <1>5, <1>6

(* Which of the places hold a digit.                                          *)
LEMMA DigitPlaces ==
    ASSUME NEW n \in Nat, NEW i \in 1 .. EncodedSize(n)
    PROVE  3 * ((i - 1) \div 4) + ((i - 1) % 4) > n <=> i > DigitCount(n)
  <1> DEFINE q == n \div 3
             r == n % 3
             g == (i - 1) \div 4
             k == (i - 1) % 4
  <1>1. q \in Nat /\ r \in 0 .. 2 /\ n = 3 * q + r
    OBVIOUS
  <1>2. i \in Nat \ {0} /\ i <= EncodedSize(n)
    BY Counts
  <1>3. g \in Nat /\ k \in 0 .. 3 /\ i = 4 * g + k + 1
    BY <1>2
  <1>4. DigitCount(n) = 4 * q + (IF r = 0 THEN 0 ELSE r + 1)
    BY DEF DigitCount
  <1>5. EncodedSize(n) = IF r = 0 THEN 4 * q ELSE 4 * q + 4
    BY <1>1 DEF EncodedSize
  <1> HIDE DEF q, r, g, k
  <1>6. CASE g < q
    BY <1>1, <1>3, <1>4, <1>6 DEF g, k
  <1>7. CASE g = q
    BY <1>1, <1>2, <1>3, <1>4, <1>5, <1>7 DEF g, k
  <1>8. CASE g > q
    BY <1>1, <1>3, <1>4, <1>8 DEF g, k
  <1> QED
    BY <1>1, <1>3, <1>6, <1>7, <1>8

(* The digits of a number are the number.                                     *)
LEMMA FourDigits ==
    ASSUME NEW G \in Nat, G < 256 * 256 * 256
    PROVE  /\ (G \div (64 * 64 * 64)) % 64 \in 0 .. 63
           /\ (G \div (64 * 64)) % 64 \in 0 .. 63
           /\ (G \div 64) % 64 \in 0 .. 63
           /\ (G \div 1) % 64 \in 0 .. 63
           /\ 64 * (64 * (64 * ((G \div (64 * 64 * 64)) % 64) + ((G \div (64 * 64)) % 64))
                    + ((G \div 64) % 64)) + ((G \div 1) % 64) = G
  <1> DEFINE a == G \div (64 * 64 * 64)
             b == G \div (64 * 64)
             c == G \div 64
  <1>1. a \in Nat /\ b \in Nat /\ c \in Nat
    OBVIOUS
  <1>2. a < 64 /\ 0 <= b - 64 * a /\ b - 64 * a < 64 
    OBVIOUS
  <1>3. 0 <= c - 64 * b /\ c - 64 * b < 64
    OBVIOUS
  <1>4. 0 <= G - 64 * c /\ G - 64 * c < 64 /\ G \div 1 = G
    OBVIOUS
  <1> HIDE DEF a, b, c
  <1>5. \A x \in Nat, y \in Nat : 0 <= x - 64 * y /\ x - 64 * y < 64 => x % 64 = x - 64 * y
    OBVIOUS
  <1>6. a % 64 = a /\ b % 64 = b - 64 * a /\ c % 64 = c - 64 * b /\ G % 64 = G - 64 * c
    BY <1>1, <1>2, <1>3, <1>4, <1>5
  <1>7. 64 * (64 * (64 * (a % 64) + (b % 64)) + (c % 64)) + (G % 64) = G
    BY <1>1, <1>6
  <1>8. a % 64 \in 0 .. 63 /\ b % 64 \in 0 .. 63 /\ c % 64 \in 0 .. 63 /\ G % 64 \in 0 .. 63
    BY <1>1, <1>2, <1>3, <1>4, <1>6
  <1> QED
    BY <1>4, <1>7, <1>8 DEF a, b, c

LEMMA ThreeBytes ==
    ASSUME NEW a \in Byte, NEW b \in Byte, NEW c \in Byte,
           NEW G, G = 256 * (256 * a + b) + c
    PROVE  /\ G \in Nat
           /\ G < 256 * 256 * 256
           /\ (G \div (256 * 256)) % 256 = a
           /\ (G \div 256) % 256 = b
           /\ (G \div 1) % 256 = c
  BY DEF Byte

LEMMA FunctionIsSequence ==
    ASSUME NEW S, NEW m \in Nat, NEW f \in [1 .. m -> S]
    PROVE  f \in Seq(S) /\ Len(f) = m
  OBVIOUS

LEMMA SextetType ==
    ASSUME NEW G \in Nat, G < 256 * 256 * 256, NEW k \in 0 .. 3
    PROVE  (G \div <<64 * 64 * 64, 64 * 64, 64, 1>>[k + 1]) % 64 \in 0 .. 63
  <1>1. k + 1 = 1 \/ k + 1 = 2 \/ k + 1 = 3 \/ k + 1 = 4
    OBVIOUS
  <1> QED
    BY <1>1, FourDigits

LEMMA ItemIsByte ==
    ASSUME NEW s \in Seq(Byte), NEW i \in Nat \ {0}
    PROVE  /\ ItemOr0(s, i) \in Byte
           /\ i <= Len(s) => ItemOr0(s, i) = s[i]
           /\ i > Len(s) => ItemOr0(s, i) = 0
  <1>1. 0 \in Byte
    BY DEF Byte
  <1>2. Len(s) \in Nat /\ (i <= Len(s) => s[i] \in Byte)
    OBVIOUS
  <1> QED
    BY <1>1, <1>2 DEF ItemOr0

LEMMA OctetsFit ==
    ASSUME NEW s \in Seq(Byte), NEW g \in Nat
    PROVE  Octets(s, g) \in Nat /\ Octets(s, g) < 256 * 256 * 256
  <1>1. /\ ItemOr0(s, 3*g + 1) \in Byte
        /\ ItemOr0(s, 3*g + 2) \in Byte
        /\ ItemOr0(s, 3*g + 3) \in Byte
    BY ItemIsByte
  <1> QED
    BY <1>1, ThreeBytes DEF Octets

(* The digits of an encoded string are all in front of its padding.           *)
LEMMA EncodeForm ==
    ASSUME NEW s \in Seq(Byte)
    PROVE  /\ Encode(s) \in Seq(0 .. Pad)
           /\ Len(Encode(s)) = EncodedSize(Len(s))
           /\ \A i \in 1 .. EncodedSize(Len(s)) :
                /\ Encode(s)[i] = Digit(s, (i - 1) \div 4, (i - 1) % 4)
                /\ Encode(s)[i] >= Pad <=> i > DigitCount(Len(s))
  <1> DEFINE n == Len(s)
  <1>1. n \in Nat /\ EncodedSize(n) \in Nat
    BY Counts
  <1>2. ASSUME NEW i \in 1 .. EncodedSize(n)
        PROVE  /\ Digit(s, (i - 1) \div 4, (i - 1) % 4) \in 0 .. Pad
               /\ Digit(s, (i - 1) \div 4, (i - 1) % 4) >= Pad <=> i > DigitCount(n)
    <2> DEFINE g == (i - 1) \div 4
               k == (i - 1) % 4
    <2>1. g \in Nat /\ k \in 0 .. 3
      BY <1>1
    <2>2. 3 * g + k > n <=> i > DigitCount(n)
      BY <1>1, DigitPlaces
    <2> DEFINE d == (Octets(s, g) \div <<64 * 64 * 64, 64 * 64, 64, 1>>[k + 1]) % 64
    <2>3. d \in 0 .. 63
      <3> HIDE DEF g, k
      <3> QED
        BY <2>1, OctetsFit, SextetType
    <2> HIDE DEF g, k
    <2>4. Digit(s, g, k) = IF 3 * g + k > n THEN Pad ELSE d
      BY DEF Digit
    <2> HIDE DEF d, n
    <2>5. Digit(s, g, k) \in 0 .. Pad /\ (Digit(s, g, k) >= Pad <=> 3 * g + k > n)
      BY <2>3, <2>4 DEF Pad
    <2> QED
      BY <2>2, <2>5 DEF g, k
  <1>3. /\ Encode(s) = [i \in 1 .. EncodedSize(n) |-> Digit(s, (i - 1) \div 4, (i - 1) % 4)]
        /\ Encode(s) \in [1 .. EncodedSize(n) -> 0 .. Pad]
    BY <1>2 DEF Encode
  <1> HIDE DEF n
  <1>4. Encode(s) \in Seq(0 .. Pad) /\ Len(Encode(s)) = EncodedSize(n)
    <2> DEFINE e == Encode(s)
               m == EncodedSize(n)
    <2>1. e \in [1 .. m -> 0 .. Pad] /\ m \in Nat
      BY <1>1, <1>3
    <2> HIDE DEF e, m
    <2>2. e \in Seq(0 .. Pad) /\ Len(e) = m
      BY <2>1, FunctionIsSequence
    <2> QED
      BY <2>2 DEF e, m
  <1> QED
    BY <1>2, <1>3, <1>4 DEF n

LEMMA DigitsOfEncoded ==
    ASSUME NEW s \in Seq(Byte)
    PROVE  Digits(Encode(s)) = SubSeq(Encode(s), 1, DigitCount(Len(s)))
  <1> DEFINE n == Len(s)
             e == Encode(s)
             I == {i \in 1 .. Len(Append(e, Pad)) : Append(e, Pad)[i] >= Pad}
  <1>1. n \in Nat /\ DigitCount(n) \in Nat /\ EncodedSize(n) \in Nat
        /\ DigitCount(n) <= EncodedSize(n)
    BY Counts
  <1>2. /\ e \in Seq(0 .. Pad) /\ Len(e) = EncodedSize(n)
        /\ \A i \in 1 .. EncodedSize(n) : e[i] >= Pad <=> i > DigitCount(n)
    BY EncodeForm
  <1> HIDE DEF n, e
  <1>3. /\ Len(Append(e, Pad)) = EncodedSize(n) + 1
        /\ Append(e, Pad)[EncodedSize(n) + 1] = Pad
        /\ \A i \in 1 .. EncodedSize(n) : Append(e, Pad)[i] = e[i]
    BY <1>1, <1>2
  <1>4. DigitCount(n) + 1 \in I
    BY <1>1, <1>2, <1>3 DEF Pad
  <1>5. I \in SUBSET Nat /\ \A i \in I : DigitCount(n) + 1 <= i
    BY <1>1, <1>2, <1>3
  <1>6. Digits(e) = SubSeq(e, 1, (IF I # {} THEN Min(I) ELSE 0) - 1)
    BY DEF Digits, SelectInSeq
  <1> HIDE DEF I
  <1>7. Min(I) = DigitCount(n) + 1 /\ I # {}
    BY <1>4, <1>5, MinIs
  <1>8. (IF I # {} THEN Min(I) ELSE 0) - 1 = DigitCount(n)
    BY <1>1, <1>7
  <1> QED
    BY <1>6, <1>8 DEF e, n

(* Four digits give back the three bytes, and those that are missing count    *)
(* as nothing on both sides.                                                  *)
LEMMA GroupsMeet ==
    ASSUME NEW s \in Seq(Byte), NEW g \in Nat, 3 * g < Len(s)
    PROVE  Sextets(Digits(Encode(s)), g) = Octets(s, g)
  <1> DEFINE n == Len(s)
             d == Digits(Encode(s))
             G == Octets(s, g)
             part(k) == (G \div <<64 * 64 * 64, 64 * 64, 64, 1>>[k + 1]) % 64
  <1>1. /\ n \in Nat /\ DigitCount(n) \in Nat /\ EncodedSize(n) \in Nat
        /\ DigitCount(n) <= EncodedSize(n)
    BY Counts
  <1>2. /\ Len(d) = DigitCount(n)
        /\ \A i \in 1 .. DigitCount(n) : d[i] = Encode(s)[i]
    BY <1>1, DigitsOfEncoded, EncodeForm
  <1>3. 4 * g + 4 <= EncodedSize(n)
    BY <1>1 DEF EncodedSize
  <1>4. ASSUME NEW k \in 0 .. 3
        PROVE  ItemOr0(d, 4*g + (k + 1)) = part(k)
    <2> DEFINE i == 4*g + (k + 1)
    <2>1. i \in 1 .. EncodedSize(n) /\ (i - 1) \div 4 = g /\ (i - 1) % 4 = k
      BY <1>1, <1>3
    <2>2. 3 * g + k > n <=> i > DigitCount(n)
      BY <1>1, <2>1, DigitPlaces
    <2>3. Encode(s)[i] = Digit(s, g, k)
      BY <2>1, EncodeForm
    <2> HIDE DEF i, d
    <2>4. CASE i <= DigitCount(n)
      <3>1. ItemOr0(d, i) = Digit(s, g, k)
        BY <1>1, <1>2, <2>1, <2>3, <2>4 DEF ItemOr0
      <3>2. ~(3 * g + k > n)
        BY <1>1, <2>1, <2>2, <2>4
      <3> QED
        BY <3>1, <3>2 DEF Digit, i
    <2>5. CASE i > DigitCount(n)
      <3>1. ItemOr0(d, i) = 0
        BY <1>1, <1>2, <2>1, <2>5 DEF ItemOr0
      <3>2. 3 * g + k > n
        BY <2>2, <2>5
      <3>3. part(k) = 0
        <4>1. /\ ItemOr0(s, 3*g + 1) \in Byte
              /\ ItemOr0(s, 3*g + 2) \in Byte
              /\ ItemOr0(s, 3*g + 3) = 0
              /\ k = 2 => ItemOr0(s, 3*g + 2) = 0
          BY <1>1, <3>2, ItemIsByte
        <4>2. k \in {2, 3}
          BY <1>1, <3>2
        <4> DEFINE a == ItemOr0(s, 3*g + 1)
                   b == ItemOr0(s, 3*g + 2)
                   c == ItemOr0(s, 3*g + 3)
        <4>3. G = 256 * (256 * a + b) + c
          BY DEF Octets
        <4>4. a \in Byte /\ b \in Byte /\ c = 0 /\ (k = 2 => b = 0)
          BY <4>1
        <4> HIDE DEF a, b, c, G
        <4>5. (G \div 1) % 64 = 0 /\ (k = 2 => (G \div 64) % 64 = 0)
          BY <4>3, <4>4 DEF Byte
        <4> QED
          BY <4>2, <4>5
      <3> QED
        BY <3>1, <3>3 DEF i
    <2> QED
      BY <1>1, <2>1, <2>4, <2>5
  <1>5. /\ ItemOr0(d, 4*g + 1) = (G \div (64 * 64 * 64)) % 64
        /\ ItemOr0(d, 4*g + 2) = (G \div (64 * 64)) % 64
        /\ ItemOr0(d, 4*g + 3) = (G \div 64) % 64
        /\ ItemOr0(d, 4*g + 4) = (G \div 1) % 64
    <2> HIDE DEF d, G
    <2> QED
      BY <1>4
  <1>6. G \in Nat /\ G < 256 * 256 * 256
    BY OctetsFit
  <1> HIDE DEF d, G
  <1>7. Sextets(d, g) = G
    BY <1>5, <1>6, FourDigits DEF Sextets
  <1> QED
    BY <1>7 DEF d, G

(* decode gives back what encode was given, and has room for it.              *)
THEOREM RoundTrip ==
    ASSUME NEW s \in Seq(Byte)
    PROVE  Decode(Encode(s)) = s /\ Len(s) <= DecodedSize(Len(Encode(s)))
  <1> DEFINE n == Len(s)
             d == Digits(Encode(s))
  <1>1. n \in Nat /\ (6 * DigitCount(n)) \div 8 = n /\ DigitCount(n) \in Nat
    <2>1. n \in Nat
      OBVIOUS
    <2> HIDE DEF n
    <2> QED
      BY <2>1, Counts
  <1>2. Len(d) = DigitCount(n)
    BY Counts, DigitsOfEncoded, EncodeForm
  <1>3. ASSUME NEW j \in 1 .. n
        PROVE  (Sextets(d, (j - 1) \div 3) \div <<256 * 256, 256, 1>>[((j - 1) % 3) + 1]) % 256 = s[j]
    <2> DEFINE g == (j - 1) \div 3
               k == (j - 1) % 3
    <2>1. g \in Nat /\ k \in 0 .. 2 /\ j = 3 * g + (k + 1) /\ 3 * g < n
      BY <1>1
    <2> HIDE DEF g, k
    <2>2. Sextets(d, g) = Octets(s, g)
      BY <2>1, GroupsMeet
    <2>3. /\ ItemOr0(s, 3*g + 1) \in Byte
          /\ ItemOr0(s, 3*g + 2) \in Byte
          /\ ItemOr0(s, 3*g + 3) \in Byte
          /\ ItemOr0(s, 3*g + (k + 1)) = s[j]
      BY <2>1, ItemIsByte
    <2>4. /\ (Octets(s, g) \div (256 * 256)) % 256 = ItemOr0(s, 3*g + 1)
          /\ (Octets(s, g) \div 256) % 256 = ItemOr0(s, 3*g + 2)
          /\ (Octets(s, g) \div 1) % 256 = ItemOr0(s, 3*g + 3)
      BY <2>3, ThreeBytes DEF Octets
    <2>5. k = 0 \/ k = 1 \/ k = 2
      BY <2>1
    <2>6. (Octets(s, g) \div <<256 * 256, 256, 1>>[k + 1]) % 256 = s[j]
      BY <2>3, <2>4, <2>5
    <2> QED
      BY <2>2, <2>6 DEF g, k
  <1>4. Decode(Encode(s)) = [j \in 1 .. n |-> s[j]]
    <2> DEFINE byte(j) ==
                 (Sextets(d, (j - 1) \div 3) \div <<256 * 256, 256, 1>>[((j - 1) % 3) + 1]) % 256
    <2>1. Decode(Encode(s)) = [j \in 1 .. (6 * Len(d)) \div 8 |-> byte(j)]
      BY DEF Decode, DecodedBytes
    <2>2. (6 * Len(d)) \div 8 = n
      BY <1>1, <1>2
    <2>3. \A j \in 1 .. n : byte(j) = s[j]
      BY <1>3, Zenon
    <2> HIDE DEF byte, d, n
    <2> QED
      BY <2>1, <2>2, <2>3
  <1>5. s = [j \in 1 .. n |-> s[j]]
    OBVIOUS
  <1> QED
    BY <1>1, <1>4, <1>5, Counts, EncodeForm
-----------------------------------------------------------------------------
HasNoColon(s) == \A i \in 1 .. Len(s) : s[i] # Colon

LEMMA ColonIsByte == Colon \in Byte
  BY DEF Colon, Byte

(* The string up to its first colon, or all of it.                            *)
LEMMA BeforeFirst ==
    ASSUME NEW v \in Seq(Byte), NEW m \in 0 .. Len(v),
           \A i \in 1 .. m : v[i] # Colon,
           m = Len(v) \/ v[m + 1] = Colon
    PROVE  BeforeColon(v) = SubSeq(v, 1, m)
  <1> DEFINE w == v \o <<Colon>>
             I == {i \in 1 .. Len(w) : w[i] = Colon}
  <1>1. /\ Len(w) = Len(v) + 1 /\ Len(v) \in Nat /\ m \in Nat /\ m <= Len(v)
        /\ w[Len(v) + 1] = Colon
        /\ \A i \in 1 .. Len(v) : w[i] = v[i]
    BY ColonIsByte
  <1>2. BeforeColon(v) = SubSeq(v, 1, (IF I # {} THEN Min(I) ELSE 0) - 1)
    BY DEF BeforeColon, SelectInSeq
  <1> HIDE DEF w
  <1>3. m + 1 \in I /\ I \in SUBSET Nat /\ \A i \in I : m + 1 <= i
    BY <1>1
  <1> HIDE DEF I
  <1>4. Min(I) = m + 1 /\ I # {}
    BY <1>3, MinIs
  <1>5. (IF I # {} THEN Min(I) ELSE 0) - 1 = m
    BY <1>1, <1>4
  <1> QED
    BY <1>2, <1>5

(* There is such a place in every string.                                     *)
LEMMA FirstColon ==
    ASSUME NEW v \in Seq(Byte)
    PROVE  \E m \in 0 .. Len(v) :
                /\ \A i \in 1 .. m : v[i] # Colon
                /\ m = Len(v) \/ v[m + 1] = Colon
  <1> DEFINE I == {i \in Nat : i < Len(v) => v[i + 1] = Colon}
  <1>1. Len(v) \in Nat /\ Len(v) \in I
    OBVIOUS
  <1>2. PICK m \in I : \A y \in I : m <= y
    BY <1>1, LeastElement
  <1>3. m \in 0 .. Len(v)
    BY <1>1, <1>2
  <1>4. ASSUME NEW i \in 1 .. m PROVE v[i] # Colon
    <2>1. i - 1 \in Nat /\ i - 1 < m /\ (i - 1) + 1 = i
      BY <1>3
    <2>2. i - 1 \notin I
      BY <1>2, <1>3, <2>1
    <2> QED
      BY <2>1, <2>2
  <1>5. m = Len(v) \/ v[m + 1] = Colon
    BY <1>1, <1>2, <1>3
  <1> QED
    BY <1>3, <1>4, <1>5

LEMMA NoColonBefore ==
    ASSUME NEW v \in Seq(Byte)
    PROVE  HasNoColon(BeforeColon(v))
  <1>1. PICK m \in 0 .. Len(v) :
            /\ \A i \in 1 .. m : v[i] # Colon
            /\ m = Len(v) \/ v[m + 1] = Colon
    BY FirstColon
  <1>2. BeforeColon(v) = SubSeq(v, 1, m)
    BY <1>1, BeforeFirst
  <1> QED
    BY <1>1, <1>2 DEF HasNoColon

LEMMA MinIsLeast ==
    ASSUME NEW T \in SUBSET Nat, T # {}
    PROVE  Min(T) \in T
  <1>1. PICK x \in T : \A y \in T : x <= y
    BY LeastElement
  <1>2. Min(T) = x
    BY <1>1, MinIs
  <1> QED
    BY <1>2

LEMMA AfterIsString ==
    ASSUME NEW v \in Seq(Byte)
    PROVE  AfterColons(v) \in Seq(Byte)
  <1> DEFINE rest == SubSeq(v, Len(BeforeColon(v)) + 1, Len(v))
             I == {i \in 1 .. Len(rest) : rest[i] # Colon}
             other == IF I # {} THEN Min(I) ELSE 0
  <1>1. AfterColons(v) = IF other = 0 THEN <<>> ELSE SubSeq(rest, other, Len(rest))
    BY DEF AfterColons, SelectInSeq
  <1>2. PICK m \in 0 .. Len(v) : BeforeColon(v) = SubSeq(v, 1, m)
    BY FirstColon, BeforeFirst
  <1>3. Len(BeforeColon(v)) + 1 \in Nat \ {0}
    BY <1>2
  <1>4. rest \in Seq(Byte)
    <2>1. \A k \in Nat \ {0} : SubSeq(v, k, Len(v)) \in Seq(Byte)
      OBVIOUS
    <2> QED
      BY <1>3, <2>1
  <1> HIDE DEF rest
  <1>5. other = 0 \/ other \in 1 .. Len(rest)
    <2>1. I \in SUBSET Nat /\ I \subseteq 1 .. Len(rest)
      BY <1>4
    <2> HIDE DEF I
    <2> QED
      BY <2>1, MinIsLeast
  <1> HIDE DEF other
  <1>6. other # 0 => SubSeq(rest, other, Len(rest)) \in Seq(Byte)
    BY <1>4, <1>5
  <1> QED
    BY <1>1, <1>6

(* A user name and a password without colons are told apart by the one        *)
(* between them.                                                              *)
LEMMA SplitAtColon ==
    ASSUME NEW u \in Seq(Byte), NEW p \in Seq(Byte), HasNoColon(u), HasNoColon(p)
    PROVE  Split(u \o <<Colon>> \o p) = <<u, p>>
  <1> DEFINE v == u \o <<Colon>> \o p
             rest == SubSeq(v, Len(u) + 1, Len(v))
             I == {i \in 1 .. Len(rest) : rest[i] # Colon}
             other == IF I # {} THEN Min(I) ELSE 0
  <1>1. Len(u) \in Nat /\ Len(p) \in Nat
    OBVIOUS
  <1>2. /\ v \in Seq(Byte)
        /\ Len(v) = Len(u) + 1 + Len(p)
        /\ v[Len(u) + 1] = Colon
        /\ \A i \in 1 .. Len(u) : v[i] = u[i]
        /\ \A i \in 1 .. Len(p) : v[Len(u) + 1 + i] = p[i]
    BY ColonIsByte
  <1> HIDE DEF v
  <1>3. SubSeq(v, 1, Len(u)) = u
    BY <1>1, <1>2
  <1>4. BeforeColon(v) = u
    <2>1. Len(u) \in 0 .. Len(v) /\ \A i \in 1 .. Len(u) : v[i] # Colon
      BY <1>1, <1>2 DEF HasNoColon
    <2> QED
      BY <1>2, <1>3, <2>1, BeforeFirst
  <1>5. AfterColons(v) = IF other = 0 THEN <<>> ELSE SubSeq(rest, other, Len(rest))
    BY <1>4 DEF AfterColons, SelectInSeq
  <1>6. /\ rest \in Seq(Byte) /\ Len(rest) = Len(p) + 1 /\ rest[1] = Colon
        /\ \A i \in 1 .. Len(p) : rest[i + 1] = p[i]
    BY <1>1, <1>2
  <1> HIDE DEF rest
  <1>7. AfterColons(v) = p
    <2>1. CASE p = <<>>
      <3>1. I = {}
        BY <1>6, <2>1
      <3> QED
        BY <1>5, <2>1, <3>1
    <2>2. CASE p # <<>>
      <3>1. Len(p) > 0
        BY <1>1, <2>2
      <3>2. 2 \in I /\ I \in SUBSET Nat /\ \A i \in I : 2 <= i
        BY <1>1, <1>6, <3>1 DEF HasNoColon
      <3>3. other = 2
        BY <3>2, MinIs
      <3> HIDE DEF other
      <3>4. SubSeq(rest, 2, Len(rest)) = p
        BY <1>1, <1>6
      <3> QED
        BY <1>5, <3>3, <3>4
    <2> QED
      BY <2>1, <2>2
  <1>8. BeforeColon(p) = p
    <2>1. SubSeq(p, 1, Len(p)) = p
      OBVIOUS
    <2> QED
      BY <1>1, <2>1, BeforeFirst DEF HasNoColon
  <1> QED
    BY <1>4, <1>7, <1>8 DEF Split, v

LEMMA SplitHasNoColon ==
    ASSUME NEW v \in Seq(Byte)
    PROVE  HasNoColon(Split(v)[1]) /\ HasNoColon(Split(v)[2])
  BY NoColonBefore, AfterIsString DEF Split

LEMMA NeitherHasColon ==
    ASSUME NEW u \in Seq(Byte), NEW p \in Seq(Byte)
    PROVE  ~Contains(u \o p, Colon) <=> HasNoColon(u) /\ HasNoColon(p)
  <1>1. /\ Len(u) \in Nat /\ Len(p) \in Nat /\ Len(u \o p) = Len(u) + Len(p)
        /\ \A i \in 1 .. Len(u) : (u \o p)[i] = u[i]
        /\ \A i \in 1 .. Len(p) : (u \o p)[Len(u) + i] = p[i]
    OBVIOUS
  <1>2. ASSUME ~Contains(u \o p, Colon) PROVE HasNoColon(u) /\ HasNoColon(p)
    <2>1. \A i \in 1 .. Len(u \o p) : (u \o p)[i] # Colon
      BY <1>2 DEF Contains
    <2>2. /\ \A i \in 1 .. Len(u) : i \in 1 .. Len(u \o p)
          /\ \A i \in 1 .. Len(p) : Len(u) + i \in 1 .. Len(u \o p)
      BY <1>1
    <2>3. /\ \A i \in 1 .. Len(u) : u[i] # Colon
          /\ \A i \in 1 .. Len(p) : p[i] # Colon
      BY <1>1, <2>1, <2>2
    <2> QED
      BY <2>3 DEF HasNoColon
  <1>3. ASSUME HasNoColon(u), HasNoColon(p), NEW i \in 1 .. Len(u \o p)
        PROVE  (u \o p)[i] # Colon
    <2>1. i \in 1 .. Len(u) \/ (i - Len(u) \in 1 .. Len(p) /\ Len(u) + (i - Len(u)) = i)
      BY <1>1
    <2> QED
      BY <1>1, <1>3, <2>1 DEF HasNoColon
  <1> QED
    BY <1>2, <1>3 DEF Contains

(* The server takes the header of a client with a user name and a password    *)
(* for one, and reads exactly these two if and only if neither has a colon    *)
(* (authentication.cpp:19-42, 59-68; server.cpp:131-157).                     *)
THEOREM HeaderRoundTrip ==
    ASSUME NEW u \in Seq(Byte), NEW p \in Seq(Byte)
    PROVE  LET seen == Received(EncodedHeader(Basic(u, p))) IN
           seen.type = "Basic" /\ (seen = Basic(u, p) <=> ~Contains(u \o p, Colon))
  <1> DEFINE v == u \o <<Colon>> \o p
             header == EncodedHeader(Basic(u, p))
             seen == Basic(Split(v)[1], Split(v)[2])
  <1>1. v \in Seq(Byte) /\ Contains(v, Colon)
    <2>1. /\ v \in Seq(Byte) /\ Len(u) + 1 \in 1 .. Len(v)
          /\ v[Len(u) + 1] = Colon
      BY ColonIsByte
    <2> QED
      BY <2>1 DEF Contains
  <1>2. header = <<"Basic", Encode(v)>>
    BY DEF EncodedHeader, Basic
  <1> HIDE DEF v
  <1>3. Decode(Encode(v)) = v
    BY <1>1, RoundTrip
  <1>4. /\ Len(header) = 2 /\ header[1] = "Basic" /\ header[2] = Encode(v)
        /\ header # NoHeader
    BY <1>2 DEF NoHeader
  <1> HIDE DEF header
  <1>5. FromHeader(header) = seen
    BY <1>1, <1>3, <1>4 DEF FromHeader
  <1>6. seen.type = "Basic" /\ seen # Invalid
    BY DEF Basic, Invalid
  <1> HIDE DEF seen
  <1>7. Received(header) = seen
    BY <1>4, <1>5, <1>6 DEF Received
  <1>8. seen = Basic(u, p) <=> Split(v)[1] = u /\ Split(v)[2] = p
    BY DEF seen, Basic
  <1>9. Split(v)[1] = u /\ Split(v)[2] = p <=> HasNoColon(u) /\ HasNoColon(p)
    <2>1. ASSUME HasNoColon(u), HasNoColon(p) PROVE Split(v)[1] = u /\ Split(v)[2] = p
      <3>1. Split(v) = <<u, p>>
        BY <2>1, SplitAtColon DEF v
      <3> QED
        BY <3>1
    <2>2. HasNoColon(Split(v)[1]) /\ HasNoColon(Split(v)[2])
      BY <1>1, SplitHasNoColon
    <2> QED
      BY <2>1, <2>2
  <1> QED
    BY <1>6, <1>7, <1>8, <1>9, NeitherHasColon DEF header
=============================================================================
