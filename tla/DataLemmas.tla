----------------------------- MODULE DataLemmas -----------------------------
(***************************************************************************)
(* What the other proof modules need to know of numbers, sequences and the *)
(* words and headers of Frame.  Induction is stated for sets of natural    *)
(* numbers, so that a proof names the set of numbers its claim is true of; *)
(* it follows from the well-foundedness of < on Nat.                       *)
(***************************************************************************)
EXTENDS Calls, SequenceTheorems, WellFoundedInduction, TLAPS

-----------------------------------------------------------------------------
(* Induction.                                                              *)

(* A set of natural numbers that is not empty has a least element.         *)
LEMMA LeastNatural ==
  ASSUME NEW T, T \subseteq Nat, T # {}
  PROVE  \E m \in T : \A k \in T : m <= k
<1> DEFINE R == {ss \in Nat \X Nat : ss[1] < ss[2]}
<1>1. IsWellFoundedOn(R, Nat)
  BY NatLessThanWellFounded DEF OpToRel
<1>2. \E x \in T : \A y \in T : <<y, x>> \notin R
  <2> HIDE DEF R
  <2> QED
    BY <1>1, WFMin
<1>3. PICK x \in T : \A y \in T : <<y, x>> \notin R
  BY <1>2
<1>4. \A y \in T : ~(y < x)
  <2> SUFFICES ASSUME NEW y \in T, y < x PROVE FALSE
    OBVIOUS
  <2>1. <<y, x>> \in R
    BY <1>1
  <2> QED
    BY <2>1, <1>3
<1> HIDE DEF R
<1> QED
  BY <1>4

(* What is true of 0, and of n + 1 if of n, is true of every number.       *)
LEMMA SetInduction ==
  ASSUME NEW S, 0 \in S, \A n \in Nat : n \in S => n + 1 \in S
  PROVE  \A n \in Nat : n \in S
<1> SUFFICES ASSUME Nat \ S # {} PROVE FALSE
  OBVIOUS
<1>1. PICK m \in Nat \ S : \A k \in Nat \ S : m <= k
  BY LeastNatural
<1>2. m # 0 /\ m - 1 \in Nat /\ (m - 1) + 1 = m /\ ~(m <= m - 1)
  BY <1>1
<1>3. m - 1 \in S
  BY <1>1, <1>2
<1> QED
  BY <1>1, <1>2, <1>3

(* f walks through 0..N in strides and puts items together on the way.     *)
IsWalk(f, N, going, item, stride) ==
  f = [o \in 0..N |-> IF o \in going THEN item[o] \o f[o + stride[o]] ELSE <<>>]

(* Such a function can be defined by recursion.                            *)
LEMMA StridesExist ==
  ASSUME NEW N \in Nat, NEW going, NEW item, NEW stride,
         \A o \in (0..N) \cap going : stride[o] \in Nat \ {0} /\ o + stride[o] <= N
  PROVE  \E f : IsWalk(f, N, going, item, stride)
<1> DEFINE Walks(n) ==
             \E f : f = [o \in (N - n)..N |->
                           IF o \in going THEN item[o] \o f[o + stride[o]] ELSE <<>>]
           S == {n \in Nat : n <= N => Walks(n)}
<1>1. 0 \in S
  <2> DEFINE f == [o \in N..N |-> <<>>]
  <2>1. \A o \in N..N : o \notin going
    OBVIOUS
  <2>2. f = [o \in N..N |-> IF o \in going THEN item[o] \o f[o + stride[o]] ELSE <<>>]
    BY <2>1
  <2>3. N - 0 = N
    OBVIOUS
  <2> HIDE DEF f
  <2> QED
    BY <2>2, <2>3
<1>2. ASSUME NEW n \in Nat, n \in S PROVE n + 1 \in S
  <2> SUFFICES ASSUME n + 1 <= N PROVE Walks(n + 1)
    <3> HIDE DEF Walks
    <3> QED
      OBVIOUS
  <2>0. Walks(n)
    <3> HIDE DEF Walks
    <3> QED
      BY <1>2
  <2>1. PICK f : f = [o \in (N - n)..N |->
                        IF o \in going THEN item[o] \o f[o + stride[o]] ELSE <<>>]
    BY <2>0
  <2> DEFINE g == [o \in (N - (n + 1))..N |->
                     IF o \in going THEN item[o] \o f[o + stride[o]] ELSE <<>>]
  <2>2. \A o \in (N - n)..N : g[o] = f[o]
    <3>1. \A o \in (N - n)..N : o \in (N - (n + 1))..N
      OBVIOUS
    <3>2. \A o \in (N - n)..N :
            f[o] = IF o \in going THEN item[o] \o f[o + stride[o]] ELSE <<>>
      <4> SUFFICES ASSUME NEW o \in (N - n)..N
                   PROVE  f[o] = IF o \in going THEN item[o] \o f[o + stride[o]] ELSE <<>>
        OBVIOUS
      <4> QED
        BY <2>1, ZenonT(40)
    <3> QED
      BY <3>1, <3>2
  <2>3. \A o \in (N - (n + 1))..N : o \in going => o + stride[o] \in (N - n)..N
    OBVIOUS
  <2>4. \A o \in (N - (n + 1))..N : o \in going => g[o + stride[o]] = f[o + stride[o]]
    BY <2>2, <2>3
  <2>5. g = [o \in (N - (n + 1))..N |->
               IF o \in going THEN item[o] \o g[o + stride[o]] ELSE <<>>]
    BY <2>4
  <2> HIDE DEF g
  <2> QED
    BY <2>5
<1>3. N \in S
  <2> HIDE DEF S
  <2> QED
    BY <1>1, <1>2, SetInduction
<1>4. Walks(N)
  <2> HIDE DEF Walks
  <2> QED
    BY <1>3
<1>5. N - N = 0
  OBVIOUS
<1> QED
  BY <1>4, <1>5 DEF IsWalk

-----------------------------------------------------------------------------
(* Words and byte strings.                                                 *)

LEMMA WordRange == \A n \in Int : 0 <= n /\ n <= 65535 <=> n \in Word
BY SMTT(30) DEF Word

(* What is not above a 16-bit number is one too.                           *)
LEMMA WordBelow ==
  ASSUME NEW top \in Word
  PROVE  top \in Nat /\ \A n \in 0..top : n \in Word
<1>1. top \in Int /\ 0 <= top /\ top <= 65535
  BY SMTT(30) DEF Word
<1>2. ASSUME NEW n \in 0..top PROVE n \in Word
  <2>1. n \in Int /\ 0 <= n /\ n <= 65535
    BY <1>1
  <2> QED
    BY <2>1, WordRange
<1>3. top \in Nat
  BY ONLY <1>1
<1> QED
  BY Zenon, <1>2, <1>3

(* A 16-bit field is two bytes, from which it can be read back.            *)
LEMMA WordIsTwoBytes ==
  ASSUME NEW n \in Word
  PROVE  /\ n \div 256 \in Byte /\ n % 256 \in Byte
         /\ UnpackWord(n \div 256, n % 256) = n
BY SMTT(30) DEF Word, Byte, UnpackWord

LEMMA PackWordIsBytes ==
  ASSUME NEW n \in Word
  PROVE  /\ PackWord(n) \in Seq(Byte) /\ Len(PackWord(n)) = 2
         /\ PackWord(n)[1] = n \div 256 /\ PackWord(n)[2] = n % 256
BY WordIsTwoBytes DEF PackWord

(* Two bytes are a 16-bit field, which is packed into them again.          *)
LEMMA TwoBytesAreWord ==
  ASSUME NEW hi \in Byte, NEW lo \in Byte
  PROVE  /\ UnpackWord(hi, lo) \in Word
         /\ UnpackWord(hi, lo) \div 256 = hi /\ UnpackWord(hi, lo) % 256 = lo
<1>1. hi \in Int /\ lo \in Int /\ 0 <= hi /\ hi <= 255 /\ 0 <= lo /\ lo <= 255
  BY DEF Byte
<1>2. PICK n \in Int : n = 256 * hi + lo
  BY <1>1
<1>3. n \div 256 \in Int /\ n % 256 \in 0..255 /\ n = 256 * (n \div 256) + (n % 256)
  BY <1>2
<1>4. n \div 256 = hi
  BY <1>1, <1>2, <1>3
<1>5. n % 256 = lo
  BY <1>1, <1>2, <1>3, <1>4
<1>6. 0 <= n /\ n <= 65535
  BY <1>1, <1>2
<1>7. n = UnpackWord(hi, lo)
  BY <1>2 DEF UnpackWord
<1>8. n \in Word
  BY <1>6, WordRange
<1> QED
  BY <1>4, <1>5, <1>7, <1>8

(* A function on 1..n is a sequence of length n, and the sequences are     *)
(* those functions.                                                        *)
LEMMA FunctionIsSeq ==
  ASSUME NEW S, NEW n \in Nat, NEW f \in [1..n -> S]
  PROVE  f \in Seq(S) /\ Len(f) = n
<1>1. f \in Seq(S)
  BY SeqDef
<1>2. Len(f) \in Nat /\ 1..Len(f) = 1..n
  BY <1>1, LenProperties
<1>3. \A k \in Nat : 1..k = 1..n => k = n
  <2> SUFFICES ASSUME NEW k \in Nat, 1..k = 1..n PROVE k = n
    OBVIOUS
  <2>1. CASE k < n
    <3>1. n \in 1..n /\ n \notin 1..k
      BY <2>1
    <3> QED
      BY <3>1
  <2>2. CASE n < k
    <3>1. k \in 1..k /\ k \notin 1..n
      BY <2>2
    <3> QED
      BY <3>1
  <2> QED
    BY <2>1, <2>2
<1> QED
  BY <1>1, <1>2, <1>3

-----------------------------------------------------------------------------
(* Bits and registers.                                                     *)

LEMMA Weights ==
  /\ BitWeight[1] = 1 /\ BitWeight[2] = 2 /\ BitWeight[3] = 4 /\ BitWeight[4] = 8
  /\ BitWeight[5] = 16 /\ BitWeight[6] = 32 /\ BitWeight[7] = 64 /\ BitWeight[8] = 128
BY DEF BitWeight

LEMMA ByteRange == \A n \in Int : 0 <= n /\ n <= 255 <=> n \in Byte
BY DEF Byte

(* Eight bits are a byte, and can be read back from it.                    *)
LEMMA BitsOfByteOf ==
  ASSUME NEW bit \in [1..8 -> BOOLEAN]
  PROVE  /\ ByteOf(bit) \in Byte
         /\ \A j \in 1..8 : BitOf(ByteOf(bit), j) <=> bit[j]
<1> DEFINE b(j) == IF bit[j] THEN 1 ELSE 0
<1>1. PICK b1 \in {0, 1} : b1 = b(1)
  OBVIOUS
<1>2. PICK b2 \in {0, 1} : b2 = b(2)
  OBVIOUS
<1>3. PICK b3 \in {0, 1} : b3 = b(3)
  OBVIOUS
<1>4. PICK b4 \in {0, 1} : b4 = b(4)
  OBVIOUS
<1>5. PICK b5 \in {0, 1} : b5 = b(5)
  OBVIOUS
<1>6. PICK b6 \in {0, 1} : b6 = b(6)
  OBVIOUS
<1>7. PICK b7 \in {0, 1} : b7 = b(7)
  OBVIOUS
<1>8. PICK b8 \in {0, 1} : b8 = b(8)
  OBVIOUS
<1>9. PICK n \in Int : n = b1 + 2 * b2 + 4 * b3 + 8 * b4 + 16 * b5 + 32 * b6 + 64 * b7 + 128 * b8
  OBVIOUS
<1>10. ByteOf(bit) = n
  BY <1>1, <1>2, <1>3, <1>4, <1>5, <1>6, <1>7, <1>8, <1>9, Weights DEF ByteOf
<1>11. n \in Byte
  BY <1>9, ByteRange
<1>12. /\ n % 2 = b1 /\ (n \div 2) % 2 = b2 /\ (n \div 4) % 2 = b3 /\ (n \div 8) % 2 = b4
  BY <1>9
<1>13. /\ (n \div 16) % 2 = b5 /\ (n \div 32) % 2 = b6
       /\ (n \div 64) % 2 = b7 /\ (n \div 128) % 2 = b8
  BY <1>9
<1>14. n \div 1 = n
  OBVIOUS
<1>15. ASSUME NEW j \in 1..8 PROVE BitOf(n, j) <=> bit[j]
  <2>1. CASE j = 1
    BY <1>1, <1>12, <1>14, <2>1, Weights DEF BitOf
  <2>2. CASE j = 2
    BY <1>2, <1>12, <2>2, Weights DEF BitOf
  <2>3. CASE j = 3
    BY <1>3, <1>12, <2>3, Weights DEF BitOf
  <2>4. CASE j = 4
    BY <1>4, <1>12, <2>4, Weights DEF BitOf
  <2>5. CASE j = 5
    BY <1>5, <1>13, <2>5, Weights DEF BitOf
  <2>6. CASE j = 6
    BY <1>6, <1>13, <2>6, Weights DEF BitOf
  <2>7. CASE j = 7
    BY <1>7, <1>13, <2>7, Weights DEF BitOf
  <2>8. CASE j = 8
    BY <1>8, <1>13, <2>8, Weights DEF BitOf
  <2> QED
    BY <2>1, <2>2, <2>3, <2>4, <2>5, <2>6, <2>7, <2>8
<1> QED
  BY <1>10, <1>11, <1>15

(* The bits of a byte make up that byte.                                   *)
LEMMA ByteOfBitsOf ==
  ASSUME NEW n \in Byte
  PROVE  ByteOf([j \in 1..8 |-> BitOf(n, j)]) = n
<1>1. PICK m \in Int : m = n /\ 0 <= m /\ m <= 255
  BY DEF Byte
<1> DEFINE w(j) == IF BitOf(m, j) THEN BitWeight[j] ELSE 0
<1>2. /\ w(1) = m % 2              /\ w(2) = 2 * ((m \div 2) % 2)
      /\ w(3) = 4 * ((m \div 4) % 2)  /\ w(4) = 8 * ((m \div 8) % 2)
  BY Weights DEF BitOf
<1>3. /\ w(5) = 16 * ((m \div 16) % 2) /\ w(6) = 32 * ((m \div 32) % 2)
      /\ w(7) = 64 * ((m \div 64) % 2) /\ w(8) = 128 * ((m \div 128) % 2)
  BY Weights DEF BitOf
<1>4. m = (m % 2) + 2 * ((m \div 2) % 2) + 4 * ((m \div 4) % 2) + 8 * ((m \div 8) % 2)
            + 16 * ((m \div 16) % 2) + 32 * ((m \div 32) % 2)
            + 64 * ((m \div 64) % 2) + 128 * ((m \div 128) % 2)
  BY <1>1
<1>5. ByteOf([j \in 1..8 |-> BitOf(m, j)])
        = w(1) + w(2) + w(3) + w(4) + w(5) + w(6) + w(7) + w(8)
  BY DEF ByteOf
<1> QED
  BY <1>1, <1>2, <1>3, <1>4, <1>5

(* Where the bit i is in the packed bytes.                                 *)
LEMMA PlaceOfBit ==
  ASSUME NEW n \in Nat
  PROVE  /\ CeilDiv8(n) \in Nat
         /\ n <= 8 * CeilDiv8(n) /\ 8 * CeilDiv8(n) < n + 8
         /\ \A i \in 1..n : /\ (i - 1) \div 8 + 1 \in 1..CeilDiv8(n)
                            /\ ((i - 1) % 8) + 1 \in 1..8
                            /\ 8 * (((i - 1) \div 8 + 1) - 1) + (((i - 1) % 8) + 1) = i
<1>1. PICK c \in Int : c = CeilDiv8(n)
  BY DEF CeilDiv8
<1>2. c >= 0 /\ n <= 8 * c /\ 8 * c < n + 8
  BY <1>1 DEF CeilDiv8
<1>3. ASSUME NEW i \in 1..n
      PROVE  /\ (i - 1) \div 8 + 1 \in 1..c
             /\ ((i - 1) % 8) + 1 \in 1..8
             /\ 8 * (((i - 1) \div 8 + 1) - 1) + (((i - 1) % 8) + 1) = i
  <2>1. PICK q \in Int, r \in 0..7 : q = (i - 1) \div 8 /\ r = (i - 1) % 8 /\ i - 1 = 8 * q + r
    OBVIOUS
  <2> QED
    BY <1>2, <2>1
<1> QED
  BY <1>1, <1>2, <1>3

(* Bits are packed into bytes, and unpacked again.                         *)
LEMMA PackBitsIsBytes ==
  ASSUME NEW bits \in Seq(BOOLEAN)
  PROVE  /\ PackBits(bits) \in Seq(Byte)
         /\ Len(PackBits(bits)) = CeilDiv8(Len(bits))
         /\ \A k \in 1..CeilDiv8(Len(bits)) :
              PackBits(bits)[k] = ByteOf([j \in 1..8 |-> BitAt(bits, 8 * (k - 1) + j)])
<1>1. Len(bits) \in Nat
  BY LenProperties
<1>2. CeilDiv8(Len(bits)) \in Nat
  BY <1>1, PlaceOfBit
<1>3. ASSUME NEW k \in 1..CeilDiv8(Len(bits))
      PROVE  ByteOf([j \in 1..8 |-> BitAt(bits, 8 * (k - 1) + j)]) \in Byte
  <2>1. ASSUME NEW j \in 1..8 PROVE BitAt(bits, 8 * (k - 1) + j) \in BOOLEAN
    BY DEF BitAt
  <2>2. [j \in 1..8 |-> BitAt(bits, 8 * (k - 1) + j)] \in [1..8 -> BOOLEAN]
    BY <2>1
  <2> QED
    BY <2>2, BitsOfByteOf
<1>4. PackBits(bits) \in [1..CeilDiv8(Len(bits)) -> Byte]
  BY <1>3 DEF PackBits
<1> QED
  BY <1>2, <1>4, FunctionIsSeq DEF PackBits

LEMMA UnpackBitsOfPackBits ==
  ASSUME NEW bits \in Seq(BOOLEAN)
  PROVE  UnpackBits(PackBits(bits), Len(bits)) = bits
<1>1. PICK n \in Nat : n = Len(bits)
  BY LenProperties
<1>2. ASSUME NEW i \in 1..n
      PROVE  BitOf(PackBits(bits)[(i - 1) \div 8 + 1], ((i - 1) % 8) + 1) = bits[i]
  <2>1. PICK k, j : k = (i - 1) \div 8 + 1 /\ j = ((i - 1) % 8) + 1
    OBVIOUS
  <2>2. k \in 1..CeilDiv8(n) /\ j \in 1..8 /\ 8 * (k - 1) + j = i
    BY <2>1, PlaceOfBit
  <2> DEFINE bit == [l \in 1..8 |-> BitAt(bits, 8 * (k - 1) + l)]
  <2>3. PackBits(bits)[k] = ByteOf(bit)
    BY <1>1, <2>2, PackBitsIsBytes
  <2>4. bit \in [1..8 -> BOOLEAN]
    BY DEF BitAt
  <2>5. bit[j] = BitAt(bits, i)
    BY <2>2
  <2>6. BitAt(bits, i) = bits[i]
    <3>1. bits[i] \in BOOLEAN /\ i <= Len(bits)
      BY <1>1, ElementOfSeq
    <3> QED
      BY <3>1 DEF BitAt
  <2>7. BitOf(ByteOf(bit), j) <=> bit[j]
    <3> HIDE DEF bit
    <3> QED
      BY <2>2, <2>4, BitsOfByteOf
  <2>8. BitOf(ByteOf(bit), j) \in BOOLEAN /\ bit[j] \in BOOLEAN
    BY <2>2, <2>4 DEF BitOf
  <2> HIDE DEF bit
  <2> QED
    BY <2>1, <2>3, <2>5, <2>6, <2>7, <2>8
<1>3. UnpackBits(PackBits(bits), n) = [i \in 1..n |-> bits[i]]
  BY <1>2 DEF UnpackBits
<1>4. bits = [i \in 1..n |-> bits[i]]
  BY <1>1, LenProperties
<1> QED
  BY <1>1, <1>3, <1>4

(* Bytes are unpacked into bits, and packed again: all but the last byte,  *)
(* which may have unused bits.                                             *)
LEMMA PackBitsOfUnpackBits ==
  ASSUME NEW count \in Nat, NEW data \in Seq(Byte), Len(data) = CeilDiv8(count)
  PROVE  /\ UnpackBits(data, count) \in Seq(BOOLEAN)
         /\ Len(UnpackBits(data, count)) = count
         /\ \A k \in 1..Len(data) : k < Len(data) =>
              PackBits(UnpackBits(data, count))[k] = data[k]
<1>1. PICK bits : bits = UnpackBits(data, count)
  OBVIOUS
<1>2. bits \in Seq(BOOLEAN) /\ Len(bits) = count
  <2>1. bits \in [1..count -> BOOLEAN]
    BY <1>1 DEF UnpackBits, BitOf
  <2> QED
    BY <2>1, FunctionIsSeq
<1>3. ASSUME NEW k \in 1..Len(data), k < Len(data) PROVE PackBits(bits)[k] = data[k]
  <2>1. /\ k \in Int /\ 1 <= k /\ 8 * k < count
        /\ k \in 1..CeilDiv8(Len(bits))
    BY SMTT(30), <1>2, <1>3, PlaceOfBit
  <2>2. ASSUME NEW j \in 1..8
        PROVE  BitAt(bits, 8 * (k - 1) + j) = BitOf(data[k], j)
    <3>1. PICK i \in 1..count : i = 8 * (k - 1) + j
      BY <2>1
    <3>2. (i - 1) \div 8 + 1 = k /\ ((i - 1) % 8) + 1 = j
      BY <2>1, <3>1
    <3>3. bits[i] = BitOf(data[k], j)
      BY <1>1, <3>2 DEF UnpackBits
    <3>4. i <= Len(bits) /\ BitOf(data[k], j) \in BOOLEAN
      BY <1>2 DEF BitOf
    <3> QED
      BY <3>1, <3>3, <3>4 DEF BitAt
  <2>3. [j \in 1..8 |-> BitAt(bits, 8 * (k - 1) + j)] = [j \in 1..8 |-> BitOf(data[k], j)]
    BY <2>2
  <2>4. data[k] \in Byte
    BY ElementOfSeq
  <2> QED
    BY <1>2, <2>1, <2>3, <2>4, PackBitsIsBytes, ByteOfBitsOf
<1> QED
  BY <1>1, <1>2, <1>3

(* Registers are packed into two bytes each, and unpacked again.           *)
LEMMA PackRegistersIsBytes ==
  ASSUME NEW v \in Seq(Word)
  PROVE  /\ PackRegisters(v) \in Seq(Byte)
         /\ Len(PackRegisters(v)) = 2 * Len(v)
         /\ \A i \in 1..Len(v) : /\ PackRegisters(v)[2 * i - 1] = v[i] \div 256
                                 /\ PackRegisters(v)[2 * i] = v[i] % 256
<1>1. PICK n \in Nat : n = Len(v)
  BY LenProperties
<1>2. ASSUME NEW i \in 1..2 * n
      PROVE  PackWord(v[(i + 1) \div 2])[IF i % 2 = 1 THEN 1 ELSE 2] \in Byte
  <2>1. (i + 1) \div 2 \in 1..n
    OBVIOUS
  <2>2. v[(i + 1) \div 2] \in Word
    BY <1>1, <2>1, ElementOfSeq
  <2> QED
    BY <2>2, PackWordIsBytes, WordIsTwoBytes
<1>3. PackRegisters(v) \in [1..2 * n -> Byte]
  BY <1>1, <1>2 DEF PackRegisters
<1>4. PackRegisters(v) \in Seq(Byte) /\ Len(PackRegisters(v)) = 2 * n
  BY <1>1, <1>3, FunctionIsSeq
<1>5. ASSUME NEW i \in 1..n
      PROVE  /\ PackRegisters(v)[2 * i - 1] = v[i] \div 256
             /\ PackRegisters(v)[2 * i] = v[i] % 256
  <2>1. /\ 2 * i - 1 \in 1..2 * n /\ ((2 * i - 1) + 1) \div 2 = i /\ (2 * i - 1) % 2 = 1
        /\ 2 * i \in 1..2 * n /\ (2 * i + 1) \div 2 = i /\ (2 * i) % 2 = 0
    OBVIOUS
  <2>2. /\ PackRegisters(v)[2 * i - 1] = PackWord(v[i])[1]
        /\ PackRegisters(v)[2 * i] = PackWord(v[i])[2]
    BY <1>1, <2>1 DEF PackRegisters
  <2>3. v[i] \in Word
    BY <1>1, ElementOfSeq
  <2> QED
    BY <2>2, <2>3, PackWordIsBytes
<1> QED
  BY <1>1, <1>4, <1>5

LEMMA UnpackRegistersOfPackRegisters ==
  ASSUME NEW v \in Seq(Word)
  PROVE  UnpackRegisters(PackRegisters(v)) = v
<1>1. PICK n \in Nat : n = Len(v)
  BY LenProperties
<1>2. Len(PackRegisters(v)) \div 2 = n
  BY <1>1, PackRegistersIsBytes
<1>3. ASSUME NEW i \in 1..n
      PROVE  UnpackWord(PackRegisters(v)[2 * i - 1], PackRegisters(v)[2 * i]) = v[i]
  <2>1. v[i] \in Word
    BY <1>1, ElementOfSeq
  <2> QED
    BY SMTT(30), <1>1, <2>1, PackRegistersIsBytes, WordIsTwoBytes
<1>4. UnpackRegisters(PackRegisters(v)) = [i \in 1..n |-> v[i]]
  BY <1>2, <1>3 DEF UnpackRegisters
<1>5. v = [i \in 1..n |-> v[i]]
  BY <1>1, LenProperties
<1> QED
  BY <1>4, <1>5

LEMMA PackRegistersOfUnpackRegisters ==
  ASSUME NEW n \in Nat, NEW data \in Seq(Byte), Len(data) = 2 * n
  PROVE  /\ UnpackRegisters(data) \in Seq(Word)
         /\ Len(UnpackRegisters(data)) = n
         /\ PackRegisters(UnpackRegisters(data)) = data
<1>1. PICK v : v = UnpackRegisters(data)
  OBVIOUS
<1>2. Len(data) \div 2 = n
  OBVIOUS
<1>3. ASSUME NEW i \in 1..n
      PROVE  data[2 * i - 1] \in Byte /\ data[2 * i] \in Byte
  <2>1. 2 * i - 1 \in 1..Len(data) /\ 2 * i \in 1..Len(data)
    OBVIOUS
  <2> QED
    BY <2>1, ElementOfSeq
<1>4. v \in [1..n -> Word] /\ \A i \in 1..n : v[i] = UnpackWord(data[2 * i - 1], data[2 * i])
  BY <1>1, <1>2, <1>3, TwoBytesAreWord DEF UnpackRegisters
<1>5. v \in Seq(Word) /\ Len(v) = n
  BY <1>4, FunctionIsSeq
<1>6. ASSUME NEW k \in 1..2 * n PROVE PackRegisters(v)[k] = data[k]
  <2>1. PICK i \in 1..n : k = 2 * i - 1 \/ k = 2 * i
    <3>1. (k + 1) \div 2 \in 1..n /\ (k = 2 * ((k + 1) \div 2) - 1 \/ k = 2 * ((k + 1) \div 2))
      OBVIOUS
    <3> QED
      BY <3>1
  <2>2. /\ PackRegisters(v)[2 * i - 1] = v[i] \div 256
        /\ PackRegisters(v)[2 * i] = v[i] % 256
    BY ZenonT(40), <1>5, PackRegistersIsBytes
  <2>3. v[i] \div 256 = data[2 * i - 1] /\ v[i] % 256 = data[2 * i]
    BY <1>3, <1>4, TwoBytesAreWord
  <2> QED
    BY <2>1, <2>2, <2>3
<1>7. PackRegisters(v) = data
  BY <1>5, <1>6, PackRegistersIsBytes, SeqEqual
<1> QED
  BY <1>1, <1>5, <1>7

-----------------------------------------------------------------------------
(* Parts of byte strings.                                                  *)

(* What comes behind the first part.                                       *)
LEMMA RestOfConcat ==
  ASSUME NEW S, NEW s \in Seq(S), NEW t \in Seq(S)
  PROVE  /\ Rest(s \o t, Len(s) + 1) = t
         /\ SubSeq(s \o t, Len(s) + 1, Len(s) + Len(t)) = t
<1>0. PICK c : c = s \o t
  OBVIOUS
<1>1. PICK m \in Int, n \in Int : m = Len(s) + 1 /\ n = Len(s) + Len(t)
  BY LenProperties
<1>2. /\ Len(s) \in Nat /\ Len(t) \in Nat
      /\ c \in Seq(S) /\ Len(c) = n
      /\ \A i \in 1..Len(t) : c[Len(s) + i] = t[i]
  BY <1>0, <1>1, LenProperties, ConcatProperties
<1>3. \A i \in m..n : c[i] \in S
  BY <1>1, <1>2, ElementOfSeq
<1>4. PICK d : d = SubSeq(c, m, n)
  OBVIOUS
<1>5. /\ d \in Seq(S)
      /\ Len(d) = IF m <= n THEN n - m + 1 ELSE 0
      /\ \A i \in 1..n - m + 1 : d[i] = c[m + i - 1]
  BY <1>3, <1>4, SubSeqProperties
<1>6. d = t
  <2>1. Len(d) = Len(t) /\ n - m + 1 = Len(t)
    BY <1>1, <1>2, <1>5
  <2>2. ASSUME NEW i \in 1..Len(t) PROVE d[i] = t[i]
    <3>1. i \in 1..n - m + 1 /\ m + i - 1 = Len(s) + i
      BY <1>1, <1>2, <2>1
    <3> QED
      BY <1>2, <1>5, <3>1
  <2> QED
    BY <1>5, <2>1, <2>2, SeqEqual
<1> QED
  BY <1>0, <1>1, <1>2, <1>4, <1>6 DEF Rest

(* A string of known length, and what is at each place of two joined.      *)
Strings(S, n) == {s \in Seq(S) : Len(s) = n}
IsJoin(c, p, m, q, n) == \A i \in 1..m + n : c[i] = IF i <= m THEN p[i] ELSE q[i - m]
HasTail(c, m, q, n)   == Rest(c, m + 1) = q /\ SubSeq(c, m + 1, m + n) = q

LEMMA Join ==
  ASSUME NEW S, NEW m \in Nat, NEW n \in Nat, NEW p \in Strings(S, m), NEW q \in Strings(S, n)
  PROVE  /\ p \o q \in Strings(S, m + n)
         /\ IsJoin(p \o q, p, m, q, n) /\ HasTail(p \o q, m, q, n)
<1>1. p \in Seq(S) /\ Len(p) = m /\ q \in Seq(S) /\ Len(q) = n
  BY DEF Strings
<1>2. p \o q \in Seq(S) /\ Len(p \o q) = Len(p) + Len(q)
  BY <1>1, ConcatProperties
<1>3. \A i \in 1..Len(p) + Len(q) : (p \o q)[i] = IF i <= Len(p) THEN p[i] ELSE q[i - Len(p)]
  BY <1>1, ConcatProperties
<1>4. IsJoin(p \o q, p, m, q, n)
  BY <1>1, <1>3 DEF IsJoin
<1>5. /\ Rest(p \o q, Len(p) + 1) = q
      /\ SubSeq(p \o q, Len(p) + 1, Len(p) + Len(q)) = q
  BY <1>1, RestOfConcat
<1>6. p \o q \in Strings(S, m + n)
  BY <1>1, <1>2 DEF Strings
<1>7. HasTail(p \o q, m, q, n)
  BY <1>1, <1>5 DEF HasTail
<1> QED
  BY <1>4, <1>6, <1>7

LEMMA Lengths ==
  /\ 1 \in Nat /\ 2 \in Nat /\ 3 \in Nat /\ 4 \in Nat /\ 5 \in Nat /\ 6 \in Nat /\ 7 \in Nat
  /\ 1 + 2 = 3 /\ 2 + 1 = 3 /\ 2 + 2 = 4 /\ 3 + 2 = 5 /\ 4 + 1 = 5 /\ 4 + 2 = 6
  /\ 5 + 1 = 6 /\ 6 + 1 = 7 /\ 7 + 1 = 8
OBVIOUS

LEMMA StringOfOne ==
  ASSUME NEW S, NEW u \in S
  PROVE  <<u>> \in Strings(S, 1) /\ <<u>>[1] = u
BY DEF Strings

LEMMA StringOfWord ==
  ASSUME NEW n \in Word
  PROVE  /\ PackWord(n) \in Strings(Byte, 2)
         /\ PackWord(n)[1] = n \div 256 /\ PackWord(n)[2] = n % 256
BY PackWordIsBytes DEF Strings

(* The header that build_adu puts in front of a PDU.                       *)
IsHeader(h, t, z, l, u) ==
  /\ h \in Strings(Byte, 7)
  /\ h[1] = t \div 256 /\ h[2] = t % 256 /\ h[3] = z \div 256 /\ h[4] = z % 256
  /\ h[5] = l \div 256 /\ h[6] = l % 256 /\ h[7] = u

LEMMA HeaderIsFields ==
  ASSUME NEW t \in Word, NEW z \in Word, NEW l \in Word, NEW u \in Byte
  PROVE  IsHeader(PackWord(t) \o PackWord(z) \o PackWord(l) \o <<u>>, t, z, l, u)
<1>1. PICK p, q, r, v : p = PackWord(t) /\ q = PackWord(z) /\ r = PackWord(l) /\ v = <<u>>
  OBVIOUS
<1>2. /\ p \in Strings(Byte, 2) /\ q \in Strings(Byte, 2) /\ r \in Strings(Byte, 2)
      /\ v \in Strings(Byte, 1)
  BY <1>1, StringOfWord, StringOfOne
<1>3. PICK a, b, h : a = p \o q /\ b = a \o r /\ h = b \o v
  OBVIOUS
<1>4. a \in Strings(Byte, 2 + 2) /\ IsJoin(a, p, 2, q, 2)
  BY <1>2, <1>3, Join, Lengths, ZenonT(40)
<1>5. b \in Strings(Byte, 4 + 2) /\ IsJoin(b, a, 4, r, 2)
  BY <1>2, <1>3, <1>4, Join, Lengths, ZenonT(40)
<1>6. h \in Strings(Byte, 6 + 1) /\ IsJoin(h, b, 6, v, 1)
  BY <1>2, <1>3, <1>5, Join, Lengths, ZenonT(40)
<1>7. a[1] = p[1] /\ a[2] = p[2] /\ a[3] = q[1] /\ a[4] = q[2]
  BY <1>4 DEF IsJoin
<1>8. /\ b[1] = a[1] /\ b[2] = a[2] /\ b[3] = a[3] /\ b[4] = a[4]
      /\ b[5] = r[1] /\ b[6] = r[2]
  BY <1>5 DEF IsJoin
<1>9. /\ h[1] = b[1] /\ h[2] = b[2] /\ h[3] = b[3] /\ h[4] = b[4]
      /\ h[5] = b[5] /\ h[6] = b[6] /\ h[7] = v[1]
  BY <1>6 DEF IsJoin
<1>10. /\ p[1] = t \div 256 /\ p[2] = t % 256 /\ q[1] = z \div 256 /\ q[2] = z % 256
       /\ r[1] = l \div 256 /\ r[2] = l % 256 /\ v[1] = u
  BY <1>1, StringOfWord, StringOfOne
<1>11. PackWord(t) \o PackWord(z) \o PackWord(l) \o <<u>> = h
  BY <1>1, <1>3
<1>12. h \in Strings(Byte, 7)
  BY <1>6
<1>13. IsHeader(h, t, z, l, u)
  BY <1>7, <1>8, <1>9, <1>10, <1>12, ZenonT(40) DEF IsHeader
<1> QED
  BY <1>11, <1>13, ZenonT(40)

(* That header is the one decode_mbap reads, and what is behind it is the  *)
(* PDU.                                                                    *)
LEMMA AduIsHeaderAndPdu ==
  ASSUME NEW t \in Word, NEW u \in Byte, NEW n \in Nat, NEW pdu \in Strings(Byte, n),
         1 + n \in Word
  PROVE  /\ BuildAdu(t, u, pdu) \in Strings(Byte, 7 + n)
         /\ DecodeMbap(BuildAdu(t, u, pdu)) =
              [transaction_id |-> t, protocol_id |-> 0, length |-> 1 + n, unit_id |-> u]
         /\ Rest(BuildAdu(t, u, pdu), 8) = pdu
         /\ SubSeq(BuildAdu(t, u, pdu), 8, 7 + n) = pdu
<1>1. PICK l \in Word : l = 1 + n
  OBVIOUS
<1>2. PICK z \in Word : z = 0
  BY WordRange
<1>3. PICK h : h = PackWord(t) \o PackWord(z) \o PackWord(l) \o <<u>>
  OBVIOUS
<1>4. /\ h \in Strings(Byte, 7)
      /\ h[1] = t \div 256 /\ h[2] = t % 256 /\ h[3] = z \div 256 /\ h[4] = z % 256
      /\ h[5] = l \div 256 /\ h[6] = l % 256 /\ h[7] = u
  <2>1. IsHeader(h, t, z, l, u)
    BY <1>3, HeaderIsFields, ZenonT(40)
  <2> QED
    BY <2>1, ZenonT(40) DEF IsHeader
<1>5. PICK adu : adu = h \o pdu
  OBVIOUS
<1>6. Len(pdu) = n
  BY DEF Strings
<1>7. BuildAdu(t, u, pdu) = adu
  BY <1>1, <1>2, <1>3, <1>5, <1>6, ZenonT(40) DEF BuildAdu, PROTOCOL_ID
<1>8. /\ adu \in Strings(Byte, 7 + n)
      /\ IsJoin(adu, h, 7, pdu, n) /\ HasTail(adu, 7, pdu, n)
  <2>1. 7 \in Nat /\ h \in Strings(Byte, 7) /\ n \in Nat /\ pdu \in Strings(Byte, n)
    BY <1>4
  <2>2. /\ h \o pdu \in Strings(Byte, 7 + n)
        /\ IsJoin(h \o pdu, h, 7, pdu, n) /\ HasTail(h \o pdu, 7, pdu, n)
    BY ONLY <2>1, Join, ZenonT(40)
  <2> QED
    BY <1>5, <2>2, ZenonT(40)
<1>9. /\ adu[1] = h[1] /\ adu[2] = h[2] /\ adu[3] = h[3] /\ adu[4] = h[4]
      /\ adu[5] = h[5] /\ adu[6] = h[6] /\ adu[7] = h[7]
  BY <1>8 DEF IsJoin
<1>10. /\ UnpackWord(t \div 256, t % 256) = t /\ UnpackWord(z \div 256, z % 256) = z
       /\ UnpackWord(l \div 256, l % 256) = l
  BY WordIsTwoBytes
<1>11. /\ UnpackWord(adu[1], adu[2]) = t /\ UnpackWord(adu[3], adu[4]) = z
       /\ UnpackWord(adu[5], adu[6]) = l /\ adu[7] = u
  BY <1>4, <1>9, <1>10, ZenonT(40)
<1>12. DecodeMbap(adu) =
         [transaction_id |-> t, protocol_id |-> 0, length |-> 1 + n, unit_id |-> u]
  BY <1>1, <1>2, <1>11, ZenonT(40) DEF DecodeMbap
<1> QED
  BY <1>7, <1>8, <1>12, Lengths, ZenonT(40) DEF HasTail

-----------------------------------------------------------------------------
(* The parts of PDUs.                                                      *)

(* fc, address and one word more: a read, a single write, and the response *)
(* to a write.                                                             *)
IsFiveBytes(s, fc, a, w) ==
  /\ s \in Strings(Byte, 5)
  /\ s[1] = fc /\ WordAt(s, 2) = a /\ WordAt(s, 4) = w

LEMMA FiveBytes ==
  ASSUME NEW fc \in Byte, NEW a \in Word, NEW w \in Word
  PROVE  IsFiveBytes(<<fc>> \o PackWord(a) \o PackWord(w), fc, a, w)
<1>1. PICK p, q, r : p = <<fc>> /\ q = PackWord(a) /\ r = PackWord(w)
  OBVIOUS
<1>2. p \in Strings(Byte, 1) /\ q \in Strings(Byte, 2) /\ r \in Strings(Byte, 2)
  BY <1>1, StringOfWord, StringOfOne
<1>3. PICK t, s : t = p \o q /\ s = t \o r
  OBVIOUS
<1>4. t \in Strings(Byte, 1 + 2) /\ IsJoin(t, p, 1, q, 2)
  BY <1>2, <1>3, Join, Lengths, ZenonT(40)
<1>5. s \in Strings(Byte, 3 + 2) /\ IsJoin(s, t, 3, r, 2)
  BY <1>2, <1>3, <1>4, Join, Lengths, ZenonT(40)
<1>6. t[1] = p[1] /\ t[2] = q[1] /\ t[3] = q[2]
  BY ONLY <1>4 DEF IsJoin
<1>7. s[1] = t[1] /\ s[2] = t[2] /\ s[3] = t[3] /\ s[4] = r[1] /\ s[5] = r[2]
  BY ONLY <1>5 DEF IsJoin
<1>8. /\ p[1] = fc /\ q[1] = a \div 256 /\ q[2] = a % 256
      /\ r[1] = w \div 256 /\ r[2] = w % 256
  BY <1>1, StringOfWord, StringOfOne
<1>9. UnpackWord(a \div 256, a % 256) = a /\ UnpackWord(w \div 256, w % 256) = w
  BY WordIsTwoBytes
<1>10. WordAt(s, 2) = a /\ WordAt(s, 4) = w
  BY <1>6, <1>7, <1>8, <1>9, Lengths, ZenonT(40) DEF WordAt
<1>11. IsFiveBytes(s, fc, a, w)
  BY <1>5, <1>6, <1>7, <1>8, <1>10, Lengths, ZenonT(40) DEF IsFiveBytes
<1> QED
  BY <1>1, <1>3, <1>11, ZenonT(40)

(* fc, address, quantity, byte count and payload: a multiple write.        *)
IsMultiWrite(s, fc, a, w, b, body, n) ==
  /\ s \in Strings(Byte, 6 + n)
  /\ s[1] = fc /\ WordAt(s, 2) = a /\ WordAt(s, 4) = w /\ s[6] = b
  /\ Rest(s, 7) = body

LEMMA MultiWriteParts ==
  ASSUME NEW fc \in Byte, NEW a \in Word, NEW w \in Word, NEW b \in Byte,
         NEW n \in Nat, NEW body \in Strings(Byte, n)
  PROVE  IsMultiWrite(<<fc>> \o PackWord(a) \o PackWord(w) \o <<b>> \o body,
                      fc, a, w, b, body, n)
<1>1. PICK f : f = <<fc>> \o PackWord(a) \o PackWord(w)
  OBVIOUS
<1>2. IsFiveBytes(f, fc, a, w)
  BY <1>1, FiveBytes, ZenonT(40)
<1>3. f \in Strings(Byte, 5) /\ f[1] = fc /\ WordAt(f, 2) = a /\ WordAt(f, 4) = w
  BY <1>2, ZenonT(40) DEF IsFiveBytes
<1>4. PICK g : g = f \o <<b>>
  OBVIOUS
<1>5. g \in Strings(Byte, 5 + 1) /\ IsJoin(g, f, 5, <<b>>, 1)
  <2>1. 5 \in Nat /\ 1 \in Nat /\ <<b>> \in Strings(Byte, 1)
    BY Lengths, StringOfOne, ZenonT(40)
  <2>2. f \o <<b>> \in Strings(Byte, 5 + 1) /\ IsJoin(f \o <<b>>, f, 5, <<b>>, 1)
    BY ONLY <1>3, <2>1, Join, ZenonT(40)
  <2> QED
    BY <1>4, <2>2, ZenonT(40)
<1>6. PICK s : s = g \o body
  OBVIOUS
<1>7. s \in Strings(Byte, 6 + n) /\ IsJoin(s, g, 6, body, n) /\ HasTail(s, 6, body, n)
  <2>1. 6 \in Nat /\ n \in Nat /\ g \in Strings(Byte, 6) /\ body \in Strings(Byte, n)
    BY <1>5, Lengths, ZenonT(40)
  <2>2. /\ g \o body \in Strings(Byte, 6 + n)
        /\ IsJoin(g \o body, g, 6, body, n) /\ HasTail(g \o body, 6, body, n)
    BY ONLY <2>1, Join, ZenonT(40)
  <2> QED
    BY <1>6, <2>2, ZenonT(40)
<1>8. /\ g[1] = f[1] /\ g[2] = f[2] /\ g[3] = f[3] /\ g[4] = f[4] /\ g[5] = f[5]
      /\ g[6] = b
  <2>1. PICK u : u = <<b>> /\ u[1] = b
    BY StringOfOne, ZenonT(40)
  <2>2. IsJoin(g, f, 5, u, 1)
    BY <1>5, <2>1, ZenonT(40)
  <2>3. /\ g[1] = f[1] /\ g[2] = f[2] /\ g[3] = f[3] /\ g[4] = f[4] /\ g[5] = f[5]
        /\ g[6] = u[1]
    BY ONLY <2>2 DEF IsJoin
  <2> QED
    BY <2>1, <2>3, ZenonT(40)
<1>9. /\ s[1] = g[1] /\ s[2] = g[2] /\ s[3] = g[3] /\ s[4] = g[4] /\ s[5] = g[5]
      /\ s[6] = g[6]
  <2>1. IsJoin(s, g, 6, body, n) /\ n \in Nat
    BY <1>7
  <2> QED
    BY ONLY <2>1 DEF IsJoin
<1>10. WordAt(s, 2) = a /\ WordAt(s, 4) = w
  BY <1>3, <1>8, <1>9, Lengths, ZenonT(40) DEF WordAt
<1>11. IsMultiWrite(s, fc, a, w, b, body, n)
  BY <1>3, <1>7, <1>8, <1>9, <1>10, Lengths, ZenonT(40) DEF IsMultiWrite, HasTail
<1> QED
  BY <1>1, <1>4, <1>6, <1>11, ZenonT(40)

(* fc, byte count and payload: the response to a read.                     *)
IsReadReply(s, fc, b, body, n) ==
  /\ s \in Strings(Byte, 2 + n)
  /\ s[1] = fc /\ s[2] = b
  /\ Rest(s, 3) = body

LEMMA ReadReplyParts ==
  ASSUME NEW fc \in Byte, NEW b \in Byte, NEW n \in Nat, NEW body \in Strings(Byte, n)
  PROVE  IsReadReply(<<fc, b>> \o body, fc, b, body, n)
<1>1. PICK f : f = <<fc, b>>
  OBVIOUS
<1>2. f \in Strings(Byte, 2) /\ f[1] = fc /\ f[2] = b
  BY <1>1 DEF Strings
<1>3. PICK s : s = f \o body
  OBVIOUS
<1>4. s \in Strings(Byte, 2 + n) /\ IsJoin(s, f, 2, body, n) /\ HasTail(s, 2, body, n)
  <2>1. 2 \in Nat /\ n \in Nat /\ f \in Strings(Byte, 2) /\ body \in Strings(Byte, n)
    BY <1>2, Lengths, ZenonT(40)
  <2>2. /\ f \o body \in Strings(Byte, 2 + n)
        /\ IsJoin(f \o body, f, 2, body, n) /\ HasTail(f \o body, 2, body, n)
    BY ONLY <2>1, Join, ZenonT(40)
  <2> QED
    BY <1>3, <2>2, ZenonT(40)
<1>5. s[1] = f[1] /\ s[2] = f[2]
  <2>1. IsJoin(s, f, 2, body, n) /\ n \in Nat
    BY <1>4
  <2> QED
    BY ONLY <2>1 DEF IsJoin
<1>6. IsReadReply(s, fc, b, body, n)
  BY <1>2, <1>4, <1>5, Lengths, ZenonT(40) DEF IsReadReply, HasTail
<1> QED
  BY <1>1, <1>3, <1>6, ZenonT(40)

-----------------------------------------------------------------------------
(* The requests that a request PDU can carry, one alternative per codec.   *)
IsRead(r) == r.fc \in READ_CODES /\ r.count \in Word /\ r.values = <<>>
IsWriteCoil(r) ==
  r.fc = WRITE_SINGLE_COIL /\ r.count = 0 /\ \E b \in BOOLEAN : r.values = <<b>>
IsWriteRegister(r) ==
  r.fc = WRITE_SINGLE_REGISTER /\ r.count = 0 /\ \E w \in Word : r.values = <<w>>
IsWriteCoils(r) ==
  /\ r.fc = WRITE_MULTIPLE_COILS /\ r.count = 0
  /\ r.values \in Seq(BOOLEAN) /\ Len(r.values) \in Word /\ CeilDiv8(Len(r.values)) \in Byte
IsWriteRegisters(r) ==
  /\ r.fc = WRITE_MULTIPLE_REGISTERS /\ r.count = 0
  /\ r.values \in Seq(Word) /\ Len(r.values) \in Word /\ 2 * Len(r.values) \in Byte

Sendable(r) ==
  /\ r = Request(r.fc, r.address, r.count, r.values)
  /\ r.address \in Word
  /\ IsRead(r) \/ IsWriteCoil(r) \/ IsWriteRegister(r) \/ IsWriteCoils(r) \/ IsWriteRegisters(r)

(* What the wire does to a request: nothing. *)
SurvivesWire(r) ==
  LET pdu == EncodeRequest(r)
  IN  /\ pdu \in Strings(Byte, IF r.fc \in FiveByteCodes THEN 5
                               ELSE 6 + Len(Payload(r.fc, r.values)))
      /\ pdu[1] = r.fc
      /\ DecodeRequest(pdu) = r

LEMMA CodesAreBytes ==
  \A fc \in SUPPORTED_FUNCTION_CODES : fc \in Byte /\ fc < EXCEPTION_MASK
BY DEF SUPPORTED_FUNCTION_CODES, READ_CODES, MULTI_WRITE_CODES, READ_COILS,
       READ_DISCRETE_INPUTS, READ_HOLDING_REGISTERS, READ_INPUT_REGISTERS,
       WRITE_SINGLE_COIL, WRITE_SINGLE_REGISTER, WRITE_MULTIPLE_COILS,
       WRITE_MULTIPLE_REGISTERS, Byte, EXCEPTION_MASK

LEMMA CodesDiffer ==
  /\ \A fc \in READ_CODES : /\ fc \in SUPPORTED_FUNCTION_CODES /\ fc \in FiveByteCodes
                            /\ fc \notin MULTI_WRITE_CODES
                            /\ fc # WRITE_SINGLE_COIL /\ fc # WRITE_SINGLE_REGISTER
                            /\ fc # WRITE_MULTIPLE_COILS /\ fc # WRITE_MULTIPLE_REGISTERS
  /\ WRITE_SINGLE_COIL \in SUPPORTED_FUNCTION_CODES /\ WRITE_SINGLE_COIL \in FiveByteCodes
  /\ WRITE_SINGLE_COIL \notin READ_CODES /\ WRITE_SINGLE_COIL \notin MULTI_WRITE_CODES
  /\ WRITE_SINGLE_REGISTER \in SUPPORTED_FUNCTION_CODES
  /\ WRITE_SINGLE_REGISTER \in FiveByteCodes
  /\ WRITE_SINGLE_REGISTER \notin READ_CODES /\ WRITE_SINGLE_REGISTER \notin MULTI_WRITE_CODES
  /\ WRITE_SINGLE_COIL # WRITE_SINGLE_REGISTER
  /\ WRITE_MULTIPLE_COILS \in SUPPORTED_FUNCTION_CODES
  /\ WRITE_MULTIPLE_COILS \notin FiveByteCodes
  /\ WRITE_MULTIPLE_COILS \notin READ_CODES /\ WRITE_MULTIPLE_COILS \in MULTI_WRITE_CODES
  /\ WRITE_MULTIPLE_COILS # WRITE_SINGLE_COIL /\ WRITE_MULTIPLE_COILS # WRITE_SINGLE_REGISTER
  /\ WRITE_MULTIPLE_REGISTERS \in SUPPORTED_FUNCTION_CODES
  /\ WRITE_MULTIPLE_REGISTERS \notin FiveByteCodes
  /\ WRITE_MULTIPLE_REGISTERS \notin READ_CODES
  /\ WRITE_MULTIPLE_REGISTERS \in MULTI_WRITE_CODES
  /\ WRITE_MULTIPLE_REGISTERS # WRITE_SINGLE_COIL
  /\ WRITE_MULTIPLE_REGISTERS # WRITE_SINGLE_REGISTER
  /\ WRITE_MULTIPLE_REGISTERS # WRITE_MULTIPLE_COILS
BY DEF SUPPORTED_FUNCTION_CODES, READ_CODES, MULTI_WRITE_CODES, FiveByteCodes, READ_COILS,
       READ_DISCRETE_INPUTS, READ_HOLDING_REGISTERS, READ_INPUT_REGISTERS,
       WRITE_SINGLE_COIL, WRITE_SINGLE_REGISTER, WRITE_MULTIPLE_COILS,
       WRITE_MULTIPLE_REGISTERS

LEMMA FieldsAreNumbers == (\A k \in Byte : k \in Nat) /\ (\A n \in Word : n \in Nat)
BY DEF Byte, Word

LEMMA NotEmpty ==
  ASSUME NEW n \in Nat, n # 0, NEW s \in Strings(Byte, n)
  PROVE  s # <<>> /\ Len(s) = n /\ s \in Seq(Byte)
<1>1. s \in Seq(Byte) /\ Len(s) = n
  BY DEF Strings
<1> QED
  BY <1>1, EmptySeq

LEMMA ReadSurvives ==
  ASSUME NEW fc \in READ_CODES, NEW a \in Word, NEW n \in Word
  PROVE  SurvivesWire(Request(fc, a, n, <<>>))
<1>1. PICK pdu : pdu = <<fc>> \o PackWord(a) \o PackWord(n)
  OBVIOUS
<1>2. IsFiveBytes(pdu, fc, a, n)
  BY <1>1, CodesAreBytes, CodesDiffer, FiveBytes, Zenon
<1>3. pdu \in Strings(Byte, 5) /\ pdu[1] = fc /\ WordAt(pdu, 2) = a /\ WordAt(pdu, 4) = n
  BY <1>2, Zenon DEF IsFiveBytes
<1>4. pdu # <<>> /\ Len(pdu) = 5
  <2>1. 5 \in Nat /\ 5 # 0
    OBVIOUS
  <2> QED
    BY ONLY <1>3, <2>1, NotEmpty, Zenon
<1>5. PICK r : r = Request(fc, a, n, <<>>)
  OBVIOUS
<1>6. r.fc = fc /\ r.address = a /\ r.count = n
  BY <1>5 DEF Request
<1>7. EncodeRequest(r) = pdu
  BY <1>1, <1>6, CodesDiffer DEF EncodeRequest
<1>8. ~Malformed(pdu)
  BY <1>3, <1>4, CodesDiffer, Zenon DEF Malformed
<1>9. DecodeRequest(pdu) = r
  BY <1>3, <1>4, <1>5, <1>8, CodesDiffer DEF DecodeRequest
<1> QED
  BY <1>3, <1>5, <1>6, <1>7, <1>9, CodesDiffer, Zenon DEF SurvivesWire

(* A single write carries one word, from which its value is read back.     *)
LEMMA SingleSurvives ==
  ASSUME NEW fc \in SINGLE_WRITE_CODES, NEW a \in Word, NEW v,
         IF fc = WRITE_SINGLE_COIL THEN v \in BOOLEAN ELSE v \in Word
  PROVE  SurvivesWire(Request(fc, a, 0, <<v>>))
<1>1. PICK w : w = SingleWord(fc, <<v>>)
  OBVIOUS
<1>2. /\ w \in Word
      /\ fc = WRITE_SINGLE_COIL => w \in {COIL_ON, COIL_OFF} /\ ((w = COIL_ON) <=> v)
      /\ fc # WRITE_SINGLE_COIL => w = v
  <2>1. CASE fc = WRITE_SINGLE_COIL
    <3>0. <<v>>[1] = v
      OBVIOUS
    <3>1. w = IF v THEN COIL_ON ELSE COIL_OFF
      BY ZenonT(40), <1>1, <2>1, <3>0 DEF SingleWord
    <3>2. v \in BOOLEAN /\ COIL_ON \in Word /\ COIL_OFF \in Word /\ COIL_ON # COIL_OFF
      <4>1. COIL_ON \in Word /\ COIL_OFF \in Word /\ COIL_ON # COIL_OFF
        BY ONLY SMTT(30) DEF COIL_ON, COIL_OFF, Word
      <4> QED
        BY Zenon, <2>1, <4>1
    <3> QED
      BY ONLY <2>1, <3>1, <3>2, Zenon
  <2>2. CASE fc # WRITE_SINGLE_COIL
    BY <1>1, <2>2 DEF SingleWord
  <2> QED
    BY <2>1, <2>2
<1>3. PICK pdu : pdu = <<fc>> \o PackWord(a) \o PackWord(w)
  OBVIOUS
<1>4. fc = WRITE_SINGLE_COIL \/ fc = WRITE_SINGLE_REGISTER
  BY DEF SINGLE_WRITE_CODES
<1>5. fc \in SUPPORTED_FUNCTION_CODES /\ fc \in FiveByteCodes
      /\ fc \notin READ_CODES /\ fc \notin MULTI_WRITE_CODES
  BY <1>4, CodesDiffer, Zenon
<1>6. IsFiveBytes(pdu, fc, a, w)
  BY <1>2, <1>3, <1>5, CodesAreBytes, FiveBytes, Zenon
<1>7. pdu \in Strings(Byte, 5) /\ pdu[1] = fc /\ WordAt(pdu, 2) = a /\ WordAt(pdu, 4) = w
  BY <1>6, Zenon DEF IsFiveBytes
<1>8. pdu # <<>> /\ Len(pdu) = 5
  <2>1. 5 \in Nat /\ 5 # 0
    OBVIOUS
  <2> QED
    BY ONLY <1>7, <2>1, NotEmpty, Zenon
<1>9. PICK r : r = Request(fc, a, 0, <<v>>)
  OBVIOUS
<1>10. r.fc = fc /\ r.address = a /\ r.values = <<v>>
  BY <1>9 DEF Request
<1>11. EncodeRequest(r) = pdu
  BY <1>1, <1>3, <1>4, <1>5, <1>10, CodesDiffer DEF EncodeRequest
<1>12. ~Malformed(pdu)
  BY <1>2, <1>5, <1>7, <1>8, Zenon DEF Malformed
<1>13. DecodeRequest(pdu) = r
  <2>1. CASE fc = WRITE_SINGLE_COIL
    <3>1. <<w = COIL_ON>> = <<v>>
      BY <1>2, <2>1
    <3>2. DecodeRequest(pdu) = Request(fc, a, 0, <<w = COIL_ON>>)
      BY <1>5, <1>7, <1>8, <1>12, <2>1, CodesDiffer DEF DecodeRequest
    <3> QED
      BY <1>9, <3>1, <3>2
  <2>2. CASE fc = WRITE_SINGLE_REGISTER
    BY <1>2, <1>5, <1>7, <1>8, <1>9, <1>12, <2>2, CodesDiffer DEF DecodeRequest
  <2> QED
    BY <1>4, <2>1, <2>2
<1> QED
  BY <1>5, <1>7, <1>9, <1>10, <1>11, <1>13, Zenon DEF SurvivesWire

(* A multiple write carries its payload behind the two counts.             *)
LEMMA MultiSurvives ==
  ASSUME NEW fc \in MULTI_WRITE_CODES, NEW a \in Word, NEW values, NEW n \in Word,
         NEW k \in Byte, NEW body \in Strings(Byte, k),
         Len(values) = n, Payload(fc, values) = body,
         k = IF fc = WRITE_MULTIPLE_REGISTERS THEN 2 * n ELSE CeilDiv8(n),
         values = IF fc = WRITE_MULTIPLE_REGISTERS THEN UnpackRegisters(body)
                                                   ELSE UnpackBits(body, n)
  PROVE  SurvivesWire(Request(fc, a, 0, values))
<1>1. k \in Nat
  BY FieldsAreNumbers, Zenon
<1>2. fc = WRITE_MULTIPLE_COILS \/ fc = WRITE_MULTIPLE_REGISTERS
  BY DEF MULTI_WRITE_CODES
<1>3. /\ fc \in SUPPORTED_FUNCTION_CODES /\ fc \notin FiveByteCodes /\ fc \notin READ_CODES
      /\ fc # WRITE_SINGLE_COIL /\ fc # WRITE_SINGLE_REGISTER
  BY <1>2, CodesDiffer, Zenon
<1>4. PICK pdu : pdu = <<fc>> \o PackWord(a) \o PackWord(n) \o <<k>> \o body
  OBVIOUS
<1>5. IsMultiWrite(pdu, fc, a, n, k, body, k)
  BY <1>1, <1>3, <1>4, CodesAreBytes, MultiWriteParts, Zenon
<1>6. /\ pdu \in Strings(Byte, 6 + k) /\ pdu[1] = fc
      /\ WordAt(pdu, 2) = a /\ WordAt(pdu, 4) = n /\ pdu[6] = k /\ Rest(pdu, 7) = body
  BY <1>5, Zenon DEF IsMultiWrite
<1>7. pdu # <<>> /\ Len(pdu) = 6 + k
  <2>1. 6 + k \in Nat /\ 6 + k # 0
    BY <1>1
  <2> QED
    BY ONLY <1>6, <2>1, NotEmpty, Zenon
<1>8. PICK r : r = Request(fc, a, 0, values)
  OBVIOUS
<1>9. r.fc = fc /\ r.address = a /\ r.values = values
  BY <1>8 DEF Request
<1>10. Len(body) = k
  BY DEF Strings
<1>11. EncodeRequest(r) = pdu
  BY <1>3, <1>4, <1>9, <1>10, CodesDiffer DEF EncodeRequest
<1>12. ~Malformed(pdu)
  <2>1. Len(pdu) >= 6 /\ Len(pdu) - 6 = pdu[6]
    BY <1>1, <1>6, <1>7
  <2>2. MultiWriteConsistent(pdu)
    BY <1>6, <2>1, Zenon DEF MultiWriteConsistent
  <2> QED
    BY <1>3, <1>6, <2>2, Zenon DEF Malformed
<1>13. DecodeRequest(pdu) = r
  <2>1. CASE fc = WRITE_MULTIPLE_COILS
    BY <1>3, <1>6, <1>7, <1>8, <1>12, <2>1, CodesDiffer DEF DecodeRequest
  <2>2. CASE fc = WRITE_MULTIPLE_REGISTERS
    BY <1>3, <1>6, <1>7, <1>8, <1>12, <2>2, CodesDiffer DEF DecodeRequest
  <2> QED
    BY <1>2, <2>1, <2>2
<1> QED
  BY <1>3, <1>6, <1>8, <1>9, <1>10, <1>11, <1>13, Zenon DEF SurvivesWire

(* Every request that a PDU can carry is decoded as it was meant.          *)
LEMMA SendableSurvives ==
  ASSUME NEW r, Sendable(r)
  PROVE  SurvivesWire(r)
<1>1. r = Request(r.fc, r.address, r.count, r.values) /\ r.address \in Word
  BY DEF Sendable
<1>2. CASE IsRead(r)
  <2>1. r.fc \in READ_CODES /\ r.count \in Word /\ r.values = <<>>
    BY <1>2 DEF IsRead
  <2>2. SurvivesWire(Request(r.fc, r.address, r.count, <<>>))
    BY <1>1, <2>1, ReadSurvives, Zenon
  <2> QED
    BY <1>1, <2>1, <2>2, Zenon
<1>3. CASE IsWriteCoil(r)
  <2>1. PICK b \in BOOLEAN : r.values = <<b>>
    BY <1>3 DEF IsWriteCoil
  <2>2. r.fc = WRITE_SINGLE_COIL /\ r.count = 0 /\ r.fc \in SINGLE_WRITE_CODES
    BY <1>3 DEF IsWriteCoil, SINGLE_WRITE_CODES
  <2>3. SurvivesWire(Request(r.fc, r.address, 0, <<b>>))
    BY <1>1, <2>2, SingleSurvives, Zenon
  <2> QED
    BY <1>1, <2>1, <2>2, <2>3, Zenon
<1>4. CASE IsWriteRegister(r)
  <2>1. PICK w \in Word : r.values = <<w>>
    BY <1>4 DEF IsWriteRegister
  <2>2. /\ r.fc = WRITE_SINGLE_REGISTER /\ r.count = 0 /\ r.fc \in SINGLE_WRITE_CODES
        /\ r.fc # WRITE_SINGLE_COIL
    BY <1>4, CodesDiffer DEF IsWriteRegister, SINGLE_WRITE_CODES
  <2>3. SurvivesWire(Request(r.fc, r.address, 0, <<w>>))
    BY <1>1, <2>2, SingleSurvives, Zenon
  <2> QED
    BY <1>1, <2>1, <2>2, <2>3, Zenon
<1>5. CASE IsWriteCoils(r)
  <2>1. /\ r.fc = WRITE_MULTIPLE_COILS /\ r.count = 0 /\ r.values \in Seq(BOOLEAN)
        /\ Len(r.values) \in Word /\ CeilDiv8(Len(r.values)) \in Byte
    BY <1>5 DEF IsWriteCoils
  <2>2. r.fc \in MULTI_WRITE_CODES /\ r.fc # WRITE_MULTIPLE_REGISTERS
    BY <2>1, CodesDiffer, Zenon
  <2>3. PICK body : body = PackBits(r.values)
    OBVIOUS
  <2>4. /\ body \in Strings(Byte, CeilDiv8(Len(r.values)))
        /\ r.values = UnpackBits(body, Len(r.values))
    BY <2>1, <2>3, PackBitsIsBytes, UnpackBitsOfPackBits DEF Strings
  <2>5. Payload(r.fc, r.values) = body
    BY <2>1, <2>3 DEF Payload
  <2>6. SurvivesWire(Request(r.fc, r.address, 0, r.values))
    BY <1>1, <2>1, <2>2, <2>4, <2>5, MultiSurvives, Zenon
  <2> QED
    BY <1>1, <2>1, <2>6, Zenon
<1>6. CASE IsWriteRegisters(r)
  <2>1. /\ r.fc = WRITE_MULTIPLE_REGISTERS /\ r.count = 0 /\ r.values \in Seq(Word)
        /\ Len(r.values) \in Word /\ 2 * Len(r.values) \in Byte
    BY <1>6 DEF IsWriteRegisters
  <2>2. r.fc \in MULTI_WRITE_CODES
    BY <2>1, CodesDiffer, Zenon
  <2>3. PICK body : body = PackRegisters(r.values)
    OBVIOUS
  <2>4. /\ body \in Strings(Byte, 2 * Len(r.values))
        /\ r.values = UnpackRegisters(body)
    BY <2>1, <2>3, PackRegistersIsBytes, UnpackRegistersOfPackRegisters DEF Strings
  <2>5. Payload(r.fc, r.values) = body
    BY <2>1, <2>3 DEF Payload, READ_COILS, READ_DISCRETE_INPUTS, WRITE_MULTIPLE_COILS,
                      WRITE_MULTIPLE_REGISTERS
  <2>6. SurvivesWire(Request(r.fc, r.address, 0, r.values))
    BY <1>1, <2>1, <2>2, <2>4, <2>5, MultiSurvives, Zenon
  <2> QED
    BY <1>1, <2>1, <2>6, Zenon
<1> QED
  BY <1>2, <1>3, <1>4, <1>5, <1>6, Zenon DEF Sendable

-----------------------------------------------------------------------------
(* What the decoder makes of the bytes that arrive.                        *)

(* The decoder either refuses the PDU, with the function code it found, or *)
(* yields a request that can be sent.                                      *)
LEMMA RestOfString ==
  ASSUME NEW s \in Seq(Byte), NEW m \in Nat, NEW n \in Nat, Len(s) = m + n
  PROVE  /\ Rest(s, m + 1) \in Strings(Byte, n)
         /\ \A i \in 1..n : Rest(s, m + 1)[i] = s[m + i]
<1>1. PICK a \in Int, b \in Int : a = m + 1 /\ b = Len(s)
  OBVIOUS
<1>2. \A i \in a..b : s[i] \in Byte
  BY <1>1, ElementOfSeq
<1>3. PICK d : d = SubSeq(s, a, b)
  OBVIOUS
<1>4. /\ d \in Seq(Byte)
      /\ Len(d) = IF a <= b THEN b - a + 1 ELSE 0
      /\ \A i \in 1..b - a + 1 : d[i] = s[a + i - 1]
  BY <1>2, <1>3, SubSeqProperties
<1>5. b - a + 1 = n /\ (IF a <= b THEN b - a + 1 ELSE 0) = n
  BY <1>1
<1>6. \A i \in 1..n : d[i] = s[m + i]
  <2>1. \A i \in 1..n : a + i - 1 = m + i
    BY <1>1
  <2> QED
    BY <1>4, <1>5, <2>1
<1>7. d \in Strings(Byte, n)
  BY <1>4, <1>5 DEF Strings
<1>8. Rest(s, m + 1) = d
  BY <1>1, <1>3 DEF Rest
<1> QED
  BY <1>6, <1>7, <1>8

LEMMA FieldOfPdu ==
  ASSUME NEW pdu \in Seq(Byte), NEW i \in Nat, i >= 1, i + 1 <= Len(pdu)
  PROVE  pdu[i] \in Byte /\ pdu[i + 1] \in Byte /\ WordAt(pdu, i) \in Word
<1>1. pdu[i] \in Byte /\ pdu[i + 1] \in Byte
  <2>1. i \in 1..Len(pdu) /\ i + 1 \in 1..Len(pdu)
    BY LenProperties
  <2> QED
    BY <2>1, ElementOfSeq
<1> QED
  BY <1>1, TwoBytesAreWord, Zenon DEF WordAt

WellFormed(pdu) == pdu # <<>> /\ pdu[1] \in SUPPORTED_FUNCTION_CODES /\ ~Malformed(pdu)

LEMMA OthersAreRefused ==
  ASSUME NEW pdu, ~WellFormed(pdu)
  PROVE  IF pdu = <<>> THEN DecodeRequest(pdu) = Refuse(0, ILLEGAL_DATA_VALUE)
         ELSE \/ DecodeRequest(pdu) = Refuse(pdu[1], ILLEGAL_FUNCTION)
              \/ DecodeRequest(pdu) = Refuse(pdu[1], ILLEGAL_DATA_VALUE)
<1>1. CASE pdu = <<>>
  <2>1. DecodeRequest(pdu) = Refuse(0, ILLEGAL_DATA_VALUE)
    BY <1>1, Zenon DEF DecodeRequest
  <2> QED
    BY <1>1, <2>1, Zenon
<1>2. CASE pdu # <<>> /\ pdu[1] \notin SUPPORTED_FUNCTION_CODES
  <2>1. DecodeRequest(pdu) = Refuse(pdu[1], ILLEGAL_FUNCTION)
    BY <1>2, Zenon DEF DecodeRequest
  <2> QED
    BY <1>2, <2>1, Zenon
<1>3. CASE pdu # <<>> /\ pdu[1] \in SUPPORTED_FUNCTION_CODES /\ Malformed(pdu)
  <2>1. DecodeRequest(pdu) = Refuse(pdu[1], ILLEGAL_DATA_VALUE)
    BY <1>3, Zenon DEF DecodeRequest
  <2> QED
    BY <1>3, <2>1, Zenon
<1> QED
  BY <1>1, <1>2, <1>3 DEF WellFormed

LEMMA FiveBytesAccepted ==
  ASSUME NEW pdu \in Seq(Byte), WellFormed(pdu), pdu[1] \in FiveByteCodes
  PROVE  /\ Len(pdu) = 5 /\ WordAt(pdu, 2) \in Word /\ WordAt(pdu, 4) \in Word
         /\ pdu[1] = WRITE_SINGLE_COIL => WordAt(pdu, 4) \in {COIL_ON, COIL_OFF}
         /\ pdu[1] \in READ_CODES =>
              DecodeRequest(pdu) = Request(pdu[1], WordAt(pdu, 2), WordAt(pdu, 4), <<>>)
         /\ pdu[1] = WRITE_SINGLE_COIL =>
              DecodeRequest(pdu) =
                Request(pdu[1], WordAt(pdu, 2), 0, <<WordAt(pdu, 4) = COIL_ON>>)
         /\ pdu[1] = WRITE_SINGLE_REGISTER =>
              DecodeRequest(pdu) = Request(pdu[1], WordAt(pdu, 2), 0, <<WordAt(pdu, 4)>>)
         /\ pdu[1] \in READ_CODES \/ pdu[1] = WRITE_SINGLE_COIL \/ pdu[1] = WRITE_SINGLE_REGISTER
<1>1. pdu # <<>> /\ pdu[1] \in SUPPORTED_FUNCTION_CODES /\ ~Malformed(pdu)
  BY DEF WellFormed
<1>2. Len(pdu) = 5
  BY <1>1 DEF Malformed
<1>3. WordAt(pdu, 2) \in Word /\ WordAt(pdu, 4) \in Word
  <2>1. 2 \in Nat /\ 4 \in Nat /\ 2 >= 1 /\ 4 >= 1 /\ 2 + 1 <= Len(pdu) /\ 4 + 1 <= Len(pdu)
    BY <1>2
  <2> QED
    BY ONLY <2>1, FieldOfPdu, pdu \in Seq(Byte)
<1>4. pdu[1] = WRITE_SINGLE_COIL => WordAt(pdu, 4) \in {COIL_ON, COIL_OFF}
  BY <1>1, Zenon DEF Malformed
<1>5. ASSUME pdu[1] \in READ_CODES
      PROVE  DecodeRequest(pdu) = Request(pdu[1], WordAt(pdu, 2), WordAt(pdu, 4), <<>>)
  BY <1>1, <1>5, CodesDiffer DEF DecodeRequest
<1>6. ASSUME pdu[1] = WRITE_SINGLE_COIL
      PROVE  DecodeRequest(pdu) =
               Request(pdu[1], WordAt(pdu, 2), 0, <<WordAt(pdu, 4) = COIL_ON>>)
  BY <1>1, <1>6, CodesDiffer DEF DecodeRequest
<1>7. ASSUME pdu[1] = WRITE_SINGLE_REGISTER
      PROVE  DecodeRequest(pdu) = Request(pdu[1], WordAt(pdu, 2), 0, <<WordAt(pdu, 4)>>)
  BY <1>1, <1>7, CodesDiffer DEF DecodeRequest
<1>8. pdu[1] \in READ_CODES \/ pdu[1] = WRITE_SINGLE_COIL \/ pdu[1] = WRITE_SINGLE_REGISTER
  BY DEF FiveByteCodes
<1> QED
  BY <1>2, <1>3, <1>4, <1>5, <1>6, <1>7, <1>8

LEMMA MultiWriteAccepted ==
  ASSUME NEW pdu \in Seq(Byte), WellFormed(pdu), pdu[1] \notin FiveByteCodes
  PROVE  /\ pdu[1] = WRITE_MULTIPLE_COILS \/ pdu[1] = WRITE_MULTIPLE_REGISTERS
         /\ pdu[6] \in Byte /\ Len(pdu) = 6 + pdu[6]
         /\ WordAt(pdu, 2) \in Word /\ WordAt(pdu, 4) \in Word
         /\ pdu[6] = IF pdu[1] = WRITE_MULTIPLE_REGISTERS THEN 2 * WordAt(pdu, 4)
                                                          ELSE CeilDiv8(WordAt(pdu, 4))
         /\ Rest(pdu, 7) \in Strings(Byte, pdu[6])
         /\ \A i \in 1..pdu[6] : Rest(pdu, 7)[i] = pdu[6 + i]
         /\ DecodeRequest(pdu) =
              Request(pdu[1], WordAt(pdu, 2), 0,
                      IF pdu[1] = WRITE_MULTIPLE_REGISTERS
                      THEN UnpackRegisters(Rest(pdu, 7))
                      ELSE UnpackBits(Rest(pdu, 7), WordAt(pdu, 4)))
<1>1. pdu # <<>> /\ pdu[1] \in SUPPORTED_FUNCTION_CODES /\ ~Malformed(pdu)
  BY DEF WellFormed
<1>2. pdu[1] = WRITE_MULTIPLE_COILS \/ pdu[1] = WRITE_MULTIPLE_REGISTERS
  BY <1>1 DEF SUPPORTED_FUNCTION_CODES, FiveByteCodes, MULTI_WRITE_CODES
<1>3. MultiWriteConsistent(pdu)
  BY <1>1, <1>2, CodesDiffer, Zenon DEF Malformed
<1>4. /\ Len(pdu) >= 6 /\ Len(pdu) - 6 = pdu[6]
      /\ pdu[6] = IF pdu[1] = WRITE_MULTIPLE_REGISTERS THEN 2 * WordAt(pdu, 4)
                                                       ELSE CeilDiv8(WordAt(pdu, 4))
  BY <1>3, Zenon DEF MultiWriteConsistent
<1>5. /\ WordAt(pdu, 2) \in Word /\ WordAt(pdu, 4) \in Word
  <2>1. 2 \in Nat /\ 4 \in Nat /\ 2 >= 1 /\ 4 >= 1 /\ 2 + 1 <= Len(pdu) /\ 4 + 1 <= Len(pdu)
    BY <1>4, LenProperties
  <2> QED
    BY ONLY <2>1, FieldOfPdu, pdu \in Seq(Byte)
<1>6. pdu[6] \in Byte
  <2>1. 6 \in 1..Len(pdu)
    BY <1>4, LenProperties
  <2> QED
    BY <2>1, ElementOfSeq
<1>7. PICK k \in Nat : k = pdu[6]
  BY <1>6, FieldsAreNumbers, Zenon
<1>8. Len(pdu) = 6 + k
  BY <1>4, <1>7, LenProperties
<1>9. /\ Rest(pdu, 7) \in Strings(Byte, k)
      /\ \A i \in 1..k : Rest(pdu, 7)[i] = pdu[6 + i]
  <2>1. 6 \in Nat /\ pdu \in Seq(Byte) /\ k \in Nat /\ Len(pdu) = 6 + k
    BY <1>8
  <2>2. /\ Rest(pdu, 6 + 1) \in Strings(Byte, k)
        /\ \A i \in 1..k : Rest(pdu, 6 + 1)[i] = pdu[6 + i]
    BY ONLY <2>1, RestOfString
  <2> QED
    BY <2>2, Lengths, Zenon
<1>10. CASE pdu[1] = WRITE_MULTIPLE_COILS
  <2>1. DecodeRequest(pdu) =
          Request(pdu[1], WordAt(pdu, 2), 0, UnpackBits(Rest(pdu, 7), WordAt(pdu, 4)))
    BY <1>1, <1>10, CodesDiffer DEF DecodeRequest
  <2> QED
    BY <1>2, <1>4, <1>5, <1>6, <1>7, <1>8, <1>9, <1>10, <2>1, CodesDiffer, Zenon
<1>11. CASE pdu[1] = WRITE_MULTIPLE_REGISTERS
  <2>1. DecodeRequest(pdu) =
          Request(pdu[1], WordAt(pdu, 2), 0, UnpackRegisters(Rest(pdu, 7)))
    BY <1>1, <1>11, CodesDiffer DEF DecodeRequest
  <2> QED
    BY <1>2, <1>4, <1>5, <1>6, <1>7, <1>8, <1>9, <1>11, <2>1, Zenon
<1> QED
  BY <1>2, <1>10, <1>11

LEMMA FieldsOfRequest ==
  ASSUME NEW fc, NEW a, NEW n, NEW v, NEW r, r = Request(fc, a, n, v)
  PROVE  /\ r.fc = fc /\ r.address = a /\ r.count = n /\ r.values = v
         /\ r.error = NO_EXCEPTION /\ r = Request(r.fc, r.address, r.count, r.values)
BY DEF Request

(* What the decoder accepts is a request that can be sent.                 *)
LEMMA WellFormedIsSendable ==
  ASSUME NEW pdu \in Seq(Byte), WellFormed(pdu)
  PROVE  /\ Sendable(DecodeRequest(pdu))
         /\ DecodeRequest(pdu).fc = pdu[1] /\ DecodeRequest(pdu).error = NO_EXCEPTION
<1>1. PICK r : r = DecodeRequest(pdu)
  OBVIOUS
<1>2. PICK fc, a, w : fc = pdu[1] /\ a = WordAt(pdu, 2) /\ w = WordAt(pdu, 4)
  OBVIOUS
<1>3. CASE fc \in FiveByteCodes
  <2>1. /\ a \in Word /\ w \in Word
        /\ fc \in READ_CODES => r = Request(fc, a, w, <<>>)
        /\ fc = WRITE_SINGLE_COIL => r = Request(fc, a, 0, <<w = COIL_ON>>)
        /\ fc = WRITE_SINGLE_REGISTER => r = Request(fc, a, 0, <<w>>)
        /\ fc \in READ_CODES \/ fc = WRITE_SINGLE_COIL \/ fc = WRITE_SINGLE_REGISTER
    BY <1>1, <1>2, <1>3, FiveBytesAccepted, Zenon
  <2>2. CASE fc \in READ_CODES
    <3>1. /\ r.fc = fc /\ r.address = a /\ r.count = w /\ r.values = <<>>
          /\ r.error = NO_EXCEPTION /\ r = Request(r.fc, r.address, r.count, r.values)
      BY <2>1, <2>2, FieldsOfRequest
    <3>2. IsRead(r)
      BY <2>1, <2>2, <3>1 DEF IsRead
    <3> QED
      BY <1>1, <1>2, <2>1, <3>1, <3>2, Zenon DEF Sendable
  <2>3. CASE fc = WRITE_SINGLE_COIL
    <3>1. PICK b \in BOOLEAN : b = (w = COIL_ON)
      OBVIOUS
    <3>2. r = Request(fc, a, 0, <<b>>)
      BY <2>1, <2>3, <3>1
    <3>3. /\ r.fc = fc /\ r.address = a /\ r.count = 0 /\ r.values = <<b>>
          /\ r.error = NO_EXCEPTION /\ r = Request(r.fc, r.address, r.count, r.values)
      BY <3>2, FieldsOfRequest
    <3>4. IsWriteCoil(r)
      BY <2>3, <3>3 DEF IsWriteCoil
    <3> QED
      BY <1>1, <1>2, <2>1, <3>3, <3>4, Zenon DEF Sendable
  <2>4. CASE fc = WRITE_SINGLE_REGISTER
    <3>1. /\ r.fc = fc /\ r.address = a /\ r.count = 0 /\ r.values = <<w>>
          /\ r.error = NO_EXCEPTION /\ r = Request(r.fc, r.address, r.count, r.values)
      BY <2>1, <2>4, FieldsOfRequest
    <3>2. IsWriteRegister(r)
      BY <2>1, <2>4, <3>1 DEF IsWriteRegister
    <3> QED
      BY <1>1, <1>2, <2>1, <3>1, <3>2, Zenon DEF Sendable
  <2> QED
    BY <2>1, <2>2, <2>3, <2>4
<1>4. CASE fc \notin FiveByteCodes
  <2>0. PICK k, body : k = pdu[6] /\ body = Rest(pdu, 7)
    OBVIOUS
  <2>1. /\ fc = WRITE_MULTIPLE_COILS \/ fc = WRITE_MULTIPLE_REGISTERS
        /\ k \in Byte /\ a \in Word /\ w \in Word
        /\ k = IF fc = WRITE_MULTIPLE_REGISTERS THEN 2 * w ELSE CeilDiv8(w)
        /\ body \in Strings(Byte, k)
        /\ r = Request(fc, a, 0, IF fc = WRITE_MULTIPLE_REGISTERS THEN UnpackRegisters(body)
                                                                  ELSE UnpackBits(body, w))
    BY <1>1, <1>2, <1>4, <2>0, MultiWriteAccepted, Zenon
  <2>2. w \in Nat /\ body \in Seq(Byte) /\ Len(body) = k
    BY <2>1, FieldsAreNumbers DEF Strings
  <2>3. CASE fc = WRITE_MULTIPLE_COILS
    <3>1. PICK v : v = UnpackBits(body, w)
      OBVIOUS
    <3>2. v \in Seq(BOOLEAN) /\ Len(v) = w
      <4>1. Len(body) = CeilDiv8(w)
        BY <2>1, <2>2, <2>3, CodesDiffer, Zenon
      <4> QED
        BY <2>2, <3>1, <4>1, PackBitsOfUnpackBits, Zenon
    <3>3. r = Request(fc, a, 0, v) /\ k = CeilDiv8(w)
      BY <2>1, <2>3, <3>1, CodesDiffer, Zenon
    <3>4. /\ r.fc = fc /\ r.address = a /\ r.count = 0 /\ r.values = v
          /\ r.error = NO_EXCEPTION /\ r = Request(r.fc, r.address, r.count, r.values)
      BY <3>3, FieldsOfRequest
    <3>5. IsWriteCoils(r)
      BY <2>1, <2>3, <3>2, <3>3, <3>4, Zenon DEF IsWriteCoils
    <3> QED
      BY <1>1, <1>2, <2>1, <3>4, <3>5, Zenon DEF Sendable
  <2>4. CASE fc = WRITE_MULTIPLE_REGISTERS
    <3>1. PICK v : v = UnpackRegisters(body)
      OBVIOUS
    <3>2. v \in Seq(Word) /\ Len(v) = w
      <4>1. Len(body) = 2 * w
        BY <2>1, <2>2, <2>4, Zenon
      <4> QED
        BY <2>2, <3>1, <4>1, PackRegistersOfUnpackRegisters, Zenon
    <3>3. r = Request(fc, a, 0, v) /\ k = 2 * w
      BY <2>1, <2>4, <3>1, Zenon
    <3>4. /\ r.fc = fc /\ r.address = a /\ r.count = 0 /\ r.values = v
          /\ r.error = NO_EXCEPTION /\ r = Request(r.fc, r.address, r.count, r.values)
      BY <3>3, FieldsOfRequest
    <3>5. IsWriteRegisters(r)
      BY <2>1, <2>4, <3>2, <3>3, <3>4, Zenon DEF IsWriteRegisters
    <3> QED
      BY <1>1, <1>2, <2>1, <3>4, <3>5, Zenon DEF Sendable
  <2> QED
    BY <2>1, <2>3, <2>4
<1> QED
  BY <1>3, <1>4

LEMMA NoErrorMeansWellFormed ==
  ASSUME NEW pdu, DecodeRequest(pdu).error = NO_EXCEPTION
  PROVE  WellFormed(pdu)
<1> SUFFICES ASSUME ~WellFormed(pdu) PROVE FALSE
  OBVIOUS
<1>1. \A fc, code : Refuse(fc, code).error = code
  BY DEF Refuse
<1>2. ILLEGAL_FUNCTION # NO_EXCEPTION /\ ILLEGAL_DATA_VALUE # NO_EXCEPTION
  BY DEF ILLEGAL_FUNCTION, ILLEGAL_DATA_VALUE, NO_EXCEPTION
<1>3. \/ DecodeRequest(pdu) = Refuse(0, ILLEGAL_DATA_VALUE)
      \/ DecodeRequest(pdu) = Refuse(pdu[1], ILLEGAL_FUNCTION)
      \/ DecodeRequest(pdu) = Refuse(pdu[1], ILLEGAL_DATA_VALUE)
  BY OthersAreRefused
<1>4. \/ DecodeRequest(pdu).error = ILLEGAL_DATA_VALUE
      \/ DecodeRequest(pdu).error = ILLEGAL_FUNCTION
  BY <1>1, <1>3, Zenon
<1> QED
  BY <1>2, <1>4, Zenon

LEMMA SameWordSameBytes ==
  ASSUME NEW p \in Seq(Byte), NEW q \in Seq(Byte), NEW i \in Nat, i >= 1,
         i + 1 <= Len(p), i + 1 <= Len(q), WordAt(p, i) = WordAt(q, i)
  PROVE  p[i] = q[i] /\ p[i + 1] = q[i + 1]
<1>1. /\ p[i] \in Byte /\ p[i + 1] \in Byte /\ q[i] \in Byte /\ q[i + 1] \in Byte
  BY FieldOfPdu
<1>2. UnpackWord(p[i], p[i + 1]) = UnpackWord(q[i], q[i + 1])
  BY DEF WordAt
<1> QED
  BY <1>1, <1>2, TwoBytesAreWord

(* Two PDUs from which the same request is decoded differ at most in the   *)
(* last byte of a multiple coil write.                                     *)
LEMMA SameRequestSameBytes ==
  ASSUME NEW p \in Seq(Byte), NEW q \in Seq(Byte), WellFormed(p), WellFormed(q),
         DecodeRequest(p) = DecodeRequest(q)
  PROVE  /\ Len(p) = Len(q)
         /\ \A i \in 1..Len(p) : p[i] = q[i] \/ (p[1] = WRITE_MULTIPLE_COILS /\ i = Len(p))
<1>1. PICK r : r = DecodeRequest(p) /\ r = DecodeRequest(q)
  OBVIOUS
<1>2. PICK fc : fc = p[1] /\ fc = q[1]
  BY <1>1, WellFormedIsSendable
<1>3. CASE fc \in FiveByteCodes
  <2>1. /\ Len(p) = 5 /\ Len(q) = 5
        /\ fc \in READ_CODES \/ fc = WRITE_SINGLE_COIL \/ fc = WRITE_SINGLE_REGISTER
        /\ fc = WRITE_SINGLE_COIL =>
             WordAt(p, 4) \in {COIL_ON, COIL_OFF} /\ WordAt(q, 4) \in {COIL_ON, COIL_OFF}
        /\ fc \in READ_CODES => /\ r = Request(fc, WordAt(p, 2), WordAt(p, 4), <<>>)
                                /\ r = Request(fc, WordAt(q, 2), WordAt(q, 4), <<>>)
        /\ fc = WRITE_SINGLE_COIL =>
             /\ r = Request(fc, WordAt(p, 2), 0, <<WordAt(p, 4) = COIL_ON>>)
             /\ r = Request(fc, WordAt(q, 2), 0, <<WordAt(q, 4) = COIL_ON>>)
        /\ fc = WRITE_SINGLE_REGISTER =>
             /\ r = Request(fc, WordAt(p, 2), 0, <<WordAt(p, 4)>>)
             /\ r = Request(fc, WordAt(q, 2), 0, <<WordAt(q, 4)>>)
    BY <1>1, <1>2, <1>3, FiveBytesAccepted, Zenon
  <2>2. PICK pa, qa, pw, qw : /\ pa = WordAt(p, 2) /\ qa = WordAt(q, 2)
                              /\ pw = WordAt(p, 4) /\ qw = WordAt(q, 4)
    OBVIOUS
  <2>3. pa = qa /\ pw = qw
    <3>1. CASE fc \in READ_CODES
      <4>1. r = Request(fc, pa, pw, <<>>) /\ r = Request(fc, qa, qw, <<>>)
        BY <2>1, <2>2, <3>1
      <4> QED
        BY <4>1, FieldsOfRequest
    <3>2. CASE fc = WRITE_SINGLE_COIL
      <4>1. r = Request(fc, pa, 0, <<pw = COIL_ON>>) /\ r = Request(fc, qa, 0, <<qw = COIL_ON>>)
        BY <2>1, <2>2, <3>2
      <4>2. pa = qa /\ <<pw = COIL_ON>> = <<qw = COIL_ON>>
        BY <4>1, FieldsOfRequest
      <4>3. (pw = COIL_ON) <=> (qw = COIL_ON)
        BY <4>2
      <4>4. pw \in {COIL_ON, COIL_OFF} /\ qw \in {COIL_ON, COIL_OFF}
        BY <2>1, <2>2, <3>2
      <4> QED
        BY <4>2, <4>3, <4>4
    <3>3. CASE fc = WRITE_SINGLE_REGISTER
      <4>1. r = Request(fc, pa, 0, <<pw>>) /\ r = Request(fc, qa, 0, <<qw>>)
        BY <2>1, <2>2, <3>3
      <4>2. pa = qa /\ <<pw>> = <<qw>>
        BY <4>1, FieldsOfRequest
      <4> QED
        BY <4>2
    <3> QED
      BY <2>1, <3>1, <3>2, <3>3
  <2>4. p[2] = q[2] /\ p[3] = q[3] /\ p[4] = q[4] /\ p[5] = q[5]
    <3>1. /\ 2 \in Nat /\ 2 >= 1 /\ 2 + 1 <= Len(p) /\ 2 + 1 <= Len(q)
          /\ 4 \in Nat /\ 4 >= 1 /\ 4 + 1 <= Len(p) /\ 4 + 1 <= Len(q)
      BY <2>1
    <3>2. WordAt(p, 2) = WordAt(q, 2) /\ WordAt(p, 4) = WordAt(q, 4)
      BY <2>2, <2>3
    <3>3. p[2] = q[2] /\ p[2 + 1] = q[2 + 1] /\ p[4] = q[4] /\ p[4 + 1] = q[4 + 1]
      BY <3>1, <3>2, SameWordSameBytes, Zenon
    <3> QED
      BY <3>3
  <2>5. ASSUME NEW i \in 1..5 PROVE p[i] = q[i]
    <3>1. i = 1 \/ i = 2 \/ i = 3 \/ i = 4 \/ i = 5
      OBVIOUS
    <3> QED
      BY <1>2, <2>4, <3>1, Zenon
  <2>6. Len(p) = 5 /\ Len(q) = 5
    BY <2>1
  <2> QED
    BY ONLY <2>5, <2>6
<1>4. CASE fc \notin FiveByteCodes
  <2>1. PICK pk, qk, pa, qa, pw, qw, pb, qb :
             /\ pk = p[6] /\ qk = q[6] /\ pb = Rest(p, 7) /\ qb = Rest(q, 7)
             /\ pa = WordAt(p, 2) /\ qa = WordAt(q, 2) /\ pw = WordAt(p, 4) /\ qw = WordAt(q, 4)
    OBVIOUS
  <2>2. /\ fc = WRITE_MULTIPLE_COILS \/ fc = WRITE_MULTIPLE_REGISTERS
        /\ pk \in Byte /\ qk \in Byte /\ Len(p) = 6 + pk /\ Len(q) = 6 + qk
        /\ pw \in Word /\ qw \in Word
        /\ pk = IF fc = WRITE_MULTIPLE_REGISTERS THEN 2 * pw ELSE CeilDiv8(pw)
        /\ qk = IF fc = WRITE_MULTIPLE_REGISTERS THEN 2 * qw ELSE CeilDiv8(qw)
        /\ pb \in Strings(Byte, pk) /\ qb \in Strings(Byte, qk)
        /\ \A i \in 1..pk : pb[i] = p[6 + i]
        /\ \A i \in 1..qk : qb[i] = q[6 + i]
        /\ r = Request(fc, pa, 0, IF fc = WRITE_MULTIPLE_REGISTERS THEN UnpackRegisters(pb)
                                                                   ELSE UnpackBits(pb, pw))
        /\ r = Request(fc, qa, 0, IF fc = WRITE_MULTIPLE_REGISTERS THEN UnpackRegisters(qb)
                                                                   ELSE UnpackBits(qb, qw))
    BY <1>1, <1>2, <1>4, <2>1, MultiWriteAccepted
  <2>3. /\ pw \in Nat /\ qw \in Nat /\ pk \in Nat /\ qk \in Nat
        /\ pb \in Seq(Byte) /\ Len(pb) = pk /\ qb \in Seq(Byte) /\ Len(qb) = qk
    BY <2>2, FieldsAreNumbers DEF Strings
  <2>4. pa = qa
    BY <2>2, FieldsOfRequest
  <2>5. /\ pw = qw /\ pk = qk
        /\ \A i \in 1..pk : pb[i] = qb[i] \/ (fc = WRITE_MULTIPLE_COILS /\ i = pk)
    <3>1. CASE fc = WRITE_MULTIPLE_COILS
      <4>1. Len(pb) = CeilDiv8(pw) /\ Len(qb) = CeilDiv8(qw)
        BY <2>2, <2>3, <3>1, CodesDiffer, Zenon
      <4>2. PICK pv, qv : pv = UnpackBits(pb, pw) /\ qv = UnpackBits(qb, qw)
        OBVIOUS
      <4>3. /\ Len(pv) = pw /\ \A i \in 1..Len(pb) : i < Len(pb) => PackBits(pv)[i] = pb[i]
            /\ Len(qv) = qw /\ \A i \in 1..Len(qb) : i < Len(qb) => PackBits(qv)[i] = qb[i]
        BY <2>3, <4>1, <4>2, PackBitsOfUnpackBits, Zenon
      <4>4. r = Request(fc, pa, 0, pv) /\ r = Request(fc, qa, 0, qv)
        BY <2>2, <3>1, <4>2, CodesDiffer, Zenon
      <4>5. pv = qv
        BY <4>4, FieldsOfRequest
      <4>6. pw = qw
        BY <4>3, <4>5
      <4>7. pk = qk
        BY <2>3, <4>1, <4>6
      <4>8. \A i \in 1..pk : i < pk => pb[i] = qb[i]
        BY <2>3, <4>3, <4>5, <4>7
      <4> QED
        BY <2>3, <3>1, <4>6, <4>7, <4>8
    <3>2. CASE fc = WRITE_MULTIPLE_REGISTERS
      <4>1. Len(pb) = 2 * pw /\ Len(qb) = 2 * qw
        BY <2>2, <2>3, <3>2, Zenon
      <4>2. PICK pv, qv : pv = UnpackRegisters(pb) /\ qv = UnpackRegisters(qb)
        OBVIOUS
      <4>3. Len(pv) = pw /\ PackRegisters(pv) = pb /\ Len(qv) = qw /\ PackRegisters(qv) = qb
        BY <2>3, <4>1, <4>2, PackRegistersOfUnpackRegisters, Zenon
      <4>4. r = Request(fc, pa, 0, pv) /\ r = Request(fc, qa, 0, qv)
        BY <2>2, <3>2, <4>2, Zenon
      <4>5. pv = qv
        BY <4>4, FieldsOfRequest
      <4> QED
        BY <2>3, <4>3, <4>5
    <3> QED
      BY <2>2, <3>1, <3>2
  <2>6. p[2] = q[2] /\ p[3] = q[3] /\ p[4] = q[4] /\ p[5] = q[5]
    <3>1. /\ 2 \in Nat /\ 2 >= 1 /\ 2 + 1 <= Len(p) /\ 2 + 1 <= Len(q)
          /\ 4 \in Nat /\ 4 >= 1 /\ 4 + 1 <= Len(p) /\ 4 + 1 <= Len(q)
      BY <2>2, <2>3
    <3>2. WordAt(p, 2) = WordAt(q, 2) /\ WordAt(p, 4) = WordAt(q, 4)
      BY <2>1, <2>4, <2>5
    <3>3. p[2] = q[2] /\ p[2 + 1] = q[2 + 1] /\ p[4] = q[4] /\ p[4 + 1] = q[4 + 1]
      BY <3>1, <3>2, SameWordSameBytes, Zenon
    <3> QED
      BY <3>3
  <2>7. p[6] = q[6]
    BY <2>1, <2>5
  <2>8. Len(p) = 6 + pk /\ Len(q) = 6 + pk
    BY <2>2, <2>5
  <2>9. ASSUME NEW i \in 1..6 + pk
        PROVE  p[i] = q[i] \/ (fc = WRITE_MULTIPLE_COILS /\ i = 6 + pk)
    <3>1. CASE i <= 6
      <4>1. i = 1 \/ i = 2 \/ i = 3 \/ i = 4 \/ i = 5 \/ i = 6
        BY <2>3, <3>1
      <4> QED
        BY <1>2, <2>6, <2>7, <4>1
    <3>2. CASE ~(i <= 6)
      <4>1. PICK j \in 1..pk : i = 6 + j
        <5>1. i - 6 \in 1..pk /\ i = 6 + (i - 6)
          BY <2>3, <3>2
        <5> QED
          BY <5>1
      <4>2. pb[j] = p[6 + j] /\ qb[j] = q[6 + j]
        BY <2>2, <2>5
      <4> QED
        BY <2>5, <4>1, <4>2
    <3> QED
      BY <3>1, <3>2
  <2> QED
    BY <1>2, <2>8, <2>9
<1> QED
  BY <1>3, <1>4

-----------------------------------------------------------------------------
(* What the wire does to a response: nothing either, if the client decodes *)
(* it with the quantity it asked for.                                      *)

(* A reply fits a PDU and is decoded as it was meant. *)
IsReplyTo(e, response, bit_count) ==
  /\ e = EncodeResponse(response)
  /\ e \in Seq(Byte) /\ e # <<>> /\ Len(e) <= MAX_PDU_LEN
  /\ response.error = NO_EXCEPTION => e[1] = response.fc
  /\ DecodeResponse(e, bit_count) = response

LEMMA CodesHaveNoHighBit == \A fc \in SUPPORTED_FUNCTION_CODES : ~(fc >= EXCEPTION_MASK)
BY DEF SUPPORTED_FUNCTION_CODES, READ_CODES, MULTI_WRITE_CODES, READ_COILS,
       READ_DISCRETE_INPUTS, READ_HOLDING_REGISTERS, READ_INPUT_REGISTERS,
       WRITE_SINGLE_COIL, WRITE_SINGLE_REGISTER, WRITE_MULTIPLE_COILS,
       WRITE_MULTIPLE_REGISTERS, EXCEPTION_MASK

LEMMA ExceptionReply ==
  ASSUME NEW fc \in Byte, NEW bit_count,
         NEW code \in {ILLEGAL_FUNCTION, ILLEGAL_DATA_ADDRESS, ILLEGAL_DATA_VALUE}
  PROVE  /\ EncodeResponse(Exception(fc, code)) = <<SetHighBit(fc), code>>
         /\ SetHighBit(fc) \in Byte /\ code \in Byte /\ code # NO_EXCEPTION
         /\ fc < EXCEPTION_MASK =>
              DecodeResponse(<<SetHighBit(fc), code>>, bit_count) = Exception(fc, code)
<1>1. code \in Byte /\ code # NO_EXCEPTION
  BY DEF Byte, ILLEGAL_FUNCTION, ILLEGAL_DATA_ADDRESS, ILLEGAL_DATA_VALUE, NO_EXCEPTION
<1>2. PICK h : h = SetHighBit(fc)
  OBVIOUS
<1>3. h \in Byte /\ h >= EXCEPTION_MASK /\ (fc < EXCEPTION_MASK => ClearHighBit(h) = fc)
  BY <1>2 DEF SetHighBit, ClearHighBit, EXCEPTION_MASK, Byte
<1>4. Exception(fc, code).fc = fc /\ Exception(fc, code).error = code
  BY DEF Exception
<1>5. EncodeResponse(Exception(fc, code)) = <<h, code>>
  BY <1>1, <1>2, <1>4, Zenon DEF EncodeResponse
<1>6. PICK e : e = <<h, code>>
  OBVIOUS
<1>7. e # <<>> /\ Len(e) = 2 /\ e[1] = h /\ e[2] = code
  BY <1>6
<1>8. DecodeResponse(e, bit_count) = Refuse(ClearHighBit(h), code)
  BY <1>3, <1>7, Zenon DEF DecodeResponse
<1>9. fc < EXCEPTION_MASK => DecodeResponse(e, bit_count) = Exception(fc, code)
  BY <1>3, <1>8, Zenon DEF Refuse, Exception
<1> QED
  BY <1>1, <1>2, <1>3, <1>5, <1>6, <1>9, Zenon

LEMMA WriteReply ==
  ASSUME NEW fc \in SUPPORTED_FUNCTION_CODES, fc \notin READ_CODES,
         NEW a \in Word, NEW w \in Word, NEW count, NEW values, NEW bit_count,
         fc = WRITE_SINGLE_COIL => count = 0 /\ values = <<w = COIL_ON>>
                                   /\ w \in {COIL_ON, COIL_OFF},
         fc = WRITE_SINGLE_REGISTER => count = 0 /\ values = <<w>>,
         fc \in MULTI_WRITE_CODES => count = w /\ values = <<>>
  PROVE  IsReplyTo(<<fc>> \o PackWord(a) \o PackWord(w), Request(fc, a, count, values), bit_count)
<1>1. PICK e : e = <<fc>> \o PackWord(a) \o PackWord(w)
  OBVIOUS
<1>2. IsFiveBytes(e, fc, a, w)
  BY <1>1, CodesAreBytes, FiveBytes, Zenon
<1>3. e \in Strings(Byte, 5) /\ e[1] = fc /\ WordAt(e, 2) = a /\ WordAt(e, 4) = w
  BY <1>2, Zenon DEF IsFiveBytes
<1>4. e # <<>> /\ Len(e) = 5 /\ e \in Seq(Byte)
  <2>1. 5 \in Nat /\ 5 # 0
    OBVIOUS
  <2> QED
    BY ONLY <1>3, <2>1, NotEmpty, Zenon
<1>5. Len(e) <= MAX_PDU_LEN
  BY <1>4 DEF MAX_PDU_LEN
<1>6. PICK r : r = Request(fc, a, count, values)
  OBVIOUS
<1>7. /\ r.fc = fc /\ r.address = a /\ r.count = count /\ r.values = values
      /\ r.error = NO_EXCEPTION
  BY <1>6, FieldsOfRequest
<1>8. fc = WRITE_SINGLE_COIL \/ fc = WRITE_SINGLE_REGISTER \/ fc \in MULTI_WRITE_CODES
  BY DEF SUPPORTED_FUNCTION_CODES
<1>9. ~(fc >= EXCEPTION_MASK)
  BY CodesHaveNoHighBit
<1>10. CASE fc = WRITE_SINGLE_COIL
  <2>1. SingleWord(fc, values) = w
    <3>1. values[1] = (w = COIL_ON) /\ w \in {COIL_ON, COIL_OFF}
      BY <1>10
    <3> QED
      BY <1>10, <3>1 DEF SingleWord
  <2>2. EncodeResponse(r) = e
    BY <1>1, <1>7, <1>10, <2>1, CodesDiffer DEF EncodeResponse
  <2>3. DecodeResponse(e, bit_count) = Request(fc, a, 0, <<w = COIL_ON>>)
    BY <1>3, <1>4, <1>9, <1>10, CodesDiffer DEF DecodeResponse
  <2>4. DecodeResponse(e, bit_count) = r
    BY <1>6, <1>10, <2>3
  <2> QED
    BY <1>1, <1>3, <1>4, <1>5, <1>6, <1>7, <2>2, <2>4, Zenon DEF IsReplyTo
<1>11. CASE fc = WRITE_SINGLE_REGISTER
  <2>1. SingleWord(fc, values) = w
    BY <1>11, CodesDiffer DEF SingleWord
  <2>2. EncodeResponse(r) = e
    BY <1>1, <1>7, <1>11, <2>1, CodesDiffer DEF EncodeResponse
  <2>3. DecodeResponse(e, bit_count) = Request(fc, a, 0, <<w>>)
    BY <1>3, <1>4, <1>9, <1>11, CodesDiffer DEF DecodeResponse
  <2>4. DecodeResponse(e, bit_count) = r
    BY <1>6, <1>11, <2>3
  <2> QED
    BY <1>1, <1>3, <1>4, <1>5, <1>6, <1>7, <2>2, <2>4, Zenon DEF IsReplyTo
<1>12. CASE fc \in MULTI_WRITE_CODES
  <2>1. fc # WRITE_SINGLE_COIL /\ fc # WRITE_SINGLE_REGISTER
    BY <1>12, CodesDiffer
  <2>2. EncodeResponse(r) = e
    BY <1>1, <1>7, <1>12, <2>1 DEF EncodeResponse
  <2>3. DecodeResponse(e, bit_count) = Request(fc, a, w, <<>>)
    BY <1>3, <1>4, <1>9, <1>12, <2>1, CodesDiffer DEF DecodeResponse
  <2>4. DecodeResponse(e, bit_count) = r
    BY <1>6, <1>12, <2>3
  <2> QED
    BY <1>1, <1>3, <1>4, <1>5, <1>6, <1>7, <2>2, <2>4, Zenon DEF IsReplyTo
<1> QED
  BY <1>8, <1>10, <1>11, <1>12

LEMMA ReadReply ==
  ASSUME NEW fc \in READ_CODES, NEW values, NEW k \in Byte, NEW body \in Strings(Byte, k),
         2 + k <= MAX_PDU_LEN, NEW n \in Nat, Payload(fc, values) = body, NEW bit_count,
         IF fc \in {READ_COILS, READ_DISCRETE_INPUTS}
         THEN bit_count = n /\ n <= 8 * k /\ values = UnpackBits(body, n)
         ELSE k % 2 = 0 /\ values = UnpackRegisters(body)
  PROVE  IsReplyTo(<<fc, k>> \o body, Request(fc, 0, 0, values), bit_count)
<1>1. PICK e : e = <<fc, k>> \o body
  OBVIOUS
<1>2. k \in Nat
  BY FieldsAreNumbers, Zenon
<1>3. fc \in SUPPORTED_FUNCTION_CODES /\ fc \notin MULTI_WRITE_CODES
  BY CodesDiffer, Zenon
<1>4. IsReadReply(e, fc, k, body, k)
  BY <1>1, <1>2, <1>3, CodesAreBytes, ReadReplyParts, Zenon
<1>5. e \in Strings(Byte, 2 + k) /\ e[1] = fc /\ e[2] = k /\ Rest(e, 3) = body
  BY <1>4, Zenon DEF IsReadReply
<1>6. e # <<>> /\ Len(e) = 2 + k /\ e \in Seq(Byte)
  <2>1. 2 + k \in Nat /\ 2 + k # 0
    BY <1>2
  <2> QED
    BY ONLY <1>5, <2>1, NotEmpty, Zenon
<1>7. Len(e) <= MAX_PDU_LEN /\ ~(Len(e) < 2)
  BY <1>2, <1>6
<1>8. PICK r : r = Request(fc, 0, 0, values)
  OBVIOUS
<1>9. /\ r.fc = fc /\ r.address = 0 /\ r.count = 0 /\ r.values = values
      /\ r.error = NO_EXCEPTION
  BY <1>8, FieldsOfRequest
<1>10. EncodeResponse(r) = e
  <2>1. Len(body) = k
    BY DEF Strings
  <2>2. EncodeResponse(r) = <<fc, Len(Payload(fc, values))>> \o Payload(fc, values)
    BY <1>9, CodesDiffer DEF EncodeResponse
  <2>3. EncodeResponse(r) = <<fc, k>> \o body
    BY ONLY <2>1, <2>2, Payload(fc, values) = body, Zenon
  <2> QED
    BY <1>1, <2>3
<1>11. DecodeReadResponse(e, bit_count) = r
  <2>1. CASE fc \in {READ_COILS, READ_DISCRETE_INPUTS}
    <3>1. bit_count = n /\ n <= 8 * k /\ values = UnpackBits(body, n) /\ n # -1 /\ ~(n > 8 * k)
      BY <1>2, <2>1
    <3> QED
      BY <1>5, <1>6, <1>7, <1>8, <2>1, <3>1, Zenon DEF DecodeReadResponse
  <2>2. CASE fc \notin {READ_COILS, READ_DISCRETE_INPUTS}
    <3>1. k % 2 = 0 /\ values = UnpackRegisters(body) /\ k % 2 # 1
      BY <2>2
    <3> QED
      BY <1>5, <1>6, <1>7, <1>8, <2>2, <3>1, Zenon DEF DecodeReadResponse
  <2> QED
    BY <2>1, <2>2
<1>12. DecodeResponse(e, bit_count) = r
  <2>1. ~(fc >= EXCEPTION_MASK)
    BY <1>3, CodesHaveNoHighBit
  <2> QED
    BY <1>3, <1>5, <1>6, <1>11, <2>1, Zenon DEF DecodeResponse
<1> QED
  BY <1>1, <1>5, <1>6, <1>7, <1>8, <1>9, <1>10, <1>12, Zenon DEF IsReplyTo

(* What a read of the device returns fits a PDU, for the limits assumed.   *)
LEMMA BitsReply ==
  ASSUME NEW fc \in {READ_COILS, READ_DISCRETE_INPUTS}, NEW v \in Seq(BOOLEAN),
         Len(v) <= MAX_READ_BITS
  PROVE  \E e : IsReplyTo(e, Request(fc, 0, 0, v), Len(v))
<1>1. PICK n \in Nat : n = Len(v) /\ n <= MAX_READ_BITS
  BY LenProperties
<1>2. PICK k \in Int : k = CeilDiv8(n)
  BY <1>1, PlaceOfBit
<1>3. k \in Nat /\ n <= 8 * k /\ k <= CeilDiv8(MAX_READ_BITS)
  <2>1. k \in Nat /\ n <= 8 * k
    BY <1>2, PlaceOfBit
  <2>2. MAX_READ_BITS \in Nat
    BY LimitsAssumption
  <2>3. CeilDiv8(n) <= CeilDiv8(MAX_READ_BITS)
    BY ONLY <1>1, <2>2 DEF CeilDiv8
  <2> QED
    BY <1>2, <2>1, <2>3
<1>4. 2 + k <= MAX_PDU_LEN /\ k \in Byte
  <2>1. PICK c \in Nat : c = CeilDiv8(MAX_READ_BITS)
    BY LimitsAssumption, PlaceOfBit
  <2>2. 2 + c <= 253
    BY <2>1, QuantitiesFitAssumption DEF MAX_PDU_LEN
  <2>3. k \in Nat /\ k <= c
    BY <1>3, <2>1
  <2>4. 2 + k <= 253 /\ 0 <= k /\ k <= 255
    BY ONLY <2>1, <2>2, <2>3
  <2> QED
    BY <2>4, ByteRange DEF MAX_PDU_LEN
<1>5. PICK body : body = PackBits(v)
  OBVIOUS
<1>6. body \in Strings(Byte, k) /\ v = UnpackBits(body, n)
  BY <1>1, <1>2, <1>5, PackBitsIsBytes, UnpackBitsOfPackBits DEF Strings
<1>7. Payload(fc, v) = body
  BY <1>5 DEF Payload
<1>8. fc \in READ_CODES
  BY DEF READ_CODES
<1>9. PICK bit_count : bit_count = n
  OBVIOUS
<1>10. IsReplyTo(<<fc, k>> \o body, Request(fc, 0, 0, v), bit_count)
  BY <1>3, <1>4, <1>6, <1>7, <1>8, <1>9, ReadReply, Zenon
<1> QED
  BY <1>1, <1>9, <1>10, Zenon

LEMMA RegistersReply ==
  ASSUME NEW fc \in {READ_HOLDING_REGISTERS, READ_INPUT_REGISTERS}, NEW v \in Seq(Word),
         Len(v) <= MAX_READ_REGISTERS
  PROVE  \E e : IsReplyTo(e, Request(fc, 0, 0, v), -1)
<1>1. PICK n \in Nat : n = Len(v) /\ n <= MAX_READ_REGISTERS
  BY LenProperties
<1>2. PICK k \in Nat : k = 2 * n
  OBVIOUS
<1>3. 2 + k <= MAX_PDU_LEN /\ k \in Byte /\ k % 2 = 0
  <2>1. MAX_READ_REGISTERS \in Nat /\ 2 + 2 * MAX_READ_REGISTERS <= 253
    BY LimitsAssumption, QuantitiesFitAssumption DEF MAX_PDU_LEN
  <2>2. 2 + k <= 253 /\ 0 <= k /\ k <= 255 /\ k % 2 = 0
    BY ONLY <1>1, <1>2, <2>1
  <2> QED
    BY <2>2, ByteRange DEF MAX_PDU_LEN
<1>4. PICK body : body = PackRegisters(v)
  OBVIOUS
<1>5. body \in Strings(Byte, k) /\ v = UnpackRegisters(body)
  BY <1>1, <1>2, <1>4, PackRegistersIsBytes, UnpackRegistersOfPackRegisters DEF Strings
<1>6. fc \in READ_CODES /\ fc \notin {READ_COILS, READ_DISCRETE_INPUTS}
      /\ fc \notin {READ_COILS, READ_DISCRETE_INPUTS, WRITE_MULTIPLE_COILS}
  BY DEF READ_CODES, READ_COILS, READ_DISCRETE_INPUTS, READ_HOLDING_REGISTERS,
         READ_INPUT_REGISTERS, WRITE_MULTIPLE_COILS
<1>7. Payload(fc, v) = body
  BY <1>4, <1>6 DEF Payload
<1>8. PICK bit_count : bit_count = -1
  OBVIOUS
<1>9. IsReplyTo(<<fc, k>> \o body, Request(fc, 0, 0, v), bit_count)
  BY <1>1, <1>3, <1>5, <1>6, <1>7, ReadReply, Zenon
<1> QED
  BY <1>8, <1>9, Zenon

-----------------------------------------------------------------------------
(* The device.                                                             *)

Sizes == [r \in Regions |-> Len(NewDevice[r])]
Holds(dev) == IsDevice(dev, Sizes, Word)
ValuesOf(region) == IF region \in BitRegions THEN BOOLEAN ELSE Word

LEMMA BlockOfDevice ==
  ASSUME NEW dev, Holds(dev), NEW region \in Regions
  PROVE  /\ Sizes[region] \in Nat
         /\ dev[region] \in [1..Sizes[region] -> ValuesOf(region)]
         /\ dev[region] \in Seq(ValuesOf(region)) /\ Len(dev[region]) = Sizes[region]
<1>1. dev[region] \in [1..Sizes[region] -> ValuesOf(region)]
  BY DEF Holds, IsDevice, ValuesOf
<1>2. Sizes[region] \in Nat
  BY DeviceAssumption DEF Sizes
<1> QED
  BY <1>1, <1>2, FunctionIsSeq

(* A read of a range inside the block returns that many of its values.     *)
LEMMA ReadBlockIsSeq ==
  ASSUME NEW S, NEW block \in Seq(S), NEW a \in Nat, NEW n \in Nat, InBlock(block, a, n)
  PROVE  ReadBlock(block, a, n) \in Seq(S) /\ Len(ReadBlock(block, a, n)) = n
<1>1. a + n <= Len(block) /\ Len(block) \in Nat
  BY LenProperties DEF InBlock
<1>2. PICK i \in Int, j \in Int : i = a + 1 /\ j = a + n
  OBVIOUS
<1>3. \A k \in i..j : block[k] \in S
  <2>1. \A k \in i..j : k \in 1..Len(block)
    BY <1>1, <1>2
  <2> QED
    BY <2>1, ElementOfSeq
<1>4. /\ SubSeq(block, i, j) \in Seq(S)
      /\ Len(SubSeq(block, i, j)) = IF i <= j THEN j - i + 1 ELSE 0
  BY <1>3, SubSeqProperties
<1>5. (IF i <= j THEN j - i + 1 ELSE 0) = n
  BY <1>2
<1> QED
  BY <1>2, <1>4, <1>5 DEF ReadBlock

(* A write of values of the right type keeps a block a block.              *)
LEMMA WriteBlockIsBlock ==
  ASSUME NEW S, NEW n \in Nat, NEW block \in [1..n -> S],
         NEW a \in Nat, NEW values \in Seq(S)
  PROVE  WriteBlock(block, a, values) \in [1..n -> S]
<1>1. Len(block) = n /\ Len(values) \in Nat
  BY FunctionIsSeq, LenProperties
<1>2. \A i \in 1..n : i \in a + 1 .. a + Len(values) => values[i - a] \in S
  <2> SUFFICES ASSUME NEW i \in 1..n, i \in a + 1 .. a + Len(values)
               PROVE  values[i - a] \in S
    OBVIOUS
  <2>1. i - a \in 1..Len(values)
    BY <1>1
  <2> QED
    BY <2>1, ElementOfSeq
<1> QED
  BY <1>1, <1>2 DEF WriteBlock

(* Each function code has its region, and its values fit that region.      *)
LEMMA RegionsOfCodes ==
  /\ \A fc \in SUPPORTED_FUNCTION_CODES : RegionOf(fc) \in Regions
  /\ \A fc \in {READ_COILS, READ_DISCRETE_INPUTS} :
       fc \in READ_CODES /\ ValuesOf(RegionOf(fc)) = BOOLEAN /\ LimitOf(fc) = MAX_READ_BITS
  /\ \A fc \in {READ_HOLDING_REGISTERS, READ_INPUT_REGISTERS} :
       fc \in READ_CODES /\ ValuesOf(RegionOf(fc)) = Word /\ LimitOf(fc) = MAX_READ_REGISTERS
  /\ ValuesOf(RegionOf(WRITE_SINGLE_COIL)) = BOOLEAN
  /\ ValuesOf(RegionOf(WRITE_MULTIPLE_COILS)) = BOOLEAN
  /\ ValuesOf(RegionOf(WRITE_SINGLE_REGISTER)) = Word
  /\ ValuesOf(RegionOf(WRITE_MULTIPLE_REGISTERS)) = Word
  /\ LimitOf(WRITE_MULTIPLE_COILS) = MAX_WRITE_COILS
  /\ LimitOf(WRITE_MULTIPLE_REGISTERS) = MAX_WRITE_REGISTERS
  /\ RegionOf(WRITE_SINGLE_REGISTER) = HOLDING_REGISTERS
  /\ RegionOf(WRITE_MULTIPLE_REGISTERS) = HOLDING_REGISTERS
  /\ RegionOf(WRITE_SINGLE_COIL) = COILS /\ RegionOf(WRITE_MULTIPLE_COILS) = COILS
BY DEF SUPPORTED_FUNCTION_CODES, MULTI_WRITE_CODES, READ_CODES, RegionOf, LimitOf, Regions,
       ValuesOf, BitRegions, COILS, DISCRETE_INPUTS, HOLDING_REGISTERS, INPUT_REGISTERS,
       READ_COILS, READ_DISCRETE_INPUTS, READ_HOLDING_REGISTERS, READ_INPUT_REGISTERS,
       WRITE_SINGLE_COIL, WRITE_SINGLE_REGISTER, WRITE_MULTIPLE_COILS,
       WRITE_MULTIPLE_REGISTERS

(* What a request that arrives writes has the type of its region.          *)
LEMMA SendableWrites ==
  ASSUME NEW r, Sendable(r)
  PROVE  /\ r.fc \in SUPPORTED_FUNCTION_CODES /\ r.address \in Nat
         /\ r = Request(r.fc, r.address, r.count, r.values) /\ r.error = NO_EXCEPTION
         /\ r.fc \notin READ_CODES => r.values \in Seq(ValuesOf(RegionOf(r.fc)))
<1>1. r = Request(r.fc, r.address, r.count, r.values) /\ r.address \in Nat
  BY FieldsAreNumbers, Zenon DEF Sendable
<1>2. r.error = NO_EXCEPTION
  BY <1>1, FieldsOfRequest
<1>3. CASE IsRead(r)
  BY <1>1, <1>2, <1>3, CodesDiffer, Zenon DEF IsRead
<1>4. CASE IsWriteCoil(r)
  <2>1. r.fc = WRITE_SINGLE_COIL /\ \E b \in BOOLEAN : r.values = <<b>>
    BY <1>4 DEF IsWriteCoil
  <2>2. r.values \in Seq(BOOLEAN)
    BY <2>1
  <2> QED
    BY <1>1, <1>2, <2>1, <2>2, CodesDiffer, RegionsOfCodes, Zenon
<1>5. CASE IsWriteRegister(r)
  <2>1. r.fc = WRITE_SINGLE_REGISTER /\ \E w \in Word : r.values = <<w>>
    BY <1>5 DEF IsWriteRegister
  <2>2. r.values \in Seq(Word)
    BY <2>1
  <2> QED
    BY <1>1, <1>2, <2>1, <2>2, CodesDiffer, RegionsOfCodes, Zenon
<1>6. CASE IsWriteCoils(r)
  BY <1>1, <1>2, <1>6, CodesDiffer, RegionsOfCodes, Zenon DEF IsWriteCoils
<1>7. CASE IsWriteRegisters(r)
  BY <1>1, <1>2, <1>7, CodesDiffer, RegionsOfCodes, Zenon DEF IsWriteRegisters
<1> QED
  BY <1>3, <1>4, <1>5, <1>6, <1>7, Zenon DEF Sendable

(* A request as the decoder hands it on: refused, or one that can be sent. *)
IsDecoded(r) ==
  \/ Sendable(r)
  \/ /\ r.error \in {ILLEGAL_FUNCTION, ILLEGAL_DATA_VALUE} /\ r.fc \in Byte

(* Whatever arrives, the device keeps its blocks.                          *)
LEMMA EffectKeepsDevice ==
  ASSUME NEW dev, Holds(dev), NEW r, IsDecoded(r)
  PROVE  Holds(Effect(dev, r))
<1>1. CASE ~(r.fc \in WRITE_CODES /\ Verdict(dev, r) = NO_EXCEPTION)
  <2>1. Effect(dev, r) = dev
    BY <1>1, Zenon DEF Effect
  <2> QED
    BY <2>1
<1>2. CASE r.fc \in WRITE_CODES /\ Verdict(dev, r) = NO_EXCEPTION
  <2>1. r.error = NO_EXCEPTION
    BY <1>2 DEF Verdict
  <2>2. Sendable(r)
    BY <2>1 DEF IsDecoded, ILLEGAL_FUNCTION, ILLEGAL_DATA_VALUE, NO_EXCEPTION
  <2>3. r.fc \notin READ_CODES
    BY <1>2, CodesDiffer DEF WRITE_CODES, SINGLE_WRITE_CODES, MULTI_WRITE_CODES
  <2>4. PICK R : R = RegionOf(r.fc)
    OBVIOUS
  <2>5. R \in Regions /\ r.address \in Nat /\ r.values \in Seq(ValuesOf(R))
    BY <2>2, <2>3, <2>4, SendableWrites, RegionsOfCodes, Zenon
  <2>6. PICK block : block = WriteBlock(dev[R], r.address, r.values)
    OBVIOUS
  <2>7. block \in [1..Sizes[R] -> ValuesOf(R)]
    BY <2>5, <2>6, BlockOfDevice, WriteBlockIsBlock
  <2>8. Effect(dev, r) = [dev EXCEPT ![R] = block]
    BY <1>2, <2>4, <2>6 DEF Effect
  <2> QED
    BY <2>5, <2>7, <2>8 DEF Holds, IsDevice, ValuesOf
<1> QED
  BY <1>1, <1>2

-----------------------------------------------------------------------------
(* What the dispatcher answers comes back as it was meant.                 *)

Refusals == {ILLEGAL_FUNCTION, ILLEGAL_DATA_ADDRESS, ILLEGAL_DATA_VALUE}

(* The bytes of a reply to function code fc. *)
ReplyFits(e, fc) ==
  /\ e \in Seq(Byte) /\ e # <<>> /\ Len(e) <= MAX_PDU_LEN
  /\ \/ e[1] = fc /\ fc \in SUPPORTED_FUNCTION_CODES
     \/ Len(e) = 2 /\ e[1] = SetHighBit(fc) /\ e[2] \in Refusals

(* The response survives the wire, and nothing is raised in its place.     *)
ComesBack(response, fc, bit_count) ==
  /\ ReplyFits(EncodeResponse(response), fc)
  /\ DecodeResponse(EncodeResponse(response), bit_count) = response
  /\ ~Raised(response)

LEMMA RecordsAreNotRaised ==
  /\ \A fc, a, n, v : ~Raised(Request(fc, a, n, v))
  /\ \A fc, code : ~Raised(Exception(fc, code))
<1>1. \A fc, a, n, v : DOMAIN Request(fc, a, n, v) = {"fc", "error", "address", "count", "values"}
  BY DEF Request
<1>2. \A fc, code : DOMAIN Exception(fc, code) = {"fc", "error", "address", "count", "values"}
  BY DEF Exception
<1>3. {"fc", "error", "address", "count", "values"} # {"raises"}
  OBVIOUS
<1> QED
  BY <1>1, <1>2, <1>3, Zenon DEF Raised

LEMMA RefusalFits ==
  ASSUME NEW fc \in Byte, NEW code \in Refusals
  PROVE  ReplyFits(EncodeResponse(Exception(fc, code)), fc)
<1>1. PICK h, e : h = SetHighBit(fc) /\ e = <<h, code>>
  OBVIOUS
<1>2. EncodeResponse(Exception(fc, code)) = e /\ h \in Byte /\ code \in Byte
  BY <1>1, ExceptionReply, Zenon DEF Refusals
<1>3. e \in Seq(Byte) /\ e # <<>> /\ Len(e) = 2 /\ e[1] = h /\ e[2] = code
  BY <1>1, <1>2
<1>4. 2 <= MAX_PDU_LEN
  BY DEF MAX_PDU_LEN
<1> QED
  BY <1>1, <1>2, <1>3, <1>4 DEF ReplyFits

LEMMA RefusalComesBack ==
  ASSUME NEW fc \in SUPPORTED_FUNCTION_CODES, NEW code \in Refusals, NEW bit_count
  PROVE  ComesBack(Exception(fc, code), fc, bit_count)
<1>1. fc \in Byte /\ fc < EXCEPTION_MASK
  BY CodesAreBytes
<1>2. EncodeResponse(Exception(fc, code)) = <<SetHighBit(fc), code>>
      /\ DecodeResponse(<<SetHighBit(fc), code>>, bit_count) = Exception(fc, code)
  BY <1>1, ExceptionReply DEF Refusals
<1> QED
  BY <1>1, <1>2, RefusalFits, RecordsAreNotRaised, Zenon DEF ComesBack

LEMMA ReplyComesBack ==
  ASSUME NEW e, NEW fc \in SUPPORTED_FUNCTION_CODES, NEW a, NEW n, NEW v, NEW bit_count,
         IsReplyTo(e, Request(fc, a, n, v), bit_count)
  PROVE  ComesBack(Request(fc, a, n, v), fc, bit_count)
<1>1. Request(fc, a, n, v).error = NO_EXCEPTION /\ Request(fc, a, n, v).fc = fc
  BY DEF Request
<1> QED
  BY <1>1, RecordsAreNotRaised, Zenon DEF IsReplyTo, ComesBack, ReplyFits

(* What a request has, when handle_request gets past its checks.           *)
LEMMA CheckedRequest ==
  ASSUME NEW dev, NEW r, r.fc \in SUPPORTED_FUNCTION_CODES, Verdict(dev, r) = NO_EXCEPTION
  PROVE  /\ r.fc \notin SINGLE_WRITE_CODES => Quantity(r) \in 1..LimitOf(r.fc)
         /\ InBlock(dev[RegionOf(r.fc)], r.address, Quantity(r))
<1>1. QuantityAccepted(r) /\ AddressAccepted(dev, r)
  BY DEF Verdict, ILLEGAL_DATA_VALUE, ILLEGAL_DATA_ADDRESS, NO_EXCEPTION
<1> QED
  BY <1>1 DEF QuantityAccepted, AddressAccepted

LEMMA AnswerComesBack ==
  ASSUME NEW dev, Holds(dev), NEW r, Sendable(r), Verdict(dev, r) = NO_EXCEPTION
  PROVE  ComesBack(Answer(dev, r), r.fc, BitsAsked(r))
<1>1. /\ r.fc \in SUPPORTED_FUNCTION_CODES /\ r.address \in Nat /\ r.address \in Word
      /\ r = Request(r.fc, r.address, r.count, r.values)
      /\ r.fc \notin READ_CODES => r.values \in Seq(ValuesOf(RegionOf(r.fc)))
  BY SendableWrites DEF Sendable
<1>2. CASE IsRead(r)
  <2>1. r.fc \in READ_CODES /\ r.count \in Word /\ r.count \in Nat /\ Quantity(r) = r.count
        /\ r.fc \notin SINGLE_WRITE_CODES
    BY <1>2, FieldsAreNumbers, CodesDiffer DEF IsRead, Quantity, SINGLE_WRITE_CODES
  <2>2. PICK R, n, v : R = RegionOf(r.fc) /\ n = r.count /\ v = ReadBlock(dev[R], r.address, n)
    OBVIOUS
  <2>3. InBlock(dev[R], r.address, n) /\ n \in 1..LimitOf(r.fc) /\ n \in Nat
    BY <1>1, <2>1, <2>2, CheckedRequest
  <2>4. v \in Seq(ValuesOf(R)) /\ Len(v) = n
    <3>1. R \in Regions
      BY <1>1, <2>2, RegionsOfCodes
    <3>2. dev[R] \in Seq(ValuesOf(R))
      BY <3>1, BlockOfDevice
    <3> QED
      BY <1>1, <2>2, <2>3, <3>2, ReadBlockIsSeq
  <2>5. Answer(dev, r) = Request(r.fc, 0, 0, v)
    BY <2>1, <2>2 DEF Answer, Request
  <2>6. CASE r.fc \in {READ_COILS, READ_DISCRETE_INPUTS}
    <3>1. v \in Seq(BOOLEAN) /\ Len(v) <= MAX_READ_BITS
      <4>1. ValuesOf(R) = BOOLEAN /\ LimitOf(r.fc) = MAX_READ_BITS
        BY <2>2, <2>6, RegionsOfCodes
      <4> QED
        BY <2>3, <2>4, <4>1, LimitsAssumption
    <3>2. PICK e : IsReplyTo(e, Request(r.fc, 0, 0, v), Len(v))
      BY <2>6, <3>1, BitsReply
    <3>3. BitsAsked(r) = Len(v)
      BY <2>2, <2>4, <2>6 DEF BitsAsked
    <3> QED
      BY <1>1, <2>5, <3>2, <3>3, ReplyComesBack, Zenon
  <2>7. CASE r.fc \notin {READ_COILS, READ_DISCRETE_INPUTS}
    <3>0. r.fc \in {READ_HOLDING_REGISTERS, READ_INPUT_REGISTERS}
      BY <2>1, <2>7 DEF READ_CODES
    <3>1. v \in Seq(Word) /\ Len(v) <= MAX_READ_REGISTERS
      <4>1. ValuesOf(R) = Word /\ LimitOf(r.fc) = MAX_READ_REGISTERS
        BY <2>2, <3>0, RegionsOfCodes
      <4> QED
        BY <2>3, <2>4, <4>1, LimitsAssumption
    <3>2. PICK e : IsReplyTo(e, Request(r.fc, 0, 0, v), -1)
      BY <3>0, <3>1, RegistersReply
    <3>3. BitsAsked(r) = -1
      BY <2>7 DEF BitsAsked
    <3> QED
      BY <1>1, <2>5, <3>2, <3>3, ReplyComesBack, Zenon
  <2> QED
    BY <2>6, <2>7
<1>3. CASE IsWriteCoil(r)
  <2>1. PICK b \in BOOLEAN : r.fc = WRITE_SINGLE_COIL /\ r.count = 0 /\ r.values = <<b>>
    BY <1>3 DEF IsWriteCoil
  <2>2. PICK w \in Word : w \in {COIL_ON, COIL_OFF} /\ (w = COIL_ON) = b
    <3>1. COIL_ON \in Word /\ COIL_OFF \in Word /\ COIL_ON # COIL_OFF
      BY DEF COIL_ON, COIL_OFF, Word
    <3>2. CASE b
      BY <3>1, <3>2
    <3>3. CASE ~b
      BY <3>1, <3>3
    <3> QED
      BY <3>2, <3>3
  <2>3. PICK e : e = <<r.fc>> \o PackWord(r.address) \o PackWord(w)
    OBVIOUS
  <2>4. r.values = <<w = COIL_ON>>
    BY <2>1, <2>2
  <2>5. IsReplyTo(e, Request(r.fc, r.address, r.count, r.values), BitsAsked(r))
    BY <1>1, <2>1, <2>2, <2>3, <2>4, WriteReply, CodesDiffer, Zenon
  <2>6. Answer(dev, r) = r
    BY <2>1, CodesDiffer DEF Answer, SINGLE_WRITE_CODES
  <2> QED
    BY <1>1, <2>5, <2>6, ReplyComesBack, Zenon
<1>4. CASE IsWriteRegister(r)
  <2>1. PICK w \in Word : r.fc = WRITE_SINGLE_REGISTER /\ r.count = 0 /\ r.values = <<w>>
    BY <1>4 DEF IsWriteRegister
  <2>2. PICK e : e = <<r.fc>> \o PackWord(r.address) \o PackWord(w)
    OBVIOUS
  <2>3. IsReplyTo(e, Request(r.fc, r.address, r.count, r.values), BitsAsked(r))
    BY <1>1, <2>1, <2>2, WriteReply, CodesDiffer, Zenon
  <2>4. Answer(dev, r) = r
    BY <2>1, CodesDiffer DEF Answer, SINGLE_WRITE_CODES
  <2> QED
    BY <1>1, <2>3, <2>4, ReplyComesBack, Zenon
<1>5. CASE IsWriteCoils(r) \/ IsWriteRegisters(r)
  <2>1. r.fc = WRITE_MULTIPLE_COILS \/ r.fc = WRITE_MULTIPLE_REGISTERS
    BY <1>5 DEF IsWriteCoils, IsWriteRegisters
  <2>2. PICK w \in Word : w = Len(r.values)
    BY <1>5 DEF IsWriteCoils, IsWriteRegisters
  <2>3. PICK e, none : e = <<r.fc>> \o PackWord(r.address) \o PackWord(w) /\ none = <<>>
    OBVIOUS
  <2>4. r.fc \notin READ_CODES /\ r.fc \notin SINGLE_WRITE_CODES
        /\ r.fc # WRITE_SINGLE_COIL /\ r.fc # WRITE_SINGLE_REGISTER
    BY <2>1, CodesDiffer DEF SINGLE_WRITE_CODES
  <2>5. IsReplyTo(e, Request(r.fc, r.address, w, none), BitsAsked(r))
    BY <1>1, <2>2, <2>3, <2>4, WriteReply, Zenon
  <2>6. Answer(dev, r) = Request(r.fc, r.address, w, none)
    BY <2>2, <2>3, <2>4 DEF Answer, Request
  <2> QED
    BY <1>1, <2>5, <2>6, ReplyComesBack, Zenon
<1> QED
  BY <1>2, <1>3, <1>4, <1>5, Zenon DEF Sendable

LEMMA ResponseComesBack ==
  ASSUME NEW dev, Holds(dev), NEW r, Sendable(r)
  PROVE  ComesBack(Response(dev, r), r.fc, BitsAsked(r))
<1>1. r.fc \in SUPPORTED_FUNCTION_CODES /\ r.error = NO_EXCEPTION
  BY SendableWrites
<1>2. CASE Verdict(dev, r) = NO_EXCEPTION
  <2>1. Response(dev, r) = Answer(dev, r)
    BY <1>2, Zenon DEF Response
  <2> QED
    BY <1>2, <2>1, AnswerComesBack, Zenon
<1>3. CASE Verdict(dev, r) # NO_EXCEPTION
  <2>1. PICK code : code = Verdict(dev, r)
    OBVIOUS
  <2>2. code \in Refusals
    <3>1. code = ILLEGAL_DATA_VALUE \/ code = ILLEGAL_DATA_ADDRESS
      BY <1>1, <1>3, <2>1, Zenon DEF Verdict
    <3> QED
      BY <3>1, Zenon DEF Refusals
  <2>3. Response(dev, r) = Exception(r.fc, code)
    BY <1>3, <2>1, Zenon DEF Response
  <2> QED
    BY <1>1, <2>2, <2>3, RefusalComesBack, Zenon
<1> QED
  BY <1>2, <1>3

(* Whatever PDU arrives, its reply fits and is about its function code.    *)
LEMMA EveryReplyFits ==
  ASSUME NEW dev, Holds(dev), NEW pdu \in Seq(Byte)
  PROVE  /\ IsDecoded(DecodeRequest(pdu))
         /\ ReplyFits(EncodeResponse(Response(dev, DecodeRequest(pdu))),
                      IF pdu = <<>> THEN 0 ELSE pdu[1])
<1>1. PICK r, fc : r = DecodeRequest(pdu) /\ fc = IF pdu = <<>> THEN 0 ELSE pdu[1]
  OBVIOUS
<1>2. CASE WellFormed(pdu)
  <2>1. Sendable(r) /\ r.fc = fc
    BY <1>1, <1>2, WellFormedIsSendable, Zenon DEF WellFormed
  <2> QED
    BY <1>1, <2>1, ResponseComesBack, Zenon DEF ComesBack, IsDecoded
<1>3. CASE ~WellFormed(pdu)
  <2>1. fc \in Byte
    <3>1. CASE pdu = <<>>
      BY <1>1, <3>1 DEF Byte
    <3>2. CASE pdu # <<>>
      <4>1. 1 \in 1..Len(pdu)
        BY <3>2, LenProperties, EmptySeq
      <4> QED
        BY <1>1, <3>2, <4>1, ElementOfSeq
    <3> QED
      BY <3>1, <3>2
  <2>2. r = Refuse(fc, ILLEGAL_FUNCTION) \/ r = Refuse(fc, ILLEGAL_DATA_VALUE)
    BY <1>1, <1>3, OthersAreRefused, Zenon
  <2>3. PICK code \in {ILLEGAL_FUNCTION, ILLEGAL_DATA_VALUE} : r = Refuse(fc, code)
    BY <2>2
  <2>4. r.fc = fc /\ r.error = code /\ code # NO_EXCEPTION /\ code \in Refusals
    BY <2>3 DEF Refuse, ILLEGAL_FUNCTION, ILLEGAL_DATA_VALUE, NO_EXCEPTION, Refusals
  <2>5. Response(dev, r) = Exception(fc, code)
    BY <2>4, Zenon DEF Response, Verdict
  <2>6. ReplyFits(EncodeResponse(Exception(fc, code)), fc)
    BY <2>1, <2>4, RefusalFits
  <2> QED
    BY <1>1, <2>1, <2>3, <2>4, <2>5, <2>6, Zenon DEF IsDecoded
<1> QED
  BY <1>2, <1>3

-----------------------------------------------------------------------------
(* What the caller may ask for, and why it may not get an answer.          *)

LEMMA OneValue ==
  ASSUME NEW S, NEW v \in Seq(S), Len(v) = 1
  PROVE  v[1] \in S /\ v = <<v[1]>>
<1>1. 1 \in 1..Len(v)
  OBVIOUS
<1>2. v[1] \in S
  BY ONLY v \in Seq(S), <1>1, ElementOfSeq
<1> QED
  BY <1>2

(* Integers that are all 16-bit fields.                                    *)
LEMMA AllWords ==
  ASSUME NEW v \in Seq(Int), \A i \in 1..Len(v) : v[i] \in Word
  PROVE  v \in Seq(Word)
<1>1. PICK n \in Nat : n = Len(v)
  BY LenProperties
<1>2. v \in [1..n -> Int]
  BY <1>1, LenProperties
<1>3. v \in [1..n -> Word]
  BY <1>1, <1>2
<1> QED
  BY <1>3, FunctionIsSeq

(* The function codes and the values of a call.                            *)
LEMMA CallKinds ==
  ASSUME NEW r, IsCall(r)
  PROVE  /\ r = Request(r.fc, r.address, r.count, r.values)
         /\ r.fc \in SUPPORTED_FUNCTION_CODES
         /\ \/ r.fc \in READ_CODES /\ r.values = <<>>
            \/ r.fc = WRITE_SINGLE_COIL /\ r.count = 0
               /\ r.values \in Seq(BOOLEAN) /\ Len(r.values) = 1
            \/ r.fc = WRITE_SINGLE_REGISTER /\ r.count = 0
               /\ r.values \in Seq(Int) /\ Len(r.values) = 1
            \/ r.fc = WRITE_MULTIPLE_COILS /\ r.count = 0 /\ r.values \in Seq(BOOLEAN)
            \/ r.fc = WRITE_MULTIPLE_REGISTERS /\ r.count = 0 /\ r.values \in Seq(Int)
<1>1. /\ r = Request(r.fc, r.address, r.count, r.values)
      /\ r.fc \in SUPPORTED_FUNCTION_CODES
      /\ r.fc \in READ_CODES => r.values = <<>>
      /\ r.fc \in WRITE_CODES => r.count = 0
      /\ r.fc \in WRITE_CODES => r.values \in Seq(IF RegionOf(r.fc) = COILS THEN BOOLEAN ELSE Int)
      /\ r.fc \in SINGLE_WRITE_CODES => Len(r.values) = 1
  BY Zenon DEF IsCall
<1>2. \/ r.fc \in READ_CODES \/ r.fc = WRITE_SINGLE_COIL \/ r.fc = WRITE_SINGLE_REGISTER
      \/ r.fc = WRITE_MULTIPLE_COILS \/ r.fc = WRITE_MULTIPLE_REGISTERS
  BY <1>1 DEF SUPPORTED_FUNCTION_CODES, MULTI_WRITE_CODES
<1>3. /\ WRITE_SINGLE_COIL \in SINGLE_WRITE_CODES /\ WRITE_SINGLE_REGISTER \in SINGLE_WRITE_CODES
      /\ WRITE_SINGLE_COIL \in WRITE_CODES /\ WRITE_SINGLE_REGISTER \in WRITE_CODES
      /\ WRITE_MULTIPLE_COILS \in WRITE_CODES /\ WRITE_MULTIPLE_REGISTERS \in WRITE_CODES
  BY DEF WRITE_CODES, SINGLE_WRITE_CODES, MULTI_WRITE_CODES
<1>4. HOLDING_REGISTERS # COILS
  BY DEF HOLDING_REGISTERS, COILS
<1>5. CASE r.fc \in READ_CODES
  BY <1>1, <1>5
<1>6. CASE r.fc = WRITE_SINGLE_COIL
  <2>1. RegionOf(r.fc) = COILS
    BY <1>6, RegionsOfCodes
  <2> QED
    BY <1>1, <1>3, <1>6, <2>1, Zenon
<1>7. CASE r.fc = WRITE_SINGLE_REGISTER
  <2>1. RegionOf(r.fc) # COILS
    BY <1>4, <1>7, RegionsOfCodes
  <2> QED
    BY <1>1, <1>3, <1>7, <2>1, Zenon
<1>8. CASE r.fc = WRITE_MULTIPLE_COILS
  <2>1. RegionOf(r.fc) = COILS
    BY <1>8, RegionsOfCodes
  <2> QED
    BY <1>1, <1>3, <1>8, <2>1, Zenon
<1>9. CASE r.fc = WRITE_MULTIPLE_REGISTERS
  <2>1. RegionOf(r.fc) # COILS
    BY <1>4, <1>9, RegionsOfCodes
  <2> QED
    BY <1>1, <1>3, <1>9, <2>1, Zenon
<1> QED
  BY <1>2, <1>5, <1>6, <1>7, <1>8, <1>9

(* The values of a register write.                                         *)
RegistersOf(r) ==
  IF r.fc \in {WRITE_SINGLE_REGISTER, WRITE_MULTIPLE_REGISTERS} THEN r.values ELSE <<>>

LEMMA EncodableMeans ==
  ASSUME NEW r
  PROVE  Encodable(r) <=>
           /\ r.address \in Word /\ r.count \in Word /\ Len(r.values) \in Word
           /\ \A i \in 1..Len(RegistersOf(r)) : RegistersOf(r)[i] \in Word
           /\ r.fc \in MULTI_WRITE_CODES => Len(Payload(r.fc, r.values)) \in Byte
BY Zenon DEF Encodable, RegistersOf

(* How long the payload of a multiple write is.                            *)
LEMMA PayloadLength ==
  /\ \A v \in Seq(BOOLEAN) : Len(Payload(WRITE_MULTIPLE_COILS, v)) = CeilDiv8(Len(v))
  /\ \A v \in Seq(Word) : Len(Payload(WRITE_MULTIPLE_REGISTERS, v)) = 2 * Len(v)
<1>1. ASSUME NEW v \in Seq(BOOLEAN)
      PROVE  Len(Payload(WRITE_MULTIPLE_COILS, v)) = CeilDiv8(Len(v))
  <2>1. Payload(WRITE_MULTIPLE_COILS, v) = PackBits(v)
    BY DEF Payload
  <2> QED
    BY <2>1, PackBitsIsBytes
<1>2. ASSUME NEW v \in Seq(Word)
      PROVE  Len(Payload(WRITE_MULTIPLE_REGISTERS, v)) = 2 * Len(v)
  <2>1. Payload(WRITE_MULTIPLE_REGISTERS, v) = PackRegisters(v)
    BY DEF Payload, READ_COILS, READ_DISCRETE_INPUTS, WRITE_MULTIPLE_COILS,
           WRITE_MULTIPLE_REGISTERS
  <2> QED
    BY <2>1, PackRegistersIsBytes
<1> QED
  BY <1>1, <1>2

(* What struct.pack lets through can be sent.                              *)
LEMMA CallIsSendable ==
  ASSUME NEW r, IsCall(r), Encodable(r)
  PROVE  Sendable(r)
<1>1. /\ r = Request(r.fc, r.address, r.count, r.values)
      /\ r.fc \in SUPPORTED_FUNCTION_CODES
  BY CallKinds, Zenon
<1>2. /\ r.address \in Word /\ r.count \in Word /\ Len(r.values) \in Word
      /\ \A i \in 1..Len(RegistersOf(r)) : RegistersOf(r)[i] \in Word
      /\ r.fc \in MULTI_WRITE_CODES => Len(Payload(r.fc, r.values)) \in Byte
  BY EncodableMeans, Zenon
<1>3. CASE r.fc \in READ_CODES /\ r.values = <<>>
  BY <1>1, <1>2, <1>3, Zenon DEF Sendable, IsRead
<1>4. CASE r.fc = WRITE_SINGLE_COIL /\ r.count = 0
           /\ r.values \in Seq(BOOLEAN) /\ Len(r.values) = 1
  <2>1. \E b \in BOOLEAN : r.values = <<b>>
    BY <1>4, OneValue
  <2> QED
    BY <1>1, <1>2, <1>4, <2>1, Zenon DEF Sendable, IsWriteCoil
<1>5. CASE r.fc = WRITE_SINGLE_REGISTER /\ r.count = 0
           /\ r.values \in Seq(Int) /\ Len(r.values) = 1
  <2>1. RegistersOf(r) = r.values
    BY <1>5 DEF RegistersOf
  <2>2. r.values \in Seq(Word)
    BY <1>2, <1>5, <2>1, AllWords
  <2>3. \E w \in Word : r.values = <<w>>
    BY <1>5, <2>2, OneValue
  <2> QED
    BY <1>1, <1>2, <1>5, <2>3, Zenon DEF Sendable, IsWriteRegister
<1>6. CASE r.fc = WRITE_MULTIPLE_COILS /\ r.count = 0 /\ r.values \in Seq(BOOLEAN)
  <2>1. CeilDiv8(Len(r.values)) \in Byte
    BY <1>2, <1>6, PayloadLength, CodesDiffer
  <2> QED
    BY <1>1, <1>2, <1>6, <2>1, Zenon DEF Sendable, IsWriteCoils
<1>7. CASE r.fc = WRITE_MULTIPLE_REGISTERS /\ r.count = 0 /\ r.values \in Seq(Int)
  <2>1. RegistersOf(r) = r.values
    BY <1>7 DEF RegistersOf
  <2>2. r.values \in Seq(Word)
    BY <1>2, <1>7, <2>1, AllWords
  <2>3. 2 * Len(r.values) \in Byte
    BY <1>2, <1>7, <2>2, PayloadLength, CodesDiffer
  <2> QED
    BY <1>1, <1>2, <1>7, <2>2, <2>3, Zenon DEF Sendable, IsWriteRegisters
<1> QED
  BY <1>3, <1>4, <1>5, <1>6, <1>7, CallKinds
=============================================================================
