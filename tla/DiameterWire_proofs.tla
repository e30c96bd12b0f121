------------------------ MODULE DiameterWire_proofs ------------------------
(***************************************************************************)
(* Proofs about the Diameter codec and about the streams: every message is *)
(* read as it was written, whatever its AVPs and however deep its groups,  *)
(* and the streams of DiameterWire stay in step.                           *)
(***************************************************************************)
EXTENDS DiameterWire, WellFoundedInduction, SequenceTheorems, TLAPS

---------------------------------------------------------------------------
(* Lengths, for every length: TLC only sees short messages, and the high    *)
(* byte of a length is zero in them.                                        *)

(***************************************************************************)
(* What WriteTo writes as the length (or the command code) is what         *)
(* ReadFrom reads, for every length that fits, and the parts fit in the    *)
(* byte and in the word.                                                   *)
(***************************************************************************)
LengthsSurvive ==
    \A n \in 0..MaxLen :
        /\ SplitHigh(n) \in 0..255
        /\ SplitLow(n) \in 0..(Word - 1)
        /\ JoinLen(SplitHigh(n), SplitLow(n)) = n

(***************************************************************************)
(* Another implementation, which takes the three bytes for one number (a   *)
(* word of one more), reads the same length exactly below Word.            *)
(***************************************************************************)
StandardBelowWord ==
    \A n \in 0..MaxLen :
        (SplitHigh(n) * (Word + 1)) + SplitLow(n) = n <=> n < Word

(***************************************************************************)
(* A length and its padding are a multiple of four, and less than four     *)
(* bytes are added: the AVPs of a message start at multiples of four.      *)
(***************************************************************************)
PaddingAligns ==
    \A n \in Nat :
        /\ PadLen(n) \in 0..3
        /\ (n + PadLen(n)) % 4 = 0
        /\ PadLen(n + PadLen(n)) = 0

LEMMA WordPositive == Word \in Nat \ {0}
  BY WordAssumption

\* The quotient and the rest by which the parts are computed.
LEMMA Division ==
    ASSUME NEW n \in Nat
    PROVE  /\ n \div Word \in Nat
           /\ n % Word \in 0..(Word - 1)
           /\ n = (Word * (n \div Word)) + (n % Word)
  BY WordPositive

\* A factor that is greater by one adds at least a word to a product.
LEMMA Product ==
    ASSUME NEW q \in Nat, NEW k \in Nat, q >= k
    PROVE  Word * q >= Word * k
  BY WordPositive

\* The quotient of a length that fits is a byte, so that uint8 drops nothing.
LEMMA HighIsByte ==
    ASSUME NEW n \in 0..MaxLen
    PROVE  /\ n \div Word \in 0..255
           /\ (n \div Word) % 256 = n \div Word
<1>1. n \in Nat /\ n < Word * 256
  BY WordPositive DEF MaxLen
<1>2. n \div Word \in 0..255
  <2> DEFINE q == n \div Word
  <2>0. q \in Nat
    BY <1>1, Division
  <2>1. SUFFICES ASSUME q >= 256 PROVE FALSE
    <3> HIDE DEF q
    <3>1. ~(q >= 256) => q \in 0..255
      BY <2>0
    <3> QED
      BY <3>1 DEF q
  <2>2. Word * (n \div Word) >= Word * 256
    BY <1>1, <2>1, Division, Product
  <2>3. Word * (n \div Word) \in Int /\ Word * 256 \in Int
    BY <1>1, Division, WordPositive
  <2> QED
    BY <1>1, <2>2, <2>3, Division
<1>3. \A q \in 0..255 : q % 256 = q
  OBVIOUS
<1> QED
  BY <1>2, <1>3

\* Above the word the parts are the quotient and the rest.
LEMMA Parts ==
    ASSUME NEW n \in 0..MaxLen, ~(n < Word)
    PROVE  SplitHigh(n) = n \div Word /\ SplitLow(n) = n % Word
  BY HighIsByte DEF SplitHigh, SplitLow

\* The lengths that are written are the lengths that are read.
THEOREM LengthRoundTrip == LengthsSurvive
<1> SUFFICES ASSUME NEW n \in 0..MaxLen
             PROVE  /\ SplitHigh(n) \in 0..255
                    /\ SplitLow(n) \in 0..(Word - 1)
                    /\ JoinLen(SplitHigh(n), SplitLow(n)) = n
  BY DEF LengthsSurvive
<1>1. n \in Nat
  BY WordPositive DEF MaxLen
<1>2. CASE n < Word
  BY <1>1, <1>2, WordPositive DEF SplitHigh, SplitLow, JoinLen
<1>3. CASE ~(n < Word)
  <2>1. SplitHigh(n) = n \div Word /\ SplitLow(n) = n % Word
    BY <1>3, Parts
  <2>2. (Word * (n \div Word)) = (n \div Word) * Word
    BY <1>1, Division, WordPositive
  <2> QED
    BY <1>1, <2>1, <2>2, HighIsByte, Division DEF JoinLen
<1> QED
  BY <1>2, <1>3

\* From Word bytes on, a peer that follows the standard misreads the length.
THEOREM LengthInterworks == StandardBelowWord
<1> SUFFICES ASSUME NEW n \in 0..MaxLen
             PROVE  (SplitHigh(n) * (Word + 1)) + SplitLow(n) = n <=> n < Word
  BY DEF StandardBelowWord
<1>1. n \in Nat
  BY WordPositive DEF MaxLen
<1>2. CASE n < Word
  BY <1>1, <1>2, WordPositive DEF SplitHigh, SplitLow
<1>3. CASE ~(n < Word)
  <2> DEFINE q == n \div Word
             r == n % Word
  <2>1. SplitHigh(n) = q /\ SplitLow(n) = r
    BY <1>3, Parts
  <2>2. q \in Nat /\ r \in 0..(Word - 1) /\ n = (Word * q) + r
    BY <1>1, Division
  <2>3. q >= 1
    <3>1. q = 0 => Word * q = 0
      BY WordPositive
    <3> QED
      BY <1>1, <1>3, <2>2, <3>1, WordPositive
  <2>4. q * (Word + 1) = (Word * q) + q
    BY <2>2, WordPositive
  <2> HIDE DEF q, r
  <2>5. (q * (Word + 1)) + r # n
    BY <1>1, <2>2, <2>3, <2>4, WordPositive
  <2> QED
    BY <1>3, <2>1, <2>5
<1> QED
  BY <1>2, <1>3

\* AVPs start at multiples of four.
THEOREM Padding == PaddingAligns
  BY DEF PaddingAligns, PadLen

---------------------------------------------------------------------------
(* Induction. The theorems of the library take the property as an operator; *)
(* here it is a set, and the least element of a set of naturals does it.    *)

\* A set of natural numbers has a least element.
LEMMA LeastNatural ==
    ASSUME NEW T \in SUBSET Nat, T # {}
    PROVE  \E x \in T : \A y \in T : x <= y
<1> DEFINE R == OpToRel(<, Nat)
<1>1. IsWellFoundedOn(R, Nat)
  BY NatLessThanWellFounded
<1>2. \A x, y \in Nat : <<y, x>> \in R <=> y < x
  BY DEF OpToRel
<1> HIDE DEF R
<1>3. PICK x \in T : \A y \in T : ~(<<y, x>> \in R)
  BY <1>1, WFMin
<1>4. ASSUME NEW y \in T PROVE x <= y
  <2>1. x \in Nat /\ y \in Nat
    OBVIOUS
  <2>2. ~(y < x)
    BY <1>2, <1>3, <2>1, Zenon
  <2> QED
    BY <2>1, <2>2
<1> QED
  BY <1>4

\* What holds of a number if it holds of all the smaller ones holds of all.
LEMMA StrongInduction ==
    ASSUME NEW T, \A n \in Nat : (\A k \in Nat : k < n => k \in T) => n \in T
    PROVE  \A n \in Nat : n \in T
<1> DEFINE U == Nat \ T
<1> SUFFICES ASSUME U # {} PROVE FALSE
  OBVIOUS
<1>1. U \in SUBSET Nat
  OBVIOUS
<1> HIDE DEF U
<1>2. PICK x \in U : \A y \in U : x <= y
  BY <1>1, LeastNatural
<1>3. x \in Nat /\ x \notin T
  BY DEF U
<1>4. ASSUME NEW k \in Nat, k < x PROVE k \in T
  <2>1. ~(x <= k)
    BY <1>3, <1>4
  <2> QED
    BY <1>2, <2>1 DEF U
<1> QED
  BY <1>3, <1>4

\* The usual form: zero, and with every number its successor.
LEMMA Induction ==
    ASSUME NEW T, 0 \in T, \A n \in Nat : n \in T => n + 1 \in T
    PROVE  \A n \in Nat : n \in T
<1>1. ASSUME NEW n \in Nat, \A k \in Nat : k < n => k \in T
      PROVE  n \in T
  <2>1. CASE n = 0
    BY <2>1
  <2>2. CASE n # 0
    <3>1. n - 1 \in Nat /\ n - 1 < n /\ (n - 1) + 1 = n
      BY <2>2
    <3>2. n - 1 \in T
      BY <1>1, <3>1
    <3> QED
      BY <3>1, <3>2
  <2> QED
    BY <2>1, <2>2
<1> QED
  BY <1>1, StrongInduction

---------------------------------------------------------------------------
(* Recursive functions: that there is a function which satisfies the        *)
(* equation, so that the one the definition chooses does.                   *)

\* A function over the indices of a list, each value from the one behind it.
FromTheBack(f, n, last, G) ==
    f = [i \in 1..(n + 1) |-> IF i > n THEN last ELSE G[<<i, f[i + 1]>>]]

LEMMA SuffixRecursion ==
    ASSUME NEW S, NEW last \in S, NEW n \in Nat, NEW G \in [(1..n) \X S -> S]
    PROVE  \E f \in [1..(n + 1) -> S] : FromTheBack(f, n, last, G)
<1> DEFINE Solves(f, k) ==
             \A i \in (n + 1 - k)..(n + 1) :
                 f[i] = IF i > n THEN last ELSE G[<<i, f[i + 1]>>]
           T == {k \in Nat : k <= n => \E f \in [1..(n + 1) -> S] : Solves(f, k)}
<1>1. 0 \in T
  <2> DEFINE f == [i \in 1..(n + 1) |-> last]
  <2>1. f \in [1..(n + 1) -> S] /\ Solves(f, 0)
    OBVIOUS
  <2> HIDE DEF f
  <2> QED
    BY <2>1
<1>2. ASSUME NEW k \in Nat, k \in T PROVE k + 1 \in T
  <2> SUFFICES ASSUME k + 1 <= n PROVE \E f \in [1..(n + 1) -> S] : Solves(f, k + 1)
    OBVIOUS
  <2>1. PICK f \in [1..(n + 1) -> S] : Solves(f, k)
    BY <1>2
  <2> DEFINE j == n - k
             g == [f EXCEPT ![j] = G[<<j, f[j + 1]>>]]
  <2>2. j \in 1..n /\ j + 1 \in 1..(n + 1) /\ n + 1 - (k + 1) = j /\ n + 1 - k = j + 1
    OBVIOUS
  <2>3. g \in [1..(n + 1) -> S] /\ g[j] = G[<<j, f[j + 1]>>]
    BY <2>2
  <2>4. \A i \in 1..(n + 1) : i # j => g[i] = f[i]
    OBVIOUS
  <2> HIDE DEF g
  <2>5. ASSUME NEW i \in (n + 1 - (k + 1))..(n + 1)
        PROVE  g[i] = IF i > n THEN last ELSE G[<<i, g[i + 1]>>]
    <3>1. CASE i = j
      <4>1. g[j + 1] = f[j + 1]
        BY <2>2, <2>4
      <4> QED
        BY <2>2, <2>3, <3>1, <4>1
    <3>2. CASE i # j
      <4>1. i \in (n + 1 - k)..(n + 1) /\ i \in 1..(n + 1)
        BY <2>2, <3>2
      <4>2. i <= n => g[i + 1] = f[i + 1]
        BY <2>2, <2>4, <4>1
      <4>3. g[i] = f[i]
        BY <2>4, <3>2, <4>1
      <4>4. f[i] = IF i > n THEN last ELSE G[<<i, f[i + 1]>>]
        BY <2>1, <4>1
      <4>5. CASE i > n
        BY <4>3, <4>4, <4>5
      <4>6. CASE ~(i > n)
        <5>1. g[i + 1] = f[i + 1]
          BY <4>1, <4>2, <4>6
        <5> QED
          BY <4>3, <4>4, <4>6, <5>1
      <4> QED
        BY <4>5, <4>6
    <3> QED
      BY <3>1, <3>2
  <2> QED
    BY <2>3, <2>5
<1>3. n \in T
  <2> HIDE DEF T
  <2> QED
    BY <1>1, <1>2, Induction
<1>4. PICK f \in [1..(n + 1) -> S] : Solves(f, n)
  BY <1>3
<1>5. FromTheBack(f, n, last, G)
  BY <1>4 DEF FromTheBack
<1> QED
  BY <1>5

\* Induction over the indices of a list, from the back.
LEMMA SuffixInduction ==
    ASSUME NEW n \in Nat, NEW T, n + 1 \in T,
           \A i \in 1..n : i + 1 \in T => i \in T
    PROVE  \A i \in 1..(n + 1) : i \in T
<1> DEFINE U == {k \in Nat : k <= n => n + 1 - k \in T}
<1>1. 0 \in U
  OBVIOUS
<1>2. ASSUME NEW k \in Nat, k \in U PROVE k + 1 \in U
  <2>1. CASE k + 1 <= n
    <3>1. n - k \in 1..n /\ n + 1 - (k + 1) = n - k /\ (n - k) + 1 = n + 1 - k /\ k <= n
      BY <2>1
    <3>2. n + 1 - k \in T
      BY <1>2, <3>1
    <3> QED
      BY <3>1, <3>2
  <2> QED
    BY <2>1
<1>3. \A k \in Nat : k \in U
  <2> HIDE DEF U
  <2> QED
    BY <1>1, <1>2, Induction
<1>4. ASSUME NEW i \in 1..(n + 1) PROVE i \in T
  <2>1. n + 1 - i \in Nat /\ n + 1 - i <= n /\ n + 1 - (n + 1 - i) = i
    OBVIOUS
  <2> QED
    BY <1>3, <2>1
<1> QED
  BY <1>4

\* What Total adds up, from the back.
LEMMA TotalParts ==
    ASSUME NEW lens \in Seq(Nat)
    PROVE  \E f \in [1..(Len(lens) + 1) -> Nat] :
               /\ Total(lens) = f[1]
               /\ f[Len(lens) + 1] = 0
               /\ \A i \in 1..Len(lens) : f[i] = lens[i] + f[i + 1]
<1> DEFINE n == Len(lens)
           Adds(f) == [i \in 1..(n + 1) |-> IF i > n THEN 0 ELSE lens[i] + f[i + 1]]
           G == [p \in (1..n) \X Nat |-> lens[p[1]] + p[2]]
<1>1. n \in Nat /\ 0 \in Nat /\ \A i \in 1..n : lens[i] \in Nat
  OBVIOUS
<1>2. G \in [(1..n) \X Nat -> Nat]
  BY <1>1
<1>3. \A i \in 1..n, v \in Nat : G[<<i, v>>] = lens[i] + v
  OBVIOUS
<1>4. PICK f \in [1..(n + 1) -> Nat] : FromTheBack(f, n, 0, G)
  <2> HIDE DEF G, n
  <2> QED
    BY <1>1, <1>2, SuffixRecursion
<1> HIDE DEF G
<1>5. f = Adds(f)
  <2>1. ASSUME NEW i \in 1..(n + 1), ~(i > n)
        PROVE  G[<<i, f[i + 1]>>] = lens[i] + f[i + 1]
    <3>1. i \in 1..n /\ i + 1 \in 1..(n + 1)
      BY <1>1, <2>1
    <3> QED
      BY <1>3, <3>1
  <2>2. \A i \in 1..(n + 1) : f[i] = IF i > n THEN 0 ELSE lens[i] + f[i + 1]
    BY <1>4, <2>1 DEF FromTheBack
  <2> QED
    BY <2>2
<1>6. PICK g : g = Adds(g) /\ Total(lens) = g[1]
  BY <1>5, Zenon DEF Total
<1> HIDE DEF n
<1>7. \A i \in 1..(n + 1) : g[i] = IF i > n THEN 0 ELSE lens[i] + g[i + 1]
  BY <1>6
<1>8. g[n + 1] = 0
  BY <1>1, <1>7
<1>9. \A i \in 1..n : g[i] = lens[i] + g[i + 1]
  BY <1>1, <1>7
<1>10. g \in [1..(n + 1) -> Nat]
  <2> DEFINE T == {i \in 1..(n + 1) : g[i] \in Nat}
  <2>1. n + 1 \in T
    BY <1>1, <1>8
  <2>2. ASSUME NEW i \in 1..n, i + 1 \in T PROVE i \in T
    <3>1. i \in 1..(n + 1) /\ lens[i] \in Nat /\ g[i + 1] \in Nat
      BY <1>1, <2>2
    <3> QED
      BY <1>9, <3>1
  <2>3. \A i \in 1..(n + 1) : i \in T
    <3> HIDE DEF T
    <3> QED
      BY <1>1, <2>1, <2>2, SuffixInduction
  <2> QED
    BY <1>6, <2>3
<1> QED
  BY <1>6, <1>8, <1>9, <1>10 DEF n

\* What Joined puts together, from the back.
LEMMA JoinedParts ==
    ASSUME NEW parts \in Seq(Seq(Byte))
    PROVE  \E f \in [1..(Len(parts) + 1) -> Seq(Byte)] :
               /\ Joined(parts) = f[1]
               /\ f[Len(parts) + 1] = <<>>
               /\ \A i \in 1..Len(parts) : f[i] = parts[i] \o f[i + 1]
<1> DEFINE n == Len(parts)
           S == Seq(Byte)
           Puts(f) == [i \in 1..(n + 1) |-> IF i > n THEN <<>> ELSE parts[i] \o f[i + 1]]
           G == [p \in (1..n) \X S |-> parts[p[1]] \o p[2]]
<1>1. n \in Nat /\ <<>> \in S /\ \A i \in 1..n : parts[i] \in S
  OBVIOUS
<1>2. G \in [(1..n) \X S -> S]
  BY <1>1
<1>3. \A i \in 1..n, v \in S : G[<<i, v>>] = parts[i] \o v
  OBVIOUS
<1>4. PICK f \in [1..(n + 1) -> S] : FromTheBack(f, n, <<>>, G)
  <2> HIDE DEF G, n, S
  <2> QED
    BY <1>1, <1>2, SuffixRecursion
<1> HIDE DEF G
<1>5. f = Puts(f)
  <2>1. ASSUME NEW i \in 1..(n + 1), ~(i > n)
        PROVE  G[<<i, f[i + 1]>>] = parts[i] \o f[i + 1]
    <3>1. i \in 1..n /\ i + 1 \in 1..(n + 1)
      BY <1>1, <2>1
    <3> QED
      BY <1>3, <3>1
  <2>2. \A i \in 1..(n + 1) : f[i] = IF i > n THEN <<>> ELSE parts[i] \o f[i + 1]
    BY <1>4, <2>1 DEF FromTheBack
  <2> QED
    BY <2>2
<1>6. PICK g : g = Puts(g) /\ Joined(parts) = g[1]
  BY <1>5, Zenon DEF Joined
<1> HIDE DEF n
<1>7. \A i \in 1..(n + 1) : g[i] = IF i > n THEN <<>> ELSE parts[i] \o g[i + 1]
  BY <1>6
<1>8. g[n + 1] = <<>>
  BY <1>1, <1>7
<1>9. ASSUME NEW i \in 1..n PROVE g[i] = parts[i] \o g[i + 1]
  <2>1. i \in 1..(n + 1) /\ ~(i > n)
    BY <1>1
  <2> QED
    BY <1>7, <2>1
<1>a. \A a, b \in S : a \o b \in S
  OBVIOUS
<1> HIDE DEF S
<1>10. g \in [1..(n + 1) -> S]
  <2> DEFINE T == {i \in 1..(n + 1) : g[i] \in S}
  <2>1. n + 1 \in T
    <3>1. n + 1 \in 1..(n + 1)
      BY <1>1
    <3> QED
      BY <1>1, <1>8, <3>1
  <2>2. ASSUME NEW i \in 1..n, i + 1 \in T PROVE i \in T
    <3>1. i \in 1..(n + 1) /\ parts[i] \in S /\ g[i + 1] \in S
      BY <1>1, <2>2
    <3> QED
      BY <1>9, <1>a, <3>1
  <2>3. \A i \in 1..(n + 1) : i \in T
    <3> HIDE DEF T
    <3> QED
      BY <1>1, <2>1, <2>2, SuffixInduction
  <2> QED
    BY <1>6, <2>3
<1> QED
  BY <1>6, <1>8, <1>9, <1>10 DEF n, S

\* The joined parts have the total of their lengths.
LEMMA JoinedLength ==
    ASSUME NEW parts \in Seq(Seq(Byte)), NEW lens \in Seq(Nat),
           Len(parts) = Len(lens),
           \A i \in 1..Len(parts) : Len(parts[i]) = lens[i]
    PROVE  Joined(parts) \in Seq(Byte) /\ Len(Joined(parts)) = Total(lens)
<1> DEFINE n == Len(parts)
<1>0. n = Len(lens)
  OBVIOUS
<1>1. PICK f \in [1..(n + 1) -> Seq(Byte)] :
          /\ Joined(parts) = f[1]
          /\ f[n + 1] = <<>>
          /\ \A i \in 1..n : f[i] = parts[i] \o f[i + 1]
  BY JoinedParts
<1>a. PICK g \in [1..(Len(lens) + 1) -> Nat] :
          /\ Total(lens) = g[1]
          /\ g[Len(lens) + 1] = 0
          /\ \A i \in 1..Len(lens) : g[i] = lens[i] + g[i + 1]
  BY TotalParts
<1>2. /\ g \in [1..(n + 1) -> Nat]
      /\ Total(lens) = g[1]
      /\ g[n + 1] = 0
      /\ \A i \in 1..n : g[i] = lens[i] + g[i + 1]
  BY <1>0, <1>a
<1>3. n \in Nat /\ \A i \in 1..n : parts[i] \in Seq(Byte) /\ Len(parts[i]) = lens[i]
  OBVIOUS
<1> HIDE DEF n
<1> DEFINE T == {i \in 1..(n + 1) : Len(f[i]) = g[i]}
<1>4. n + 1 \in T
  BY <1>1, <1>2, <1>3
<1>5. ASSUME NEW i \in 1..n, i + 1 \in T PROVE i \in T
  <2>1. i \in 1..(n + 1) /\ i + 1 \in 1..(n + 1)
    BY <1>3
  <2>2. Len(f[i + 1]) = g[i + 1]
    BY <1>5
  <2>3. Len(f[i]) = Len(parts[i]) + Len(f[i + 1])
    <3>1. f[i] = parts[i] \o f[i + 1] /\ parts[i] \in Seq(Byte) /\ f[i + 1] \in Seq(Byte)
      BY <1>1, <1>3, <2>1
    <3> QED
      BY <3>1
  <2> QED
    BY <1>2, <1>3, <2>1, <2>2, <2>3
<1>6. 1 \in T
  <2> HIDE DEF T
  <2>1. \A i \in 1..(n + 1) : i \in T
    BY <1>3, <1>4, <1>5, SuffixInduction
  <2> QED
    BY <1>3, <2>1
<1> QED
  BY <1>1, <1>2, <1>3, <1>6

---------------------------------------------------------------------------
(* Induction and recursion over the AVPs and those inside them.             *)

\* The AVPs inside an AVP are AVPs, of less depth.
LEMMA InnerAvps ==
    ASSUME NEW a \in Avps
    PROVE  /\ a.avps \in Seq(Avps)
           /\ DOMAIN a.avps = 1..Len(a.avps)
           /\ Depth[a] \in Nat
           /\ \A i \in DOMAIN a.avps :
                  /\ a.avps[i] \in Avps
                  /\ Depth[a.avps[i]] \in Nat
                  /\ Depth[a.avps[i]] < Depth[a]
<1>1. a \in AvpRecords
  BY AvpsAssumption
<1>2. a.avps \in Seq(Avps)
  BY <1>1 DEF AvpRecords
<1>3. DOMAIN a.avps = 1..Len(a.avps) /\ \A i \in DOMAIN a.avps : a.avps[i] \in Avps
  BY <1>2
<1>4. Depth \in [Avps -> Nat]
  BY AvpsAssumption
<1>5. \A i \in DOMAIN a.avps : Depth[a.avps[i]] < Depth[a]
  BY AvpsAssumption
<1> QED
  BY <1>2, <1>3, <1>4, <1>5

\* What holds of an AVP if it holds of those inside it holds of all.
LEMMA AvpInduction ==
    ASSUME NEW T,
           \A a \in Avps : (\A i \in DOMAIN a.avps : a.avps[i] \in T) => a \in T
    PROVE  \A a \in Avps : a \in T
<1> DEFINE U == {n \in Nat : \A a \in Avps : Depth[a] = n => a \in T}
<1>1. ASSUME NEW n \in Nat, \A k \in Nat : k < n => k \in U
      PROVE  n \in U
  <2> SUFFICES ASSUME NEW a \in Avps, Depth[a] = n PROVE a \in T
    OBVIOUS
  <2>1. ASSUME NEW i \in DOMAIN a.avps PROVE a.avps[i] \in T
    <3>1. a.avps[i] \in Avps /\ Depth[a.avps[i]] \in Nat /\ Depth[a.avps[i]] < n
      BY InnerAvps
    <3>2. Depth[a.avps[i]] \in U
      BY <1>1, <3>1
    <3> QED
      BY <3>1, <3>2
  <2> QED
    BY <2>1
<1>2. \A n \in Nat : n \in U
  <2> HIDE DEF U
  <2> QED
    BY <1>1, StrongInduction
<1>3. ASSUME NEW a \in Avps PROVE a \in T
  <2>1. Depth[a] \in Nat
    BY InnerAvps
  <2> QED
    BY <1>2, <2>1
<1> QED
  BY <1>3

\* The values of f at the AVPs inside a, and a function over the AVPs whose
\* value at each comes from them.
Inner(f, a) == [i \in DOMAIN a.avps |-> f[a.avps[i]]]
FromInner(f, G) == f = [a \in Avps |-> G[<<a, Inner(f, a)>>]]

LEMMA InnerType ==
    ASSUME NEW S, NEW f, NEW a \in Avps, \A i \in DOMAIN a.avps : f[a.avps[i]] \in S
    PROVE  Inner(f, a) \in Seq(S)
<1>1. DOMAIN a.avps = 1..Len(a.avps) /\ Len(a.avps) \in Nat
  BY InnerAvps
<1> QED
  BY <1>1 DEF Inner

LEMMA InnerEqual ==
    ASSUME NEW f, NEW g, NEW a \in Avps,
           \A i \in DOMAIN a.avps : f[a.avps[i]] = g[a.avps[i]]
    PROVE  Inner(f, a) = Inner(g, a)
  BY DEF Inner

LEMMA AvpRecursion ==
    ASSUME NEW S, NEW G \in [Avps \X Seq(S) -> S]
    PROVE  \E f \in [Avps -> S] : FromInner(f, G)
<1> DEFINE Solves(h, d) ==
             /\ h \in [Avps -> S]
             /\ \A a \in Avps : Depth[a] < d => h[a] = G[<<a, Inner(h, a)>>]
<1>1. ASSUME NEW h \in [Avps -> S], NEW a \in Avps
      PROVE  Inner(h, a) \in Seq(S) /\ G[<<a, Inner(h, a)>>] \in S
  <2>1. Inner(h, a) \in Seq(S)
    BY InnerAvps, InnerType
  <2> QED
    BY <2>1
<1>2. \A d \in Nat : \E h : Solves(h, d)
  <2> DEFINE T == {d \in Nat : \E h : Solves(h, d)}
  <2>1. 0 \in T
    <3>0. PICK none : none \in Seq(S)
      BY EmptySeq
    <3> DEFINE h == [a \in Avps |-> G[<<a, none>>]]
    <3>1. h \in [Avps -> S]
      BY <3>0
    <3>2. \A a \in Avps : ~(Depth[a] < 0)
      BY InnerAvps
    <3> HIDE DEF h
    <3>3. Solves(h, 0)
      BY <3>1, <3>2
    <3> QED
      BY <3>3
  <2>2. ASSUME NEW d \in Nat, d \in T PROVE d + 1 \in T
    <3>1. PICK h : Solves(h, d)
      BY <2>2
    <3> DEFINE g == [a \in Avps |-> G[<<a, Inner(h, a)>>]]
    <3>2. g \in [Avps -> S]
      BY <1>1, <3>1
    <3>3. \A a \in Avps : g[a] = G[<<a, Inner(h, a)>>]
      OBVIOUS
    <3> HIDE DEF g
    <3>4. ASSUME NEW a \in Avps, Depth[a] < d + 1
          PROVE  Inner(g, a) = Inner(h, a)
      <4>1. ASSUME NEW i \in DOMAIN a.avps PROVE g[a.avps[i]] = h[a.avps[i]]
        <5>1. a.avps[i] \in Avps /\ Depth[a.avps[i]] < d
          BY <3>4, InnerAvps
        <5>2. h[a.avps[i]] = G[<<a.avps[i], Inner(h, a.avps[i])>>]
          BY <3>1, <5>1
        <5>3. g[a.avps[i]] = G[<<a.avps[i], Inner(h, a.avps[i])>>]
          BY <3>3, <5>1
        <5> QED
          BY <5>2, <5>3
      <4> QED
        BY <4>1, InnerEqual
    <3>5. Solves(g, d + 1)
      BY <3>2, <3>3, <3>4
    <3> QED
      BY <3>5
  <2> HIDE DEF T
  <2>3. \A d \in Nat : d \in T
    BY <2>1, <2>2, Induction
  <2> QED
    BY <2>3 DEF T
<1>3. ASSUME NEW g, NEW h, NEW d \in Nat, NEW e \in Nat, Solves(g, d), Solves(h, e)
      PROVE  \A a \in Avps : Depth[a] < d /\ Depth[a] < e => g[a] = h[a]
  <2> DEFINE T == {a \in Avps : Depth[a] < d /\ Depth[a] < e => g[a] = h[a]}
  <2>1. ASSUME NEW a \in Avps, \A i \in DOMAIN a.avps : a.avps[i] \in T
        PROVE  a \in T
    <3> SUFFICES ASSUME Depth[a] < d, Depth[a] < e PROVE g[a] = h[a]
      OBVIOUS
    <3>1. ASSUME NEW i \in DOMAIN a.avps PROVE g[a.avps[i]] = h[a.avps[i]]
      <4>1. Depth[a.avps[i]] < d /\ Depth[a.avps[i]] < e
        BY InnerAvps
      <4> QED
        BY <2>1, <4>1
    <3>2. Inner(g, a) = Inner(h, a)
      BY <3>1, InnerEqual
    <3> QED
      BY <1>3, <3>2
  <2>2. \A a \in Avps : a \in T
    <3> HIDE DEF T
    <3> QED
      BY <2>1, AvpInduction
  <2> QED
    BY <2>2
<1> DEFINE H == [d \in Nat |-> CHOOSE h : Solves(h, d)]
           f == [a \in Avps |-> H[Depth[a] + 1][a]]
<1>4. \A d \in Nat : Solves(H[d], d)
  <2>1. ASSUME NEW d \in Nat PROVE Solves(CHOOSE h : Solves(h, d), d)
    <3>1. \E h : Solves(h, d)
      BY <1>2
    <3> HIDE DEF Solves
    <3> QED
      BY <3>1, Zenon
  <2>2. \A d \in Nat : H[d] = CHOOSE h : Solves(h, d)
    OBVIOUS
  <2> HIDE DEF Solves, H
  <2> QED
    BY <2>1, <2>2, Zenon
<1> HIDE DEF H
<1>5. \A a \in Avps : f[a] = H[Depth[a] + 1][a] /\ Depth[a] + 1 \in Nat
  BY InnerAvps
<1>6. f \in [Avps -> S]
  BY <1>4, <1>5
<1> HIDE DEF f
<1>7. ASSUME NEW a \in Avps PROVE f[a] = G[<<a, Inner(f, a)>>]
  <2> DEFINE d == Depth[a] + 1
  <2>1. d \in Nat /\ Solves(H[d], d) /\ Depth[a] < d
    BY <1>4, InnerAvps
  <2>2. ASSUME NEW i \in DOMAIN a.avps PROVE f[a.avps[i]] = H[d][a.avps[i]]
    <3> DEFINE b == a.avps[i]
               e == Depth[b] + 1
    <3>1. b \in Avps /\ e \in Nat /\ Depth[b] < e /\ Depth[b] < d
      BY InnerAvps
    <3>2. f[b] = H[e][b] /\ Solves(H[e], e)
      BY <1>4, <1>5, <3>1
    <3> HIDE DEF b, e, d, Solves
    <3>3. H[e][b] = H[d][b]
      BY <1>3, <2>1, <3>1, <3>2
    <3> QED
      BY <3>2, <3>3 DEF b
  <2>3. Inner(f, a) = Inner(H[d], a)
    BY <2>2, InnerEqual
  <2>4. H[d][a] = G[<<a, Inner(H[d], a)>>]
    BY <2>1
  <2> QED
    BY <1>5, <2>3, <2>4
<1>8. FromInner(f, G)
  BY <1>6, <1>7 DEF FromInner
<1> QED
  BY <1>6, <1>8

---------------------------------------------------------------------------
(* What the recursive functions of the codec are equal to.                  *)

\* Every AVP has a type of the code, and a value of that type.
LEMMA AvpType ==
    ASSUME NEW a \in Avps
    PROVE  /\ TypeOf(a) \in DiameterTypes
           /\ a.code \in Word32 /\ a.vendor \in Word32
           /\ a.flags \in SUBSET {"mandatory", "protected"}
           /\ a.data \in Seq(Byte)
           /\ DataOK(TypeOf(a), a.data)
           /\ TypeOf(a) # "Grouped" => a.avps = <<>>
           /\ TypeOf(a) = "Grouped" => a.data = <<>>
<1>1. a \in AvpRecords /\ DataOK(TypeOf(a), a.data)
      /\ (TypeOf(a) # "Grouped" => a.avps = <<>>)
  BY AvpsAssumption
<1>2. TypeOf(a) \in DiameterTypes
  BY TypesAssumption DEF TypeOf, DictType, DiameterTypes, Octets
<1>3. TypeOf(a) = "Grouped" => a.data = <<>>
  BY <1>1 DEF DataOK
<1> QED
  BY <1>1, <1>2, <1>3 DEF AvpRecords

\* The types, one by one.
LEMMA TypeCases ==
    ASSUME NEW t \in DiameterTypes
    PROVE  \/ t \in Octets \cup Strings
           \/ t \in Words
           \/ t \in DoubleWords
           \/ t = "Grouped"
           \/ t = "Address"
           \/ t = "IPv4Address"
           \/ t = "IPv6Address"
           \/ t = "IPv6Prefix"
  BY DEF DiameterTypes

LEMMA AlignedType ==
    ASSUME NEW n \in Nat
    PROVE  /\ PadLen(n) \in 0..3
           /\ Aligned(n) \in Nat
           /\ Aligned(n) >= n
           /\ Aligned(n) % 4 = 0
  BY DEF Aligned, PadLen

LEMMA SizeType ==
    ASSUME NEW a \in Avps, NEW lens \in Seq(Nat)
    PROVE  /\ SizeOf(a, lens) \in Nat
           /\ SizeOf(a, lens) >= HeaderLen(a.vendor)
<1> DEFINE t == TypeOf(a)
<1>1. t \in DiameterTypes /\ Len(a.data) \in Nat
  BY AvpType
<1>2. Total(lens) \in Nat
  <2>1. PICK f \in [1..(Len(lens) + 1) -> Nat] : Total(lens) = f[1]
    BY TotalParts
  <2> QED
    BY <2>1
<1>3. HeaderLen(a.vendor) \in Nat
  BY DEF HeaderLen
<1> HIDE DEF t
<1> DEFINE value == CASE t \in Octets \cup Strings -> Len(a.data)
                      [] t \in Words -> 4
                      [] t \in DoubleWords -> 8
                      [] t = "Grouped" -> Total(lens)
                      [] t = "Address" -> IF IsV4(a.data) THEN 6 ELSE 18
                      [] t = "IPv4Address" -> 4
                      [] t = "IPv6Address" -> 16
                      [] t = "IPv6Prefix" -> 18
<1>4. value \in Nat
  BY <1>1, <1>2, TypeCases
<1>5. SizeOf(a, lens) = HeaderLen(a.vendor) + value
  BY DEF SizeOf, t
<1> HIDE DEF value
<1> QED
  BY <1>3, <1>4, <1>5

\* The equation of DataLen.
LEMMA DataLenEquation ==
    /\ DataLen \in [Avps -> Nat]
    /\ \A a \in Avps :
          DataLen[a] = SizeOf(a, [i \in DOMAIN a.avps |-> Aligned(DataLen[a.avps[i]])])
<1> DEFINE Sized(f) ==
             [a \in Avps |-> SizeOf(a, [i \in DOMAIN a.avps |-> Aligned(f[a.avps[i]])])]
           Lens(s) == [i \in DOMAIN s |-> Aligned(s[i])]
           G == [p \in Avps \X Seq(Nat) |-> SizeOf(p[1], Lens(p[2]))]
<1>1. ASSUME NEW s \in Seq(Nat) PROVE Lens(s) \in Seq(Nat)
  <2>1. DOMAIN s = 1..Len(s) /\ Len(s) \in Nat /\ \A i \in 1..Len(s) : s[i] \in Nat
    OBVIOUS
  <2>2. \A i \in 1..Len(s) : Aligned(s[i]) \in Nat
    BY <2>1, AlignedType
  <2> QED
    BY <2>1, <2>2
<1>2. G \in [Avps \X Seq(Nat) -> Nat]
  <2>1. ASSUME NEW p \in Avps \X Seq(Nat) PROVE SizeOf(p[1], Lens(p[2])) \in Nat
    <3>1. p[1] \in Avps /\ Lens(p[2]) \in Seq(Nat)
      BY <1>1
    <3> HIDE DEF Lens
    <3> QED
      BY <3>1, SizeType
  <2> QED
    BY <2>1
<1>3. \A a \in Avps, s \in Seq(Nat) : G[<<a, s>>] = SizeOf(a, Lens(s))
  OBVIOUS
<1>4. PICK f \in [Avps -> Nat] : FromInner(f, G)
  <2> HIDE DEF G
  <2> QED
    BY <1>2, AvpRecursion
<1> HIDE DEF G
<1>5. f = Sized(f)
  <2>1. ASSUME NEW a \in Avps
        PROVE  f[a] = SizeOf(a, [i \in DOMAIN a.avps |-> Aligned(f[a.avps[i]])])
    <3>1. Inner(f, a) \in Seq(Nat)
      BY InnerAvps, InnerType
    <3>2. Lens(Inner(f, a)) = [i \in DOMAIN a.avps |-> Aligned(f[a.avps[i]])]
      BY DEF Inner
    <3>3. f[a] = G[<<a, Inner(f, a)>>]
      BY <1>4 DEF FromInner
    <3> HIDE DEF Lens
    <3> QED
      BY <1>3, <3>1, <3>2, <3>3
  <2> QED
    BY <2>1
<1>6. DataLen = Sized(DataLen)
  BY <1>5, Zenon DEF DataLen
<1>7. \A a \in Avps : DataLen[a] = SizeOf(a, Lens(Inner(DataLen, a)))
  <2>1. \A a \in Avps : Lens(Inner(DataLen, a)) = [i \in DOMAIN a.avps |-> Aligned(DataLen[a.avps[i]])]
    BY DEF Inner
  <2> HIDE DEF Lens
  <2> QED
    BY <1>6, <2>1
<1> DEFINE T == {a \in Avps : DataLen[a] \in Nat}
<1>8. ASSUME NEW a \in Avps, \A i \in DOMAIN a.avps : a.avps[i] \in T
      PROVE  a \in T
  <2>1. Inner(DataLen, a) \in Seq(Nat)
    BY <1>8, InnerType
  <2>2. Lens(Inner(DataLen, a)) \in Seq(Nat)
    BY <1>1, <2>1
  <2> HIDE DEF Lens
  <2> QED
    BY <1>7, <2>2, SizeType
<1>9. \A a \in Avps : a \in T
  <2> HIDE DEF T
  <2> QED
    BY <1>8, AvpInduction
<1> QED
  BY <1>6, <1>9

---------------------------------------------------------------------------
(* Bytes: what is written of a number, of a length and of flags, and that   *)
(* reading it gives the same.                                               *)

LEMMA Bytes2Type ==
    ASSUME NEW n \in Nat
    PROVE  Bytes2(n) \in Seq(Byte) /\ Len(Bytes2(n)) = 2
<1>1. n % 256 \in Byte /\ (n \div 256) % 256 \in Byte
  BY DEF Byte
<1> QED
  BY <1>1 DEF Bytes2

LEMMA Bytes4Type ==
    ASSUME NEW n \in Nat
    PROVE  Bytes4(n) \in Seq(Byte) /\ Len(Bytes4(n)) = 4
<1>1. /\ n % 256 \in Byte /\ (n \div 256) % 256 \in Byte
      /\ (n \div 65536) % 256 \in Byte /\ (n \div 16777216) % 256 \in Byte
  BY DEF Byte
<1> QED
  BY <1>1 DEF Bytes4

LEMMA FourBytes ==
    ASSUME NEW n \in Word32
    PROVE  Number4(Bytes4(n)) = n
<1>1. n \in Nat /\ n \div 16777216 < 256
  BY DEF Word32
<1>2. (n \div 16777216) % 256 = n \div 16777216
  BY <1>1
<1>3. /\ n \div 65536 = (256 * (n \div 16777216)) + ((n \div 65536) % 256)
      /\ n \div 256 = (256 * (n \div 65536)) + ((n \div 256) % 256)
      /\ n = (256 * (n \div 256)) + (n % 256)
  BY <1>1
<1>4. n = (16777216 * (n \div 16777216)) + (65536 * ((n \div 65536) % 256))
              + (256 * ((n \div 256) % 256)) + (n % 256)
  BY <1>1, <1>3
<1> QED
  BY <1>1, <1>2, <1>4 DEF Number4, Bytes4

LEMMA TwoBytes ==
    ASSUME NEW n \in Nat, n < 65536
    PROVE  Number2(Bytes2(n)) = n
  BY DEF Number2, Bytes2

\* The three bytes of a length or of a command.
LEMMA LenBytesType ==
    ASSUME NEW n \in 0..MaxLen
    PROVE  /\ LenBytes(n) \in Seq(Byte) /\ Len(LenBytes(n)) = 3
           /\ LenOf(LenBytes(n)) = n
<1>1. /\ SplitHigh(n) \in 0..255
      /\ SplitLow(n) \in 0..(Word - 1)
      /\ JoinLen(SplitHigh(n), SplitLow(n)) = n
  BY LengthRoundTrip DEF LengthsSurvive
<1>2. SplitLow(n) \in Nat /\ SplitLow(n) < 65536
  BY <1>1, WordAssumption
<1>3. Bytes2(SplitLow(n)) \in Seq(Byte) /\ Len(Bytes2(SplitLow(n))) = 2
  BY <1>2, Bytes2Type
<1>4. SplitHigh(n) \in Byte
  BY <1>1 DEF Byte
<1>5. Number2(Bytes2(SplitLow(n))) = SplitLow(n)
  BY <1>2, TwoBytes
<1> DEFINE s == Bytes2(SplitLow(n))
           h == SplitHigh(n)
<1> HIDE DEF s, h
<1>6. LenBytes(n) = <<h>> \o s
  BY DEF LenBytes, h, s
<1>7. <<h>> \o s \in Seq(Byte) /\ Len(<<h>> \o s) = 3 /\ (<<h>> \o s)[1] = h
      /\ SubSeq(<<h>> \o s, 2, 3) = s
  <2>1. s \in Seq(Byte) /\ Len(s) = 2 /\ h \in Byte
    BY <1>3, <1>4 DEF s, h
  <2> DEFINE c == <<h>>
  <2>2. c \in Seq(Byte) /\ Len(c) = 1 /\ c[1] = h
    BY <2>1
  <2> HIDE DEF c
  <2>3. c \o s \in Seq(Byte) /\ Len(c \o s) = 3 /\ (c \o s)[1] = h
    BY <2>1, <2>2, ConcatProperties, SMTT(30)
  <2>4. SubSeq(c \o s, 2, 3) = SubSeq(s, 1, 2)
    BY <2>1, <2>2, SubSeqOfConcat2, SMTT(30)
  <2>5. SubSeq(s, 1, 2) = s
    BY <2>1, SubSeqFull
  <2> QED
    BY <2>3, <2>4, <2>5 DEF c
<1>8. LenOf(LenBytes(n)) = JoinLen(h, Number2(s))
  BY <1>6, <1>7 DEF LenOf
<1> QED
  BY <1>1, <1>5, <1>6, <1>7, <1>8 DEF s, h

\* The flags of an AVP, with the bit of the vendor.
LEMMA AvpFlagsRead ==
    ASSUME NEW flags \in SUBSET {"mandatory", "protected"}, NEW v \in {0, 128}
    PROVE  /\ AvpBits(flags) + v \in Byte
           /\ AvpBits(flags) + v >= 128 <=> v = 128
           /\ FlagSet(AvpBits(flags) + v, AvpFlags) = flags
<1>1. DOMAIN AvpFlags = {"mandatory", "protected"}
      /\ AvpFlags["mandatory"] = 64 /\ AvpFlags["protected"] = 32
  BY DEF AvpFlags
<1> DEFINE m == IF "mandatory" \in flags THEN 64 ELSE 0
           p == IF "protected" \in flags THEN 32 ELSE 0
<1>2. AvpBits(flags) = m + p
  BY <1>1 DEF AvpBits, Bit
<1>3. /\ m + p + v \in Byte
      /\ m + p + v >= 128 <=> v = 128
      /\ ((m + p + v) \div 64) % 2 = 1 <=> "mandatory" \in flags
      /\ ((m + p + v) \div 32) % 2 = 1 <=> "protected" \in flags
  BY DEF Byte
<1> HIDE DEF m, p
<1>4. FlagSet(m + p + v, AvpFlags) = flags
  <2> DEFINE b == m + p + v
  <2> HIDE DEF b
  <2>1. ASSUME NEW f \in {"mandatory", "protected"}
        PROVE  (b \div AvpFlags[f]) % 2 = 1 <=> f \in flags
    BY <1>1, <1>3 DEF b
  <2>2. FlagSet(b, AvpFlags) = {f \in {"mandatory", "protected"} : (b \div AvpFlags[f]) % 2 = 1}
    BY <1>1 DEF FlagSet
  <2>3. FlagSet(b, AvpFlags) \subseteq flags /\ flags \subseteq FlagSet(b, AvpFlags)
    BY <2>1, <2>2
  <2>4. FlagSet(b, AvpFlags) = flags
    BY <2>3
  <2> QED
    BY <2>4 DEF b
<1> QED
  BY <1>2, <1>3, <1>4

\* The flags of a message.
LEMMA MessageFlagsRead ==
    ASSUME NEW flags \in SUBSET DOMAIN MessageFlags
    PROVE  /\ MessageBits(flags) \in Byte
           /\ FlagSet(MessageBits(flags), MessageFlags) = flags
<1>1. /\ DOMAIN MessageFlags = {"request", "proxyable", "error", "retransmission"}
      /\ MessageFlags["request"] = 128 /\ MessageFlags["proxyable"] = 64
      /\ MessageFlags["error"] = 32 /\ MessageFlags["retransmission"] = 16
  BY DEF MessageFlags
<1> DEFINE r == IF "request" \in flags THEN 128 ELSE 0
           p == IF "proxyable" \in flags THEN 64 ELSE 0
           e == IF "error" \in flags THEN 32 ELSE 0
           t == IF "retransmission" \in flags THEN 16 ELSE 0
<1>2. MessageBits(flags) = r + p + e + t
  BY <1>1 DEF MessageBits, Bit
<1>3. /\ r + p + e + t \in Byte
      /\ ((r + p + e + t) \div 128) % 2 = 1 <=> "request" \in flags
      /\ ((r + p + e + t) \div 64) % 2 = 1 <=> "proxyable" \in flags
      /\ ((r + p + e + t) \div 32) % 2 = 1 <=> "error" \in flags
      /\ ((r + p + e + t) \div 16) % 2 = 1 <=> "retransmission" \in flags
  BY DEF Byte
<1> HIDE DEF r, p, e, t
<1>4. FlagSet(r + p + e + t, MessageFlags) = flags
  BY <1>1, <1>3 DEF FlagSet
<1> QED
  BY <1>2, <1>3, <1>4

---------------------------------------------------------------------------
(* What is written of an AVP, and how long it is.                           *)

LEMMA ConcatType ==
    ASSUME NEW s \in Seq(Byte), NEW t \in Seq(Byte)
    PROVE  s \o t \in Seq(Byte) /\ Len(s \o t) = Len(s) + Len(t)
  BY ConcatProperties

LEMMA FillType ==
    ASSUME NEW b \in Byte, NEW n \in Nat
    PROVE  Fill(b, n) \in Seq(Byte) /\ Len(Fill(b, n)) = n
  BY DEF Fill

LEMMA SmallBytes ==
    /\ 0 \in Byte /\ 1 \in Byte /\ 2 \in Byte /\ 255 \in Byte
    /\ <<0, 1>> \in Seq(Byte) /\ Len(<<0, 1>>) = 2
    /\ <<0, 2>> \in Seq(Byte) /\ Len(<<0, 2>>) = 2
    /\ <<0>> \in Seq(Byte) /\ Len(<<0>>) = 1
    /\ <<1>> \in Seq(Byte) /\ Len(<<1>>) = 1
  BY DEF Byte

\* The byte with the flags and the bit of the vendor.
FlagsOf(a) == AvpBits(a.flags) + IF a.vendor > 0 THEN 128 ELSE 0
VendorOf(a) == IF a.vendor > 0 THEN Bytes4(a.vendor) ELSE <<>>

LEMMA HeaderParts ==
    ASSUME NEW a \in Avps
    PROVE  /\ Bytes4(a.code) \in Seq(Byte) /\ Len(Bytes4(a.code)) = 4
           /\ <<FlagsOf(a)>> \in Seq(Byte) /\ Len(<<FlagsOf(a)>>) = 1
           /\ FlagsOf(a) \in Byte
           /\ FlagsOf(a) >= 128 <=> a.vendor > 0
           /\ FlagSet(FlagsOf(a), AvpFlags) = a.flags
           /\ DataLen[a] \in 0..MaxLen
           /\ LenBytes(DataLen[a]) \in Seq(Byte) /\ Len(LenBytes(DataLen[a])) = 3
           /\ LenOf(LenBytes(DataLen[a])) = DataLen[a]
           /\ VendorOf(a) \in Seq(Byte)
           /\ a.vendor > 0 => Len(VendorOf(a)) = 4 /\ VendorOf(a) = Bytes4(a.vendor)
           /\ ~(a.vendor > 0) => a.vendor = 0 /\ VendorOf(a) = <<>> /\ Len(VendorOf(a)) = 0
           /\ WriteHeader(a) = Bytes4(a.code) \o <<FlagsOf(a)>>
                                  \o LenBytes(DataLen[a]) \o VendorOf(a)
<1>1. a.code \in Nat /\ a.vendor \in Nat /\ a.flags \in SUBSET {"mandatory", "protected"}
  BY AvpType DEF Word32
<1>2. DataLen[a] \in Nat /\ DataLen[a] <= MaxLen
  BY DataLenEquation, LengthsAssumption
<1>3. DataLen[a] \in 0..MaxLen
  BY <1>2, WordAssumption DEF MaxLen
<1>4. Bytes4(a.code) \in Seq(Byte) /\ Len(Bytes4(a.code)) = 4
  BY <1>1, Bytes4Type
<1>5. /\ LenBytes(DataLen[a]) \in Seq(Byte) /\ Len(LenBytes(DataLen[a])) = 3
      /\ LenOf(LenBytes(DataLen[a])) = DataLen[a]
  BY <1>3, LenBytesType
<1>6. /\ FlagsOf(a) \in Byte
      /\ FlagsOf(a) >= 128 <=> a.vendor > 0
      /\ FlagSet(FlagsOf(a), AvpFlags) = a.flags
  <2>1. CASE a.vendor > 0
    BY <1>1, <2>1, AvpFlagsRead DEF FlagsOf
  <2>2. CASE ~(a.vendor > 0)
    BY <1>1, <2>2, AvpFlagsRead DEF FlagsOf
  <2> QED
    BY <2>1, <2>2
<1>7. <<FlagsOf(a)>> \in Seq(Byte) /\ Len(<<FlagsOf(a)>>) = 1
  BY <1>6
<1>8. /\ VendorOf(a) \in Seq(Byte)
      /\ a.vendor > 0 => Len(VendorOf(a)) = 4 /\ VendorOf(a) = Bytes4(a.vendor)
      /\ ~(a.vendor > 0) => a.vendor = 0 /\ VendorOf(a) = <<>> /\ Len(VendorOf(a)) = 0
  <2>1. CASE a.vendor > 0
    BY <1>1, <2>1, Bytes4Type DEF VendorOf
  <2>2. CASE ~(a.vendor > 0)
    BY <1>1, <2>2, EmptySeq DEF VendorOf
  <2> QED
    BY <2>1, <2>2
<1>9. WriteHeader(a) = Bytes4(a.code) \o <<FlagsOf(a)>>
                           \o LenBytes(DataLen[a]) \o VendorOf(a)
  BY DEF WriteHeader, FlagsOf, VendorOf
<1> QED
  BY <1>3, <1>4, <1>5, <1>6, <1>7, <1>8, <1>9

LEMMA HeaderType ==
    ASSUME NEW a \in Avps
    PROVE  /\ WriteHeader(a) \in Seq(Byte)
           /\ Len(WriteHeader(a)) = HeaderLen(a.vendor)
<1> DEFINE c == Bytes4(a.code)
           f == <<FlagsOf(a)>>
           l == LenBytes(DataLen[a])
           v == VendorOf(a)
<1>1. /\ c \in Seq(Byte) /\ Len(c) = 4 /\ f \in Seq(Byte) /\ Len(f) = 1
      /\ l \in Seq(Byte) /\ Len(l) = 3 /\ v \in Seq(Byte)
      /\ Len(v) = IF a.vendor = 0 THEN 0 ELSE 4
      /\ WriteHeader(a) = c \o f \o l \o v
  <2>1. a.vendor > 0 => a.vendor # 0
    BY AvpType DEF Word32
  <2> QED
    BY <2>1, HeaderParts
<1> HIDE DEF c, f, l, v
<1>a. c \in Seq(Byte) /\ f \in Seq(Byte) /\ l \in Seq(Byte) /\ v \in Seq(Byte)
  BY <1>1
<1>2. c \o f \in Seq(Byte) /\ Len(c \o f) = Len(c) + Len(f)
  BY <1>a, ConcatType
<1>3. c \o f \o l \in Seq(Byte) /\ Len(c \o f \o l) = Len(c \o f) + Len(l)
  BY <1>a, <1>2, ConcatType
<1>4. c \o f \o l \o v \in Seq(Byte) /\ Len(c \o f \o l \o v) = Len(c \o f \o l) + Len(v)
  BY <1>a, <1>3, ConcatType
<1> QED
  BY <1>1, <1>2, <1>3, <1>4 DEF HeaderLen

\* Sequences of a known length.
LEMMA Tail4Type ==
    ASSUME NEW s \in Seq(Byte), Len(s) >= 4
    PROVE  /\ Tail4(s) \in Seq(Byte) /\ Len(Tail4(s)) = 4
           /\ Len(s) = 4 => Tail4(s) = s
<1>1. Len(s) \in Nat /\ \A i \in (Len(s) - 3)..Len(s) : s[i] \in Byte
  OBVIOUS
<1>2. Tail4(s) \in Seq(Byte) /\ Len(Tail4(s)) = 4
  BY <1>1, SubSeqProperties DEF Tail4
<1>3. ASSUME Len(s) = 4 PROVE Tail4(s) = s
  <2>1. Len(s) - 3 = 1
    BY <1>3
  <2> QED
    BY <2>1, SubSeqFull DEF Tail4
<1> QED
  BY <1>2, <1>3

\* The value as it is written, by type.
LEMMA DataForm ==
    ASSUME NEW a \in Avps, NEW inner
    PROVE  /\ TypeOf(a) \in Octets \cup Strings \cup DoubleWords =>
                  WriteData(a, inner) = a.data
           /\ TypeOf(a) \in DoubleWords => Len(a.data) = 8
           /\ TypeOf(a) \in Words =>
                  WriteData(a, inner) = Tail4(a.data) /\ Len(a.data) = 8
           /\ TypeOf(a) = "Grouped" => WriteData(a, inner) = Joined(inner)
           /\ TypeOf(a) = "Address" =>
                  \/ Len(a.data) = 4 /\ IsV4(a.data) /\ WriteData(a, inner) = <<0, 1>> \o a.data
                  \/ Len(a.data) = 16 /\ ~IsV4(a.data) /\ WriteData(a, inner) = <<0, 2>> \o a.data
           /\ TypeOf(a) = "IPv4Address" => Len(a.data) = 4 /\ WriteData(a, inner) = a.data
           /\ TypeOf(a) = "IPv6Address" => Len(a.data) = 16 /\ WriteData(a, inner) = a.data
           /\ TypeOf(a) = "IPv6Prefix" =>
                  Len(a.data) = 17 /\ WriteData(a, inner) = <<0>> \o a.data
<1> USE DEF Octets, Strings, Words, DoubleWords
<1>1. a.data \in Seq(Byte) /\ DataOK(TypeOf(a), a.data)
  BY AvpType
<1>2. Len(a.data) = 4 => Tail4(a.data) = a.data
  <2> HAVE Len(a.data) = 4
  <2>1. Len(a.data) >= 4
    OBVIOUS
  <2> QED
    BY <1>1, <2>1, Tail4Type
<1> DEFINE t == TypeOf(a)
<1>3. t \in Octets \cup Strings \cup DoubleWords => WriteData(a, inner) = a.data
  BY DEF WriteData
<1>4. t \in DoubleWords => Len(a.data) = 8
  BY <1>1 DEF DataOK
<1>5. t \in Words => WriteData(a, inner) = Tail4(a.data) /\ Len(a.data) = 8
  BY <1>1 DEF DataOK, WriteData, SignedWords
<1>6. t = "Grouped" => WriteData(a, inner) = Joined(inner)
  BY DEF WriteData
<1>7. t = "Address" =>
          \/ Len(a.data) = 4 /\ IsV4(a.data) /\ WriteData(a, inner) = <<0, 1>> \o a.data
          \/ Len(a.data) = 16 /\ ~IsV4(a.data) /\ WriteData(a, inner) = <<0, 2>> \o a.data
  <2> HAVE t = "Address"
  <2>1. WriteData(a, inner) = IF IsV4(a.data) THEN <<0, 1>> \o Tail4(a.data)
                              ELSE <<0, 2>> \o a.data
    BY DEF WriteData
  <2>2. Len(a.data) = 4 \/ (Len(a.data) = 16 /\ ~IsV4(a.data))
    BY <1>1 DEF DataOK
  <2>3. Len(a.data) = 4 => IsV4(a.data)
    BY DEF IsV4
  <2> QED
    BY <1>2, <2>1, <2>2, <2>3
<1>8. t = "IPv4Address" => Len(a.data) = 4 /\ WriteData(a, inner) = a.data
  BY <1>1, <1>2 DEF DataOK, WriteData
<1>9. t = "IPv6Address" => Len(a.data) = 16 /\ WriteData(a, inner) = a.data
  <2> HAVE t = "IPv6Address"
  <2>1. Len(a.data) = 16
    BY <1>1 DEF DataOK
  <2>2. WriteData(a, inner) = To16(a.data)
    BY DEF WriteData
  <2>3. To16(a.data) = a.data
    BY <2>1 DEF To16
  <2> QED
    BY <2>1, <2>2, <2>3
<1>10. t = "IPv6Prefix" => Len(a.data) = 17 /\ WriteData(a, inner) = <<0>> \o a.data
  BY <1>1 DEF DataOK, WriteData
<1> QED
  BY <1>3, <1>4, <1>5, <1>6, <1>7, <1>8, <1>9, <1>10

\* The value is a sequence of bytes, as long as SizeOf says.
LEMMA DataSize ==
    ASSUME NEW a \in Avps, NEW inner \in Seq(Seq(Byte)), NEW lens \in Seq(Nat),
           Len(inner) = Len(lens),
           \A i \in 1..Len(inner) : Len(inner[i]) = lens[i]
    PROVE  /\ WriteData(a, inner) \in Seq(Byte)
           /\ HeaderLen(a.vendor) + Len(WriteData(a, inner)) = SizeOf(a, lens)
<1> USE DEF Octets, Strings, Words, DoubleWords
<1> DEFINE t == TypeOf(a)
           d == a.data
           w == WriteData(a, inner)
           value == CASE t \in Octets \cup Strings -> Len(d)
                      [] t \in Words -> 4
                      [] t \in DoubleWords -> 8
                      [] t = "Grouped" -> Total(lens)
                      [] t = "Address" -> IF IsV4(d) THEN 6 ELSE 18
                      [] t = "IPv4Address" -> 4
                      [] t = "IPv6Address" -> 16
                      [] t = "IPv6Prefix" -> 18
<1>1. t \in DiameterTypes /\ d \in Seq(Byte)
  BY AvpType
<1>2. SizeOf(a, lens) = HeaderLen(a.vendor) + value
  BY DEF SizeOf
<1>3. CASE t \in Octets \cup Strings
  <2>1. w = d
    BY <1>3, DataForm
  <2>2. value = Len(d)
    BY <1>3
  <2> QED
    BY <1>1, <1>2, <2>1, <2>2
<1>4. CASE t \in Words
  <2>1. w = Tail4(d) /\ Len(d) = 8
    BY <1>4, DataForm
  <2>2. value = 4
    BY <1>4
  <2>3. Tail4(d) \in Seq(Byte) /\ Len(Tail4(d)) = 4
    <3>1. Len(d) >= 4
      BY <2>1
    <3> QED
      BY <1>1, <3>1, Tail4Type
  <2> QED
    BY <1>2, <2>1, <2>2, <2>3
<1>5. CASE t \in DoubleWords
  <2>1. w = d /\ Len(d) = 8
    BY <1>5, DataForm
  <2>2. value = 8
    BY <1>5
  <2> QED
    BY <1>1, <1>2, <2>1, <2>2
<1>6. CASE t = "Grouped"
  <2>1. w = Joined(inner)
    BY <1>6, DataForm
  <2>2. value = Total(lens)
    BY <1>6
  <2>3. Joined(inner) \in Seq(Byte) /\ Len(Joined(inner)) = Total(lens)
    BY JoinedLength
  <2> QED
    BY <1>2, <2>1, <2>2, <2>3
<1>7. CASE t = "Address"
  <2>1. \/ Len(d) = 4 /\ IsV4(d) /\ w = <<0, 1>> \o d
        \/ Len(d) = 16 /\ ~IsV4(d) /\ w = <<0, 2>> \o d
    BY <1>7, DataForm
  <2>2. value = IF IsV4(d) THEN 6 ELSE 18
    BY <1>7
  <2>3. /\ <<0, 1>> \o d \in Seq(Byte) /\ Len(<<0, 1>> \o d) = 2 + Len(d)
        /\ <<0, 2>> \o d \in Seq(Byte) /\ Len(<<0, 2>> \o d) = 2 + Len(d)
    BY <1>1, SmallBytes, ConcatType
  <2> HIDE DEF d, w, value
  <2>4. w \in Seq(Byte) /\ Len(w) = value
    <3>1. CASE Len(d) = 4 /\ IsV4(d) /\ w = <<0, 1>> \o d
      BY <2>2, <2>3, <3>1
    <3>2. CASE Len(d) = 16 /\ ~IsV4(d) /\ w = <<0, 2>> \o d
      BY <2>2, <2>3, <3>2
    <3> QED
      BY <2>1, <3>1, <3>2
  <2> QED
    BY <1>2, <2>4 DEF w
<1>8. CASE t = "IPv4Address"
  <2>1. w = d /\ Len(d) = 4
    BY <1>8, DataForm
  <2>2. value = 4
    BY <1>8
  <2> QED
    BY <1>1, <1>2, <2>1, <2>2
<1>9. CASE t = "IPv6Address"
  <2>1. w = d /\ Len(d) = 16
    BY <1>9, DataForm
  <2>2. value = 16
    BY <1>9
  <2> QED
    BY <1>1, <1>2, <2>1, <2>2
<1>10. CASE t = "IPv6Prefix"
  <2>1. w = <<0>> \o d /\ Len(d) = 17
    BY <1>10, DataForm
  <2>2. value = 18
    BY <1>10
  <2>3. <<0>> \o d \in Seq(Byte) /\ Len(<<0>> \o d) = 1 + Len(d)
    BY <1>1, SmallBytes, ConcatType
  <2> HIDE DEF d, w, value
  <2> QED
    BY <1>2, <2>1, <2>2, <2>3 DEF w
<1> HIDE DEF t, d, w, value
<1> QED
  BY <1>1, <1>3, <1>4, <1>5, <1>6, <1>7, <1>8, <1>9, <1>10, TypeCases DEF w

\* The lengths of a sequence of sequences.
LEMMA LengthsOf ==
    ASSUME NEW parts \in Seq(Seq(Byte))
    PROVE  \E lens \in Seq(Nat) :
               Len(lens) = Len(parts) /\ \A i \in 1..Len(parts) : Len(parts[i]) = lens[i]
<1> DEFINE lens == [i \in 1..Len(parts) |-> Len(parts[i])]
<1>1. Len(parts) \in Nat /\ \A i \in 1..Len(parts) : Len(parts[i]) \in Nat
  OBVIOUS
<1>2. lens \in Seq(Nat) /\ Len(lens) = Len(parts)
      /\ \A i \in 1..Len(parts) : Len(parts[i]) = lens[i]
  BY <1>1
<1> HIDE DEF lens
<1> QED
  BY <1>2

LEMMA AvpBytesType ==
    ASSUME NEW a \in Avps, NEW inner \in Seq(Seq(Byte))
    PROVE  /\ WriteData(a, inner) \in Seq(Byte)
           /\ Fill(0, PadLen(DataLen[a])) \in Seq(Byte)
           /\ Len(Fill(0, PadLen(DataLen[a]))) = PadLen(DataLen[a])
           /\ AvpBytes(a, inner) \in Seq(Byte)
           /\ Len(AvpBytes(a, inner)) =
                  HeaderLen(a.vendor) + Len(WriteData(a, inner)) + PadLen(DataLen[a])
<1> DEFINE h == WriteHeader(a)
           w == WriteData(a, inner)
           p == Fill(0, PadLen(DataLen[a]))
<1>1. w \in Seq(Byte)
  <2>1. PICK lens \in Seq(Nat) :
            Len(lens) = Len(inner) /\ \A i \in 1..Len(inner) : Len(inner[i]) = lens[i]
    BY LengthsOf
  <2> QED
    BY <2>1, DataSize
<1>2. h \in Seq(Byte) /\ Len(h) = HeaderLen(a.vendor)
  BY HeaderType
<1>3. p \in Seq(Byte) /\ Len(p) = PadLen(DataLen[a])
  <2>1. PadLen(DataLen[a]) \in Nat
    <3>1. DataLen[a] \in Nat
      BY DataLenEquation
    <3>2. PadLen(DataLen[a]) \in 0..3
      BY <3>1, AlignedType
    <3> QED
      BY <3>2
  <2> QED
    BY <2>1, FillType, SmallBytes
<1>4. AvpBytes(a, inner) = h \o w \o p
  BY DEF AvpBytes
<1> HIDE DEF h, w, p
<1>5. h \o w \in Seq(Byte) /\ Len(h \o w) = Len(h) + Len(w)
  BY <1>1, <1>2, ConcatType
<1>6. h \o w \o p \in Seq(Byte) /\ Len(h \o w \o p) = Len(h \o w) + Len(p)
  BY <1>3, <1>5, ConcatType
<1> QED
  BY <1>1, <1>2, <1>3, <1>4, <1>5, <1>6 DEF w, p

\* The equation of WriteAvp.
LEMMA WriteAvpEquation ==
    /\ WriteAvp \in [Avps -> Seq(Byte)]
    /\ \A a \in Avps : WriteAvp[a] = AvpBytes(a, Inner(WriteAvp, a))
<1> DEFINE Written(f) ==
             [a \in Avps |-> AvpBytes(a, [i \in DOMAIN a.avps |-> f[a.avps[i]]])]
           S == Seq(Byte)
           G == [p \in Avps \X Seq(S) |-> AvpBytes(p[1], p[2])]
<1>1. \A a \in Avps, s \in Seq(S) : AvpBytes(a, s) \in S
  BY AvpBytesType
<1> HIDE DEF S
<1>2. G \in [Avps \X Seq(S) -> S]
  BY <1>1
<1>3. \A a \in Avps, s \in Seq(S) : G[<<a, s>>] = AvpBytes(a, s)
  OBVIOUS
<1>4. PICK f \in [Avps -> S] : FromInner(f, G)
  <2> HIDE DEF G
  <2> QED
    BY <1>2, AvpRecursion
<1> HIDE DEF G
<1>5. f = Written(f)
  <2>1. ASSUME NEW a \in Avps
        PROVE  f[a] = AvpBytes(a, [i \in DOMAIN a.avps |-> f[a.avps[i]]])
    <3>1. Inner(f, a) \in Seq(S)
      BY InnerAvps, InnerType
    <3>2. Inner(f, a) = [i \in DOMAIN a.avps |-> f[a.avps[i]]]
      BY DEF Inner
    <3>3. f[a] = G[<<a, Inner(f, a)>>]
      BY <1>4 DEF FromInner
    <3> QED
      BY <1>3, <3>1, <3>2, <3>3
  <2> QED
    BY <2>1
<1>6. WriteAvp = Written(WriteAvp)
  BY <1>5, Zenon DEF WriteAvp
<1>7. \A a \in Avps : WriteAvp[a] = AvpBytes(a, Inner(WriteAvp, a))
  BY <1>6 DEF Inner
<1> DEFINE T == {a \in Avps : WriteAvp[a] \in S}
<1>8. ASSUME NEW a \in Avps, \A i \in DOMAIN a.avps : a.avps[i] \in T
      PROVE  a \in T
  <2>1. Inner(WriteAvp, a) \in Seq(S)
    BY <1>8, InnerType
  <2> QED
    BY <1>1, <1>7, <2>1
<1>9. \A a \in Avps : a \in T
  <2> HIDE DEF T
  <2> QED
    BY <1>8, AvpInduction
<1> QED
  BY <1>6, <1>7, <1>9 DEF S

\* The aligned lengths of a list of AVPs.
Lens(avps) == [i \in DOMAIN avps |-> Aligned(DataLen[avps[i]])]

LEMMA LensType ==
    ASSUME NEW avps \in Seq(Avps)
    PROVE  /\ Lens(avps) \in Seq(Nat) /\ Len(Lens(avps)) = Len(avps)
           /\ \A i \in 1..Len(avps) : Lens(avps)[i] = Aligned(DataLen[avps[i]])
           /\ Total(Lens(avps)) \in Nat
<1>1. DOMAIN avps = 1..Len(avps) /\ Len(avps) \in Nat
      /\ \A i \in 1..Len(avps) : avps[i] \in Avps
  OBVIOUS
<1>2. \A i \in 1..Len(avps) : Aligned(DataLen[avps[i]]) \in Nat
  BY <1>1, DataLenEquation, AlignedType
<1>3. /\ Lens(avps) \in Seq(Nat) /\ Len(Lens(avps)) = Len(avps)
      /\ \A i \in 1..Len(avps) : Lens(avps)[i] = Aligned(DataLen[avps[i]])
  BY <1>1, <1>2 DEF Lens
<1>4. PICK f \in [1..(Len(Lens(avps)) + 1) -> Nat] : Total(Lens(avps)) = f[1]
  BY <1>3, TotalParts
<1> QED
  BY <1>1, <1>3, <1>4

LEMMA WriteEachType ==
    ASSUME NEW avps \in Seq(Avps)
    PROVE  /\ WriteEach(avps) \in Seq(Seq(Byte))
           /\ Len(WriteEach(avps)) = Len(avps)
           /\ \A i \in 1..Len(avps) : WriteEach(avps)[i] = WriteAvp[avps[i]]
<1> DEFINE S == Seq(Byte)
<1>1. DOMAIN avps = 1..Len(avps) /\ Len(avps) \in Nat
      /\ \A i \in 1..Len(avps) : avps[i] \in Avps
  OBVIOUS
<1>2. WriteAvp \in [Avps -> S]
  BY WriteAvpEquation
<1> HIDE DEF S
<1>3. \A i \in 1..Len(avps) : WriteAvp[avps[i]] \in S
  BY <1>1, <1>2
<1>4. /\ WriteEach(avps) \in Seq(S)
      /\ Len(WriteEach(avps)) = Len(avps)
      /\ \A i \in 1..Len(avps) : WriteEach(avps)[i] = WriteAvp[avps[i]]
  BY <1>1, <1>3 DEF WriteEach
<1> QED
  BY <1>4 DEF S

\* The inner AVPs of a are those of WriteEach.
LEMMA InnerWritten ==
    ASSUME NEW a \in Avps
    PROVE  Inner(WriteAvp, a) = WriteEach(a.avps)
  BY DEF Inner, WriteEach

\* An AVP is written with the size that DataLen announces, and the padding.
LEMMA AvpLength ==
    ASSUME NEW a \in Avps
    PROVE  /\ Len(WriteAvp[a]) = Aligned(DataLen[a])
           /\ HeaderLen(a.vendor) + Len(WriteData(a, WriteEach(a.avps))) = DataLen[a]
<1> DEFINE Right(b) ==
             /\ Len(WriteAvp[b]) = Aligned(DataLen[b])
             /\ HeaderLen(b.vendor) + Len(WriteData(b, WriteEach(b.avps))) = DataLen[b]
           T == {b \in Avps : Right(b)}
<1>1. ASSUME NEW b \in Avps, \A i \in DOMAIN b.avps : b.avps[i] \in T
      PROVE  b \in T
  <2> DEFINE parts == WriteEach(b.avps)
             lens == Lens(b.avps)
  <2>0. b.avps \in Seq(Avps) /\ DOMAIN b.avps = 1..Len(b.avps)
    BY InnerAvps
  <2>1. parts \in Seq(Seq(Byte)) /\ Len(parts) = Len(b.avps)
        /\ \A i \in 1..Len(b.avps) : parts[i] = WriteAvp[b.avps[i]]
    BY <2>0, WriteEachType
  <2>2. lens \in Seq(Nat) /\ Len(lens) = Len(b.avps)
        /\ \A i \in 1..Len(b.avps) : lens[i] = Aligned(DataLen[b.avps[i]])
    BY <2>0, LensType
  <2>3. \A i \in 1..Len(parts) : Len(parts[i]) = lens[i]
    <3>1. \A i \in 1..Len(b.avps) : Len(WriteAvp[b.avps[i]]) = Aligned(DataLen[b.avps[i]])
      BY <1>1, <2>0
    <3> HIDE DEF parts, lens
    <3> QED
      BY <2>1, <2>2, <3>1
  <2>4. DataLen[b] = SizeOf(b, lens)
    BY DataLenEquation DEF Lens
  <2>5. WriteAvp[b] = AvpBytes(b, parts)
    BY WriteAvpEquation, InnerWritten
  <2> HIDE DEF lens, parts
  <2>6. HeaderLen(b.vendor) + Len(WriteData(b, parts)) = DataLen[b]
    BY <2>1, <2>2, <2>3, <2>4, DataSize
  <2>7. Len(WriteAvp[b]) = HeaderLen(b.vendor) + Len(WriteData(b, parts)) + PadLen(DataLen[b])
    BY <2>1, <2>5, AvpBytesType
  <2>8. Right(b)
    BY <2>6, <2>7 DEF Aligned, parts
  <2> HIDE DEF Right
  <2> QED
    BY <2>8
<1>2. \A b \in Avps : b \in T
  <2> HIDE DEF T
  <2> QED
    BY <1>1, AvpInduction
<1> QED
  BY <1>2

\* An AVP has at least its header.
LEMMA WrittenLength ==
    ASSUME NEW a \in Avps
    PROVE  /\ WriteAvp[a] \in Seq(Byte)
           /\ Len(WriteAvp[a]) \in Nat /\ Len(WriteAvp[a]) >= 8
           /\ Len(WriteAvp[a]) = Aligned(DataLen[a])
           /\ DataLen[a] \in Nat /\ DataLen[a] >= HeaderLen(a.vendor)
<1>1. WriteAvp[a] \in Seq(Byte) /\ Len(WriteAvp[a]) = Aligned(DataLen[a])
  BY WriteAvpEquation, AvpLength
<1>2. DataLen[a] \in Nat /\ DataLen[a] >= HeaderLen(a.vendor)
  <2>1. Lens(a.avps) \in Seq(Nat)
    BY InnerAvps, LensType
  <2>2. DataLen[a] = SizeOf(a, Lens(a.avps))
    BY DataLenEquation DEF Lens
  <2> QED
    BY <2>1, <2>2, SizeType
<1>3. Aligned(DataLen[a]) >= DataLen[a] /\ Aligned(DataLen[a]) \in Nat
  BY <1>2, AlignedType
<1>4. HeaderLen(a.vendor) \in Nat /\ HeaderLen(a.vendor) >= 8
  BY DEF HeaderLen
<1> DEFINE k == Aligned(DataLen[a])
           h == HeaderLen(a.vendor)
           d == DataLen[a]
<1> HIDE DEF k, h, d
<1>5. k >= 8
  BY <1>2, <1>3, <1>4 DEF k, h, d
<1> QED
  BY <1>1, <1>2, <1>3, <1>5 DEF k

\* A list of AVPs is written with the total of their lengths.
LEMMA ListLength ==
    ASSUME NEW avps \in Seq(Avps)
    PROVE  /\ Joined(WriteEach(avps)) \in Seq(Byte)
           /\ Len(Joined(WriteEach(avps))) = Total(Lens(avps))
<1> DEFINE parts == WriteEach(avps)
           lens == Lens(avps)
<1>1. parts \in Seq(Seq(Byte)) /\ Len(parts) = Len(avps)
      /\ \A i \in 1..Len(avps) : parts[i] = WriteAvp[avps[i]]
  BY WriteEachType
<1>2. lens \in Seq(Nat) /\ Len(lens) = Len(avps)
      /\ \A i \in 1..Len(avps) : lens[i] = Aligned(DataLen[avps[i]])
  BY LensType
<1>3. \A i \in 1..Len(avps) : Len(WriteAvp[avps[i]]) = Aligned(DataLen[avps[i]])
  <2>1. \A i \in 1..Len(avps) : avps[i] \in Avps
    OBVIOUS
  <2> QED
    BY <2>1, AvpLength
<1> HIDE DEF parts, lens
<1>4. Len(parts) = Len(lens) /\ \A i \in 1..Len(parts) : Len(parts[i]) = lens[i]
  BY <1>1, <1>2, <1>3
<1>5. Joined(parts) \in Seq(Byte) /\ Len(Joined(parts)) = Total(lens)
  BY <1>1, <1>2, <1>4, JoinedLength
<1> QED
  BY <1>5 DEF parts, lens

\* The AVPs inside an AVP are AVPs.
LEMMA InsideType ==
    ASSUME NEW a \in Avps
    PROVE  Inside[a] \subseteq Avps
<1> DEFINE Closed(f) ==
             [b \in Avps |->
                 {b} \cup IF TypeOf(b) = "Grouped"
                          THEN UNION {f[b.avps[i]] : i \in DOMAIN b.avps} ELSE {}]
           S == SUBSET Avps
           All(b, s) == {b} \cup IF TypeOf(b) = "Grouped"
                                 THEN UNION {s[i] : i \in DOMAIN s} ELSE {}
           G == [p \in Avps \X Seq(S) |-> All(p[1], p[2])]
<1>1. \A b \in Avps, s \in Seq(S) : All(b, s) \in S
  OBVIOUS
<1>2. G \in [Avps \X Seq(S) -> S]
  <2> HIDE DEF All, S
  <2> QED
    BY <1>1
<1>3. \A b \in Avps, s \in Seq(S) : G[<<b, s>>] = All(b, s)
  <2> HIDE DEF All, S
  <2> QED
    OBVIOUS
<1>4. PICK f \in [Avps -> S] : FromInner(f, G)
  <2> HIDE DEF G, S
  <2> QED
    BY <1>2, AvpRecursion
<1> HIDE DEF G
<1>a. \A b \in Avps : \A g : All(b, Inner(g, b)) =
          {b} \cup IF TypeOf(b) = "Grouped"
                   THEN UNION {g[b.avps[i]] : i \in DOMAIN b.avps} ELSE {}
  BY DEF Inner
<1>5. f = Closed(f)
  <2>1. ASSUME NEW b \in Avps
        PROVE  f[b] = All(b, Inner(f, b))
    <3>1. Inner(f, b) \in Seq(S)
      <4> HIDE DEF S
      <4> QED
        BY InnerAvps, InnerType
    <3>3. f[b] = G[<<b, Inner(f, b)>>]
      BY <1>4 DEF FromInner
    <3> HIDE DEF All, S
    <3> QED
      BY <1>3, <3>1, <3>3
  <2> HIDE DEF All
  <2>2. \A b \in Avps : f[b] = Closed(f)[b]
    BY <1>a, <2>1
  <2> QED
    BY <2>2
<1>6. Inside = Closed(Inside)
  BY <1>5, Zenon DEF Inside
<1>7. \A b \in Avps : Inside[b] = All(b, Inner(Inside, b))
  <2> HIDE DEF All
  <2> QED
    BY <1>6, <1>a
<1> DEFINE T == {b \in Avps : Inside[b] \in S}
<1>8. ASSUME NEW b \in Avps, \A i \in DOMAIN b.avps : b.avps[i] \in T
      PROVE  b \in T
  <2> HIDE DEF All, S
  <2>1. Inner(Inside, b) \in Seq(S)
    BY <1>8, InnerType
  <2> QED
    BY <1>1, <1>7, <2>1
<1>9. \A b \in Avps : b \in T
  <2> HIDE DEF T
  <2> QED
    BY <1>8, AvpInduction
<1> QED
  BY <1>9

\* The check before the padding never fails.
LEMMA SizesAgree ==
    ASSUME NEW a \in Avps
    PROVE  SizeAgrees(a)
<1>1. ASSUME NEW b \in Avps
      PROVE  Len(WriteHeader(b)) + Len(WriteData(b, WriteEach(b.avps))) = DataLen[b]
  BY HeaderType, AvpLength
<1> QED
  BY <1>1, InsideType DEF SizeAgrees

---------------------------------------------------------------------------
(* The reader: it is defined for every wire, because each AVP is read by    *)
(* looking only at what the list of AVPs is further on.                     *)

Places(wire) == (0..Len(wire)) \X Int

ReadsLists(wire, list) ==
    list = [p \in Places(wire) |-> ReadFrom(wire, p[1], p[2], list)]

\* A result with its position not before `at` and not beyond the end.
Onward(wire, at, r) == r.st = "ok" => r.at \in at..Len(wire) /\ r.n \in Int

\* Two lists that are the same beyond `at`.
SameBeyond(wire, at, list, other) ==
    \A p \in Places(wire) :
        p[1] > at => list[p] = other[p] /\ Onward(wire, p[1], list[p])

LEMMA SliceType ==
    ASSUME NEW wire \in Seq(Byte), NEW at \in Nat, NEW n \in Nat, at + n <= Len(wire)
    PROVE  /\ Slice(wire, at, n) \in Seq(Byte) /\ Len(Slice(wire, at, n)) = n
           /\ \A i \in 1..n : Slice(wire, at, n)[i] = wire[at + i]
<1>1. Len(wire) \in Nat /\ \A i \in (at + 1)..(at + n) : wire[i] \in Byte
  OBVIOUS
<1>2. /\ SubSeq(wire, at + 1, at + n) \in Seq(Byte)
      /\ Len(SubSeq(wire, at + 1, at + n)) =
             IF at + 1 <= at + n THEN at + n - (at + 1) + 1 ELSE 0
      /\ \A i \in 1..(at + n - (at + 1) + 1) :
             SubSeq(wire, at + 1, at + n)[i] = wire[at + 1 + i - 1]
  BY <1>1, SubSeqProperties
<1>3. at + n - (at + 1) + 1 = n /\ \A i \in 1..n : at + 1 + i - 1 = at + i
  OBVIOUS
<1>4. Len(SubSeq(wire, at + 1, at + n)) = n
  BY <1>2, <1>3
<1>5. \A i \in 1..n : SubSeq(wire, at + 1, at + n)[i] = wire[at + i]
  BY <1>2, <1>3
<1> QED
  BY <1>2, <1>4, <1>5 DEF Slice

\* The length in a header is a number.
LEMMA LengthAtType ==
    ASSUME NEW wire \in Seq(Byte), NEW at \in Nat, at + 8 <= Len(wire)
    PROVE  LenOf(Slice(wire, at + 5, 3)) \in Nat
<1> DEFINE s == Slice(wire, at + 5, 3)
<1>1. s \in Seq(Byte) /\ Len(s) = 3
  <2>1. at + 5 \in Nat /\ 3 \in Nat /\ at + 5 + 3 <= Len(wire)
    BY LenProperties
  <2> QED
    BY <2>1, SliceType
<1> HIDE DEF s
<1>a. \A i \in 1..3 : s[i] \in Byte
  BY <1>1, ElementOfSeq
<1>2. s[1] \in Nat /\ s[2] \in Nat /\ s[3] \in Nat
  <2>1. 1 \in 1..3 /\ 2 \in 1..3 /\ 3 \in 1..3
    OBVIOUS
  <2>2. s[1] \in Byte /\ s[2] \in Byte /\ s[3] \in Byte
    BY <1>a, <2>1
  <2>3. \A b \in Byte : b \in Nat
    BY DEF Byte
  <2> QED
    BY <2>2, <2>3, Zenon
<1>3. SubSeq(s, 2, 3)[1] = s[2] /\ SubSeq(s, 2, 3)[2] = s[3]
  <2>1. \A i \in 2..3 : s[i] \in Byte
    BY <1>a
  <2>2. \A i \in 1..(3 - 2 + 1) : SubSeq(s, 2, 3)[i] = s[2 + i - 1]
    BY <2>1, SubSeqProperties
  <2> QED
    BY <2>2
<1>4. Number2(SubSeq(s, 2, 3)) \in Nat
  BY <1>2, <1>3 DEF Number2
<1>5. LenOf(s) = (s[1] * Word) + Number2(SubSeq(s, 2, 3))
  BY DEF LenOf, JoinLen
<1>6. s[1] * Word \in Nat
  BY <1>2, WordPositive
<1> QED
  BY <1>4, <1>5, <1>6 DEF s

LEMMA DrainedType ==
    ASSUME NEW wire \in Seq(Byte), NEW at \in Nat, at <= Len(wire)
    PROVE  Drained(wire, at) \in at..Len(wire)
  BY DEF Drained

\* The values that are not groups.
LEMMA FixedOnward ==
    ASSUME NEW wire \in Seq(Byte), NEW at \in 0..Len(wire), NEW type
    PROVE  Onward(wire, at, ReadFixed(wire, at, type))
<1> DEFINE size == IF type \in DoubleWords THEN 8 ELSE 4
           bytes == Slice(wire, at, size)
           value == CASE type \in DoubleWords -> bytes
                      [] type \in SignedWords -> SignExtended(bytes)
                      [] type \in Words \ SignedWords -> ZeroExtended(bytes)
<1>1. ReadFixed(wire, at, type) =
          IF Len(wire) - at < size THEN Refused("error")
          ELSE Read(Plain(value), size, at + size)
  BY DEF ReadFixed
<1>2. size \in {4, 8} /\ Len(wire) \in Nat
  OBVIOUS
<1> HIDE DEF value, size
<1> QED
  BY <1>1, <1>2 DEF Onward, Refused, Read

LEMMA SizedOnward ==
    ASSUME NEW wire \in Seq(Byte), NEW at \in 0..Len(wire), NEW n \in Int, NEW pad \in Int,
           pad >= 0
    PROVE  /\ Onward(wire, at, ReadSized(wire, at, n, pad))
           /\ Onward(wire, at, ReadAddress(wire, at, n, pad))
<1>0. Len(wire) \in Nat
  OBVIOUS
<1>1. Onward(wire, at, ReadSized(wire, at, n, pad))
  BY <1>0 DEF ReadSized, Onward, Refused, Read
<1>2. Onward(wire, at, ReadAddress(wire, at, n, pad))
  BY <1>0 DEF ReadAddress, Onward, Refused, Read
<1> QED
  BY <1>1, <1>2

LEMMA AddressOnward ==
    ASSUME NEW wire \in Seq(Byte), NEW at \in 0..Len(wire)
    PROVE  /\ Onward(wire, at, ReadTypedAddress(wire, at))
           /\ Onward(wire, at, ReadPrefix(wire, at))
<1>0. Len(wire) \in Nat
  OBVIOUS
<1>1. Onward(wire, at, ReadTypedAddress(wire, at))
  <2> DEFINE size == IF Slice(wire, at, 2) = <<0, 1>> THEN 4 ELSE 16
             d == Drained(wire, at + 2 + size)
  <2>1. ReadTypedAddress(wire, at) =
            IF Len(wire) - at < 2 \/ Len(wire) - at < 2 + size THEN Refused("error")
            ELSE Read(Plain(Slice(wire, at + 2, size)), size + 4, d)
    BY DEF ReadTypedAddress
  <2>2. size \in {4, 16}
    OBVIOUS
  <2> HIDE DEF size
  <2>3. ~(Len(wire) - at < 2 + size) => d \in at..Len(wire)
    BY <1>0, <2>2 DEF Drained
  <2> HIDE DEF d
  <2> QED
    BY <1>0, <2>1, <2>2, <2>3 DEF Onward, Refused, Read
<1>2. Onward(wire, at, ReadPrefix(wire, at))
  <2>1. ~(Len(wire) - at < 18) => Drained(wire, at + 18) \in at..Len(wire)
    BY <1>0 DEF Drained
  <2> QED
    BY <1>0, <2>1 DEF ReadPrefix, Onward, Refused, Read
<1> QED
  BY <1>1, <1>2

\* A place further on: there the two lists agree.
LEMMA BeyondAt ==
    ASSUME NEW wire \in Seq(Byte), NEW at \in 0..Len(wire), NEW list, NEW other,
           SameBeyond(wire, at, list, other),
           NEW b \in 0..Len(wire), NEW left \in Int, b > at
    PROVE  /\ list[<<b, left>>] = other[<<b, left>>]
           /\ Onward(wire, b, list[<<b, left>>])
<1> DEFINE p == <<b, left>>
<1>1. p \in Places(wire) /\ p[1] = b
  BY DEF Places
<1> HIDE DEF p
<1> QED
  BY <1>1, Zenon DEF SameBeyond, p

\* A value: it is the same with both lists, and ends further on.
LEMMA ValueOnward ==
    ASSUME NEW wire \in Seq(Byte), NEW at \in 0..Len(wire), NEW list, NEW other,
           SameBeyond(wire, at, list, other),
           NEW b \in 0..Len(wire), b > at,
           NEW type \in DiameterTypes, NEW header \in {8, 12}, NEW len \in Nat
    PROVE  /\ ReadValue(wire, b, type, header, len, list) =
                  ReadValue(wire, b, type, header, len, other)
           /\ Onward(wire, b, ReadValue(wire, b, type, header, len, list))
<1> DEFINE n == len - header
           pad == PadLen(len)
           V(l) == ReadValue(wire, b, type, header, len, l)
<1>1. n \in Int /\ pad \in Int /\ pad >= 0 /\ n + pad \in Int
  <2>1. pad \in 0..3
    BY AlignedType
  <2>2. n \in Int
    OBVIOUS
  <2> HIDE DEF n, pad
  <2> QED
    BY <2>1, <2>2
<1> HIDE DEF n, pad
<1> USE DEF Octets, Strings, Words, DoubleWords
<1>3. CASE type \in Octets \cup Strings
  <2>1. \A l : V(l) = ReadSized(wire, b, n, pad)
    BY <1>3 DEF ReadValue, n, pad
  <2> HIDE DEF V
  <2> QED
    BY <1>1, <2>1, SizedOnward DEF V
<1>4. CASE type \in Words \cup DoubleWords
  <2>1. \A l : V(l) = ReadFixed(wire, b, type)
    BY <1>4 DEF ReadValue
  <2> HIDE DEF V
  <2> QED
    BY <2>1, FixedOnward DEF V
<1>5. CASE type = "Grouped"
  <2>1. \A l : V(l) = ReadGroup(b, n + pad, l)
    BY <1>5 DEF ReadValue, n, pad
  <2>2. /\ list[<<b, n + pad>>] = other[<<b, n + pad>>]
        /\ Onward(wire, b, list[<<b, n + pad>>])
    BY <1>1, BeyondAt
  <2>3. ReadGroup(b, n + pad, list) = ReadGroup(b, n + pad, other)
    BY <2>2 DEF ReadGroup
  <2>4. Onward(wire, b, ReadGroup(b, n + pad, list))
    <3> DEFINE r == list[<<b, n + pad>>]
    <3>1. Onward(wire, b, r)
      BY <2>2
    <3>2. ReadGroup(b, n + pad, list) =
              IF r.st # "ok" THEN r ELSE Read([data |-> <<>>, avps |-> r.value], r.n, r.at)
      BY DEF ReadGroup
    <3> HIDE DEF r
    <3> QED
      BY <3>1, <3>2 DEF Onward, Read
  <2> HIDE DEF V
  <2> QED
    BY <2>1, <2>3, <2>4 DEF V
<1>6. CASE type = "Address"
  <2>1. \A l : V(l) = ReadTypedAddress(wire, b)
    BY <1>6 DEF ReadValue
  <2> HIDE DEF V
  <2> QED
    BY <2>1, AddressOnward DEF V
<1>7. CASE type \in {"IPv4Address", "IPv6Address"}
  <2>1. \A l : V(l) = ReadAddress(wire, b, n, pad)
    BY <1>7 DEF ReadValue, n, pad
  <2> HIDE DEF V
  <2> QED
    BY <1>1, <2>1, SizedOnward DEF V
<1>8. CASE type = "IPv6Prefix"
  <2>1. \A l : V(l) = ReadPrefix(wire, b)
    BY <1>8 DEF ReadValue
  <2> HIDE DEF V
  <2> QED
    BY <2>1, AddressOnward DEF V
<1> QED
  BY <1>3, <1>4, <1>5, <1>6, <1>7, <1>8, TypeCases

LEMMA HeaderAtType == \A wire, at : HeaderAt(wire, at) \in {8, 12}
  BY DEF HeaderAt

LEMMA DictTypeType == \A v, c : DictType(v, c) \in DiameterTypes
  BY TypesAssumption DEF DictType, DiameterTypes, Octets

\* An AVP: the same with both lists, and it takes eight bytes or more.
LEMMA AvpOnward ==
    ASSUME NEW wire \in Seq(Byte), NEW at \in 0..Len(wire), NEW list, NEW other,
           SameBeyond(wire, at, list, other)
    PROVE  /\ ReadAvp(wire, at, list) = ReadAvp(wire, at, other)
           /\ ReadAvp(wire, at, list).st = "ok" =>
                  /\ ReadAvp(wire, at, list).at \in (at + 8)..Len(wire)
                  /\ ReadAvp(wire, at, list).n \in Int
<1> DEFINE h == HeaderAt(wire, at)
           type == DictType(VendorAt(wire, at), CodeAt(wire, at))
           len == LenOf(Slice(wire, at + 5, 3))
           V(l) == ReadValue(wire, at + h, type, h, len, l)
<1>0. Len(wire) \in Nat /\ at \in Nat
  OBVIOUS
<1>1. h \in {8, 12}
  BY HeaderAtType
<1>2. type \in DiameterTypes
  BY DictTypeType
<1>3. CASE Len(wire) - at < 8 \/ Len(wire) - at < h
  <2>1. \A l : ReadAvp(wire, at, l) = Refused("error")
    BY <1>3 DEF ReadAvp
  <2> QED
    BY <2>1 DEF Refused
<1>4. CASE ~(Len(wire) - at < 8 \/ Len(wire) - at < h)
  <2>1. \A l : ReadAvp(wire, at, l) = AvpRead(wire, at, V(l))
    BY <1>4 DEF ReadAvp
  <2>2. len \in Nat
    <3>1. at + 8 <= Len(wire)
      BY <1>0, <1>4
    <3> QED
      BY <1>0, <3>1, LengthAtType
  <2>3. at + h \in 0..Len(wire) /\ at + h > at
    BY <1>0, <1>1, <1>4
  <2> HIDE DEF h, type, len
  <2>4. V(list) = V(other) /\ Onward(wire, at + h, V(list))
    BY <1>1, <1>2, <2>2, <2>3, ValueOnward
  <2> HIDE DEF V
  <2>5. AvpRead(wire, at, V(list)).st = "ok" =>
            /\ AvpRead(wire, at, V(list)).at \in (at + 8)..Len(wire)
            /\ AvpRead(wire, at, V(list)).n \in Int
    <3> DEFINE r == V(list)
    <3> HIDE DEF r
    <3>1. Onward(wire, at + h, r)
      BY <2>4 DEF r
    <3>2. CASE r.st # "ok"
      <4>1. AvpRead(wire, at, r) = r
        BY <3>2 DEF AvpRead
      <4> QED
        BY <3>2, <4>1 DEF r
    <3>3. CASE r.st = "ok"
      <4>1. AvpRead(wire, at, r).at = r.at /\ AvpRead(wire, at, r).n = h + r.n
        BY <3>3 DEF AvpRead, Read, h
      <4>2. r.at \in (at + h)..Len(wire) /\ r.n \in Int
        BY <3>1, <3>3 DEF Onward
      <4>3. r.at \in (at + 8)..Len(wire) /\ h + r.n \in Int
        BY <1>0, <1>1, <4>2
      <4> QED
        BY <4>1, <4>3 DEF r
    <3> QED
      BY <3>2, <3>3
  <2> QED
    BY <2>1, <2>4, <2>5
<1> QED
  BY <1>3, <1>4

\* A list of AVPs: it depends only on the lists further on.
LEMMA ListOnward ==
    ASSUME NEW wire \in Seq(Byte), NEW at \in 0..Len(wire), NEW left \in Int,
           NEW list, NEW other, SameBeyond(wire, at, list, other)
    PROVE  /\ ReadFrom(wire, at, left, list) = ReadFrom(wire, at, left, other)
           /\ Onward(wire, at, ReadFrom(wire, at, left, list))
<1>0. Len(wire) \in Nat /\ at \in Nat
  OBVIOUS
<1>1. CASE left <= 0
  <2>1. \A l : ReadFrom(wire, at, left, l) = Read(<<>>, 0, at)
    BY <1>1 DEF ReadFrom
  <2> QED
    BY <1>0, <2>1 DEF Onward, Read
<1>2. CASE ~(left <= 0)
  <2> DEFINE first == ReadAvp(wire, at, list)
             b == first.at
             m == left - first.n
             rest == list[<<b, m>>]
  <2>1. /\ ReadAvp(wire, at, other) = first
        /\ first.st = "ok" => b \in (at + 8)..Len(wire) /\ first.n \in Int
    BY AvpOnward
  <2> HIDE DEF first
  <2>2. /\ ReadFrom(wire, at, left, list) = AndThen(first, left, list)
        /\ ReadFrom(wire, at, left, other) = AndThen(first, left, other)
    BY <1>2, <2>1 DEF ReadFrom, first
  <2>3. CASE first.st # "ok"
    <3>1. \A l : AndThen(first, left, l) = first
      BY <2>3 DEF AndThen
    <3> QED
      BY <2>2, <2>3, <3>1 DEF Onward
  <2>4. CASE first.st = "ok"
    <3>1. b \in 0..Len(wire) /\ b > at /\ m \in Int /\ b >= at
      BY <1>0, <2>1, <2>4
    <3> HIDE DEF b, m
    <3>2. list[<<b, m>>] = other[<<b, m>>] /\ Onward(wire, b, list[<<b, m>>])
      BY <3>1, BeyondAt
    <3>3. \A l : AndThen(first, left, l) =
              IF l[<<b, m>>].st # "ok" THEN l[<<b, m>>]
              ELSE Read(<<first.value>> \o l[<<b, m>>].value,
                        first.n + l[<<b, m>>].n, l[<<b, m>>].at)
      BY <2>4 DEF AndThen, b, m
    <3>4. AndThen(first, left, list) = AndThen(first, left, other)
      BY <3>2, <3>3
    <3> HIDE DEF rest
    <3>5. AndThen(first, left, list) =
              IF rest.st # "ok" THEN rest
              ELSE Read(<<first.value>> \o rest.value, first.n + rest.n, rest.at)
      BY <3>3 DEF rest
    <3>6. Onward(wire, b, rest)
      BY <3>2 DEF rest
    <3>7. Onward(wire, at, AndThen(first, left, list))
      <4>1. CASE rest.st # "ok"
        BY <3>5, <4>1 DEF Onward
      <4>2. CASE rest.st = "ok"
        <5>1. rest.at \in b..Len(wire) /\ rest.n \in Int
          BY <3>6, <4>2 DEF Onward
        <5>2. rest.at \in at..Len(wire) /\ first.n + rest.n \in Int
          BY <1>0, <2>1, <2>4, <3>1, <5>1
        <5> QED
          BY <3>5, <4>2, <5>2 DEF Onward, Read
      <4> QED
        BY <4>1, <4>2
    <3> QED
      BY <2>2, <3>4, <3>7
  <2> QED
    BY <2>3, <2>4
<1> QED
  BY <1>1, <1>2

\* There is such a list, so ReadAvps uses one.
LEMMA ListExists ==
    ASSUME NEW wire \in Seq(Byte)
    PROVE  \E list : ReadsLists(wire, list)
<1> DEFINE n == Len(wire)
           D == Places(wire)
           Fits(list, p) ==
             /\ list[p] = ReadFrom(wire, p[1], p[2], list)
             /\ Onward(wire, p[1], list[p])
           Solves(list, k) ==
             /\ list = [p \in D |-> list[p]]
             /\ \A p \in D : p[1] > n - k => Fits(list, p)
           T == {k \in Nat : \E list : Solves(list, k)}
<1>0. n \in Nat /\ \A p \in D : p[1] \in 0..n /\ p[2] \in Int
  BY DEF Places
<1>1. 0 \in T
  <2> DEFINE list == [p \in D |-> 0]
  <2>1. list = [p \in D |-> list[p]]
    OBVIOUS
  <2>2. \A p \in D : ~(p[1] > n - 0)
    BY <1>0
  <2> HIDE DEF list, Fits
  <2>3. Solves(list, 0)
    BY <2>1, <2>2
  <2> HIDE DEF Solves
  <2> QED
    BY <2>3
<1>2. ASSUME NEW k \in Nat, k \in T PROVE k + 1 \in T
  <2>1. PICK list : Solves(list, k)
    BY <1>2
  <2> DEFINE j == n - k
             next == [p \in D |-> IF p[1] = j THEN ReadFrom(wire, p[1], p[2], list) ELSE list[p]]
  <2>2. \A p \in D : next[p] = IF p[1] = j THEN ReadFrom(wire, p[1], p[2], list) ELSE list[p]
    OBVIOUS
  <2>3. next = [p \in D |-> next[p]]
    OBVIOUS
  <2>4. j \in Int /\ n - (k + 1) = j - 1
    BY <1>0
  <2> HIDE DEF next
  <2>5. ASSUME NEW at \in 0..n, at >= j
        PROVE  SameBeyond(wire, at, list, next)
    <3>1. ASSUME NEW p \in D, p[1] > at
          PROVE  list[p] = next[p] /\ Onward(wire, p[1], list[p])
      <4>1. p[1] \in 0..n /\ p[1] > j /\ p[1] # j
        BY <1>0, <2>4, <2>5, <3>1
      <4>2. Fits(list, p)
        <5> HIDE DEF Fits
        <5> QED
          BY <2>1, <4>1
      <4> QED
        BY <2>2, <4>1, <4>2
    <3> QED
      BY <3>1 DEF SameBeyond
  <2>6. ASSUME NEW p \in D, p[1] > n - (k + 1)
        PROVE  Fits(next, p)
    <3>1. p[1] \in 0..n /\ p[1] >= j /\ p[2] \in Int
      BY <1>0, <2>4, <2>6
    <3>2. SameBeyond(wire, p[1], list, next)
      BY <2>5, <3>1
    <3>3. /\ ReadFrom(wire, p[1], p[2], list) = ReadFrom(wire, p[1], p[2], next)
          /\ Onward(wire, p[1], ReadFrom(wire, p[1], p[2], list))
      BY <3>1, <3>2, ListOnward
    <3>4. next[p] = ReadFrom(wire, p[1], p[2], list)
      <4>1. CASE p[1] = j
        BY <2>2, <4>1
      <4>2. CASE p[1] # j
        <5>1. p[1] > n - k
          BY <1>0, <2>4, <3>1, <4>2
        <5>2. Fits(list, p)
          <6> HIDE DEF Fits
          <6> QED
            BY <2>1, <5>1
        <5> QED
          BY <2>2, <4>2, <5>2
      <4> QED
        BY <4>1, <4>2
    <3> QED
      BY <3>3, <3>4
  <2> HIDE DEF Fits
  <2>7. Solves(next, k + 1)
    BY <2>3, <2>6
  <2> HIDE DEF Solves
  <2> QED
    BY <2>7
<1>3. n + 1 \in T
  <2> HIDE DEF T
  <2> QED
    BY <1>0, <1>1, <1>2, Induction
<1>4. PICK list : Solves(list, n + 1)
  BY <1>3
<1>5. \A p \in D : list[p] = ReadFrom(wire, p[1], p[2], list)
  <2>1. \A p \in D : p[1] > n - (n + 1)
    BY <1>0
  <2> QED
    BY <1>4, <2>1
<1>6. ReadsLists(wire, list)
  <2>1. list = [p \in D |-> list[p]]
    BY <1>4
  <2>2. list = [p \in D |-> ReadFrom(wire, p[1], p[2], list)]
    BY <1>5, <2>1
  <2> QED
    BY <2>2 DEF ReadsLists
<1> QED
  BY <1>6

\* ReadAvps by the list of the whole wire.
ListOf(wire) == CHOOSE list : ReadsLists(wire, list)

LEMMA ReadAvpsIs ==
    ASSUME NEW wire \in Seq(Byte), NEW start, NEW length
    PROVE  /\ ReadsLists(wire, ListOf(wire))
           /\ ReadAvps(wire, start, length) = ListOf(wire)[<<start, length>>]
<1>1. ReadsLists(wire, ListOf(wire))
  BY ListExists, Zenon DEF ListOf
<1>2. ReadAvps(wire, start, length) = ListOf(wire)[<<start, length>>]
  BY Zenon DEF ListOf, ReadsLists, Places, ReadAvps
<1> QED
  BY <1>1, <1>2

\* A list of AVPs is read by ReadFrom.
LEMMA ListStep ==
    ASSUME NEW wire \in Seq(Byte), NEW at \in 0..Len(wire), NEW left \in Int
    PROVE  ListOf(wire)[<<at, left>>] = ReadFrom(wire, at, left, ListOf(wire))
<1> DEFINE p == <<at, left>>
           l == ListOf(wire)
<1>1. ReadsLists(wire, l)
  BY ReadAvpsIs
<1>2. p \in Places(wire) /\ p[1] = at /\ p[2] = left
  BY DEF Places
<1> HIDE DEF p, l
<1>3. l[p] = ReadFrom(wire, p[1], p[2], l)
  BY <1>1, <1>2 DEF ReadsLists
<1> QED
  BY <1>2, <1>3 DEF p, l

---------------------------------------------------------------------------
(* Reading what was written. The wire may end before the bytes do: as far   *)
(* as it goes, it has them.                                                 *)

Agrees(wire, at, bytes) ==
    \A i \in 1..Len(bytes) : at + i <= Len(wire) => wire[at + i] = bytes[i]

\* Where a reader ends that goes on to x, or to the end of the wire.
Stop(wire, x) == IF x <= Len(wire) THEN x ELSE Len(wire)

\* What a reader of n bytes gives for them: the value or, only if the wire
\* has not all the bytes, an error.
ReadsAs(wire, at, r, value, n) ==
    \/ r = Refused("error") /\ at + n > Len(wire)
    \/ r = Read(value, n, Stop(wire, at + n))

LEMMA AgreesParts ==
    ASSUME NEW wire \in Seq(Byte), NEW at \in Nat, NEW s \in Seq(Byte), NEW t \in Seq(Byte),
           Agrees(wire, at, s \o t)
    PROVE  Agrees(wire, at, s) /\ Agrees(wire, at + Len(s), t)
<1>0. Len(s) \in Nat /\ Len(t) \in Nat /\ Len(wire) \in Nat
  OBVIOUS
<1>1. /\ Len(s \o t) = Len(s) + Len(t)
      /\ \A i \in 1..(Len(s) + Len(t)) :
             (s \o t)[i] = IF i <= Len(s) THEN s[i] ELSE t[i - Len(s)]
  BY ConcatProperties
<1>2. \A i \in 1..(Len(s) + Len(t)) : at + i <= Len(wire) => wire[at + i] = (s \o t)[i]
  BY <1>1 DEF Agrees
<1>3. Agrees(wire, at, s)
  <2>1. ASSUME NEW i \in 1..Len(s), at + i <= Len(wire) PROVE wire[at + i] = s[i]
    <3>1. i \in 1..(Len(s) + Len(t)) /\ i <= Len(s)
      BY <1>0
    <3> QED
      BY <1>1, <1>2, <2>1, <3>1
  <2> QED
    BY <2>1 DEF Agrees
<1>4. Agrees(wire, at + Len(s), t)
  <2>1. ASSUME NEW i \in 1..Len(t), at + Len(s) + i <= Len(wire)
        PROVE  wire[at + Len(s) + i] = t[i]
    <3> DEFINE k == Len(s) + i
    <3>1. k \in 1..(Len(s) + Len(t)) /\ ~(k <= Len(s)) /\ k - Len(s) = i
          /\ at + k = at + Len(s) + i
      BY <1>0
    <3> HIDE DEF k
    <3>2. wire[at + k] = (s \o t)[k]
      BY <1>2, <2>1, <3>1
    <3>3. (s \o t)[k] = t[k - Len(s)]
      BY <1>1, <3>1
    <3> QED
      BY <3>1, <3>2, <3>3
  <2> QED
    BY <2>1 DEF Agrees
<1> QED
  BY <1>3, <1>4

LEMMA AgreesSlice ==
    ASSUME NEW wire \in Seq(Byte), NEW at \in Nat, NEW s \in Seq(Byte), NEW n,
           Agrees(wire, at, s), n = Len(s), at + n <= Len(wire)
    PROVE  Slice(wire, at, n) = s
<1>0. n \in Nat
  OBVIOUS
<1>1. /\ Slice(wire, at, n) \in Seq(Byte) /\ Len(Slice(wire, at, n)) = n
      /\ \A i \in 1..n : Slice(wire, at, n)[i] = wire[at + i]
  BY <1>0, SliceType
<1>2. \A i \in 1..n : Slice(wire, at, n)[i] = s[i]
  <2>1. ASSUME NEW i \in 1..n PROVE wire[at + i] = s[i]
    <3>1. at + i <= Len(wire)
      BY <1>0, LenProperties
    <3> QED
      BY <3>1 DEF Agrees
  <2> QED
    BY <1>1, <2>1
<1> QED
  BY <1>1, <1>2, SeqEqual

\* The lengths of the values of a fixed size, and their padding.
LEMMA PadOf ==
    ASSUME NEW h \in {8, 12}
    PROVE  /\ PadLen(h + 4) = 0 /\ PadLen(h + 8) = 0 /\ PadLen(h + 16) = 0
           /\ PadLen(h + 6) = 2 /\ PadLen(h + 18) = 2
           /\ \A n \in Nat : n % 4 = 0 => PadLen(h + n) = 0
  BY DEF PadLen

LEMMA SizedReads ==
    ASSUME NEW wire \in Seq(Byte), NEW at \in 0..Len(wire), NEW s \in Seq(Byte),
           NEW pad \in 0..3, Agrees(wire, at, s)
    PROVE  /\ ReadsAs(wire, at, ReadSized(wire, at, Len(s), pad), Plain(s), Len(s) + pad)
           /\ ReadsAs(wire, at, ReadAddress(wire, at, Len(s), 0), Plain(s), Len(s))
<1>0. Len(wire) \in Nat /\ Len(s) \in Nat /\ at \in Nat
  OBVIOUS
<1>1. at + Len(s) <= Len(wire) => Slice(wire, at, Len(s)) = s
  BY <1>0, AgreesSlice
<1> DEFINE n == Len(s)
<1> HIDE DEF n
<1>2. ReadsAs(wire, at, ReadSized(wire, at, n, pad), Plain(s), n + pad)
  <2>1. CASE Len(wire) - at < n + pad
    <3>1. ReadSized(wire, at, n, pad) = Refused("error")
      BY <1>0, <2>1 DEF ReadSized, n
    <3> QED
      BY <1>0, <2>1, <3>1 DEF ReadsAs, n
  <2>2. CASE ~(Len(wire) - at < n + pad)
    <3>1. ReadSized(wire, at, n, pad) = Read(Plain(Slice(wire, at, n)), n + pad, at + n + pad)
      BY <1>0, <2>2 DEF ReadSized, n
    <3>2. at + n <= Len(wire) /\ at + (n + pad) <= Len(wire) /\ at + (n + pad) = at + n + pad
      BY <1>0, <2>2 DEF n
    <3>3. Slice(wire, at, n) = s
      BY <1>1, <3>2 DEF n
    <3> QED
      BY <3>1, <3>2, <3>3 DEF ReadsAs, Stop
  <2> QED
    BY <2>1, <2>2
<1>3. ReadsAs(wire, at, ReadAddress(wire, at, n, 0), Plain(s), n)
  <2>0. n + 0 = n /\ n \in Nat
    BY <1>0 DEF n
  <2>1. CASE Len(wire) - at < n
    <3>1. ReadAddress(wire, at, n, 0) = Refused("error")
      BY <2>0, <2>1 DEF ReadAddress
    <3> QED
      BY <1>0, <2>0, <2>1, <3>1 DEF ReadsAs
  <2>2. CASE ~(Len(wire) - at < n)
    <3>1. ReadAddress(wire, at, n, 0) = Read(Plain(Slice(wire, at, n)), n, at + n)
      BY <1>0, <2>0, <2>2 DEF ReadAddress
    <3>2. at + n <= Len(wire)
      BY <1>0, <2>0, <2>2
    <3>3. Slice(wire, at, n) = s
      BY <1>1, <3>2 DEF n
    <3> QED
      BY <3>1, <3>2, <3>3 DEF ReadsAs, Stop
  <2> QED
    BY <2>1, <2>2
<1> QED
  BY <1>2, <1>3 DEF n

LEMMA FixedReads ==
    ASSUME NEW wire \in Seq(Byte), NEW at \in 0..Len(wire), NEW type, NEW data, NEW s \in Seq(Byte),
           Agrees(wire, at, s),
           \/ type \in DoubleWords /\ Len(s) = 8 /\ data = s
           \/ type \in SignedWords /\ Len(s) = 4 /\ data = SignExtended(s)
           \/ type \in Words \ SignedWords /\ Len(s) = 4 /\ data = ZeroExtended(s)
    PROVE  ReadsAs(wire, at, ReadFixed(wire, at, type), Plain(data), Len(s))
<1> USE DEF DoubleWords, SignedWords, Words
<1> DEFINE size == IF type \in DoubleWords THEN 8 ELSE 4
           bytes == Slice(wire, at, size)
           value == CASE type \in DoubleWords -> bytes
                      [] type \in SignedWords -> SignExtended(bytes)
                      [] type \in Words \ SignedWords -> ZeroExtended(bytes)
<1>0. Len(wire) \in Nat /\ at \in Nat
  OBVIOUS
<1>1. ReadFixed(wire, at, type) =
          IF Len(wire) - at < size THEN Refused("error")
          ELSE Read(Plain(value), size, at + size)
  BY DEF ReadFixed
<1>2. size = Len(s)
  OBVIOUS
<1>3. bytes = s => value = data
  OBVIOUS
<1> HIDE DEF size, value
<1>4. CASE Len(wire) - at < size
  BY <1>0, <1>1, <1>2, <1>4 DEF ReadsAs
<1>5. CASE ~(Len(wire) - at < size)
  <2>1. at + size <= Len(wire)
    BY <1>0, <1>2, <1>5, LenProperties
  <2>2. bytes = s
    BY <1>0, <1>2, <2>1, AgreesSlice
  <2> QED
    BY <1>1, <1>2, <1>3, <1>5, <2>1, <2>2 DEF ReadsAs, Stop
<1> QED
  BY <1>4, <1>5

\* The drained padding: the reader stops at the end of the wire.
LEMMA DrainedStop ==
    ASSUME NEW wire \in Seq(Byte), NEW at \in Nat
    PROVE  Drained(wire, at) = Stop(wire, at + 2)
  BY DEF Drained, Stop

LEMMA AddressReads ==
    ASSUME NEW wire \in Seq(Byte), NEW at \in 0..Len(wire), NEW data \in Seq(Byte),
           \/ Len(data) = 4 /\ Agrees(wire, at, <<0, 1>> \o data)
           \/ Len(data) = 16 /\ Agrees(wire, at, <<0, 2>> \o data)
    PROVE  ReadsAs(wire, at, ReadTypedAddress(wire, at), Plain(data), Len(data) + 4)
<1> DEFINE size == IF Slice(wire, at, 2) = <<0, 1>> THEN 4 ELSE 16
           n == Len(data)
<1>0. Len(wire) \in Nat /\ at \in Nat /\ n \in {4, 16}
  OBVIOUS
<1>1. ReadTypedAddress(wire, at) =
          IF Len(wire) - at < 2 \/ Len(wire) - at < 2 + size THEN Refused("error")
          ELSE Read(Plain(Slice(wire, at + 2, size)), size + 4,
                    Drained(wire, at + 2 + size))
  BY DEF ReadTypedAddress
<1>2. Agrees(wire, at + 2, data)
  BY <1>0, SmallBytes, AgreesParts
<1>3. ASSUME ~(Len(wire) - at < 2) PROVE size = n
  <2>0. at + 2 <= Len(wire)
    BY <1>0, <1>3
  <2>1. CASE n = 4 /\ Agrees(wire, at, <<0, 1>> \o data)
    <3>1. Agrees(wire, at, <<0, 1>>)
      BY <1>0, <2>1, SmallBytes, AgreesParts
    <3>2. Slice(wire, at, 2) = <<0, 1>>
      BY <1>0, <2>0, <3>1, SmallBytes, AgreesSlice
    <3> QED
      BY <2>1, <3>2
  <2>2. CASE n = 16 /\ Agrees(wire, at, <<0, 2>> \o data)
    <3>1. Agrees(wire, at, <<0, 2>>)
      BY <1>0, <2>2, SmallBytes, AgreesParts
    <3>2. Slice(wire, at, 2) = <<0, 2>>
      BY <1>0, <2>0, <3>1, SmallBytes, AgreesSlice
    <3>3. <<0, 2>> # <<0, 1>>
      OBVIOUS
    <3> QED
      BY <2>2, <3>2, <3>3
  <2> QED
    BY <2>1, <2>2
<1> HIDE DEF size, n
<1>4. CASE Len(wire) - at < 2 \/ Len(wire) - at < 2 + size
  <2>1. ReadTypedAddress(wire, at) = Refused("error")
    BY <1>1, <1>4
  <2>2. at + (n + 4) > Len(wire)
    BY <1>0, <1>3, <1>4
  <2> QED
    BY <2>1, <2>2 DEF ReadsAs, n
<1>5. CASE ~(Len(wire) - at < 2 \/ Len(wire) - at < 2 + size)
  <2>1. size = n
    BY <1>3, <1>5
  <2>2. at + 2 + n <= Len(wire) /\ at + 2 \in Nat /\ at + 2 + n \in Nat
        /\ at + 2 + n + 2 = at + (n + 4)
    BY <1>0, <1>5, <2>1
  <2>3. Slice(wire, at + 2, n) = data
    BY <1>2, <2>2, AgreesSlice DEF n
  <2>4. Drained(wire, at + 2 + n) = Stop(wire, at + (n + 4))
    BY <2>2, DrainedStop
  <2> QED
    BY <1>1, <1>5, <2>1, <2>3, <2>4 DEF ReadsAs, n
<1> QED
  BY <1>4, <1>5

LEMMA PrefixReads ==
    ASSUME NEW wire \in Seq(Byte), NEW at \in 0..Len(wire), NEW data \in Seq(Byte),
           Len(data) = 17, Agrees(wire, at, << 0 >> \o data)
    PROVE  ReadsAs(wire, at, ReadPrefix(wire, at), Plain(data), 20)
<1>0. Len(wire) \in Nat /\ at \in Nat
  OBVIOUS
<1>1. Agrees(wire, at + 1, data)
  BY <1>0, SmallBytes, AgreesParts
<1>2. CASE Len(wire) - at < 18
  BY <1>0, <1>2 DEF ReadPrefix, ReadsAs
<1>3. CASE ~(Len(wire) - at < 18)
  <2>1. at + 1 \in Nat /\ at + 1 + 17 <= Len(wire) /\ at + 18 \in Nat /\ at + 18 + 2 = at + 20
    BY <1>0, <1>3
  <2>2. Slice(wire, at + 1, 17) = data
    BY <1>1, <2>1, AgreesSlice
  <2>3. Drained(wire, at + 18) = Stop(wire, at + 20)
    BY <2>1, DrainedStop
  <2> QED
    BY <1>3, <2>2, <2>3 DEF ReadPrefix, ReadsAs
<1> QED
  BY <1>2, <1>3

\* An AVP is read as it was written, wherever the wire has its bytes.
AvpReads(wire, a) ==
    \A at \in 0..Len(wire) :
        Agrees(wire, at, WriteAvp[a]) =>
            ReadsAs(wire, at, ReadAvp(wire, at, ListOf(wire)), a, Aligned(DataLen[a]))

\* The total of aligned lengths is aligned.
LEMMA TotalAligned ==
    ASSUME NEW avps \in Seq(Avps)
    PROVE  Total(Lens(avps)) % 4 = 0
<1> DEFINE lens == Lens(avps)
           n == Len(avps)
<1>1. lens \in Seq(Nat) /\ Len(lens) = n /\ n \in Nat
      /\ \A i \in 1..n : lens[i] = Aligned(DataLen[avps[i]])
  BY LensType
<1>2. \A i \in 1..n : lens[i] \in Nat /\ lens[i] % 4 = 0
  <2>1. ASSUME NEW i \in 1..n PROVE lens[i] \in Nat /\ lens[i] % 4 = 0
    <3>1. avps[i] \in Avps
      OBVIOUS
    <3>2. DataLen[avps[i]] \in Nat
      BY <3>1, DataLenEquation
    <3> QED
      BY <1>1, <3>2, AlignedType
  <2> QED
    BY <2>1
<1> HIDE DEF lens, n
<1>3. PICK f \in [1..(n + 1) -> Nat] :
          /\ Total(lens) = f[1]
          /\ f[n + 1] = 0
          /\ \A i \in 1..n : f[i] = lens[i] + f[i + 1]
  BY <1>1, TotalParts
<1> DEFINE T == {i \in 1..(n + 1) : f[i] % 4 = 0}
<1>4. n + 1 \in T
  BY <1>1, <1>3
<1>5. ASSUME NEW i \in 1..n, i + 1 \in T PROVE i \in T
  <2>1. i \in 1..(n + 1) /\ i + 1 \in 1..(n + 1)
    BY <1>1
  <2>2. lens[i] \in Nat /\ lens[i] % 4 = 0 /\ f[i + 1] \in Nat /\ f[i + 1] % 4 = 0
    BY <1>2, <1>5, <2>1
  <2>3. (lens[i] + f[i + 1]) % 4 = 0
    BY <2>2, SMTT(30)
  <2> QED
    BY <1>3, <2>1, <2>3
<1>6. 1 \in T
  <2> HIDE DEF T
  <2>1. \A i \in 1..(n + 1) : i \in T
    BY <1>1, <1>4, <1>5, SuffixInduction
  <2> QED
    BY <1>1, <2>1
<1> QED
  BY <1>3, <1>6 DEF lens

\* An AVP in front of what is behind it.
Prepended(a, n, rest) ==
    IF rest.st # "ok" THEN rest ELSE Read(<<a>> \o rest.value, n + rest.n, rest.at)

LEMMA FirstRead ==
    ASSUME NEW first, NEW left, NEW list, first.st = "ok"
    PROVE  AndThen(first, left, list) =
               Prepended(first.value, first.n, list[<<first.at, left - first.n>>])
  BY DEF AndThen, Prepended

\* The lists, if their AVPs are: the AVPs from the back to the front.
LEMMA ListReads ==
    ASSUME NEW wire \in Seq(Byte), NEW avps \in Seq(Avps), NEW at \in 0..Len(wire),
           \A i \in 1..Len(avps) : AvpReads(wire, avps[i]),
           Agrees(wire, at, Joined(WriteEach(avps)))
    PROVE  ReadsAs(wire, at, ListOf(wire)[<<at, Total(Lens(avps))>>], avps, Total(Lens(avps)))
<1> DEFINE n == Len(avps)
           l == ListOf(wire)
           parts == WriteEach(avps)
           end == Len(wire)
<1>0. n \in Nat /\ end \in Nat /\ \A i \in 1..n : avps[i] \in Avps
  OBVIOUS
<1>1. parts \in Seq(Seq(Byte)) /\ Len(parts) = n /\ \A i \in 1..n : parts[i] = WriteAvp[avps[i]]
  BY WriteEachType
<1>2. PICK f \in [1..(n + 1) -> Seq(Byte)] :
          /\ Joined(parts) = f[1]
          /\ f[n + 1] = <<>>
          /\ \A i \in 1..n : f[i] = parts[i] \o f[i + 1]
  <2> HIDE DEF parts, n
  <2> QED
    BY <1>1, JoinedParts
<1>3. Len(Joined(parts)) = Total(Lens(avps))
  BY ListLength
<1> DEFINE Right(i) ==
             \A b \in 0..end :
                 Agrees(wire, b, f[i]) =>
                     ReadsAs(wire, b, l[<<b, Len(f[i])>>], SubSeq(avps, i, n), Len(f[i]))
           T == {i \in 1..(n + 1) : Right(i)}
<1>4. n + 1 \in T
  <2>1. ASSUME NEW b \in 0..end
        PROVE  ReadsAs(wire, b, l[<<b, Len(f[n + 1])>>], SubSeq(avps, n + 1, n), Len(f[n + 1]))
    <3>1. Len(f[n + 1]) = 0
      BY <1>2, EmptySeq
    <3>2. SubSeq(avps, n + 1, n) = <<>>
      BY <1>0, SubSeqEmpty
    <3>3. l[<<b, 0>>] = ReadFrom(wire, b, 0, l)
      BY ListStep
    <3>4. ReadFrom(wire, b, 0, l) = Read(<<>>, 0, b)
      BY DEF ReadFrom
    <3>5. Stop(wire, b + 0) = b
      BY <1>0 DEF Stop
    <3> QED
      BY <3>1, <3>2, <3>3, <3>4, <3>5 DEF ReadsAs
  <2> QED
    BY <1>0, <2>1
<1>5. ASSUME NEW i \in 1..n, i + 1 \in T PROVE i \in T
  <2> SUFFICES ASSUME NEW b \in 0..end, Agrees(wire, b, f[i])
               PROVE  ReadsAs(wire, b, l[<<b, Len(f[i])>>], SubSeq(avps, i, n), Len(f[i]))
    BY <1>0
  <2> DEFINE a == avps[i]
             w == WriteAvp[a]
             g == f[i + 1]
             k == Len(w)
             r == Len(g)
             first == ReadAvp(wire, b, l)
  <2>1. /\ a \in Avps /\ i \in 1..(n + 1) /\ i + 1 \in 1..(n + 1)
        /\ f[i] = w \o g /\ w \in Seq(Byte) /\ g \in Seq(Byte)
    <3>1. a \in Avps /\ i \in 1..(n + 1) /\ i + 1 \in 1..(n + 1)
      BY <1>0
    <3>2. w \in Seq(Byte)
      BY <3>1, WrittenLength
    <3>3. g \in Seq(Byte)
      BY <1>2, <3>1
    <3>4. f[i] = w \o g
      BY <1>1, <1>2
    <3> QED
      BY <3>1, <3>2, <3>3, <3>4
  <2>2. k = Aligned(DataLen[a]) /\ k \in Nat /\ k >= 8 /\ r \in Nat
    BY <2>1, WrittenLength
  <2>3. Len(f[i]) = k + r
    BY <2>1, ConcatType
  <2>4. Agrees(wire, b, w) /\ Agrees(wire, b + k, g)
    <3>1. b \in Nat /\ Agrees(wire, b, w \o g)
      BY <2>1
    <3> HIDE DEF w, g
    <3> QED
      BY <2>1, <3>1, AgreesParts
  <2>5. ReadsAs(wire, b, first, a, k)
    BY <2>2, <2>4 DEF AvpReads
  <2>6. l[<<b, k + r>>] = AndThen(first, k + r, l)
    <3>1. l[<<b, k + r>>] = ReadFrom(wire, b, k + r, l)
      <4> DEFINE z == k + r
      <4>1. z \in Int /\ b \in 0..Len(wire)
        <5> HIDE DEF k, r, w, g
        <5> QED
          BY <2>2
      <4> HIDE DEF z
      <4>2. ListOf(wire)[<<b, z>>] = ReadFrom(wire, b, z, ListOf(wire))
        BY <4>1, ListStep
      <4> QED
        BY <4>2 DEF z, l
    <3>2. ~(k + r <= 0)
      <4> HIDE DEF k, r, w, g
      <4> QED
        BY <2>2
    <3> QED
      BY <3>1, <3>2 DEF ReadFrom
  <2>7. SubSeq(avps, i, n) = <<a>> \o SubSeq(avps, i + 1, n)
    BY <1>0, SubSeqRecursiveFirst
  <2>8. Right(i + 1)
    BY <1>5
  <2> HIDE DEF w, g, k, r, first, a, end, l, Right
  <2>9. ReadsAs(wire, b, AndThen(first, k + r, l), SubSeq(avps, i, n), k + r)
    <3>1. CASE first = Refused("error") /\ b + k > Len(wire)
      <4>1. AndThen(first, k + r, l) = first
        BY <3>1 DEF AndThen, Refused
      <4>2. b + (k + r) > Len(wire)
        BY <1>0, <2>2, <3>1, SMTT(30) DEF end
      <4> QED
        BY <3>1, <4>1, <4>2 DEF ReadsAs
    <3>2. CASE first = Read(a, k, Stop(wire, b + k))
      <4> DEFINE c == Stop(wire, b + k)
                 rest == l[<<c, r>>]
      <4>1. /\ c \in 0..end
            /\ b + k <= end => c = b + k
            /\ ~(b + k <= end) => c = end
        BY <1>0, <2>2 DEF Stop, end
      <4>2. (k + r) - k = r
        BY <2>2
      <4>3. first.st = "ok" /\ first.value = a /\ first.n = k /\ first.at = c
        BY <3>2 DEF Read
      <4> HIDE DEF c
      <4>4. AndThen(first, k + r, l) =
                IF rest.st # "ok" THEN rest
                ELSE Read(<<a>> \o rest.value, k + rest.n, rest.at)
        <5>1. <<first.at, (k + r) - first.n>> = <<c, r>>
          BY <4>2, <4>3
        <5>2. AndThen(first, k + r, l) =
                  Prepended(first.value, first.n, l[<<first.at, (k + r) - first.n>>])
          BY <4>3, FirstRead
        <5>3. AndThen(first, k + r, l) = Prepended(a, k, rest)
          BY <4>3, <5>1, <5>2
        <5> QED
          BY <5>3 DEF Prepended
      <4> HIDE DEF rest
      <4>5. CASE b + k <= end
        <5>1. ReadsAs(wire, c, rest, SubSeq(avps, i + 1, n), r)
          BY <2>4, <2>8, <4>1, <4>5 DEF Right, g, r, rest
        <5>2. c + r = b + (k + r)
          BY <1>0, <2>2, <4>1, <4>5
        <5>3. CASE rest = Refused("error") /\ c + r > Len(wire)
          <6>1. AndThen(first, k + r, l) = Refused("error")
            BY <4>4, <5>3 DEF Refused
          <6> QED
            BY <5>2, <5>3, <6>1 DEF ReadsAs
        <5>4. CASE rest = Read(SubSeq(avps, i + 1, n), r, Stop(wire, c + r))
          <6>1. rest.st = "ok" /\ rest.value = SubSeq(avps, i + 1, n) /\ rest.n = r
                /\ rest.at = Stop(wire, c + r)
            BY <5>4 DEF Read
          <6>2. AndThen(first, k + r, l) =
                    Read(<<a>> \o SubSeq(avps, i + 1, n), k + r, Stop(wire, c + r))
            BY <4>4, <6>1
          <6> QED
            BY <2>7, <5>2, <6>2 DEF ReadsAs
        <5> QED
          BY <5>1, <5>3, <5>4 DEF ReadsAs
      <4>6. CASE ~(b + k <= end)
        <5>1. c = end /\ rest = ReadFrom(wire, c, r, l)
          BY <2>2, <4>1, <4>6, ListStep DEF end, l, rest
        <5>2. b + (k + r) > Len(wire)
          BY <1>0, <2>2, <4>6, SMTT(30) DEF end
        <5>3. CASE r = 0
          <6>1. i = n
            <7> SUFFICES ASSUME i # n PROVE FALSE
              OBVIOUS
            <7>1. i + 1 \in 1..n
              BY <1>0
            <7> DEFINE u == WriteAvp[avps[i + 1]]
                       v == f[i + 1 + 1]
            <7>2. g = u \o v /\ u \in Seq(Byte) /\ v \in Seq(Byte) /\ avps[i + 1] \in Avps
              <8>1. i + 1 + 1 \in 1..(n + 1)
                BY <1>0, <7>1
              <8> QED
                BY <1>0, <1>1, <1>2, <7>1, <8>1, WriteAvpEquation DEF g
            <7> HIDE DEF u, v
            <7>3. Len(g) = Len(u) + Len(v) /\ Len(v) \in Nat
              BY <7>2, ConcatType
            <7>4. Len(u) >= 8 /\ Len(u) \in Nat
              BY <7>2, WrittenLength DEF u
            <7> DEFINE x == Len(u)
                       y == Len(v)
            <7>5. x + y = 0 /\ x \in Nat /\ y \in Nat /\ x >= 8
              BY <5>3, <7>3, <7>4 DEF r
            <7> HIDE DEF x, y
            <7> QED
              BY <7>5
          <6>2. SubSeq(avps, i + 1, n) = <<>>
            BY <1>0, <6>1, SubSeqEmpty
          <6>3. rest = Read(<<>>, 0, c)
            BY <5>1, <5>3 DEF ReadFrom
          <6>4. rest.st = "ok" /\ rest.value = <<>> /\ rest.n = 0 /\ rest.at = c
            BY <6>3 DEF Read
          <6>5. AndThen(first, k + r, l) = Read(<<a>> \o <<>>, k + 0, c)
            BY <4>4, <6>4
          <6>6. Stop(wire, b + (k + r)) = c
            BY <1>0, <5>1, <5>2, <2>2 DEF Stop, end
          <6> QED
            BY <2>2, <2>7, <5>3, <6>2, <6>5, <6>6 DEF ReadsAs
        <5>4. CASE r # 0
          <6>1. ~(r <= 0)
            BY <2>2, <5>4
          <6>2. rest = AndThen(ReadAvp(wire, c, l), r, l)
            BY <5>1, <6>1 DEF ReadFrom
          <6>3. ReadAvp(wire, c, l) = Refused("error")
            BY <1>0, <5>1 DEF ReadAvp, end
          <6>4. rest = Refused("error")
            BY <6>2, <6>3 DEF AndThen, Refused
          <6>5. AndThen(first, k + r, l) = Refused("error")
            BY <4>4, <6>4 DEF Refused
          <6> QED
            BY <5>2, <6>5 DEF ReadsAs
        <5> QED
          BY <5>3, <5>4
      <4> QED
        BY <4>5, <4>6
    <3> QED
      BY <2>5, <3>1, <3>2 DEF ReadsAs
  <2> QED
    BY <2>3, <2>6, <2>9
<1>6. 1 \in T
  <2> HIDE DEF T, n
  <2>1. \A i \in 1..(n + 1) : i \in T
    BY <1>0, <1>4, <1>5, SuffixInduction
  <2> QED
    BY <1>0, <2>1
<1>7. ReadsAs(wire, at, l[<<at, Len(f[1])>>], SubSeq(avps, 1, n), Len(f[1]))
  BY <1>2, <1>6
<1>8. SubSeq(avps, 1, n) = avps
  BY SubSeqFull
<1> QED
  BY <1>2, <1>3, <1>7, <1>8

\* The value of an AVP, if the AVPs inside it are read.
LEMMA ValueReads ==
    ASSUME NEW wire \in Seq(Byte), NEW a \in Avps, NEW b \in 0..Len(wire),
           \A i \in 1..Len(a.avps) : AvpReads(wire, a.avps[i]),
           Agrees(wire, b, WriteData(a, WriteEach(a.avps)))
    PROVE  ReadsAs(wire, b,
                   ReadValue(wire, b, TypeOf(a), HeaderLen(a.vendor), DataLen[a], ListOf(wire)),
                   [data |-> a.data, avps |-> a.avps],
                   Len(WriteData(a, WriteEach(a.avps))) + PadLen(DataLen[a]))
<1> DEFINE t == TypeOf(a)
           d == a.data
           inner == WriteEach(a.avps)
           w == WriteData(a, inner)
           h == HeaderLen(a.vendor)
           len == DataLen[a]
           pad == PadLen(len)
           l == ListOf(wire)
           V == ReadValue(wire, b, t, h, len, l)
<1>1. t \in DiameterTypes /\ d \in Seq(Byte) /\ DataOK(t, d)
      /\ (t # "Grouped" => a.avps = <<>>) /\ (t = "Grouped" => d = <<>>)
  BY AvpType
<1>2. a.avps \in Seq(Avps)
  BY InnerAvps
<1>3. w \in Seq(Byte) /\ Len(w) \in Nat
  BY <1>2, WriteEachType, AvpBytesType
<1>4. h \in {8, 12} /\ len = h + Len(w)
  BY AvpLength DEF HeaderLen
<1>5. pad \in 0..3
  <2>1. len \in Nat
    BY WrittenLength
  <2> QED
    BY <2>1, AlignedType
<1>6. len - h = Len(w)
  <2> HIDE DEF len, h, w
  <2> QED
    BY <1>3, <1>4
<1>7. t # "Grouped" => [data |-> d, avps |-> a.avps] = Plain(d)
  BY <1>1 DEF Plain
<1> USE DEF Octets, Strings, Words, DoubleWords
<1>8. CASE t \in Octets \cup Strings
  <2>1. V = ReadSized(wire, b, Len(w), pad)
    BY <1>6, <1>8 DEF ReadValue
  <2>2. w = d
    BY <1>8, DataForm
  <2>3. ReadsAs(wire, b, ReadSized(wire, b, Len(w), pad), Plain(w), Len(w) + pad)
    <3> HIDE DEF w, pad
    <3> QED
      BY <1>3, <1>5, SizedReads DEF w
  <2>4. t # "Grouped"
    BY <1>8
  <2> QED
    BY <1>7, <2>1, <2>2, <2>3, <2>4
<1>9. CASE t \in Words \cup DoubleWords
  <2>1. V = ReadFixed(wire, b, t)
    BY <1>9 DEF ReadValue
  <2>2. \/ t \in DoubleWords /\ Len(w) = 8 /\ d = w
        \/ t \in SignedWords /\ Len(w) = 4 /\ d = SignExtended(w)
        \/ t \in Words \ SignedWords /\ Len(w) = 4 /\ d = ZeroExtended(w)
    <3>1. CASE t \in DoubleWords
      BY <3>1, DataForm
    <3>2. CASE t \in Words
      <4>1. w = Tail4(d) /\ Len(d) = 8
        BY <3>2, DataForm
      <4>2. Len(Tail4(d)) = 4
        <5>1. Len(d) >= 4
          BY <4>1
        <5> QED
          BY <1>1, <5>1, Tail4Type
      <4>3. /\ t \in SignedWords => d = SignExtended(Tail4(d))
            /\ t \in Words \ SignedWords => d = ZeroExtended(Tail4(d))
        BY <1>1 DEF DataOK
      <4> HIDE DEF w, d
      <4> QED
        BY <3>2, <4>1, <4>2, <4>3
    <3> QED
      BY <1>9, <3>1, <3>2
  <2>3. ReadsAs(wire, b, ReadFixed(wire, b, t), Plain(d), Len(w))
    <3> HIDE DEF w, d, t, Words, DoubleWords
    <3> QED
      BY <1>3, <2>2, FixedReads DEF w
  <2>4. t # "Grouped"
    BY <1>9
  <2>5. pad = 0
    BY <1>4, <2>2, PadOf
  <2>6. Len(w) + pad = Len(w)
    BY <1>3, <2>5
  <2> QED
    BY <1>7, <2>1, <2>3, <2>4, <2>6
<1>10. CASE t = "Grouped"
  <2> DEFINE n == Total(Lens(a.avps))
             r == l[<<b, n>>]
  <2>1. w = Joined(inner)
    BY <1>10, DataForm
  <2>2. Len(w) = n /\ n \in Nat /\ n % 4 = 0
    BY <1>2, <2>1, ListLength, LensType, TotalAligned
  <2>3. pad = 0
    <3> HIDE DEF n, w, h, len
    <3> QED
      BY <1>4, <2>2, PadOf
  <2>4. V = ReadGroup(b, n, l)
    <3>1. (len - h) + pad = n
      BY <1>6, <2>2, <2>3
    <3>2. V = ReadGroup(b, (len - h) + pad, l)
      BY <1>10 DEF ReadValue
    <3> QED
      BY <3>1, <3>2
  <2>5. ReadsAs(wire, b, r, a.avps, n)
    BY <1>2, <2>1, ListReads
  <2> HIDE DEF n, r, l
  <2>6. ReadsAs(wire, b, ReadGroup(b, n, l), [data |-> <<>>, avps |-> a.avps], n)
    <3>0. ReadGroup(b, n, l) =
              IF r.st # "ok" THEN r ELSE Read([data |-> <<>>, avps |-> r.value], r.n, r.at)
      BY DEF ReadGroup, r
    <3>1. CASE r = Refused("error") /\ b + n > Len(wire)
      BY <3>0, <3>1 DEF ReadsAs, Refused
    <3>2. CASE r = Read(a.avps, n, Stop(wire, b + n))
      <4>1. r.st = "ok" /\ r.value = a.avps /\ r.n = n /\ r.at = Stop(wire, b + n)
        BY <3>2 DEF Read
      <4> QED
        BY <3>0, <4>1 DEF ReadsAs
    <3> QED
      BY <2>5, <3>1, <3>2 DEF ReadsAs
  <2>7. Len(w) + pad = n
    BY <2>2, <2>3
  <2>8. d = <<>>
    BY <1>1, <1>10
  <2> QED
    BY <2>4, <2>6, <2>7, <2>8 DEF l
<1>11. CASE t = "Address"
  <2>1. V = ReadTypedAddress(wire, b)
    BY <1>11 DEF ReadValue
  <2>2. \/ Len(d) = 4 /\ w = <<0, 1>> \o d
        \/ Len(d) = 16 /\ w = <<0, 2>> \o d
    BY <1>11, DataForm
  <2>3. Len(w) = 2 + Len(d)
    BY <1>1, <2>2, SmallBytes, ConcatType
  <2>4. ReadsAs(wire, b, ReadTypedAddress(wire, b), Plain(d), Len(d) + 4)
    <3>1. Agrees(wire, b, w)
      OBVIOUS
    <3> HIDE DEF w, d
    <3> QED
      BY <1>1, <2>2, <3>1, AddressReads
  <2>5. pad = 2
    <3>1. Len(w) = 6 \/ Len(w) = 18
      <4>1. Len(d) = 4 \/ Len(d) = 16
        BY <2>2
      <4> DEFINE x == Len(d)
                 y == Len(w)
      <4>2. (x = 4 \/ x = 16) /\ y = 2 + x
        BY <2>3, <4>1
      <4> HIDE DEF x, y
      <4>3. y = 6 \/ y = 18
        BY <4>2
      <4> QED
        BY <4>3 DEF y
    <3> HIDE DEF len, h, w
    <3> QED
      BY <1>4, <3>1, PadOf
  <2>6. Len(w) + pad = Len(d) + 4
    <3>1. Len(d) \in Nat
      BY <1>1
    <3> HIDE DEF w, d, pad
    <3> QED
      BY <2>3, <2>5, <3>1
  <2> QED
    BY <1>7, <1>11, <2>1, <2>4, <2>6
<1>12. CASE t \in {"IPv4Address", "IPv6Address"}
  <2>1. V = ReadAddress(wire, b, Len(w), pad)
    BY <1>6, <1>12 DEF ReadValue
  <2>2. w = d /\ (Len(w) = 4 \/ Len(w) = 16)
    BY <1>12, DataForm
  <2>3. pad = 0
    <3> HIDE DEF len, h, w
    <3> QED
      BY <1>4, <2>2, PadOf
  <2>4. ReadsAs(wire, b, ReadAddress(wire, b, Len(w), 0), Plain(w), Len(w))
    <3>1. Agrees(wire, b, w) /\ 0 \in 0..3
      OBVIOUS
    <3> HIDE DEF w
    <3> QED
      BY <1>3, <3>1, SizedReads
  <2>5. Len(w) + pad = Len(w)
    BY <1>3, <2>3
  <2>6. t # "Grouped"
    BY <1>12
  <2> QED
    BY <1>7, <2>1, <2>2, <2>3, <2>4, <2>5, <2>6
<1>13. CASE t = "IPv6Prefix"
  <2>1. V = ReadPrefix(wire, b)
    BY <1>13 DEF ReadValue
  <2>2. Len(d) = 17 /\ w = <<0>> \o d
    BY <1>13, DataForm
  <2>3. Len(w) = 18
    <3>1. Len(<<0>> \o d) = Len(<<0>>) + Len(d)
      BY <1>1, SmallBytes, ConcatType
    <3> HIDE DEF w, d
    <3> QED
      BY <2>2, <3>1, SmallBytes
  <2>4. ReadsAs(wire, b, ReadPrefix(wire, b), Plain(d), 20)
    <3>1. Agrees(wire, b, w)
      OBVIOUS
    <3> HIDE DEF w, d
    <3> QED
      BY <1>1, <2>2, <3>1, PrefixReads
  <2>5. pad = 2
    <3> HIDE DEF len, h, w
    <3> QED
      BY <1>4, <2>3, PadOf
  <2>6. Len(w) + pad = 20
    BY <2>3, <2>5
  <2> QED
    BY <1>7, <1>13, <2>1, <2>4, <2>6
<1> QED
  BY <1>1, <1>8, <1>9, <1>10, <1>11, <1>12, <1>13, TypeCases

\* The header of an AVP, as far as the wire has it.
LEMMA HeaderReads ==
    ASSUME NEW wire \in Seq(Byte), NEW a \in Avps, NEW at \in 0..Len(wire),
           Agrees(wire, at, WriteHeader(a)), at + 8 <= Len(wire)
    PROVE  /\ HeaderAt(wire, at) = HeaderLen(a.vendor)
           /\ CodeAt(wire, at) = a.code
           /\ FlagSet(wire[at + 5], AvpFlags) = a.flags
           /\ LenOf(Slice(wire, at + 5, 3)) = DataLen[a]
           /\ at + HeaderLen(a.vendor) <= Len(wire) => VendorAt(wire, at) = a.vendor
<1> DEFINE c == Bytes4(a.code)
           f == <<FlagsOf(a)>>
           s == LenBytes(DataLen[a])
           v == VendorOf(a)
           fl == FlagsOf(a)
<1>0. Len(wire) \in Nat /\ at \in Nat
  OBVIOUS
<1>1. /\ c \in Seq(Byte) /\ Len(c) = 4 /\ f \in Seq(Byte) /\ Len(f) = 1
      /\ s \in Seq(Byte) /\ Len(s) = 3 /\ v \in Seq(Byte)
      /\ WriteHeader(a) = c \o f \o s \o v
      /\ LenOf(s) = DataLen[a] /\ f[1] = fl
      /\ fl \in Byte
      /\ fl >= 128 <=> a.vendor > 0
      /\ FlagSet(fl, AvpFlags) = a.flags
      /\ a.vendor > 0 => Len(v) = 4 /\ v = Bytes4(a.vendor)
      /\ ~(a.vendor > 0) => a.vendor = 0
  BY HeaderParts
<1>2. a.code \in Word32 /\ a.vendor \in Word32 /\ a.vendor \in Nat
  BY AvpType DEF Word32
<1>a. Number4(c) = a.code /\ (a.vendor > 0 => Number4(v) = a.vendor)
  BY <1>1, <1>2, FourBytes
<1> HIDE DEF c, f, s, v, fl
<1>3. /\ c \o f \in Seq(Byte) /\ Len(c \o f) = 5
      /\ c \o f \o s \in Seq(Byte) /\ Len(c \o f \o s) = 8
  <2>1. c \o f \in Seq(Byte) /\ Len(c \o f) = Len(c) + Len(f)
    BY <1>1, ConcatType
  <2>2. c \o f \o s \in Seq(Byte) /\ Len(c \o f \o s) = Len(c \o f) + Len(s)
    BY <1>1, <2>1, ConcatType
  <2> QED
    BY <1>1, <2>1, <2>2
<1>4. Agrees(wire, at, c \o f \o s \o v)
  BY <1>1
<1>5. Agrees(wire, at, c \o f \o s) /\ Agrees(wire, at + 8, v)
  BY <1>0, <1>1, <1>3, <1>4, AgreesParts
<1>6. Agrees(wire, at, c \o f) /\ Agrees(wire, at + 5, s)
  BY <1>0, <1>1, <1>3, <1>5, AgreesParts
<1>7. Agrees(wire, at, c) /\ Agrees(wire, at + 4, f)
  BY <1>0, <1>1, <1>6, AgreesParts
<1>8. wire[at + 5] = fl
  <2>1. at + 4 + 1 <= Len(wire) /\ at + 4 + 1 = at + 5 /\ 1 \in 1..Len(f)
    BY <1>0, <1>1
  <2>2. wire[at + 4 + 1] = f[1]
    BY <1>7, <2>1 DEF Agrees
  <2> QED
    BY <1>1, <2>1, <2>2
<1>9. HeaderAt(wire, at) = HeaderLen(a.vendor)
  BY <1>1, <1>2, <1>8 DEF HeaderAt, HeaderLen
<1>10. CodeAt(wire, at) = a.code
  <2>1. at + 4 <= Len(wire)
    BY <1>0
  <2>2. Slice(wire, at, 4) = c
    BY <1>0, <1>1, <1>7, <2>1, AgreesSlice, ZenonT(30)
  <2> QED
    BY <1>a, <2>2 DEF CodeAt
<1>11. LenOf(Slice(wire, at + 5, 3)) = DataLen[a]
  <2>1. at + 5 + 3 <= Len(wire) /\ at + 5 \in Nat
    BY <1>0
  <2>2. Slice(wire, at + 5, 3) = s
    BY <1>1, <1>6, <2>1, AgreesSlice
  <2> QED
    BY <1>1, <2>2
<1>12. ASSUME at + HeaderLen(a.vendor) <= Len(wire) PROVE VendorAt(wire, at) = a.vendor
  <2>1. CASE a.vendor > 0
    <3>1. HeaderLen(a.vendor) = 12
      BY <1>2, <2>1 DEF HeaderLen
    <3>2. at + 8 + 4 <= Len(wire) /\ at + 8 \in Nat
      BY <1>0, <1>12, <3>1
    <3>3. Slice(wire, at + 8, 4) = v
      BY <1>1, <1>5, <2>1, <3>2, AgreesSlice
    <3> QED
      BY <1>9, <1>a, <2>1, <3>1, <3>3 DEF VendorAt
  <2>2. CASE ~(a.vendor > 0)
    <3>1. HeaderLen(a.vendor) = 8 /\ a.vendor = 0
      BY <1>1, <2>2 DEF HeaderLen
    <3> QED
      BY <1>9, <3>1 DEF VendorAt
  <2> QED
    BY <2>1, <2>2
<1> QED
  BY <1>1, <1>8, <1>9, <1>10, <1>11, <1>12

\* Every AVP is read as it was written.
LEMMA AllAvpsRead ==
    ASSUME NEW wire \in Seq(Byte), NEW avp \in Avps
    PROVE  AvpReads(wire, avp)
<1> DEFINE T == {a \in Avps : AvpReads(wire, a)}
<1>1. ASSUME NEW a \in Avps, \A i \in DOMAIN a.avps : a.avps[i] \in T
      PROVE  AvpReads(wire, a)
  <2> SUFFICES ASSUME NEW at \in 0..Len(wire), Agrees(wire, at, WriteAvp[a])
               PROVE  ReadsAs(wire, at, ReadAvp(wire, at, ListOf(wire)), a, Aligned(DataLen[a]))
    BY DEF AvpReads
  <2> DEFINE h == HeaderLen(a.vendor)
             inner == WriteEach(a.avps)
             w == WriteData(a, inner)
             p == Fill(0, PadLen(DataLen[a]))
             hd == WriteHeader(a)
             l == ListOf(wire)
             n == Len(w) + PadLen(DataLen[a])
             b == at + h
             V == ReadValue(wire, b, TypeOf(a), h, DataLen[a], l)
             size == Aligned(DataLen[a])
  <2>0. Len(wire) \in Nat /\ at \in Nat
    OBVIOUS
  <2>1. a.avps \in Seq(Avps) /\ DOMAIN a.avps = 1..Len(a.avps)
    BY InnerAvps
  <2>2. WriteAvp[a] = hd \o w \o p
    BY WriteAvpEquation, InnerWritten DEF AvpBytes
  <2>3. hd \in Seq(Byte) /\ Len(hd) = h /\ h \in {8, 12}
    BY HeaderType DEF HeaderLen
  <2>4. w \in Seq(Byte) /\ p \in Seq(Byte)
    BY <2>1, WriteEachType, AvpBytesType
  <2>5. size = h + n /\ size \in Nat /\ n \in Nat /\ size >= h
    <3>1. DataLen[a] = h + Len(w) /\ DataLen[a] \in Nat /\ Len(w) \in Nat
      BY <2>4, AvpLength, WrittenLength
    <3>2. PadLen(DataLen[a]) \in 0..3
      BY <3>1, AlignedType
    <3>3. size = DataLen[a] + PadLen(DataLen[a])
      BY DEF Aligned
    <3> DEFINE q == PadLen(DataLen[a])
               d == DataLen[a]
               x == Len(w)
    <3> HIDE DEF q, d, x, size, h
    <3>4. size = d + q /\ d = h + x /\ d \in Nat /\ x \in Nat /\ q \in 0..3 /\ h \in {8, 12}
      BY <2>3, <3>1, <3>2, <3>3 DEF q, d, x
    <3>5. size = h + (x + q) /\ size \in Nat /\ x + q \in Nat /\ size >= h
      BY <3>4
    <3> QED
      BY <3>5 DEF x, q
  <2> HIDE DEF n
  <2>6. Agrees(wire, at, hd) /\ Agrees(wire, b, w)
    <3> HIDE DEF hd, w, p
    <3>1. hd \o w \in Seq(Byte)
      BY <2>3, <2>4, ConcatType
    <3>2. Agrees(wire, at, hd \o w)
      BY <2>0, <2>2, <2>4, <3>1, AgreesParts
    <3> QED
      BY <2>0, <2>3, <2>4, <3>2, AgreesParts
  <2>7. CASE Len(wire) - at < 8
    <3>1. ReadAvp(wire, at, l) = Refused("error")
      BY <2>7 DEF ReadAvp
    <3>2. at + size > Len(wire)
      BY <2>0, <2>3, <2>5, <2>7
    <3> QED
      BY <3>1, <3>2 DEF ReadsAs
  <2>8. CASE ~(Len(wire) - at < 8)
    <3>0. at + 8 <= Len(wire)
      BY <2>0, <2>8
    <3>1. /\ HeaderAt(wire, at) = h
          /\ CodeAt(wire, at) = a.code
          /\ FlagSet(wire[at + 5], AvpFlags) = a.flags
          /\ LenOf(Slice(wire, at + 5, 3)) = DataLen[a]
          /\ at + h <= Len(wire) => VendorAt(wire, at) = a.vendor
      BY <2>6, <3>0, HeaderReads
    <3>2. CASE Len(wire) - at < h
      <4>1. ReadAvp(wire, at, l) = Refused("error")
        BY <3>1, <3>2 DEF ReadAvp
      <4>2. at + size > Len(wire)
        BY <2>0, <2>3, <2>5, <3>2
      <4> QED
        BY <4>1, <4>2 DEF ReadsAs
    <3>3. CASE ~(Len(wire) - at < h)
      <4>1. b <= Len(wire) /\ b \in 0..Len(wire)
        BY <2>0, <2>3, <3>3
      <4>2. VendorAt(wire, at) = a.vendor
        BY <3>1, <4>1
      <4>3. ReadAvp(wire, at, l) = AvpRead(wire, at, V)
        BY <2>8, <3>1, <3>3, <4>2 DEF ReadAvp, TypeOf
      <4>4. \A i \in 1..Len(a.avps) : AvpReads(wire, a.avps[i])
        BY <1>1, <2>1
      <4>5. ReadsAs(wire, b, V, [data |-> a.data, avps |-> a.avps], n)
        BY <2>6, <4>1, <4>4, ValueReads DEF n
      <4>6. b + n = at + size
        BY <2>0, <2>3, <2>5
      <4> HIDE DEF V, b, l, size, h
      <4>7. CASE V = Refused("error") /\ b + n > Len(wire)
        <5>1. AvpRead(wire, at, V) = Refused("error")
          BY <4>7 DEF AvpRead, Refused
        <5> QED
          BY <4>3, <4>6, <4>7, <5>1 DEF ReadsAs, l, size
      <4>8. CASE V = Read([data |-> a.data, avps |-> a.avps], n, Stop(wire, b + n))
        <5>1. V.st = "ok" /\ V.value.data = a.data /\ V.value.avps = a.avps /\ V.n = n
              /\ V.at = Stop(wire, b + n)
          BY <4>8 DEF Read
        <5>2. AvpRead(wire, at, V) =
                  Read([code |-> a.code, vendor |-> a.vendor, flags |-> a.flags,
                        data |-> a.data, avps |-> a.avps], h + n, Stop(wire, at + size))
          BY <3>1, <4>2, <4>6, <5>1 DEF AvpRead
        <5>3. a = [code |-> a.code, vendor |-> a.vendor, flags |-> a.flags,
                   data |-> a.data, avps |-> a.avps]
          BY AvpsAssumption DEF AvpRecords
        <5>4. AvpRead(wire, at, V) = Read(a, size, Stop(wire, at + size))
          BY <2>5, <5>2, <5>3
        <5> QED
          BY <4>3, <5>4 DEF ReadsAs, l, size
      <4> QED
        BY <4>5, <4>7, <4>8 DEF ReadsAs
    <3> QED
      BY <3>2, <3>3
  <2> QED
    BY <2>7, <2>8
<1>2. \A a \in Avps : (\A i \in DOMAIN a.avps : a.avps[i] \in T) => a \in T
  BY <1>1
<1>3. \A a \in Avps : a \in T
  <2> HIDE DEF T
  <2> QED
    BY <1>2, AvpInduction
<1> QED
  BY <1>3

---------------------------------------------------------------------------
(* Messages.                                                                *)

SoundMessages ==
    {m \in [flags : SUBSET DOMAIN MessageFlags, cmd : 0..MaxLen, app : Word32,
            e2e : Word32, hbh : Word32, avps : Seq(Avps), read : BOOLEAN] :
         MessageOK(m)}

\* The message as its reader has it.
AsRead(m) == [m EXCEPT !.read = TRUE]

\* The bytes of a message, if WriteTo does not panic.
Encoded(m) ==
    <<1>> \o LenBytes(MessageLen(m)) \o <<MessageBits(m.flags)>>
        \o LenBytes(m.cmd) \o Bytes4(m.app) \o Bytes4(m.e2e) \o Bytes4(m.hbh)
        \o Joined(WriteEach(m.avps))

LEMMA MessageFields ==
    ASSUME NEW m \in SoundMessages
    PROVE  /\ m.flags \in SUBSET DOMAIN MessageFlags
           /\ m.cmd \in 0..MaxLen
           /\ m.app \in Word32 /\ m.e2e \in Word32 /\ m.hbh \in Word32
           /\ m.avps \in Seq(Avps)
           /\ MessageLen(m) \in 0..MaxLen
           /\ MessageLen(m) = 20 + Total(Lens(m.avps))
           /\ Total(Lens(m.avps)) \in Nat
           /\ MessageLen(m) \in Nat /\ MessageLen(m) >= 20
           /\ MessageLen(m) % 4 = 0
           /\ MessageOK(m)
<1>1. /\ m.flags \in SUBSET DOMAIN MessageFlags
      /\ m.cmd \in 0..MaxLen
      /\ m.app \in Word32 /\ m.e2e \in Word32 /\ m.hbh \in Word32
      /\ m.avps \in Seq(Avps)
      /\ MessageOK(m)
  BY DEF SoundMessages
<1>2. MessageLen(m) <= MaxLen
  BY <1>1 DEF MessageOK
<1>3. MessageLen(m) = 20 + Total(Lens(m.avps))
  BY DEF MessageLen, Lens
<1>4. Total(Lens(m.avps)) \in Nat /\ Total(Lens(m.avps)) % 4 = 0
  BY <1>1, LensType, TotalAligned
<1> DEFINE n == MessageLen(m)
           t == Total(Lens(m.avps))
<1> HIDE DEF n, t
<1>5. n \in Nat /\ n >= 20 /\ n % 4 = 0
  BY <1>3, <1>4 DEF n, t
<1>6. n \in 0..MaxLen
  BY <1>2, <1>5, WordPositive DEF n, MaxLen
<1> QED
  BY <1>1, <1>3, <1>4, <1>5, <1>6 DEF n

LEMMA AsReadFields ==
    ASSUME NEW m \in SoundMessages
    PROVE  /\ AsRead(m) \in SoundMessages
           /\ AsRead(m) = [flags |-> m.flags, cmd |-> m.cmd, app |-> m.app, e2e |-> m.e2e,
                           hbh |-> m.hbh, avps |-> m.avps, read |-> TRUE]
<1> DEFINE R == [flags : SUBSET DOMAIN MessageFlags, cmd : 0..MaxLen, app : Word32,
                 e2e : Word32, hbh : Word32, avps : Seq(Avps), read : BOOLEAN]
<1>1. m \in R /\ MessageOK(m)
  BY DEF SoundMessages
<1>2. /\ AsRead(m) \in R
      /\ AsRead(m).avps = m.avps
      /\ AsRead(m) = [flags |-> m.flags, cmd |-> m.cmd, app |-> m.app, e2e |-> m.e2e,
                      hbh |-> m.hbh, avps |-> m.avps, read |-> TRUE]
  <2>1. AsRead(m) \in R
    BY <1>1 DEF AsRead
  <2>2. LET w == AsRead(m)
        IN  w = [flags |-> w.flags, cmd |-> w.cmd, app |-> w.app, e2e |-> w.e2e,
                 hbh |-> w.hbh, avps |-> w.avps, read |-> w.read]
    BY <2>1
  <2>3. LET w == AsRead(m)
        IN  /\ w.flags = m.flags /\ w.cmd = m.cmd /\ w.app = m.app /\ w.e2e = m.e2e
            /\ w.hbh = m.hbh /\ w.avps = m.avps /\ w.read = TRUE
    BY <1>1 DEF AsRead
  <2> QED
    BY <2>1, <2>2, <2>3
<1>3. MessageLen(AsRead(m)) = MessageLen(m)
  BY <1>2 DEF MessageLen
<1>4. MessageOK(AsRead(m))
  BY <1>1, <1>2, <1>3 DEF MessageOK
<1> QED
  BY <1>2, <1>4 DEF SoundMessages

\* The parts of a message: the header in seven, and the AVPs.
LEMMA EncodedParts ==
    ASSUME NEW m \in SoundMessages
    PROVE  LET v == <<1>>
               n == LenBytes(MessageLen(m))
               f == <<MessageBits(m.flags)>>
               c == LenBytes(m.cmd)
               a == Bytes4(m.app)
               e == Bytes4(m.e2e)
               h == Bytes4(m.hbh)
               b == Joined(WriteEach(m.avps))
           IN  /\ Encoded(m) = v \o n \o f \o c \o a \o e \o h \o b
               /\ v \in Seq(Byte) /\ Len(v) = 1
               /\ n \in Seq(Byte) /\ Len(n) = 3 /\ LenOf(n) = MessageLen(m)
               /\ f \in Seq(Byte) /\ Len(f) = 1 /\ f[1] = MessageBits(m.flags)
               /\ c \in Seq(Byte) /\ Len(c) = 3 /\ LenOf(c) = m.cmd
               /\ a \in Seq(Byte) /\ Len(a) = 4 /\ Number4(a) = m.app
               /\ e \in Seq(Byte) /\ Len(e) = 4 /\ Number4(e) = m.e2e
               /\ h \in Seq(Byte) /\ Len(h) = 4 /\ Number4(h) = m.hbh
               /\ b \in Seq(Byte) /\ Len(b) = Total(Lens(m.avps))
<1> DEFINE v == <<1>>
           n == LenBytes(MessageLen(m))
           f == <<MessageBits(m.flags)>>
           c == LenBytes(m.cmd)
           a == Bytes4(m.app)
           e == Bytes4(m.e2e)
           h == Bytes4(m.hbh)
           b == Joined(WriteEach(m.avps))
<1>1. v \in Seq(Byte) /\ Len(v) = 1
  BY SmallBytes
<1>2. n \in Seq(Byte) /\ Len(n) = 3 /\ LenOf(n) = MessageLen(m)
  BY MessageFields, LenBytesType
<1>3. f \in Seq(Byte) /\ Len(f) = 1 /\ f[1] = MessageBits(m.flags)
  BY MessageFields, MessageFlagsRead
<1>4. c \in Seq(Byte) /\ Len(c) = 3 /\ LenOf(c) = m.cmd
  BY MessageFields, LenBytesType
<1>5. \A x \in Word32 : Bytes4(x) \in Seq(Byte) /\ Len(Bytes4(x)) = 4 /\ Number4(Bytes4(x)) = x
  <2>1. \A x \in Word32 : x \in Nat
    BY DEF Word32
  <2> QED
    BY <2>1, Bytes4Type, FourBytes
<1>6. /\ a \in Seq(Byte) /\ Len(a) = 4 /\ Number4(a) = m.app
      /\ e \in Seq(Byte) /\ Len(e) = 4 /\ Number4(e) = m.e2e
      /\ h \in Seq(Byte) /\ Len(h) = 4 /\ Number4(h) = m.hbh
  BY <1>5, MessageFields
<1>7. b \in Seq(Byte) /\ Len(b) = Total(Lens(m.avps))
  BY MessageFields, ListLength
<1>8. Encoded(m) = v \o n \o f \o c \o a \o e \o h \o b
  BY DEF Encoded
<1> QED
  BY <1>1, <1>2, <1>3, <1>4, <1>6, <1>7, <1>8

LEMMA EncodedType ==
    ASSUME NEW m \in SoundMessages
    PROVE  Encoded(m) \in Seq(Byte) /\ Len(Encoded(m)) = MessageLen(m)
<1> DEFINE v == <<1>>
           n == LenBytes(MessageLen(m))
           f == <<MessageBits(m.flags)>>
           c == LenBytes(m.cmd)
           a == Bytes4(m.app)
           e == Bytes4(m.e2e)
           h == Bytes4(m.hbh)
           b == Joined(WriteEach(m.avps))
<1>1. /\ Encoded(m) = v \o n \o f \o c \o a \o e \o h \o b
      /\ v \in Seq(Byte) /\ Len(v) = 1 /\ n \in Seq(Byte) /\ Len(n) = 3
      /\ f \in Seq(Byte) /\ Len(f) = 1 /\ c \in Seq(Byte) /\ Len(c) = 3
      /\ a \in Seq(Byte) /\ Len(a) = 4 /\ e \in Seq(Byte) /\ Len(e) = 4
      /\ h \in Seq(Byte) /\ Len(h) = 4
      /\ b \in Seq(Byte) /\ Len(b) = Total(Lens(m.avps))
  BY EncodedParts
<1> HIDE DEF v, n, f, c, a, e, h, b
<1>a. /\ v \in Seq(Byte) /\ n \in Seq(Byte) /\ f \in Seq(Byte) /\ c \in Seq(Byte)
      /\ a \in Seq(Byte) /\ e \in Seq(Byte) /\ h \in Seq(Byte) /\ b \in Seq(Byte)
  BY <1>1
<1>2. v \o n \in Seq(Byte) /\ Len(v \o n) = Len(v) + Len(n)
  BY <1>a, ConcatType
<1>3. v \o n \o f \in Seq(Byte) /\ Len(v \o n \o f) = Len(v \o n) + Len(f)
  BY <1>2, <1>a, ConcatType
<1>4. v \o n \o f \o c \in Seq(Byte) /\ Len(v \o n \o f \o c) = Len(v \o n \o f) + Len(c)
  BY <1>3, <1>a, ConcatType
<1>5. /\ v \o n \o f \o c \o a \in Seq(Byte)
      /\ Len(v \o n \o f \o c \o a) = Len(v \o n \o f \o c) + Len(a)
  BY <1>4, <1>a, ConcatType
<1>6. /\ v \o n \o f \o c \o a \o e \in Seq(Byte)
      /\ Len(v \o n \o f \o c \o a \o e) = Len(v \o n \o f \o c \o a) + Len(e)
  BY <1>5, <1>a, ConcatType
<1>7. /\ v \o n \o f \o c \o a \o e \o h \in Seq(Byte)
      /\ Len(v \o n \o f \o c \o a \o e \o h) = Len(v \o n \o f \o c \o a \o e) + Len(h)
  BY <1>6, <1>a, ConcatType
<1>8. /\ Encoded(m) \in Seq(Byte)
      /\ Len(Encoded(m)) = Len(v \o n \o f \o c \o a \o e \o h) + Len(b)
  BY <1>1, <1>7, <1>a, ConcatType
<1>9. Len(v \o n \o f \o c \o a \o e \o h) = 20
  BY <1>1, <1>2, <1>3, <1>4, <1>5, <1>6, <1>7
<1> QED
  BY <1>1, <1>8, <1>9, MessageFields

\* A message is read as it was written, as far as the wire has it.
LEMMA MessageReads ==
    ASSUME NEW wire \in Seq(Byte), NEW m \in SoundMessages, NEW at \in 0..Len(wire),
           Agrees(wire, at, Encoded(m))
    PROVE  ReadsAs(wire, at, ReadMessage(wire, at), AsRead(m), MessageLen(m))
<1> DEFINE v == <<1>>
           n == LenBytes(MessageLen(m))
           f == <<MessageBits(m.flags)>>
           c == LenBytes(m.cmd)
           a == Bytes4(m.app)
           e == Bytes4(m.e2e)
           h == Bytes4(m.hbh)
           b == Joined(WriteEach(m.avps))
           size == MessageLen(m)
           t == Total(Lens(m.avps))
           avps == m.avps
           body == ReadAvps(wire, at + 20, size - 20)
<1>0. Len(wire) \in Nat /\ at \in Nat
  OBVIOUS
<1>1. /\ Encoded(m) = v \o n \o f \o c \o a \o e \o h \o b
      /\ v \in Seq(Byte) /\ Len(v) = 1
      /\ n \in Seq(Byte) /\ Len(n) = 3 /\ LenOf(n) = size
      /\ f \in Seq(Byte) /\ Len(f) = 1 /\ f[1] = MessageBits(m.flags)
      /\ c \in Seq(Byte) /\ Len(c) = 3 /\ LenOf(c) = m.cmd
      /\ a \in Seq(Byte) /\ Len(a) = 4 /\ Number4(a) = m.app
      /\ e \in Seq(Byte) /\ Len(e) = 4 /\ Number4(e) = m.e2e
      /\ h \in Seq(Byte) /\ Len(h) = 4 /\ Number4(h) = m.hbh
      /\ b \in Seq(Byte) /\ Len(b) = t
  BY EncodedParts
<1>2. size = 20 + t /\ t \in Nat /\ size \in Nat /\ avps \in Seq(Avps)
      /\ FlagSet(MessageBits(m.flags), MessageFlags) = m.flags
  BY MessageFields, MessageFlagsRead
<1>p. Agrees(wire, at + 20, b) => ReadsAs(wire, at + 20, ListOf(wire)[<<at + 20, t>>], avps, t)
                                    \/ at + 20 > Len(wire)
  <2> SUFFICES ASSUME Agrees(wire, at + 20, b), at + 20 <= Len(wire)
               PROVE  ReadsAs(wire, at + 20, ListOf(wire)[<<at + 20, t>>], avps, t)
    BY <1>0
  <2>1. at + 20 \in 0..Len(wire)
    BY <1>0
  <2>2. \A i \in 1..Len(avps) : AvpReads(wire, avps[i])
    <3>1. \A i \in 1..Len(avps) : avps[i] \in Avps
      BY <1>2
    <3> QED
      BY <3>1, AllAvpsRead
  <2> QED
    BY <1>2, <2>1, <2>2, ListReads
<1> HIDE DEF v, n, f, c, a, e, h, b, size, t
<1>a. /\ v \in Seq(Byte) /\ n \in Seq(Byte) /\ f \in Seq(Byte) /\ c \in Seq(Byte)
      /\ a \in Seq(Byte) /\ e \in Seq(Byte) /\ h \in Seq(Byte) /\ b \in Seq(Byte)
  BY <1>1
<1> DEFINE s2 == v \o n
           s3 == s2 \o f
           s4 == s3 \o c
           s5 == s4 \o a
           s6 == s5 \o e
           s7 == s6 \o h
<1>3. /\ s2 \in Seq(Byte) /\ s3 \in Seq(Byte) /\ s4 \in Seq(Byte) /\ s5 \in Seq(Byte)
      /\ s6 \in Seq(Byte) /\ s7 \in Seq(Byte)
      /\ Len(s2) = 4 /\ Len(s3) = 5 /\ Len(s4) = 8 /\ Len(s5) = 12 /\ Len(s6) = 16
      /\ Len(s7) = 20
  <2>2. s2 \in Seq(Byte) /\ Len(s2) = Len(v) + Len(n)
    BY <1>a, ConcatType
  <2> HIDE DEF s2
  <2>3. s3 \in Seq(Byte) /\ Len(s3) = Len(s2) + Len(f)
    BY <1>a, <2>2, ConcatType
  <2> HIDE DEF s3
  <2>4. s4 \in Seq(Byte) /\ Len(s4) = Len(s3) + Len(c)
    BY <1>a, <2>3, ConcatType
  <2> HIDE DEF s4
  <2>5. s5 \in Seq(Byte) /\ Len(s5) = Len(s4) + Len(a)
    BY <1>a, <2>4, ConcatType
  <2> HIDE DEF s5
  <2>6. s6 \in Seq(Byte) /\ Len(s6) = Len(s5) + Len(e)
    BY <1>a, <2>5, ConcatType
  <2> HIDE DEF s6
  <2>7. s7 \in Seq(Byte) /\ Len(s7) = Len(s6) + Len(h)
    BY <1>a, <2>6, ConcatType
  <2> HIDE DEF s7
  <2> QED
    BY <1>1, <2>2, <2>3, <2>4, <2>5, <2>6, <2>7
<1>4. Agrees(wire, at, s7 \o b)
  BY <1>1
<1> HIDE DEF s7
<1>5. Agrees(wire, at, s7) /\ Agrees(wire, at + 20, b)
  BY <1>0, <1>a, <1>3, <1>4, AgreesParts
<1> USE DEF s7
<1> HIDE DEF s6
<1>6. Agrees(wire, at, s6) /\ Agrees(wire, at + 16, h)
  BY <1>0, <1>a, <1>3, <1>5, AgreesParts
<1> USE DEF s6
<1> HIDE DEF s5
<1>7. Agrees(wire, at, s5) /\ Agrees(wire, at + 12, e)
  BY <1>0, <1>a, <1>3, <1>6, AgreesParts
<1> USE DEF s5
<1> HIDE DEF s4
<1>8. Agrees(wire, at, s4) /\ Agrees(wire, at + 8, a)
  BY <1>0, <1>a, <1>3, <1>7, AgreesParts
<1> USE DEF s4
<1> HIDE DEF s3
<1>9. Agrees(wire, at, s3) /\ Agrees(wire, at + 5, c)
  BY <1>0, <1>a, <1>3, <1>8, AgreesParts
<1> USE DEF s3
<1> HIDE DEF s2
<1>10. Agrees(wire, at, s2) /\ Agrees(wire, at + 4, f)
  BY <1>0, <1>a, <1>3, <1>9, AgreesParts
<1> USE DEF s2
<1>11. Agrees(wire, at, v) /\ Agrees(wire, at + 1, n)
  BY <1>0, <1>a, <1>1, <1>10, AgreesParts
<1>12. CASE Len(wire) - at < 20
  <2>1. ReadMessage(wire, at) = Refused("error")
    BY <1>12 DEF ReadMessage
  <2>2. at + size > Len(wire)
    BY <1>0, <1>2, <1>12
  <2> QED
    BY <2>1, <2>2 DEF ReadsAs, size
<1>13. CASE ~(Len(wire) - at < 20)
  <2>0. at + 20 <= Len(wire)
    BY <1>0, <1>13
  <2>1. Slice(wire, at + 1, 3) = n
    <3>1. at + 1 \in Nat /\ at + 1 + 3 <= Len(wire) /\ 3 = Len(n)
      BY <1>0, <1>1, <2>0
    <3> QED
      BY <1>a, <1>11, <3>1, AgreesSlice
  <2>2. wire[at + 5] = MessageBits(m.flags)
    <3>1. at + 4 + 1 <= Len(wire) /\ at + 4 + 1 = at + 5 /\ 1 \in 1..Len(f)
      BY <1>0, <1>1, <2>0
    <3>2. wire[at + 4 + 1] = f[1]
      BY <1>10, <3>1 DEF Agrees
    <3> QED
      BY <1>1, <3>1, <3>2
  <2>3. Slice(wire, at + 5, 3) = c
    <3>1. at + 5 \in Nat /\ at + 5 + 3 <= Len(wire) /\ 3 = Len(c)
      BY <1>0, <1>1, <2>0
    <3> QED
      BY <1>a, <1>9, <3>1, AgreesSlice, ZenonT(30)
  <2>4. Slice(wire, at + 8, 4) = a
    <3>1. at + 8 \in Nat /\ at + 8 + 4 <= Len(wire) /\ 4 = Len(a)
      BY <1>0, <1>1, <2>0
    <3> QED
      BY <1>a, <1>8, <3>1, AgreesSlice, ZenonT(30)
  <2>5. Slice(wire, at + 12, 4) = e
    <3>1. at + 12 \in Nat /\ at + 12 + 4 <= Len(wire) /\ 4 = Len(e)
      BY <1>0, <1>1, <2>0
    <3> QED
      BY <1>a, <1>7, <3>1, AgreesSlice, ZenonT(30)
  <2>6. Slice(wire, at + 16, 4) = h
    <3>1. at + 16 \in Nat /\ at + 16 + 4 <= Len(wire) /\ 4 = Len(h)
      BY <1>0, <1>1, <2>0
    <3> QED
      BY <1>a, <1>6, <3>1, AgreesSlice, ZenonT(30)
  <2>7. LenOf(Slice(wire, at + 1, 3)) = size /\ size - 20 = t
    BY <1>1, <1>2, <2>1
  <2>8. ReadsAs(wire, at + 20, body, avps, t)
    <3>1. body = ListOf(wire)[<<at + 20, t>>]
      BY <2>7, ReadAvpsIs
    <3>2. ReadsAs(wire, at + 20, ListOf(wire)[<<at + 20, t>>], avps, t)
      BY <1>0, <1>5, <1>p, <2>0
    <3> QED
      BY <3>1, <3>2
  <2> HIDE DEF body
  <2>9. ReadMessage(wire, at) =
            IF body.st # "ok" THEN body
            ELSE IF 20 + body.n # size THEN Refused("panic")
            ELSE Read([flags |-> m.flags, cmd |-> m.cmd, app |-> m.app, e2e |-> m.e2e,
                       hbh |-> m.hbh, avps |-> body.value, read |-> TRUE], size, body.at)
    BY <1>1, <1>2, <1>13, <2>1, <2>2, <2>3, <2>4, <2>5, <2>6, <2>7 DEF ReadMessage, body
  <2>10. at + 20 + t = at + size
    BY <1>0, <1>2
  <2>11. CASE body = Refused("error") /\ at + 20 + t > Len(wire)
    <3>1. ReadMessage(wire, at) = Refused("error")
      BY <2>9, <2>11 DEF Refused
    <3> QED
      BY <2>10, <2>11, <3>1 DEF ReadsAs, size
  <2>12. CASE body = Read(avps, t, Stop(wire, at + 20 + t))
    <3>1. body.st = "ok" /\ body.value = avps /\ body.n = t /\ body.at = Stop(wire, at + size)
      BY <2>10, <2>12 DEF Read
    <3>2. 20 + body.n = size
      BY <1>2, <3>1
    <3>3. ReadMessage(wire, at) = Read(AsRead(m), size, Stop(wire, at + size))
      BY <2>9, <3>1, <3>2, AsReadFields
    <3> QED
      BY <3>3 DEF ReadsAs, size
  <2> QED
    BY <2>8, <2>11, <2>12 DEF ReadsAs
<1> QED
  BY <1>12, <1>13

\* What WriteTo gives for a message: its bytes, or one of the two panics.
LEMMA MessageWritten ==
    ASSUME NEW m \in SoundMessages, NEW commands
    PROVE  \/ /\ WriteMessage(m, commands) = [st |-> "ok", bytes |-> Encoded(m)]
              /\ ~NilInside(m) /\ ~EnforcePanics(m, commands)
           \/ /\ WriteMessage(m, commands) = [st |-> "panic", bytes |-> <<>>]
              /\ NilInside(m) \/ EnforcePanics(m, commands)
<1>1. \A i \in DOMAIN m.avps : SizeAgrees(m.avps[i])
  <2>1. m.avps \in Seq(Avps)
    BY MessageFields
  <2>2. \A i \in DOMAIN m.avps : m.avps[i] \in Avps
    BY <2>1
  <2> QED
    BY <2>2, SizesAgree
<1>2. CASE NilInside(m) \/ EnforcePanics(m, commands)
  BY <1>2 DEF WriteMessage
<1>3. CASE ~(NilInside(m) \/ EnforcePanics(m, commands))
  BY <1>1, <1>3 DEF WriteMessage, Encoded
<1> QED
  BY <1>2, <1>3

(***************************************************************************)
(* What WriteTo writes for a message, ReadFrom reads: the same message,    *)
(* and exactly its bytes, whatever follows them. And if the bytes end too  *)
(* soon, it is an error or, if only drained padding is missing, the same   *)
(* message: never another one, and never a panic.                          *)
(***************************************************************************)
MessagesSurvive ==
    \A commands : \A m \in SoundMessages, behind \in Seq(Byte) :
        WriteMessage(m, commands).st = "ok" =>
            LET bytes == WriteMessage(m, commands).bytes
            IN  /\ ReadMessage(bytes \o behind, 0) =
                       Read(AsRead(m), Len(bytes), Len(bytes))
                /\ \A k \in 0..(Len(bytes) - 1) :
                       ReadMessage(SubSeq(bytes, 1, k), 0) \in
                           {Refused("error"), Read(AsRead(m), Len(bytes), k)}

\* Every message, with any AVPs, comes through writing and reading.
THEOREM MessageRoundTrip == MessagesSurvive
<1> SUFFICES ASSUME NEW m \in SoundMessages, NEW commands, NEW behind \in Seq(Byte),
                    WriteMessage(m, commands).st = "ok"
             PROVE  LET bytes == WriteMessage(m, commands).bytes
                    IN  /\ ReadMessage(bytes \o behind, 0) =
                               Read(AsRead(m), Len(bytes), Len(bytes))
                        /\ \A k \in 0..(Len(bytes) - 1) :
                               ReadMessage(SubSeq(bytes, 1, k), 0) \in
                                   {Refused("error"), Read(AsRead(m), Len(bytes), k)}
  BY DEF MessagesSurvive
<1> DEFINE bytes == WriteMessage(m, commands).bytes
<1>1. bytes = Encoded(m)
  BY MessageWritten
<1>2. bytes \in Seq(Byte) /\ Len(bytes) = MessageLen(m) /\ Len(bytes) \in Nat
  BY <1>1, EncodedType
<1> HIDE DEF bytes
<1>3. ReadMessage(bytes \o behind, 0) = Read(AsRead(m), Len(bytes), Len(bytes))
  <2> DEFINE wire == bytes \o behind
  <2>1. wire \in Seq(Byte) /\ Len(wire) = Len(bytes) + Len(behind)
    BY <1>2, ConcatType
  <2>2. Agrees(wire, 0, bytes)
    <3>1. \A i \in 1..Len(bytes) : wire[0 + i] = bytes[i]
      BY <1>2, ConcatProperties
    <3> QED
      BY <3>1 DEF Agrees
  <2> HIDE DEF wire
  <2>3. ReadsAs(wire, 0, ReadMessage(wire, 0), AsRead(m), Len(bytes))
    BY <1>1, <1>2, <2>1, <2>2, MessageReads
  <2>4. 0 + Len(bytes) <= Len(wire) /\ 0 + Len(bytes) = Len(bytes)
    BY <1>2, <2>1
  <2> QED
    BY <2>3, <2>4 DEF ReadsAs, Stop, wire
<1>4. ASSUME NEW k \in 0..(Len(bytes) - 1)
      PROVE  ReadMessage(SubSeq(bytes, 1, k), 0) \in
                 {Refused("error"), Read(AsRead(m), Len(bytes), k)}
  <2> DEFINE wire == SubSeq(bytes, 1, k)
  <2>1. wire \in Seq(Byte) /\ Len(wire) = k /\ \A i \in 1..k : wire[i] = bytes[i]
    <3>1. \A i \in 1..k : bytes[i] \in Byte
      BY <1>2
    <3> QED
      BY <3>1, SubSeqProperties
  <2> HIDE DEF wire
  <2>2. Agrees(wire, 0, bytes)
    BY <1>2, <2>1 DEF Agrees
  <2>3. ReadsAs(wire, 0, ReadMessage(wire, 0), AsRead(m), Len(bytes))
    BY <1>1, <1>2, <2>1, <2>2, MessageReads
  <2>4. Stop(wire, 0 + Len(bytes)) = k
    BY <1>2, <2>1 DEF Stop
  <2> QED
    BY <2>3, <2>4 DEF ReadsAs, wire
<1> QED
  BY <1>3, <1>4 DEF bytes

---------------------------------------------------------------------------
(* A stream: what is in flight on a connection are the messages that were   *)
(* put and not yet got, one behind the other.                               *)

\* The n messages behind the first k of p: in l, the i-th of them is between
\* pos[i - 1] and pos[i]. The end of l may be missing.
Laid(pos, p, k, n, l) ==
    /\ pos \in [0..n -> Nat]
    /\ pos[0] = 0
    /\ \A i \in 1..n : pos[i] = pos[i - 1] + MessageLen(p[k + i])
    /\ \A i, j \in 0..n : i <= j => pos[i] <= pos[j]
    /\ \A i \in 1..n : Agrees(l, pos[i - 1], Encoded(p[k + i]))
    /\ Len(l) <= pos[n]

Typed(p, g, l) ==
    /\ p \in Seq(SoundMessages) /\ g \in Seq(SoundMessages) /\ l \in Seq(Byte)
    /\ Len(g) <= Len(p)

\* The messages that were got are those that were put.
GotAsPut(p, g) == \A i \in 1..Len(g) : g[i] = AsRead(p[i])

\* The bytes in flight of a connection that may be cut, and of one that is not.
InStep(p, g, l) == \E pos : Laid(pos, p, Len(g), Len(p) - Len(g), l)
WholeInStep(p, g, l) ==
    \E pos : /\ Laid(pos, p, Len(g), Len(p) - Len(g), l)
             /\ Len(l) = pos[Len(p) - Len(g)]

LEMMA WholeIsInStep == \A p, g, l : WholeInStep(p, g, l) => InStep(p, g, l)
  BY DEF WholeInStep, InStep

LEMMA StreamStarts ==
    /\ Typed(<<>>, <<>>, <<>>)
    /\ GotAsPut(<<>>, <<>>)
    /\ WholeInStep(<<>>, <<>>, <<>>)
<1> DEFINE e == <<>>
           pos == [i \in 0..0 |-> 0]
<1>1. Len(e) = 0 /\ e \in Seq(SoundMessages) /\ e \in Seq(Byte) /\ Len(e) - Len(e) = 0
  BY EmptySeq
<1>2. pos \in [0..0 -> Nat] /\ pos[0] = 0
  OBVIOUS
<1> HIDE DEF e, pos
<1>3. \A i, j \in 0..0 : pos[i] <= pos[j]
  BY <1>2
<1>4. Laid(pos, e, 0, 0, e)
  BY <1>1, <1>2, <1>3 DEF Laid
<1>5. WholeInStep(e, e, e)
  BY <1>1, <1>2, <1>4 DEF WholeInStep
<1>6. Typed(e, e, e) /\ GotAsPut(e, e)
  BY <1>1 DEF Typed, GotAsPut
<1> QED
  BY <1>5, <1>6 DEF e

\* A sequence in front does not change where bytes are.
LEMMA AgreesLonger ==
    ASSUME NEW l \in Seq(Byte), NEW s \in Seq(Byte), NEW at \in Nat, NEW t \in Seq(Byte),
           Agrees(l, at, t), at + Len(t) <= Len(l)
    PROVE  Agrees(l \o s, at, t)
<1>1. Len(l) \in Nat /\ Len(s) \in Nat /\ Len(t) \in Nat
  OBVIOUS
<1>2. \A i \in 1..(Len(l) + Len(s)) : i <= Len(l) => (l \o s)[i] = l[i]
  BY ConcatProperties
<1>3. ASSUME NEW i \in 1..Len(t) PROVE (l \o s)[at + i] = t[i]
  <2>1. at + i <= Len(l) /\ at + i \in 1..(Len(l) + Len(s))
    BY <1>1
  <2>2. l[at + i] = t[i]
    BY <2>1 DEF Agrees
  <2> QED
    BY <1>2, <2>1, <2>2
<1> QED
  BY <1>3 DEF Agrees

LEMMA AgreesAtEnd ==
    ASSUME NEW l \in Seq(Byte), NEW s \in Seq(Byte)
    PROVE  Agrees(l \o s, Len(l), s)
<1>1. Len(l) \in Nat /\ Len(s) \in Nat
  OBVIOUS
<1>2. \A i \in 1..(Len(l) + Len(s)) :
          (l \o s)[i] = IF i <= Len(l) THEN l[i] ELSE s[i - Len(l)]
  BY ConcatProperties
<1>3. ASSUME NEW i \in 1..Len(s) PROVE (l \o s)[Len(l) + i] = s[i]
  <2> DEFINE j == Len(l) + i
  <2>1. j \in 1..(Len(l) + Len(s)) /\ ~(j <= Len(l)) /\ j - Len(l) = i
    BY <1>1
  <2> HIDE DEF j
  <2>2. (l \o s)[j] = s[j - Len(l)]
    BY <1>2, <2>1
  <2> QED
    BY <2>1, <2>2 DEF j
<1> QED
  BY <1>3 DEF Agrees

\* A message is put on a connection that is not cut.
LEMMA PutInStep ==
    ASSUME NEW p, NEW g, NEW l, Typed(p, g, l), WholeInStep(p, g, l), GotAsPut(p, g),
           NEW m \in SoundMessages
    PROVE  /\ Typed(Append(p, m), g, l \o Encoded(m))
           /\ GotAsPut(Append(p, m), g)
           /\ WholeInStep(Append(p, m), g, l \o Encoded(m))
<1> DEFINE k == Len(g)
           n == Len(p) - Len(g)
           q == Append(p, m)
           s == Encoded(m)
           r == l \o s
<1>1. /\ p \in Seq(SoundMessages) /\ g \in Seq(SoundMessages) /\ l \in Seq(Byte)
      /\ Len(g) <= Len(p) /\ Len(p) \in Nat /\ Len(g) \in Nat /\ Len(l) \in Nat
  BY DEF Typed
<1>2. s \in Seq(Byte) /\ Len(s) = MessageLen(m) /\ MessageLen(m) \in Nat
  BY EncodedType, MessageFields
<1> HIDE DEF s
<1>3. r \in Seq(Byte) /\ Len(r) = Len(l) + Len(s)
  BY <1>1, <1>2, ConcatType
<1>4. /\ q \in Seq(SoundMessages) /\ Len(q) = Len(p) + 1 /\ q[Len(p) + 1] = m
      /\ \A i \in 1..Len(p) : q[i] = p[i]
  BY <1>1, AppendProperties
<1> HIDE DEF q, r
<1>5. PICK pos : Laid(pos, p, k, n, l) /\ Len(l) = pos[n]
  BY DEF WholeInStep
<1>6. n \in Nat /\ k \in Nat /\ k + n = Len(p) /\ Len(q) - Len(g) = n + 1
      /\ \A i \in 1..n : k + i \in 1..Len(p)
  BY <1>1, <1>4
<1> HIDE DEF n, k
<1> DEFINE last == pos[n] + MessageLen(m)
           new == [i \in 0..(n + 1) |-> IF i <= n THEN pos[i] ELSE last]
<1>7. /\ pos \in [0..n -> Nat] /\ pos[0] = 0
      /\ \A i \in 1..n : pos[i] = pos[i - 1] + MessageLen(p[k + i])
      /\ \A i, j \in 0..n : i <= j => pos[i] <= pos[j]
      /\ \A i \in 1..n : Agrees(l, pos[i - 1], Encoded(p[k + i]))
      /\ Len(l) = pos[n]
  BY <1>5 DEF Laid
<1>8. last \in Nat /\ pos[n] <= last
  BY <1>2, <1>6, <1>7
<1>9. /\ new \in [0..(n + 1) -> Nat]
      /\ \A i \in 0..n : new[i] = pos[i]
      /\ new[n + 1] = last
  BY <1>6, <1>7, <1>8
<1> HIDE DEF new
<1>10. new[0] = 0
  BY <1>6, <1>7, <1>9
<1>11. ASSUME NEW i \in 1..(n + 1)
       PROVE  /\ new[i] = new[i - 1] + MessageLen(q[k + i])
              /\ Agrees(r, new[i - 1], Encoded(q[k + i]))
  <2>1. CASE i <= n
    <3>1. i \in 1..n /\ i - 1 \in 0..n /\ i \in 0..n /\ k + i \in 1..Len(p) /\ n \in 0..n
      BY <1>6, <2>1
    <3>2. q[k + i] = p[k + i] /\ new[i] = pos[i] /\ new[i - 1] = pos[i - 1]
      BY <1>4, <1>9, <3>1
    <3>3. p[k + i] \in SoundMessages
      BY <1>1, <3>1
    <3> DEFINE t == Encoded(p[k + i])
    <3>4. t \in Seq(Byte) /\ Len(t) = MessageLen(p[k + i])
      BY <3>3, EncodedType
    <3>5. pos[i - 1] \in Nat /\ pos[i - 1] + Len(t) <= Len(l) /\ Agrees(l, pos[i - 1], t)
      <4>1. pos[i] <= pos[n] /\ pos[i] = pos[i - 1] + MessageLen(p[k + i])
        BY <1>7, <2>1, <3>1
      <4>2. pos[i - 1] \in Nat /\ Agrees(l, pos[i - 1], t)
        BY <1>7, <3>1
      <4> HIDE DEF t
      <4> QED
        BY <1>7, <3>4, <4>1, <4>2
    <3> HIDE DEF t
    <3>6. Agrees(r, pos[i - 1], t)
      BY <1>1, <1>2, <3>4, <3>5, AgreesLonger DEF r
    <3> QED
      BY <1>7, <3>1, <3>2, <3>6 DEF t
  <2>2. CASE ~(i <= n)
    <3>1. i = n + 1 /\ i - 1 = n /\ k + i = Len(p) + 1 /\ n \in 0..n
      BY <1>6, <2>2
    <3>2. q[k + i] = m /\ new[i] = last /\ new[i - 1] = pos[n]
      BY <1>4, <1>9, <3>1
    <3>3. Agrees(r, Len(l), s)
      BY <1>1, <1>2, AgreesAtEnd DEF r
    <3> QED
      BY <1>7, <3>2, <3>3 DEF s
  <2> QED
    BY <2>1, <2>2
<1>12. ASSUME NEW i \in 0..(n + 1), NEW j \in 0..(n + 1), i <= j
       PROVE  new[i] <= new[j]
  <2>1. CASE j <= n
    <3>1. i \in 0..n /\ j \in 0..n
      BY <1>6, <1>12, <2>1
    <3> QED
      BY <1>7, <1>9, <1>12, <3>1
  <2>2. CASE ~(j <= n)
    <3>1. j = n + 1
      BY <1>6, <2>2
    <3>2. CASE i <= n
      <4>1. i \in 0..n /\ n \in 0..n
        BY <1>6, <3>2
      <4>2. pos[i] <= pos[n] /\ pos[i] \in Nat /\ pos[n] \in Nat
        BY <1>7, <3>2, <4>1
      <4>3. new[i] = pos[i] /\ new[j] = last
        BY <1>9, <3>1, <4>1
      <4> HIDE DEF last
      <4> QED
        BY <1>8, <4>2, <4>3
    <3>3. CASE ~(i <= n)
      <4>1. i = j
        BY <1>6, <3>1, <3>3
      <4> QED
        BY <1>8, <1>9, <3>1, <4>1
    <3> QED
      BY <3>2, <3>3
  <2> QED
    BY <2>1, <2>2
<1>13. Len(r) = new[n + 1]
  BY <1>2, <1>3, <1>7, <1>9
<1>14. Laid(new, q, k, n + 1, r)
  <2>1. Len(r) <= new[n + 1]
    BY <1>1, <1>2, <1>3, <1>13
  <2> QED
    BY <1>9, <1>10, <1>11, <1>12, <2>1 DEF Laid
<1>15. WholeInStep(q, g, r)
  BY <1>6, <1>13, <1>14 DEF WholeInStep, k
<1>16. Typed(q, g, r)
  BY <1>1, <1>3, <1>4 DEF Typed
<1>17. GotAsPut(q, g)
  <2>1. ASSUME NEW i \in 1..Len(g) PROVE g[i] = AsRead(q[i])
    <3>1. i \in 1..Len(p)
      BY <1>1
    <3>2. q[i] = p[i]
      BY <1>4, <3>1
    <3> QED
      BY <3>2 DEF GotAsPut
  <2> QED
    BY <2>1 DEF GotAsPut
<1> QED
  BY <1>15, <1>16, <1>17 DEF q, r, s

\* The announced length is behind the first byte of a message.
LEMMA LengthInFront ==
    ASSUME NEW wire \in Seq(Byte), NEW m \in SoundMessages, NEW at \in Nat,
           Agrees(wire, at, Encoded(m))
    PROVE  Agrees(wire, at + 1, LenBytes(MessageLen(m)))
<1> DEFINE v == <<1>>
           n == LenBytes(MessageLen(m))
           f == <<MessageBits(m.flags)>>
           c == LenBytes(m.cmd)
           a == Bytes4(m.app)
           e == Bytes4(m.e2e)
           h == Bytes4(m.hbh)
           b == Joined(WriteEach(m.avps))
<1>1. /\ Encoded(m) = v \o n \o f \o c \o a \o e \o h \o b
      /\ v \in Seq(Byte) /\ Len(v) = 1 /\ n \in Seq(Byte) /\ f \in Seq(Byte)
      /\ c \in Seq(Byte) /\ a \in Seq(Byte) /\ e \in Seq(Byte) /\ h \in Seq(Byte)
      /\ b \in Seq(Byte)
  BY EncodedParts
<1> HIDE DEF v, n, f, c, a, e, h, b
<1>a. Agrees(wire, at, v \o n \o f \o c \o a \o e \o h \o b)
  BY <1>1
<1>2. v \o n \in Seq(Byte)
  BY <1>1, ConcatProperties
<1>3. v \o n \o f \in Seq(Byte)
  BY <1>1, <1>2, ConcatProperties
<1>4. v \o n \o f \o c \in Seq(Byte)
  BY <1>1, <1>3, ConcatProperties
<1>5. v \o n \o f \o c \o a \in Seq(Byte)
  BY <1>1, <1>4, ConcatProperties
<1>6. v \o n \o f \o c \o a \o e \in Seq(Byte)
  BY <1>1, <1>5, ConcatProperties
<1>7. v \o n \o f \o c \o a \o e \o h \in Seq(Byte)
  BY <1>1, <1>6, ConcatProperties
<1>8. Agrees(wire, at, v \o n \o f \o c \o a \o e \o h)
  BY <1>1, <1>7, <1>a, AgreesParts
<1>9. Agrees(wire, at, v \o n \o f \o c \o a \o e)
  BY <1>1, <1>6, <1>8, AgreesParts
<1>10. Agrees(wire, at, v \o n \o f \o c \o a)
  BY <1>1, <1>5, <1>9, AgreesParts
<1>11. Agrees(wire, at, v \o n \o f \o c)
  BY <1>1, <1>4, <1>10, AgreesParts
<1>12. Agrees(wire, at, v \o n \o f)
  BY <1>1, <1>3, <1>11, AgreesParts
<1>13. Agrees(wire, at, v \o n)
  BY <1>1, <1>2, <1>12, AgreesParts
<1>14. Agrees(wire, at + 1, n)
  BY <1>1, <1>13, AgreesParts
<1> QED
  BY <1>14 DEF n

\* A message is read from a connection that may be cut.
LEMMA ReadLaid ==
    ASSUME NEW p, NEW g, NEW l, Typed(p, g, l), GotAsPut(p, g),
           NEW pos, Laid(pos, p, Len(g), Len(p) - Len(g), l)
    PROVE  LET n == Len(p) - Len(g)
               r == ReadMessage(l, 0)
               rest == SubSeq(l, r.at + 1, Len(l))
           IN  \/ r = Refused("error") /\ ~(Len(l) = pos[n] /\ l # <<>>)
               \/ /\ r.st = "ok"
                  /\ Typed(p, Append(g, r.value), rest)
                  /\ GotAsPut(p, Append(g, r.value))
                  /\ InStep(p, Append(g, r.value), rest)
                  /\ Len(l) = pos[n] => WholeInStep(p, Append(g, r.value), rest)
<1> DEFINE k == Len(g)
           n == Len(p) - Len(g)
           r == ReadMessage(l, 0)
           rest == SubSeq(l, r.at + 1, Len(l))
           m == p[k + 1]
           d == Append(g, r.value)
<1>1. /\ p \in Seq(SoundMessages) /\ g \in Seq(SoundMessages) /\ l \in Seq(Byte)
      /\ Len(g) <= Len(p) /\ Len(p) \in Nat /\ Len(g) \in Nat /\ Len(l) \in Nat
  BY DEF Typed
<1>2. n \in Nat /\ k \in Nat /\ k + n = Len(p) /\ \A i \in 1..n : k + i \in 1..Len(p)
  BY <1>1
<1>3. Laid(pos, p, k, n, l)
  OBVIOUS
<1> HIDE DEF n
<1>4. /\ pos \in [0..n -> Nat] /\ pos[0] = 0
      /\ \A i \in 1..n : pos[i] = pos[i - 1] + MessageLen(p[k + i])
      /\ \A i, j \in 0..n : i <= j => pos[i] <= pos[j]
      /\ \A i \in 1..n : Agrees(l, pos[i - 1], Encoded(p[k + i]))
      /\ Len(l) <= pos[n]
  BY <1>3 DEF Laid
<1> SUFFICES \/ r = Refused("error") /\ ~(Len(l) = pos[n] /\ l # <<>>)
             \/ /\ r.st = "ok"
                /\ Typed(p, d, rest)
                /\ GotAsPut(p, d)
                /\ InStep(p, d, rest)
                /\ Len(l) = pos[n] => WholeInStep(p, d, rest)
  BY DEF n
<1>5. CASE n = 0
  <2>1. Len(l) = 0
    BY <1>1, <1>4, <1>5
  <2>2. l = <<>>
    BY <1>1, <2>1, EmptySeq
  <2>3. Len(l) - 0 < 20
    BY <2>1
  <2>4. r = Refused("error")
    BY <2>3 DEF ReadMessage
  <2> QED
    BY <2>2, <2>4
<1>6. CASE n # 0
  <2> DEFINE size == MessageLen(m)
  <2>1. 1 \in 1..n /\ 1 \in 0..n /\ 0 \in 0..n /\ n \in 0..n /\ k + 1 \in 1..Len(p)
    BY <1>2, <1>6
  <2>2. m \in SoundMessages
    BY <1>1, <2>1
  <2>3. size \in Nat /\ size >= 20
    BY <2>2, MessageFields
  <2> HIDE DEF size, m
  <2>4. pos[1] = size /\ Agrees(l, 0, Encoded(m)) /\ size <= pos[n] /\ pos[n] \in Nat
    <3>1. pos[1] = pos[1 - 1] + MessageLen(p[k + 1]) /\ pos[1] <= pos[n]
          /\ Agrees(l, pos[1 - 1], Encoded(p[k + 1])) /\ 1 - 1 = 0
      BY <1>4, <2>1
    <3> QED
      BY <1>4, <2>1, <2>3, <3>1 DEF size, m
  <2>5. ReadsAs(l, 0, r, AsRead(m), size)
    <3>1. 0 \in 0..Len(l)
      BY <1>1
    <3> QED
      BY <1>1, <2>2, <2>4, <3>1, MessageReads DEF size
  <2> HIDE DEF r
  <2>6. CASE r = Refused("error") /\ 0 + size > Len(l)
    <3>1. Len(l) # pos[n]
      BY <1>1, <2>3, <2>4, <2>6
    <3> QED
      BY <2>6, <3>1
  <2>7. CASE r = Read(AsRead(m), size, Stop(l, 0 + size))
    <3> DEFINE s == Stop(l, size)
    <3>1. r.st = "ok" /\ r.value = AsRead(m) /\ r.at = s
      <4>1. 0 + size = size
        BY <2>3
      <4> QED
        BY <2>7, <4>1 DEF Read
    <3>2. s \in 0..Len(l) /\ (size <= Len(l) => s = size) /\ (~(size <= Len(l)) => s = Len(l))
      BY <1>1, <2>3 DEF Stop
    <3> HIDE DEF s
    <3>3. /\ d \in Seq(SoundMessages) /\ Len(d) = k + 1 /\ d[k + 1] = AsRead(m)
          /\ \A i \in 1..k : d[i] = g[i]
      BY <1>1, <2>2, <3>1, AsReadFields, AppendProperties
    <3>4. rest = SubSeq(l, s + 1, Len(l))
      BY <3>1
    <3> HIDE DEF d, rest
    <3>5. /\ rest \in Seq(Byte) /\ Len(rest) = Len(l) - s
          /\ \A i \in 1..(Len(l) - s) : rest[i] = l[s + i]
      <4> DEFINE w == SubSeq(l, s + 1, Len(l))
      <4>1. s + 1 \in Int /\ Len(l) \in Int /\ \A i \in (s + 1)..Len(l) : l[i] \in Byte
        BY <1>1, <3>2
      <4>2. /\ w \in Seq(Byte)
            /\ Len(w) = IF s + 1 <= Len(l) THEN Len(l) - (s + 1) + 1 ELSE 0
            /\ \A i \in 1..(Len(l) - (s + 1) + 1) : w[i] = l[s + 1 + i - 1]
        BY <4>1, SubSeqProperties
      <4> DEFINE x == Len(l)
      <4>3. x \in Nat /\ s \in Nat /\ s <= x
        BY <1>1, <3>2
      <4>4. /\ w \in Seq(Byte)
            /\ Len(w) = IF s + 1 <= x THEN x - (s + 1) + 1 ELSE 0
            /\ \A i \in 1..(x - (s + 1) + 1) : w[i] = l[s + 1 + i - 1]
        BY <4>2
      <4> HIDE DEF w, x
      <4>5. x - (s + 1) + 1 = x - s /\ (~(s + 1 <= x) => x - s = 0)
        BY <4>3
      <4>6. Len(w) = x - s
        BY <4>4, <4>5
      <4>7. ASSUME NEW i \in 1..(x - s) PROVE w[i] = l[s + i]
        <5>1. s + 1 + i - 1 = s + i
          BY <4>3
        <5>2. w[i] = l[s + 1 + i - 1]
          BY <4>4, <4>5
        <5> QED
          BY <5>1, <5>2
      <4> QED
        BY <3>4, <4>4, <4>6, <4>7 DEF w, x
    <3>6. Typed(p, d, rest) /\ Len(p) - Len(d) = n - 1
      BY <1>1, <1>2, <1>6, <3>3, <3>5 DEF Typed
    <3>7. GotAsPut(p, d)
      <4>1. ASSUME NEW i \in 1..(k + 1) PROVE d[i] = AsRead(p[i])
        <5>1. CASE i = k + 1
          BY <3>3, <5>1 DEF m
        <5>2. CASE i # k + 1
          <6>1. i \in 1..k
            BY <1>2, <5>2
          <6> QED
            BY <3>3, <6>1 DEF GotAsPut
        <5> QED
          BY <5>1, <5>2
      <4> QED
        BY <3>3, <4>1 DEF GotAsPut
    <3> DEFINE new == [i \in 0..(n - 1) |-> pos[i + 1] - size]
    <3>8. /\ \A i \in 0..(n - 1) : new[i] = pos[i + 1] - size
          /\ new \in [0..(n - 1) -> Nat]
      <4>1. ASSUME NEW i \in 0..(n - 1) PROVE pos[i + 1] - size \in Nat
        <5>1. i + 1 \in 0..n /\ 1 <= i + 1
          BY <1>2
        <5>2. pos[1] <= pos[i + 1] /\ pos[i + 1] \in Nat
          BY <1>4, <2>1, <5>1
        <5> QED
          BY <2>3, <2>4, <5>2
      <4> QED
        BY <4>1
    <3> HIDE DEF new
    <3>9. n - 1 \in Nat /\ 0 \in 0..(n - 1) /\ new[0] = 0
      <4>1. n - 1 \in Nat /\ 0 \in 0..(n - 1)
        BY <1>2, <1>6
      <4>2. new[0] = pos[0 + 1] - size
        BY <3>8, <4>1
      <4> QED
        BY <2>3, <2>4, <4>1, <4>2
    <3>10. ASSUME NEW i \in 1..(n - 1)
           PROVE  /\ new[i] = new[i - 1] + MessageLen(p[k + 1 + i])
                  /\ Agrees(rest, new[i - 1], Encoded(p[k + 1 + i]))
      <4>1. /\ i \in 0..(n - 1) /\ i - 1 \in 0..(n - 1) /\ i + 1 \in 1..n /\ i \in 0..n
            /\ i + 1 \in 0..n /\ (i + 1) - 1 = i /\ (i - 1) + 1 = i
            /\ k + (i + 1) = k + 1 + i /\ k + (i + 1) \in 1..Len(p)
        BY <1>2
      <4> DEFINE x == p[k + 1 + i]
                 t == Encoded(x)
      <4>2. x \in SoundMessages
        BY <1>1, <4>1
      <4>3. t \in Seq(Byte) /\ Len(t) = MessageLen(x) /\ MessageLen(x) \in Nat
        BY <4>2, EncodedType, MessageFields
      <4>4. pos[i + 1] = pos[i] + MessageLen(x) /\ Agrees(l, pos[i], t)
        BY <1>4, <4>1
      <4>5. pos[i] \in Nat /\ pos[i + 1] \in Nat /\ size <= pos[i]
        <5>1. 1 <= i
          OBVIOUS
        <5> QED
          BY <1>4, <2>1, <2>4, <4>1, <5>1
      <4>6. new[i] = pos[i + 1] - size /\ new[i - 1] = pos[i] - size
        BY <3>8, <4>1
      <4> HIDE DEF x, t
      <4>7. new[i] = new[i - 1] + MessageLen(x)
        BY <2>3, <4>3, <4>4, <4>5, <4>6
      <4>8. ASSUME NEW j \in 1..Len(t), new[i - 1] + j <= Len(rest)
            PROVE  rest[new[i - 1] + j] = t[j]
        <5> DEFINE y == new[i - 1] + j
        <5>1. y \in Nat /\ y >= 1 /\ Len(t) \in Nat /\ j \in Nat
          BY <2>3, <4>3, <4>5, <4>6, SMTT(30)
        <5>2. s = size
          BY <1>1, <2>3, <3>2, <3>5, <4>8, <5>1, SMTT(30)
        <5> DEFINE a == pos[i]
                   b == Len(l)
        <5>5. y = (a - size) + j /\ y <= Len(rest) /\ Len(rest) = b - s /\ a \in Nat /\ b \in Nat
          BY <1>1, <3>5, <4>5, <4>6, <4>8
        <5> HIDE DEF y, a, b
        <5>6. y \in 1..(b - s) /\ s + y = a + j /\ a + j <= b
          BY <2>3, <5>1, <5>2, <5>5
        <5>3. y \in 1..(Len(l) - s) /\ s + y = pos[i] + j /\ pos[i] + j <= Len(l)
          BY <5>6 DEF a, b
        <5>4. rest[y] = l[s + y]
          BY <3>5, <5>3
        <5>7. l[pos[i] + j] = t[j]
          BY <4>4, <5>3 DEF Agrees
        <5> QED
          BY <5>3, <5>4, <5>7 DEF y
      <4>9. Agrees(rest, new[i - 1], t)
        BY <4>8 DEF Agrees
      <4> QED
        BY <4>7, <4>9 DEF x, t
    <3>11. ASSUME NEW i \in 0..(n - 1), NEW j \in 0..(n - 1), i <= j
           PROVE  new[i] <= new[j]
      <4>1. i + 1 \in 0..n /\ j + 1 \in 0..n /\ i + 1 <= j + 1
        BY <1>2, <3>11
      <4>2. pos[i + 1] <= pos[j + 1] /\ pos[i + 1] \in Nat /\ pos[j + 1] \in Nat
        BY <1>4, <4>1
      <4> QED
        BY <2>3, <3>8, <4>2
    <3>12. new[n - 1] = pos[n] - size
      <4>1. n - 1 \in 0..(n - 1) /\ (n - 1) + 1 = n
        BY <1>2, <3>9
      <4> QED
        BY <3>8, <4>1
    <3>13. Len(rest) <= new[n - 1] /\ (Len(l) = pos[n] => Len(rest) = new[n - 1])
      <4>1. Len(l) <= pos[n] /\ pos[n] \in Nat
        BY <1>4, <2>4
      <4> QED
        BY <1>1, <2>3, <2>4, <3>2, <3>5, <3>12, <4>1, SMTT(30)
    <3>14. Laid(new, p, k + 1, n - 1, rest)
      BY <3>8, <3>9, <3>10, <3>11, <3>13 DEF Laid
    <3>15. Len(d) = k + 1
      BY <3>3
    <3>16. Laid(new, p, Len(d), Len(p) - Len(d), rest)
      BY <3>6, <3>14, <3>15
    <3>17. InStep(p, d, rest)
      BY <3>16 DEF InStep
    <3>18. Len(l) = pos[n] => WholeInStep(p, d, rest)
      BY <3>6, <3>13, <3>16 DEF WholeInStep
    <3> QED
      BY <3>1, <3>6, <3>7, <3>17, <3>18
  <2> QED
    BY <2>5, <2>6, <2>7 DEF ReadsAs
<1> QED
  BY <1>5, <1>6

\* A cut: the first bytes of what was in flight.
LEMMA CutInStep ==
    ASSUME NEW p, NEW g, NEW l, Typed(p, g, l), InStep(p, g, l), NEW x \in 0..Len(l)
    PROVE  Typed(p, g, SubSeq(l, 1, x)) /\ InStep(p, g, SubSeq(l, 1, x))
<1> DEFINE s == SubSeq(l, 1, x)
           n == Len(p) - Len(g)
<1>1. l \in Seq(Byte) /\ Len(l) \in Nat /\ Len(p) \in Nat /\ Len(g) \in Nat
      /\ p \in Seq(SoundMessages) /\ g \in Seq(SoundMessages) /\ Len(g) <= Len(p)
  BY DEF Typed
<1>2. s \in Seq(Byte) /\ Len(s) = x /\ \A i \in 1..x : s[i] = l[i]
  <2>1. \A i \in 1..x : l[i] \in Byte
    BY <1>1
  <2> QED
    BY <2>1, SubSeqProperties
<1>3. PICK pos : Laid(pos, p, Len(g), n, l)
  BY DEF InStep
<1>0. n \in Nat
  BY <1>1
<1> HIDE DEF s, n
<1>4. ASSUME NEW i \in 1..n PROVE Agrees(s, pos[i - 1], Encoded(p[Len(g) + i]))
  <2> DEFINE t == Encoded(p[Len(g) + i])
             a == pos[i - 1]
  <2>0. a \in Nat
    <3>1. i - 1 \in 0..n
      BY <1>0
    <3> QED
      BY <1>3, <3>1 DEF Laid
  <2>1. Agrees(l, a, t)
    BY <1>3 DEF Laid
  <2> HIDE DEF t, a
  <2>2. ASSUME NEW j \in 1..Len(t), a + j <= Len(s) PROVE s[a + j] = t[j]
    <3>1. a + j \in 1..x /\ a + j <= Len(l)
      BY <1>1, <1>2, <2>0, <2>2
    <3>2. l[a + j] = t[j]
      BY <2>1, <3>1 DEF Agrees
    <3> QED
      BY <1>2, <3>1, <3>2
  <2> QED
    BY <2>2 DEF Agrees, t, a
<1>5. Len(s) <= pos[n]
  <2>1. Len(l) <= pos[n] /\ pos[n] \in Nat
    BY <1>0, <1>3 DEF Laid
  <2> QED
    BY <1>1, <1>2, <2>1
<1>6. Laid(pos, p, Len(g), n, s)
  BY <1>3, <1>4, <1>5 DEF Laid
<1>7. InStep(p, g, s)
  BY <1>6 DEF InStep, n
<1>8. Typed(p, g, s)
  BY <1>1, <1>2 DEF Typed
<1> QED
  BY <1>7, <1>8 DEF s

\* The announced lengths delimit the messages in flight.
LEMMA WholeFramed ==
    ASSUME NEW p, NEW g, NEW l, Typed(p, g, l), WholeInStep(p, g, l)
    PROVE  Framed(l, Len(p) - Len(g))
<1> DEFINE k == Len(g)
           n == Len(p) - Len(g)
           Starts(f) == [i \in 0..n |-> IF i = 0 THEN 0 ELSE NextStart(l, f[i - 1])]
<1>1. /\ p \in Seq(SoundMessages) /\ g \in Seq(SoundMessages) /\ l \in Seq(Byte)
      /\ Len(g) <= Len(p) /\ Len(p) \in Nat /\ Len(g) \in Nat /\ Len(l) \in Nat
  BY DEF Typed
<1>2. n \in Nat /\ k \in Nat /\ \A i \in 1..n : k + i \in 1..Len(p)
  BY <1>1
<1>3. PICK pos : Laid(pos, p, k, n, l) /\ Len(l) = pos[n]
  BY DEF WholeInStep
<1> HIDE DEF n
<1>4. /\ pos \in [0..n -> Nat] /\ pos[0] = 0
      /\ \A i \in 1..n : pos[i] = pos[i - 1] + MessageLen(p[k + i])
      /\ \A i, j \in 0..n : i <= j => pos[i] <= pos[j]
      /\ \A i \in 1..n : Agrees(l, pos[i - 1], Encoded(p[k + i]))
  BY <1>3 DEF Laid
<1>5. ASSUME NEW i \in 1..n
      PROVE  /\ pos[i] = NextStart(l, pos[i - 1])
             /\ (pos[i] - pos[i - 1]) % 4 = 0
  <2> DEFINE m == p[k + i]
             a == pos[i - 1]
             size == MessageLen(m)
             s == LenBytes(size)
  <2>0. i - 1 \in 0..n /\ i \in 0..n /\ n \in 0..n /\ k + i \in 1..Len(p)
    BY <1>2
  <2>1. m \in SoundMessages
    BY <1>1, <2>0
  <2>2. size \in Nat /\ size >= 20 /\ size % 4 = 0 /\ size \in 0..MaxLen
    BY <2>1, MessageFields
  <2>3. pos[i] = a + size /\ a \in Nat /\ a + size <= Len(l) /\ Agrees(l, a, Encoded(m))
    <3>1. pos[i] <= pos[n]
      BY <1>4, <2>0
    <3> QED
      BY <1>3, <1>4, <2>0, <3>1
  <2>4. s \in Seq(Byte) /\ Len(s) = 3 /\ LenOf(s) = size
    BY <2>2, LenBytesType
  <2>5. Agrees(l, a + 1, s)
    <3> HIDE DEF a
    <3>1. Agrees(l, a + 1, s)
      BY <1>1, <2>1, <2>3, LengthInFront
    <3> QED
      BY <3>1
  <2> HIDE DEF s, size, m, a
  <2>6. Slice(l, a + 1, 3) = s
    <3>1. a + 1 \in Nat /\ a + 1 + 3 <= Len(l)
      BY <1>1, <2>2, <2>3
    <3> QED
      BY <1>1, <2>4, <2>5, <3>1, AgreesSlice
  <2>7. NextStart(l, a) = a + size
    <3>1. ~(a + 20 > Len(l))
      BY <1>1, <2>2, <2>3
    <3> QED
      BY <2>4, <2>6, <3>1 DEF NextStart
  <2>8. (a + size) - a = size
    BY <2>2, <2>3
  <2> QED
    BY <2>2, <2>3, <2>7, <2>8 DEF a
<1>6. pos = Starts(pos)
  <2>1. ASSUME NEW i \in 0..n PROVE pos[i] = IF i = 0 THEN 0 ELSE NextStart(l, pos[i - 1])
    <3>1. CASE i = 0
      BY <1>4, <3>1
    <3>2. CASE i # 0
      <4>1. i \in 1..n
        BY <1>2, <3>2
      <4> QED
        BY <1>5, <3>2, <4>1
    <3> QED
      BY <3>1, <3>2
  <2> QED
    BY <1>4, <2>1
<1> SUFFICES Framed(l, n)
  BY DEF n
<1>7. ASSUME NEW f, f = Starts(f) PROVE \A i \in 0..n : f[i] = pos[i]
  <2> DEFINE T == {i \in Nat : i <= n => f[i] = pos[i]}
  <2>1. 0 \in T
    <3>1. 0 \in 0..n
      BY <1>2
    <3> QED
      BY <1>4, <1>7, <3>1
  <2>2. ASSUME NEW i \in Nat, i \in T PROVE i + 1 \in T
    <3> SUFFICES ASSUME i + 1 <= n PROVE f[i + 1] = pos[i + 1]
      OBVIOUS
    <3>1. i + 1 \in 1..n /\ i + 1 \in 0..n /\ i + 1 # 0 /\ (i + 1) - 1 = i /\ i <= n
      BY <1>2
    <3>2. f[i] = pos[i]
      BY <2>2, <3>1
    <3>3. f[i + 1] = NextStart(l, f[i])
      BY <1>7, <3>1
    <3>4. pos[i + 1] = NextStart(l, pos[i])
      BY <1>5, <3>1
    <3> QED
      BY <3>2, <3>3, <3>4
  <2>3. \A i \in Nat : i \in T
    <3> HIDE DEF T
    <3> QED
      BY <2>1, <2>2, Induction
  <2> QED
    BY <1>2, <2>3
<1> DEFINE c == CHOOSE f : f = Starts(f)
<1>8. c = Starts(c)
  BY <1>6, Zenon
<1>9. Framed(l, n) <=> /\ c[n] = Len(l)
                       /\ \A i \in 1..n : (c[i] - c[i - 1]) % 4 = 0
  BY Zenon DEF Framed
<1> HIDE DEF c, Starts
<1>10. \A i \in 0..n : c[i] = pos[i]
  BY <1>7, <1>8
<1>11. \A i \in 1..n : i \in 0..n /\ i - 1 \in 0..n
  BY <1>2
<1>12. n \in 0..n
  BY <1>2
<1> QED
  BY <1>3, <1>5, <1>9, <1>10, <1>11, <1>12

---------------------------------------------------------------------------
(* The state invariant. Both connections hold what is between their writer  *)
(* and their reader; the part about the relay is PanicsExplained's own.     *)

Held(h) ==
    /\ Typed(put[h], got[h], link[h])
    /\ GotAsPut(put[h], got[h])
    /\ InStep(put[h], got[h], link[h])
    /\ h \notin cut => WholeInStep(put[h], got[h], link[h])

RelayExplained ==
    "relay" \in crashed =>
        \E i \in DOMAIN got[1] :
            LET m == got[1][i]
            IN  \/ \E j \in DOMAIN m.avps : EmptyGroupIn(m.avps[j])
                \/ /\ "request" \in m.flags
                   /\ <<m.app, m.cmd>> \notin Commands["relay"]

IInv ==
    /\ put \in [Hops -> Seq(SoundMessages)]
    /\ got \in [Hops -> Seq(SoundMessages)]
    /\ link \in [Hops -> Seq(Byte)]
    /\ \A h \in Hops : Held(h)
    /\ relayed \subseteq DOMAIN got[1]
    /\ cut \subseteq Hops
    /\ down \subseteq cut
    /\ crashed \subseteq {"relay"}
    /\ RelayExplained

LEMMA InitHolds == Init => IInv
<1> SUFFICES ASSUME Init PROVE IInv
  OBVIOUS
<1> DEFINE e == <<>>
<1>1. e \in Seq(SoundMessages) /\ e \in Seq(Byte)
  BY EmptySeq
<1>2. Typed(e, e, e) /\ GotAsPut(e, e) /\ WholeInStep(e, e, e) /\ InStep(e, e, e)
  BY StreamStarts, WholeIsInStep
<1>3. put = [h \in Hops |-> e] /\ link = [h \in Hops |-> e] /\ got = [h \in Hops |-> e]
  BY DEF Init
<1> HIDE DEF e
<1>4. \A h \in Hops : put[h] = e /\ link[h] = e /\ got[h] = e
  BY <1>3
<1>5. \A h \in Hops : Held(h)
  BY <1>2, <1>4 DEF Held
<1>6. /\ put \in [Hops -> Seq(SoundMessages)]
      /\ got \in [Hops -> Seq(SoundMessages)]
      /\ link \in [Hops -> Seq(Byte)]
  BY <1>1, <1>3
<1>7. relayed = {} /\ cut = {} /\ down = {} /\ crashed = {}
  BY DEF Init
<1> QED
  BY <1>5, <1>6, <1>7 DEF IInv, RelayExplained

\* A message is written, or panics its writer.
LEMMA PutHolds ==
    ASSUME IInv, NEW h \in Hops, NEW m \in SoundMessages, Put(h, m), UNCHANGED <<got, cut>>
    PROVE  /\ put' \in [Hops -> Seq(SoundMessages)]
           /\ link' \in [Hops -> Seq(Byte)]
           /\ \A x \in Hops : Held(x)'
           /\ \/ crashed' = crashed
              \/ /\ crashed' = crashed \cup {Writer[h]}
                 /\ NilInside(m) \/ EnforcePanics(m, Commands[Writer[h]])
<1> DEFINE c == Commands[Writer[h]]
           w == WriteMessage(m, c)
<1>1. /\ put \in [Hops -> Seq(SoundMessages)] /\ link \in [Hops -> Seq(Byte)]
      /\ \A x \in Hops : Held(x)
  BY DEF IInv
<1>2. /\ h \notin cut
      /\ IF w.st = "panic"
         THEN crashed' = crashed \cup {Writer[h]} /\ put' = put /\ link' = link
         ELSE /\ put' = [put EXCEPT ![h] = Append(@, m)]
              /\ link' = [link EXCEPT ![h] = @ \o w.bytes]
              /\ crashed' = crashed
  BY DEF Put
<1>3. \/ w = [st |-> "ok", bytes |-> Encoded(m)]
      \/ /\ w = [st |-> "panic", bytes |-> <<>>]
         /\ NilInside(m) \/ EnforcePanics(m, c)
  BY MessageWritten
<1> HIDE DEF w, c
<1>4. CASE w.st = "panic"
  <2>1. w # [st |-> "ok", bytes |-> Encoded(m)]
    BY <1>4
  <2>2. \A x \in Hops : Held(x)'
    BY <1>1, <1>2, <1>4 DEF Held
  <2> QED
    BY <1>1, <1>2, <1>3, <1>4, <2>1, <2>2 DEF c
<1>5. CASE w.st # "panic"
  <2>1. w.bytes = Encoded(m)
    BY <1>3, <1>5
  <2> DEFINE p == put[h]
             l == link[h]
             q == Append(put[h], m)
             r == link[h] \o Encoded(m)
  <2>2. put' = [put EXCEPT ![h] = q] /\ link' = [link EXCEPT ![h] = r] /\ crashed' = crashed
    BY <1>2, <1>5, <2>1
  <2>3. Typed(p, got[h], l) /\ GotAsPut(p, got[h]) /\ WholeInStep(p, got[h], l)
    BY <1>1, <1>2 DEF Held
  <2>4. Typed(q, got[h], r) /\ GotAsPut(q, got[h]) /\ WholeInStep(q, got[h], r)
    <3> HIDE DEF p, l
    <3>1. /\ Typed(Append(p, m), got[h], l \o Encoded(m))
          /\ GotAsPut(Append(p, m), got[h])
          /\ WholeInStep(Append(p, m), got[h], l \o Encoded(m))
      BY <2>3, PutInStep
    <3> QED
      BY <3>1 DEF p, l
  <2> HIDE DEF p, l, q, r
  <2>5. q \in Seq(SoundMessages) /\ r \in Seq(Byte)
    BY <2>4 DEF Typed
  <2>6. put' \in [Hops -> Seq(SoundMessages)] /\ link' \in [Hops -> Seq(Byte)]
    BY <1>1, <2>2, <2>5
  <2>7. ASSUME NEW x \in Hops PROVE Held(x)'
    <3>1. CASE x = h
      <4>1. put'[x] = q /\ link'[x] = r /\ got'[x] = got[h]
        BY <1>1, <2>2, <3>1
      <4>2. InStep(q, got[h], r)
        BY <2>4, WholeIsInStep
      <4> QED
        BY <2>4, <4>1, <4>2 DEF Held
    <3>2. CASE x # h
      <4>1. put'[x] = put[x] /\ link'[x] = link[x] /\ got'[x] = got[x]
        BY <1>1, <2>2, <3>2
      <4>2. Held(x)
        BY <1>1
      <4> QED
        BY <4>1, <4>2 DEF Held
    <3> QED
      BY <3>1, <3>2
  <2> QED
    BY <2>2, <2>6, <2>7
<1> QED
  BY <1>4, <1>5

LEMMA SendHolds ==
    ASSUME IInv, NEW m \in Messages \cup Followers, Send(m)
    PROVE  IInv'
<1>1. MessageOK(m) /\ ~m.read /\ ~EnforcePanics(m, Commands["origin"])
  BY OriginAssumption
<1>2. m \in SoundMessages
  BY <1>1 DEF MessageOK, SoundMessages
<1>3. Put(1, m) /\ UNCHANGED <<got, relayed, cut, down>>
  BY DEF Send
<1>4. 1 \in Hops /\ Writer[1] = "origin"
  BY DEF Hops, Writer
<1>5. ~NilInside(m)
  BY <1>1 DEF NilInside
<1>6. /\ put' \in [Hops -> Seq(SoundMessages)]
      /\ link' \in [Hops -> Seq(Byte)]
      /\ \A x \in Hops : Held(x)'
      /\ \/ crashed' = crashed
         \/ NilInside(m) \/ EnforcePanics(m, Commands[Writer[1]])
  BY <1>2, <1>3, <1>4, PutHolds
<1>7. crashed' = crashed
  BY <1>1, <1>4, <1>5, <1>6
<1> QED
  BY <1>3, <1>6, <1>7 DEF IInv, RelayExplained

LEMMA RelayHolds ==
    ASSUME IInv, NEW i \in DOMAIN got[1], Relay(i)
    PROVE  IInv'
<1> DEFINE m == got[1][i]
<1>1. /\ Put(2, m) /\ relayed' = relayed \cup {i} /\ UNCHANGED <<got, cut, down>>
      /\ i \in DOMAIN got[1]
  BY DEF Relay
<1>2. 1 \in Hops /\ 2 \in Hops /\ Writer[2] = "relay"
  BY DEF Hops, Writer
<1>3. got[1] \in Seq(SoundMessages)
  BY <1>2 DEF IInv
<1>4. m \in SoundMessages
  BY <1>1, <1>3
<1> HIDE DEF m
<1>5. /\ put' \in [Hops -> Seq(SoundMessages)]
      /\ link' \in [Hops -> Seq(Byte)]
      /\ \A x \in Hops : Held(x)'
      /\ \/ crashed' = crashed
         \/ /\ crashed' = crashed \cup {Writer[2]}
            /\ NilInside(m) \/ EnforcePanics(m, Commands[Writer[2]])
  BY <1>1, <1>2, <1>4, PutHolds
<1>6. crashed' \subseteq {"relay"}
  BY <1>2, <1>5 DEF IInv
<1>7. RelayExplained'
  <2>1. CASE crashed' = crashed
    BY <1>1, <2>1 DEF IInv, RelayExplained
  <2>2. CASE NilInside(m) \/ EnforcePanics(m, Commands[Writer[2]])
    <3>1. \/ \E j \in DOMAIN m.avps : EmptyGroupIn(m.avps[j])
          \/ /\ "request" \in m.flags
             /\ <<m.app, m.cmd>> \notin Commands["relay"]
      BY <1>2, <2>2 DEF NilInside, EnforcePanics
    <3>2. \E k \in DOMAIN got[1] :
              \/ \E j \in DOMAIN got[1][k].avps : EmptyGroupIn(got[1][k].avps[j])
              \/ /\ "request" \in got[1][k].flags
                 /\ <<got[1][k].app, got[1][k].cmd>> \notin Commands["relay"]
      BY <1>1, <3>1 DEF m
    <3>3. got' = got
      BY <1>1
    <3> QED
      BY <3>2, <3>3 DEF RelayExplained
  <2> QED
    BY <1>5, <2>1, <2>2
<1>8. relayed' \subseteq DOMAIN got'[1]
  BY <1>1 DEF IInv
<1> QED
  BY <1>1, <1>5, <1>6, <1>7, <1>8 DEF IInv

\* What ReadMessage gives on a connection, by the part of it that was Held.
LEMMA HeldReads ==
    ASSUME NEW h \in Hops, Held(h)
    PROVE  LET r == ReadMessage(link[h], 0)
               more == Append(got[h], r.value)
               rest == SubSeq(link[h], r.at + 1, Len(link[h]))
           IN  \/ /\ r = Refused("error")
                  /\ h \notin cut => link[h] = <<>>
               \/ /\ r.st = "ok"
                  /\ Typed(put[h], more, rest)
                  /\ GotAsPut(put[h], more)
                  /\ InStep(put[h], more, rest)
                  /\ h \notin cut => WholeInStep(put[h], more, rest)
<1> DEFINE p == put[h]
           g == got[h]
           l == link[h]
           n == Len(p) - Len(g)
<1>1. Typed(p, g, l) /\ GotAsPut(p, g) /\ InStep(p, g, l)
      /\ (h \notin cut => WholeInStep(p, g, l))
  BY DEF Held
<1> HIDE DEF p, g, l
<1>2. PICK pos : Laid(pos, p, Len(g), n, l) /\ (h \notin cut => Len(l) = pos[n])
  <2>1. CASE h \notin cut
    BY <1>1, <2>1 DEF WholeInStep
  <2>2. CASE h \in cut
    BY <1>1, <2>2 DEF InStep
  <2> QED
    BY <2>1, <2>2
<1>3. LET r == ReadMessage(l, 0)
          rest == SubSeq(l, r.at + 1, Len(l))
      IN  \/ r = Refused("error") /\ ~(Len(l) = pos[n] /\ l # <<>>)
          \/ /\ r.st = "ok"
             /\ Typed(p, Append(g, r.value), rest)
             /\ GotAsPut(p, Append(g, r.value))
             /\ InStep(p, Append(g, r.value), rest)
             /\ Len(l) = pos[n] => WholeInStep(p, Append(g, r.value), rest)
  BY <1>1, <1>2, ReadLaid
<1> QED
  BY <1>2, <1>3 DEF p, g, l

LEMMA ReceiveHolds ==
    ASSUME IInv, NEW h \in Hops, Receive(h)
    PROVE  IInv'
<1> DEFINE r == ReadMessage(link[h], 0)
           more == Append(got[h], r.value)
           rest == SubSeq(link[h], r.at + 1, Len(link[h]))
<1>1. /\ CASE r.st = "ok" ->
                /\ got' = [got EXCEPT ![h] = more]
                /\ link' = [link EXCEPT ![h] = rest]
                /\ UNCHANGED <<down, crashed>>
           [] r.st = "error" ->
                /\ h \in cut
                /\ down' = down \cup {h}
                /\ UNCHANGED <<got, link, crashed>>
           [] r.st = "panic" ->
                /\ crashed' = crashed \cup {Reader[h]}
                /\ UNCHANGED <<got, link, down>>
      /\ UNCHANGED <<put, relayed, cut>>
  BY DEF Receive
<1>2. \/ r = Refused("error")
      \/ /\ r.st = "ok"
         /\ Typed(put[h], more, rest)
         /\ GotAsPut(put[h], more)
         /\ InStep(put[h], more, rest)
         /\ h \notin cut => WholeInStep(put[h], more, rest)
  <2>1. Held(h)
    BY DEF IInv
  <2> QED
    BY <2>1, HeldReads
<1>a. /\ \A i \in 1..Len(got[h]) : more[i] = got[h][i]
      /\ DOMAIN got[h] = 1..Len(got[h])
      /\ Typed(put[h], more, rest) => \A i \in DOMAIN got[h] : i \in DOMAIN more
  <2>1. got[h] \in Seq(SoundMessages)
    BY DEF IInv
  <2> DEFINE v == r.value
             s == Append(got[h], v)
  <2> HIDE DEF v, r
  <2>2. got[h] \in Seq(SoundMessages \cup {v}) /\ v \in SoundMessages \cup {v}
    BY <2>1
  <2>3. /\ Len(s) = Len(got[h]) + 1 /\ s \in Seq(SoundMessages \cup {v})
        /\ \A i \in 1..Len(got[h]) : s[i] = got[h][i]
    BY <2>2, AppendProperties
  <2>4. DOMAIN s = 1..Len(s) /\ DOMAIN got[h] = 1..Len(got[h]) /\ Len(got[h]) \in Nat
    BY <2>1, <2>3
  <2> QED
    BY <2>3, <2>4 DEF v
<1> HIDE DEF r, more, rest
<1>3. CASE r = Refused("error")
  <2>1. r.st = "error"
    BY <1>3 DEF Refused
  <2>2. /\ h \in cut /\ down' = down \cup {h}
        /\ UNCHANGED <<put, got, link, relayed, cut, crashed>>
    BY <1>1, <2>1
  <2>3. \A x \in Hops : Held(x)'
    BY <2>2 DEF IInv, Held
  <2> QED
    BY <2>2, <2>3 DEF IInv, RelayExplained
<1>4. CASE r.st = "ok" /\ Typed(put[h], more, rest) /\ GotAsPut(put[h], more)
           /\ InStep(put[h], more, rest) /\ (h \notin cut => WholeInStep(put[h], more, rest))
  <2>1. /\ got' = [got EXCEPT ![h] = more]
        /\ link' = [link EXCEPT ![h] = rest]
        /\ UNCHANGED <<put, relayed, cut, down, crashed>>
    BY <1>1, <1>4
  <2>2. more \in Seq(SoundMessages) /\ rest \in Seq(Byte)
    BY <1>4 DEF Typed
  <2>3. got' \in [Hops -> Seq(SoundMessages)] /\ link' \in [Hops -> Seq(Byte)]
    BY <2>1, <2>2 DEF IInv
  <2>4. ASSUME NEW x \in Hops
        PROVE  got'[x] = (IF x = h THEN more ELSE got[x])
               /\ link'[x] = (IF x = h THEN rest ELSE link[x])
    BY <2>1 DEF IInv
  <2>5. ASSUME NEW x \in Hops PROVE Held(x)'
    <3>1. CASE x = h
      BY <1>4, <2>1, <2>4, <3>1 DEF Held
    <3>2. CASE x # h
      BY <2>1, <2>4, <3>2 DEF IInv, Held
    <3> QED
      BY <3>1, <3>2
  <2>6. \A i \in DOMAIN got[1] : i \in DOMAIN got'[1] /\ got'[1][i] = got[1][i]
    <3>1. 1 \in Hops
      BY DEF Hops
    <3>2. CASE h = 1
      BY <1>4, <1>a, <2>4, <3>1, <3>2
    <3>3. CASE h # 1
      BY <2>4, <3>1, <3>3
    <3> QED
      BY <3>2, <3>3
  <2>7. relayed' \subseteq DOMAIN got'[1]
    BY <2>1, <2>6 DEF IInv
  <2>8. RelayExplained'
    <3> SUFFICES ASSUME "relay" \in crashed PROVE RelayExplained'
      BY <2>1 DEF RelayExplained
    <3>1. PICK i \in DOMAIN got[1] :
              \/ \E j \in DOMAIN got[1][i].avps : EmptyGroupIn(got[1][i].avps[j])
              \/ /\ "request" \in got[1][i].flags
                 /\ <<got[1][i].app, got[1][i].cmd>> \notin Commands["relay"]
      BY DEF IInv, RelayExplained
    <3>2. i \in DOMAIN got'[1] /\ got'[1][i] = got[1][i]
      BY <2>6
    <3> QED
      BY <3>1, <3>2 DEF RelayExplained
  <2> QED
    BY <2>1, <2>3, <2>5, <2>7, <2>8 DEF IInv
<1> QED
  BY <1>2, <1>3, <1>4

LEMMA CutHolds ==
    ASSUME IInv, NEW h \in Hops, NEW k \in 0..Len(link[h]), Cut(h, k)
    PROVE  IInv'
<1> DEFINE s == SubSeq(link[h], 1, k)
<1>1. /\ h \notin cut
      /\ link' = [link EXCEPT ![h] = s]
      /\ cut' = cut \cup {h}
      /\ UNCHANGED <<put, got, relayed, down, crashed>>
  BY DEF Cut
<1>2. Held(h)
  BY DEF IInv
<1>3. Typed(put[h], got[h], s) /\ InStep(put[h], got[h], s)
  BY <1>2, CutInStep DEF Held
<1> HIDE DEF s
<1>4. s \in Seq(Byte)
  BY <1>3 DEF Typed
<1>5. link' \in [Hops -> Seq(Byte)]
  BY <1>1, <1>4 DEF IInv
<1>6. ASSUME NEW x \in Hops PROVE Held(x)'
  <2>1. CASE x = h
    <3>1. link'[x] = s /\ x \in cut'
      BY <1>1, <2>1 DEF IInv
    <3> QED
      BY <1>1, <1>2, <1>3, <2>1, <3>1 DEF Held
  <2>2. CASE x # h
    <3>1. link'[x] = link[x] /\ (x \notin cut' => x \notin cut)
      BY <1>1, <2>2 DEF IInv
    <3>2. Held(x)
      BY DEF IInv
    <3> QED
      BY <1>1, <3>1, <3>2 DEF Held
  <2> QED
    BY <2>1, <2>2
<1> QED
  BY <1>1, <1>5, <1>6 DEF IInv, RelayExplained

LEMMA StepHolds == IInv /\ [Next]_vars => IInv'
<1> SUFFICES ASSUME IInv, [Next]_vars PROVE IInv'
  OBVIOUS
<1>1. ASSUME NEW m \in Messages \cup Followers, Send(m) PROVE IInv'
  BY <1>1, SendHolds
<1>2. ASSUME NEW i \in DOMAIN got[1], Relay(i) PROVE IInv'
  BY <1>2, RelayHolds
<1>3. ASSUME NEW h \in Hops, Receive(h) PROVE IInv'
  BY <1>3, ReceiveHolds
<1>4. ASSUME NEW h \in Hops, NEW k \in 0..Len(link[h]), Cut(h, k) PROVE IInv'
  BY <1>4, CutHolds
<1>5. CASE UNCHANGED vars
  BY <1>5 DEF IInv, Held, RelayExplained, vars
<1> QED
  BY <1>1, <1>2, <1>3, <1>4, <1>5 DEF Next

LEMMA Invariant == Spec => []IInv
<1>1. Init => IInv
  BY InitHolds
<1>2. IInv /\ [Next]_vars => IInv'
  BY StepHolds
<1> QED
  BY <1>1, <1>2, PTL DEF Spec

---------------------------------------------------------------------------
(* The theorems.                                                            *)

(***************************************************************************)
(* The links hold bytes, and no more is got than was put: for all          *)
(* messages that MessageOK admits, and for any dictionaries.               *)
(***************************************************************************)
THEOREM TypeCorrect == Spec => []TypeOK
<1>1. IInv => TypeOK
  <2> SUFFICES ASSUME IInv PROVE TypeOK
    OBVIOUS
  <2>1. ASSUME NEW h \in Hops
        PROVE  /\ \A i \in DOMAIN link[h] : link[h][i] \in 0..255
               /\ Len(got[h]) <= Len(put[h])
    <3>1. Typed(put[h], got[h], link[h])
      BY DEF IInv, Held
    <3>2. \A i \in DOMAIN link[h] : link[h][i] \in Byte
      BY <3>1 DEF Typed
    <3>3. Len(got[h]) <= Len(put[h])
      BY <3>1 DEF Typed
    <3> QED
      BY <3>2, <3>3 DEF Byte
  <2> QED
    BY <2>1 DEF IInv, TypeOK
<1> QED
  BY <1>1, Invariant, PTL

(***************************************************************************)
(* What a peer's readLoop takes off a connection is what the peer at the   *)
(* other end wrote: the same messages in the same order, also when the     *)
(* connection is cut in the middle of one.                                 *)
(***************************************************************************)
THEOREM MessagesReadAsWritten == Spec => []ReadAsWritten
<1>1. IInv => ReadAsWritten
  <2> SUFFICES ASSUME IInv, NEW h \in Hops, NEW i \in DOMAIN got[h]
               PROVE  got[h][i] = [put[h][i] EXCEPT !.read = TRUE]
    BY DEF ReadAsWritten
  <2>1. got[h] \in Seq(SoundMessages) /\ GotAsPut(put[h], got[h])
    BY DEF IInv, Held
  <2>2. i \in 1..Len(got[h])
    BY <2>1
  <2>3. got[h][i] = AsRead(put[h][i])
    BY <2>1, <2>2 DEF GotAsPut
  <2> QED
    BY <2>3 DEF AsRead
<1> QED
  BY <1>1, Invariant, PTL

(***************************************************************************)
(* On a connection that is alive the bytes in flight are whole messages,   *)
(* as their announced lengths delimit them, and the readLoop never waits   *)
(* for bytes that do not come.                                             *)
(***************************************************************************)
THEOREM StreamsStayInStep == Spec => []StreamInStep
<1>1. IInv => StreamInStep
  <2> SUFFICES ASSUME IInv, NEW h \in Hops \ cut
               PROVE  /\ Framed(link[h], Len(put[h]) - Len(got[h]))
                      /\ link[h] # <<>> => ReadMessage(link[h], 0).st # "error"
    BY DEF StreamInStep
  <2>1. h \in Hops /\ h \notin cut /\ Held(h)
    BY DEF IInv
  <2>2. Framed(link[h], Len(put[h]) - Len(got[h]))
    BY <2>1, WholeFramed DEF Held
  <2>3. \/ link[h] = <<>>
        \/ ReadMessage(link[h], 0).st = "ok"
    BY <2>1, HeldReads
  <2> QED
    BY <2>2, <2>3
<1> QED
  BY <1>1, Invariant, PTL

(***************************************************************************)
(* No bytes of a peer that runs this program panic the reader, whole or    *)
(* cut, and WriteTo panics the relay only at an empty group or at a        *)
(* request that its dictionary does not have: the assertion that what was  *)
(* written is as long as was announced never fails.                        *)
(***************************************************************************)
THEOREM PanicsAccountedFor == Spec => []PanicsExplained
<1>1. IInv => PanicsExplained
  BY DEF IInv, RelayExplained, PanicsExplained
<1> QED
  BY <1>1, Invariant, PTL
===========================================================================
