------------------------- MODULE RestoreOrderProofs -------------------------
(***************************************************************************)
(* Proof that jobs of one priority start in the order of their requests,   *)
(* for any number of requests, jobs, launches and seconds and any radix.   *)
(*                                                                         *)
(* Numerals come first: that the recursive function Numeral is what its    *)
(* definition says, that the order of the texts is strict, and that it is  *)
(* the order of the numbers among numerals of one length.  Then the        *)
(* inductive invariant, with one lemma per action.                         *)
(***************************************************************************)
EXTENDS RestoreOrder, Counting

-----------------------------------------------------------------------------
(* Numerals. *)

Digits == 0 .. Radix - 1

\* What the definition of Numeral asks of a function.
IsNumeral(f) ==
  f = [n \in Nat |-> IF n < Radix THEN <<n>> ELSE Append(f[n \div Radix], n % Radix)]

\* The quotient of a number by the radix is a smaller number, its remainder a digit.
LEMMA Quotient ==
  ASSUME NEW n \in Nat, n >= Radix
  PROVE  /\ n \div Radix \in Nat /\ n \div Radix < n /\ n \div Radix >= 1
         /\ n % Radix \in Digits
         /\ n = Radix * (n \div Radix) + (n % Radix)
PROOF
<1>1. Radix \in Nat /\ Radix >= 2
  BY RestoreAssumption
<1> DEFINE q == n \div Radix  r == n % Radix
<1>2. q \in Int /\ r \in Int /\ 0 <= r /\ r < Radix /\ n = Radix * q + r
  BY <1>1
<1>3. q >= 1
  BY <1>1, <1>2
<1>4. q < n
  BY <1>1, <1>2, <1>3
<1> QED
  BY <1>1, <1>2, <1>3, <1>4 DEF Digits

\* g obeys the definition up to k.
NumeralUpTo(g, k) ==
  \A n \in 0 .. k :
    g[n] = IF n < Radix THEN <<n>> ELSE Append(g[n \div Radix], n % Radix)

\* Two functions that obey the definition agree as far as both do.
LEMMA NumeralsAgree ==
  ASSUME NEW k \in Nat, NEW l \in Nat, NEW g, NEW h,
         NumeralUpTo(g, k), NumeralUpTo(h, l),
         NEW n \in 0 .. k, n <= l
  PROVE  g[n] = h[n]
PROOF
<1> DEFINE T == {m \in 0 .. k : m <= l /\ g[m] # h[m]}
<1> SUFFICES ASSUME T # {} PROVE FALSE
  OBVIOUS
<1>1. PICK m \in T : \A i \in T : m <= i
  <2>1. T \subseteq Nat
    OBVIOUS
  <2> HIDE DEF T
  <2> QED
    BY <2>1, NatMin
<1>2. m \in Nat /\ m \in 0 .. k /\ m \in 0 .. l /\ g[m] # h[m]
  BY <1>1
<1>3. /\ g[m] = IF m < Radix THEN <<m>> ELSE Append(g[m \div Radix], m % Radix)
      /\ h[m] = IF m < Radix THEN <<m>> ELSE Append(h[m \div Radix], m % Radix)
  BY <1>2 DEF NumeralUpTo
<1>4. m >= Radix
  BY <1>2, <1>3, RestoreAssumption
<1> DEFINE q == m \div Radix
<1>5. q \in Nat /\ q < m
  BY <1>2, <1>4, Quotient
<1>6. q \notin T
  BY <1>1, <1>2, <1>5
<1>7. g[q] = h[q]
  BY <1>2, <1>5, <1>6
<1>8. ~(m < Radix)
  BY <1>2, <1>4, RestoreAssumption
<1> QED
  BY <1>2, <1>3, <1>7, <1>8

\* Up to each number there is one.
LEMMA NumeralUpToExists ==
  ASSUME NEW k \in Nat
  PROVE  \E g : NumeralUpTo(g, k)
PROOF
<1> DEFINE T == {j \in Nat : \E g : NumeralUpTo(g, j)}
<1>1. 0 \in T
  <2>1. NumeralUpTo([n \in 0 .. 0 |-> <<n>>], 0)
    BY RestoreAssumption DEF NumeralUpTo
  <2> QED
    BY <2>1
<1>2. ASSUME NEW j \in Nat, j \in T PROVE j + 1 \in T
  <2>1. PICK g : NumeralUpTo(g, j)
    BY <1>2
  <2> DEFINE h == [n \in 0 .. j + 1 |->
                     IF n <= j THEN g[n]
                     ELSE IF n < Radix THEN <<n>>
                     ELSE Append(g[n \div Radix], n % Radix)]
  <2>2. ASSUME NEW n \in 0 .. j + 1
        PROVE  h[n] = IF n < Radix THEN <<n>> ELSE Append(h[n \div Radix], n % Radix)
    <3>1. n \in Nat
      OBVIOUS
    <3>2. h[n] = IF n < Radix THEN <<n>> ELSE Append(g[n \div Radix], n % Radix)
      <4>1. CASE n <= j
        <5>1. n \in 0 .. j /\ h[n] = g[n]
          BY <4>1, <3>1
        <5> QED
          BY <5>1, <2>1 DEF NumeralUpTo
      <4>2. CASE ~(n <= j)
        BY <4>2
      <4> QED
        BY <4>1, <4>2
    <3>3. CASE n < Radix
      BY <3>2, <3>3
    <3>4. CASE ~(n < Radix)
      <4> DEFINE q == n \div Radix
      <4>1. n >= Radix
        BY <3>1, <3>4, RestoreAssumption
      <4>2. q \in Nat /\ q < n
        BY <3>1, <4>1, Quotient
      <4>3. q \in 0 .. j + 1 /\ q <= j
        BY <4>2, <3>1
      <4>4. h[q] = g[q]
        BY <4>3
      <4> QED
        BY <3>2, <3>4, <4>4
    <3> QED
      BY <3>3, <3>4
  <2>3. NumeralUpTo(h, j + 1)
    BY <2>2 DEF NumeralUpTo
  <2> QED
    BY <2>3
<1>3. Nat \subseteq T
  <2> HIDE DEF T
  <2> QED
    BY <1>1, <1>2, NatSetInduction
<1> QED
  BY <1>3

\* Numeral is the function that its definition describes.
LEMMA NumeralDef ==
  ASSUME NEW n \in Nat
  PROVE  Numeral[n] = IF n < Radix THEN <<n>>
                      ELSE Append(Numeral[n \div Radix], n % Radix)
PROOF
<1> DEFINE G(k) == CHOOSE g : NumeralUpTo(g, k)
           f == [k \in Nat |-> G(k)[k]]
<1>1. \A k \in Nat : NumeralUpTo(G(k), k)
  BY NumeralUpToExists
<1>2. ASSUME NEW k \in Nat
      PROVE  f[k] = IF k < Radix THEN <<k>> ELSE Append(f[k \div Radix], k % Radix)
  <2>1. f[k] = IF k < Radix THEN <<k>> ELSE Append(G(k)[k \div Radix], k % Radix)
    <3>1. NumeralUpTo(G(k), k) /\ f[k] = G(k)[k] /\ k \in 0 .. k
      BY <1>1
    <3> HIDE DEF f, G
    <3> QED
      BY <3>1 DEF NumeralUpTo
  <2>2. CASE k < Radix
    BY <2>1, <2>2
  <2>3. CASE ~(k < Radix)
    <3> DEFINE q == k \div Radix
    <3>1. k >= Radix
      BY <2>3, RestoreAssumption
    <3>2. q \in Nat /\ q < k
      BY <3>1, Quotient
    <3>3. q \in 0 .. k /\ q <= q
      BY <3>2
    <3>4. NumeralUpTo(G(k), k) /\ NumeralUpTo(G(q), q)
      BY <1>1, <3>2
    <3>5. G(k)[q] = G(q)[q]
      <4> HIDE DEF G, q
      <4> QED
        BY <3>2, <3>3, <3>4, NumeralsAgree
    <3>6. f[q] = G(q)[q]
      BY <3>2
    <3> HIDE DEF f, G
    <3> QED
      BY <2>1, <2>3, <3>5, <3>6
  <2> QED
    BY <2>2, <2>3
<1>3. IsNumeral(f)
  <2>1. f = [k \in Nat |-> f[k]]
    OBVIOUS
  <2> HIDE DEF f
  <2> QED
    BY <1>2, <2>1 DEF IsNumeral
<1>4. IsNumeral(Numeral)
  <2>1. Numeral = CHOOSE g : IsNumeral(g)
    BY DEF Numeral, IsNumeral
  <2> HIDE DEF f
  <2> QED
    BY <1>3, <2>1
<1> QED
  BY <1>4 DEF IsNumeral

\* A numeral is a sequence of at least one digit, and of two from the radix on.
LEMMA NumeralType ==
  ASSUME NEW n \in Nat
  PROVE  /\ Numeral[n] \in Seq(Nat) /\ Len(Numeral[n]) \in Nat /\ Len(Numeral[n]) >= 1
         /\ n < Radix => Len(Numeral[n]) = 1
         /\ n >= Radix => Len(Numeral[n]) = Len(Numeral[n \div Radix]) + 1
PROOF
<1> DEFINE Good(k) == Numeral[k] \in Seq(Nat) /\ Len(Numeral[k]) >= 1
           Bad == {k \in Nat : ~Good(k)}
<1>1. ASSUME NEW k \in Nat, k < Radix
      PROVE  Good(k) /\ Len(Numeral[k]) = 1
  <2>1. Numeral[k] = <<k>>
    BY <1>1, NumeralDef
  <2> QED
    BY <2>1
<1>2. ASSUME NEW k \in Nat, k >= Radix, Good(k \div Radix)
      PROVE  Good(k) /\ Len(Numeral[k]) = Len(Numeral[k \div Radix]) + 1
  <2>1. ~(k < Radix)
    BY <1>2, RestoreAssumption
  <2>2. Numeral[k] = Append(Numeral[k \div Radix], k % Radix)
    BY <2>1, NumeralDef
  <2>3. k % Radix \in Nat
    BY <1>2, Quotient, RestoreAssumption DEF Digits
  <2> QED
    BY <1>2, <2>2, <2>3
<1>3. ASSUME Bad # {} PROVE FALSE
  <2>1. PICK k \in Bad : \A l \in Bad : k <= l
    <3>1. Bad \subseteq Nat
      OBVIOUS
    <3> HIDE DEF Bad
    <3> QED
      BY <1>3, <3>1, NatMin
  <2>2. k \in Nat /\ ~Good(k)
    BY <2>1
  <2> HIDE DEF Good
  <2>3. k >= Radix
    BY <1>1, <2>2, RestoreAssumption
  <2>4. k \div Radix \in Nat /\ k \div Radix < k
    BY <2>2, <2>3, Quotient
  <2>5. Good(k \div Radix)
    BY <2>1, <2>2, <2>4
  <2> QED
    BY <1>2, <2>2, <2>3, <2>5
<1>4. \A k \in Nat : Good(k)
  BY <1>3
<1>5. n >= Radix => n \div Radix \in Nat
  BY Quotient
<1>6. Len(Numeral[n]) \in Nat
  BY <1>4
<1> QED
  BY <1>1, <1>2, <1>4, <1>5, <1>6

\* a comes before b, and k is the first place where they differ.
FirstDiffers(a, b, k) ==
  /\ k \in 1 .. Len(b)
  /\ \A m \in 1 .. k - 1 : m <= Len(a) /\ a[m] = b[m]
  /\ \/ k = Len(a) + 1
     \/ k <= Len(a) /\ a[k] < b[k]

\* The order of the texts, by the first place where they differ.
LEMMA FirstDifference ==
  ASSUME NEW i \in Nat, NEW j \in Nat
  PROVE  TextBefore(i, j) <=> \E k : FirstDiffers(Numeral[i], Numeral[j], k)
PROOF
<1> DEFINE a == Numeral[i]  b == Numeral[j]
<1>1. a \in Seq(Nat) /\ b \in Seq(Nat) /\ Len(a) \in Nat /\ Len(b) \in Nat
  BY NumeralType
<1>2. TextBefore(i, j) <=>
        \/ IsStrictPrefix(a, b)
        \/ \E k \in DOMAIN a \cap DOMAIN b :
             SubSeq(a, 1, k - 1) = SubSeq(b, 1, k - 1) /\ a[k] < b[k]
  BY DEF TextBefore
<1> HIDE DEF a, b
<1>3. ASSUME IsStrictPrefix(a, b) PROVE \E k : FirstDiffers(a, b, k)
  <2>1. Len(a) <= Len(b) /\ SubSeq(a, 1, Len(a)) = SubSeq(b, 1, Len(a)) /\ a # b
    BY <1>3 DEF IsStrictPrefix, IsPrefix
  <2>2. \A m \in 1 .. Len(a) : a[m] = b[m]
    <3> SUFFICES ASSUME NEW m \in 1 .. Len(a) PROVE a[m] = b[m]
      OBVIOUS
    <3>1. SubSeq(a, 1, Len(a))[m] = a[m] /\ SubSeq(b, 1, Len(a))[m] = b[m]
      BY <1>1, <2>1
    <3> QED
      BY <2>1, <3>1
  <2>3. Len(a) # Len(b)
    BY <1>1, <2>1, <2>2
  <2>4. FirstDiffers(a, b, Len(a) + 1)
    BY <1>1, <2>1, <2>2, <2>3 DEF FirstDiffers
  <2> QED
    BY <2>4
<1>4. ASSUME NEW k \in DOMAIN a \cap DOMAIN b,
             SubSeq(a, 1, k - 1) = SubSeq(b, 1, k - 1), a[k] < b[k]
      PROVE  FirstDiffers(a, b, k)
  <2>1. k \in 1 .. Len(a) /\ k \in 1 .. Len(b)
    BY <1>1
  <2>2. \A m \in 1 .. k - 1 : m <= Len(a) /\ a[m] = b[m]
    <3> SUFFICES ASSUME NEW m \in 1 .. k - 1 PROVE m <= Len(a) /\ a[m] = b[m]
      OBVIOUS
    <3>1. SubSeq(a, 1, k - 1)[m] = a[m] /\ SubSeq(b, 1, k - 1)[m] = b[m]
      BY <1>1, <2>1
    <3> QED
      BY <1>1, <1>4, <2>1, <3>1
  <2> QED
    BY <1>4, <2>1, <2>2 DEF FirstDiffers
<1>5. ASSUME NEW k, FirstDiffers(a, b, k)
      PROVE  \/ IsStrictPrefix(a, b)
             \/ \E l \in DOMAIN a \cap DOMAIN b :
                  SubSeq(a, 1, l - 1) = SubSeq(b, 1, l - 1) /\ a[l] < b[l]
  <2>1. k \in 1 .. Len(b) /\ \A m \in 1 .. k - 1 : m <= Len(a) /\ a[m] = b[m]
    BY <1>5 DEF FirstDiffers
  <2>2. k - 1 <= Len(a)
    BY <1>1, <2>1
  <2>3. SubSeq(a, 1, k - 1) = SubSeq(b, 1, k - 1)
    <3>1. /\ SubSeq(a, 1, k - 1) \in Seq(Nat) /\ SubSeq(b, 1, k - 1) \in Seq(Nat)
          /\ Len(SubSeq(a, 1, k - 1)) = k - 1 /\ Len(SubSeq(b, 1, k - 1)) = k - 1
      BY <1>1, <2>1, <2>2
    <3>2. \A m \in 1 .. k - 1 : SubSeq(a, 1, k - 1)[m] = SubSeq(b, 1, k - 1)[m]
      BY <1>1, <2>1, <2>2
    <3> QED
      BY <3>1, <3>2
  <2>4. CASE k = Len(a) + 1
    <3>1. Len(a) <= Len(b) /\ k - 1 = Len(a) /\ a # b
      BY <1>1, <2>1, <2>4
    <3> QED
      BY <2>3, <3>1 DEF IsStrictPrefix, IsPrefix
  <2>5. CASE k <= Len(a) /\ a[k] < b[k]
    <3>1. k \in DOMAIN a \cap DOMAIN b
      BY <1>1, <2>1, <2>5
    <3> QED
      BY <2>3, <2>5, <3>1
  <2> QED
    BY <1>5, <2>4, <2>5 DEF FirstDiffers
<1>6. TextBefore(i, j) <=> \E k : FirstDiffers(a, b, k)
  BY <1>2, <1>3, <1>4, <1>5
<1> QED
  BY <1>6 DEF a, b

\* No text comes before itself, and the order of the texts is transitive.
LEMMA TextOrder ==
  /\ \A i \in Nat : ~TextBefore(i, i)
  /\ \A i, j, k \in Nat : TextBefore(i, j) /\ TextBefore(j, k) => TextBefore(i, k)
PROOF
<1>1. ASSUME NEW i \in Nat, TextBefore(i, i) PROVE FALSE
  <2>1. PICK k : FirstDiffers(Numeral[i], Numeral[i], k)
    BY <1>1, FirstDifference
  <2>2. Numeral[i] \in Seq(Nat) /\ Len(Numeral[i]) \in Nat
    BY NumeralType
  <2>3. k \in 1 .. Len(Numeral[i]) /\ Numeral[i][k] \in Nat
    BY <2>1, <2>2 DEF FirstDiffers
  <2> QED
    BY <2>1, <2>2, <2>3 DEF FirstDiffers
<1>2. ASSUME NEW i \in Nat, NEW j \in Nat, NEW l \in Nat,
             TextBefore(i, j), TextBefore(j, l)
      PROVE  TextBefore(i, l)
  <2> DEFINE a == Numeral[i]  b == Numeral[j]  c == Numeral[l]
  <2>1. PICK k : FirstDiffers(a, b, k)
    BY <1>2, FirstDifference
  <2>2. PICK m : FirstDiffers(b, c, m)
    BY <1>2, FirstDifference
  <2>3. /\ a \in Seq(Nat) /\ b \in Seq(Nat) /\ c \in Seq(Nat)
        /\ Len(a) \in Nat /\ Len(b) \in Nat /\ Len(c) \in Nat
    BY NumeralType
  <2> HIDE DEF a, b, c
  <2>4. /\ k \in 1 .. Len(b) /\ (\A n \in 1 .. k - 1 : n <= Len(a) /\ a[n] = b[n])
        /\ m \in 1 .. Len(c) /\ (\A n \in 1 .. m - 1 : n <= Len(b) /\ b[n] = c[n])
    BY <2>1, <2>2 DEF FirstDiffers
  <2>5. \A n \in 1 .. Len(a) : a[n] \in Nat
    BY <2>3
  <2>6. \A n \in 1 .. Len(b) : b[n] \in Nat
    BY <2>3
  <2>7. \A n \in 1 .. Len(c) : c[n] \in Nat
    BY <2>3
  <2>8. m - 1 <= Len(b)
    BY <2>3, <2>4
  <2>9. k - 1 <= Len(a)
    BY <2>3, <2>4
  <2>10. CASE k < m
    <3>1. k \in 1 .. m - 1 /\ b[k] = c[k] /\ k \in 1 .. Len(c)
      BY <2>3, <2>4, <2>10
    <3>2. \A n \in 1 .. k - 1 : n <= Len(a) /\ a[n] = c[n]
      BY <2>3, <2>4, <2>10
    <3>3. k = Len(a) + 1 \/ (k <= Len(a) /\ a[k] < b[k])
      BY <2>1 DEF FirstDiffers
    <3>4. FirstDiffers(a, c, k)
      BY <3>1, <3>2, <3>3 DEF FirstDiffers
    <3> QED
      BY <3>4, FirstDifference DEF a, c
  <2>11. CASE m < k
    <3>1. m \in 1 .. k - 1 /\ a[m] = b[m] /\ m \in 1 .. Len(c) /\ m <= Len(a) /\ m <= Len(b)
      BY <2>3, <2>4, <2>11
    <3>2. \A n \in 1 .. m - 1 : n <= Len(a) /\ a[n] = c[n]
      BY <2>3, <2>4, <2>11
    <3>3. m = Len(b) + 1 \/ (m <= Len(b) /\ b[m] < c[m])
      BY <2>2 DEF FirstDiffers
    <3>4. a[m] < c[m]
      BY <2>3, <3>1, <3>3
    <3>5. FirstDiffers(a, c, m)
      BY <3>1, <3>2, <3>4 DEF FirstDiffers
    <3> QED
      BY <3>5, FirstDifference DEF a, c
  <2>12. CASE k = m
    <3>1. \A n \in 1 .. k - 1 : n <= Len(a) /\ a[n] = c[n]
      BY <2>3, <2>4, <2>12
    <3>2. k \in 1 .. Len(c)
      BY <2>4, <2>12
    <3>3. k = Len(a) + 1 \/ (k <= Len(a) /\ a[k] < b[k])
      BY <2>1 DEF FirstDiffers
    <3>4. k = Len(b) + 1 \/ (k <= Len(b) /\ b[k] < c[k])
      BY <2>2, <2>12 DEF FirstDiffers
    <3>5. k <= Len(b) /\ b[k] < c[k]
      BY <2>3, <2>4, <3>4
    <3>6. k <= Len(a) => a[k] < c[k]
      <4> SUFFICES ASSUME k <= Len(a) PROVE a[k] < c[k]
        OBVIOUS
      <4>1. a[k] \in Nat /\ b[k] \in Nat /\ c[k] \in Nat
        BY <2>3, <2>4, <2>5, <2>6, <2>7, <3>2
      <4>2. a[k] < b[k]
        BY <2>3, <2>4, <3>3
      <4> QED
        BY <3>5, <4>1, <4>2
    <3>7. FirstDiffers(a, c, k)
      BY <3>1, <3>2, <3>3, <3>6 DEF FirstDiffers
    <3> QED
      BY <3>7, FirstDifference DEF a, c
  <2> QED
    BY <2>4, <2>10, <2>11, <2>12
<1> QED
  BY <1>1, <1>2

\* A larger number has no shorter numeral, and of two numerals of the same
\* length the smaller number's comes first.
LEMMA NumeralsGrow ==
  ASSUME NEW i \in Nat, NEW j \in Nat, i < j
  PROVE  /\ Len(Numeral[i]) <= Len(Numeral[j])
         /\ Len(Numeral[i]) = Len(Numeral[j]) => TextBefore(i, j)
PROOF
<1> DEFINE Grows(h, k) == /\ Len(Numeral[h]) <= Len(Numeral[k])
                          /\ Len(Numeral[h]) = Len(Numeral[k]) => TextBefore(h, k)
           Bad == {k \in Nat : \E h \in Nat : h < k /\ ~Grows(h, k)}
<1> SUFFICES ASSUME Bad # {} PROVE FALSE
  OBVIOUS
<1>1. PICK k \in Bad : \A l \in Bad : k <= l
  <2>1. Bad \subseteq Nat
    OBVIOUS
  <2> HIDE DEF Bad
  <2> QED
    BY <2>1, NatMin
<1>2. PICK h \in Nat : h < k /\ ~Grows(h, k)
  BY <1>1
<1>3. k \in Nat
  BY <1>1
<1>4. \A l \in Nat : l < k => \A g \in Nat : g < l => Grows(g, l)
  BY <1>1, <1>3
<1>5. /\ Numeral[h] \in Seq(Nat) /\ Len(Numeral[h]) \in Nat /\ Len(Numeral[h]) >= 1
      /\ Numeral[k] \in Seq(Nat) /\ Len(Numeral[k]) \in Nat /\ Len(Numeral[k]) >= 1
  BY <1>2, <1>3, NumeralType
<1> HIDE DEF Bad
<1>6. Radix \in Nat /\ Radix >= 2
  BY RestoreAssumption
<1>7. CASE k < Radix
  <2>1. Numeral[h] = <<h>> /\ Numeral[k] = <<k>>
    <3>1. h < Radix
      BY <1>2, <1>3, <1>6, <1>7
    <3>2. Numeral[h] = <<h>>
      BY <3>1, NumeralDef
    <3>3. Numeral[k] = <<k>>
      BY <1>3, <1>7, NumeralDef
    <3> QED
      BY <3>2, <3>3
  <2>2. FirstDiffers(Numeral[h], Numeral[k], 1)
    BY <1>2, <1>3, <2>1 DEF FirstDiffers
  <2> QED
    BY <1>2, <1>3, <2>1, <2>2, FirstDifference
<1>8. CASE k >= Radix
  <2> DEFINE q == k \div Radix  p == h \div Radix
  <2>1. /\ q \in Nat /\ q < k /\ k = Radix * q + (k % Radix) /\ k % Radix \in Digits
        /\ Len(Numeral[k]) = Len(Numeral[q]) + 1
    BY <1>3, <1>8, Quotient, NumeralType
  <2>2. Len(Numeral[q]) \in Nat /\ Len(Numeral[q]) >= 1 /\ Numeral[q] \in Seq(Nat)
    BY <2>1, NumeralType
  <2>3. CASE h < Radix
    <3>1. Len(Numeral[h]) = 1
      BY <2>3, <1>2, NumeralType
    <3> QED
      BY <1>2, <1>5, <2>1, <2>2, <3>1
  <2>4. CASE h >= Radix
    <3>1. /\ p \in Nat /\ h = Radix * p + (h % Radix) /\ h % Radix \in Digits
          /\ Len(Numeral[h]) = Len(Numeral[p]) + 1
      BY <1>2, <2>4, Quotient, NumeralType
    <3>2. Len(Numeral[p]) \in Nat /\ Len(Numeral[p]) >= 1 /\ Numeral[p] \in Seq(Nat)
      BY <3>1, NumeralType
    <3>3. /\ Numeral[h] = Append(Numeral[p], h % Radix)
          /\ Numeral[k] = Append(Numeral[q], k % Radix)
      <4>1. ~(h < Radix) /\ ~(k < Radix)
        BY <1>2, <1>3, <1>6, <1>8, <2>4
      <4>2. Numeral[h] = Append(Numeral[p], h % Radix)
        BY <4>1, NumeralDef
      <4>3. Numeral[k] = Append(Numeral[q], k % Radix)
        BY <1>3, <4>1, NumeralDef
      <4> QED
        BY <4>2, <4>3
    <3>4. h % Radix \in Nat /\ k % Radix \in Nat /\ h % Radix < Radix /\ k % Radix < Radix
      BY <2>1, <3>1, <1>6 DEF Digits
    <3>5. p <= q
      <4> DEFINE r == h % Radix  s == k % Radix
      <4> SUFFICES ASSUME q + 1 <= p PROVE FALSE
        BY <2>1, <3>1
      <4>1. Radix * (q + 1) <= Radix * p
        <5> HIDE DEF p, q
        <5> QED
          BY <1>6, <2>1, <3>1
      <4>2. Radix * (q + 1) = Radix * q + Radix
        <5> HIDE DEF p, q
        <5> QED
          BY <1>6, <2>1
      <4>3. Radix * q \in Nat /\ Radix * p \in Nat
        <5> HIDE DEF p, q
        <5> QED
          BY <1>6, <2>1, <3>1
      <4> QED
        BY <1>2, <1>3, <1>6, <2>1, <3>1, <3>4, <4>1, <4>2, <4>3
    <3>6. CASE p < q
      <4>1. Grows(p, q)
        BY <1>4, <2>1, <3>1, <3>6
      <4>2. Len(Numeral[h]) <= Len(Numeral[k])
        BY <2>1, <2>2, <3>1, <3>2, <4>1
      <4>3. ASSUME Len(Numeral[h]) = Len(Numeral[k]) PROVE TextBefore(h, k)
        <5>1. Len(Numeral[p]) = Len(Numeral[q]) /\ TextBefore(p, q)
          BY <2>1, <2>2, <3>1, <3>2, <4>1, <4>3
        <5>2. PICK d : FirstDiffers(Numeral[p], Numeral[q], d)
          BY <2>1, <3>1, <5>1, FirstDifference
        <5>3. /\ d \in 1 .. Len(Numeral[q]) /\ d <= Len(Numeral[p])
              /\ Numeral[p][d] < Numeral[q][d]
              /\ \A m \in 1 .. d - 1 : m <= Len(Numeral[p]) /\ Numeral[p][m] = Numeral[q][m]
          BY <2>2, <3>2, <5>1, <5>2 DEF FirstDiffers
        <5>4. /\ \A m \in 1 .. Len(Numeral[p]) : Numeral[h][m] = Numeral[p][m]
              /\ \A m \in 1 .. Len(Numeral[q]) : Numeral[k][m] = Numeral[q][m]
          BY <2>2, <3>2, <3>3, <3>4
        <5>5. /\ d \in 1 .. Len(Numeral[k]) /\ d <= Len(Numeral[h])
              /\ Numeral[h][d] < Numeral[k][d]
          BY <2>1, <2>2, <3>1, <3>2, <5>1, <5>3, <5>4
        <5>6. \A m \in 1 .. d - 1 : m <= Len(Numeral[h]) /\ Numeral[h][m] = Numeral[k][m]
          BY <2>1, <2>2, <3>1, <3>2, <5>1, <5>3, <5>4
        <5>7. FirstDiffers(Numeral[h], Numeral[k], d)
          BY <5>5, <5>6 DEF FirstDiffers
        <5> QED
          BY <1>2, <1>3, <5>7, FirstDifference
      <4> QED
        BY <1>2, <4>2, <4>3
    <3>7. CASE p = q
      <4>1. h % Radix < k % Radix
        BY <1>2, <1>3, <1>6, <2>1, <3>1, <3>4, <3>7
      <4>2. Numeral[p] = Numeral[q]
        BY <3>7
      <4> DEFINE d == Len(Numeral[p]) + 1
      <4>3. /\ Len(Numeral[h]) = d /\ Len(Numeral[k]) = d
            /\ Numeral[h][d] = h % Radix /\ Numeral[k][d] = k % Radix
        BY <2>1, <2>2, <3>1, <3>2, <3>3, <3>4, <4>2
      <4>4. \A m \in 1 .. d - 1 : m <= Len(Numeral[h]) /\ Numeral[h][m] = Numeral[k][m]
        BY <2>1, <2>2, <3>1, <3>2, <3>3, <3>4, <4>2, <4>3
      <4>5. d \in 1 .. Len(Numeral[k]) /\ d <= Len(Numeral[h])
        BY <3>2, <4>3
      <4>6. FirstDiffers(Numeral[h], Numeral[k], d)
        BY <4>1, <4>3, <4>4, <4>5 DEF FirstDiffers
      <4>7. TextBefore(h, k)
        BY <1>2, <1>3, <4>6, FirstDifference
      <4>8. Len(Numeral[h]) <= Len(Numeral[k])
        BY <1>5, <4>3
      <4> QED
        BY <1>2, <4>7, <4>8
    <3> QED
      BY <2>1, <3>1, <3>5, <3>6, <3>7
  <2> QED
    BY <1>2, <1>6, <2>3, <2>4
<1> QED
  BY <1>3, <1>6, <1>7, <1>8

-----------------------------------------------------------------------------
(* The inductive invariant. *)

\* Ids are handed out in order, and before[later] holds only saved jobs whose
\* requests have ended; the seconds of the saved jobs follow the same order.
IdsOK ==
  /\ DOMAIN before = 1 .. nextValue - 1
  /\ DOMAIN rows \subseteq DOMAIN before
  /\ \A id \in DOMAIN rows : createdAt[id] <= now
  /\ \A later \in DOMAIN before : \A earlier \in before[later] :
       /\ earlier \in DOMAIN rows /\ earlier < later
       /\ \A h \in RequestThreads :
            request[h].pc # "idle" => request[h].job.id # earlier
       /\ later \in DOMAIN rows => createdAt[earlier] <= createdAt[later]

\* Each request has an id of its own; its job is not in the table before
\* save() and is there before push().
RequestsOK ==
  \A h \in RequestThreads : request[h].pc # "idle" =>
    /\ up
    /\ request[h].job.id \in DOMAIN before
    /\ request[h].pc = "save" => request[h].job.id \notin DOMAIN rows
    /\ request[h].pc = "push" =>
         /\ request[h].job.id \in DOMAIN rows
         /\ rows[request[h].job.id].spec = request[h].job.spec
    /\ \A k \in RequestThreads \ {h} :
         request[k].pc # "idle" => request[k].job.id # request[h].job.id

\* A job that never started still waits.
RowsOK ==
  \A id \in DOMAIN rows :
    /\ rows[id].spec.maxAttempts # 0
    /\ rows[id].attemptsMade = 0 => rows[id].status = "waiting" /\ id \notin running

\* A job that never started is in the queue, unless its request has not ended.
QueueOK ==
  /\ ~shutdown
  /\ ~up => queue = {} /\ running = {}
  /\ \A entry \in queue :
       /\ entry.job.id \in DOMAIN rows
       /\ entry.job.spec = rows[entry.job.id].spec
       /\ entry.sequence < nextSequence
  /\ up => \A id \in DOMAIN rows :
             \/ rows[id].attemptsMade # 0
             \/ \E h \in RequestThreads : request[h].pc # "idle" /\ request[h].job.id = id
             \/ \E entry \in queue : entry.job.id = id

\* What lets a later job start before an earlier one.
ReadFirst(later, earlier) ==
  /\ launches > 1
  /\ createdAt[earlier] = createdAt[later]
  /\ Len(Numeral[earlier]) < Len(Numeral[later])

\* The queue holds the jobs that never started in the order of their requests.
OrderOK ==
  \A x, y \in queue :
    ( /\ x.job.id \in before[y.job.id]
      /\ NeverStarted(x.job.id) /\ NeverStarted(y.job.id) )
    => x.sequence < y.sequence \/ ReadFirst(y.job.id, x.job.id)

RestoreInv == RestoreTypeOK /\ IdsOK /\ RequestsOK /\ RowsOK /\ QueueOK /\ OrderOK

\* A new file and a first launch satisfy the invariant.
LEMMA RestoreInvInit == RestoreInit => RestoreInv
PROOF
<1> SUFFICES ASSUME RestoreInit PROVE RestoreInv
  OBVIOUS
<1> USE RestoreAssumption DEF RestoreInit, StoreInit, QueueInit
<1>1. DOMAIN rows = {} /\ DOMAIN before = {} /\ DOMAIN createdAt = {} /\ queue = {}
  OBVIOUS
<1>2. \A h \in RequestThreads : request[h] = Idle /\ request[h].pc = "idle"
  BY DEF Idle
<1>3. RestoreTypeOK
  <2>1. StoreTypeOK
    BY <1>1 DEF StoreTypeOK, JobIds
  <2>2. QueueTypeOK
    BY DEF QueueTypeOK
  <2>3. createdAt \in [DOMAIN rows -> 0 .. MaxSecond]
    BY <1>1
  <2>4. before \in [DOMAIN before -> SUBSET JobIds]
    BY <1>1
  <2> QED
    BY <1>1, <2>1, <2>2, <2>3, <2>4 DEF RestoreTypeOK
<1>4. IdsOK
  <2>1. 1 .. nextValue - 1 = {}
    OBVIOUS
  <2> QED
    BY <1>1, <2>1 DEF IdsOK
<1>5. RequestsOK
  BY <1>2 DEF RequestsOK
<1>6. RowsOK /\ QueueOK /\ OrderOK
  BY <1>1 DEF RowsOK, QueueOK, OrderOK
<1> QED
  BY <1>3, <1>4, <1>5, <1>6 DEF RestoreInv

\* An UPDATE changes the row it names and keeps the columns of the INSERT.
LEMMA UpdatedRow ==
  ASSUME NEW id \in DOMAIN rows, NEW status \in Statuses, NEW made \in Nat,
         NEW reason \in {"exhausted", NULL}, NEW result \in {"result", NULL},
         NEW at \in Nat \cup {NULL},
         StoreTypeOK, UpdateRow(id, status, made, reason, result, at)
  PROVE  /\ StoreTypeOK' /\ DOMAIN rows' = DOMAIN rows /\ nextValue' = nextValue
         /\ \A j \in DOMAIN rows : rows'[j].spec = rows[j].spec
         /\ \A j \in DOMAIN rows \ {id} : rows'[j] = rows[j]
         /\ rows'[id].attemptsMade = made /\ rows'[id].status = status
PROOF
<1> DEFINE row == [spec |-> rows[id].spec, status |-> status, attemptsMade |-> made,
                   failureReason |-> reason, result |-> result, availableAt |-> at]
<1>1. rows \in [DOMAIN rows -> Row] /\ DOMAIN rows \subseteq JobIds /\ nextValue \in 1 .. MaxJobs + 1
  BY DEF StoreTypeOK
<1>2. rows' = [rows EXCEPT ![id] = row] /\ nextValue' = nextValue
  BY DEF UpdateRow
<1>3. rows[id].spec \in Specs
  BY <1>1 DEF Row
<1>4. row \in Row
  BY <1>3 DEF Row
<1>5. /\ row.spec = rows[id].spec /\ row.attemptsMade = made /\ row.status = status
  OBVIOUS
<1> HIDE DEF row
<1>6. rows' \in [DOMAIN rows -> Row] /\ DOMAIN rows' = DOMAIN rows
  BY <1>1, <1>2, <1>4
<1>7. rows'[id] = row /\ \A j \in DOMAIN rows \ {id} : rows'[j] = rows[j]
  BY <1>1, <1>2
<1>8. StoreTypeOK'
  BY <1>1, <1>2, <1>6 DEF StoreTypeOK
<1> QED
  BY <1>2, <1>5, <1>6, <1>7, <1>8

\* Types of what a step works on.
LEMMA TypesOfRestore ==
  ASSUME RestoreInv
  PROVE  /\ \A id \in DOMAIN rows :
              /\ id \in JobIds /\ id \in Nat /\ rows[id] \in Row
              /\ rows[id].spec \in Specs /\ rows[id].attemptsMade \in Nat
              /\ rows[id].spec.priority \in Nat
              /\ createdAt[id] \in Nat
         /\ \A entry \in queue :
              /\ entry.sequence \in Nat /\ entry.job \in Job /\ entry.job.id \in JobIds
         /\ \A h \in RequestThreads :
              /\ request[h].pc \in {"idle", "save", "push"}
              /\ request[h].pc # "idle" =>
                   request[h].job \in Job /\ request[h].job.id \in JobIds
         /\ nextSequence \in Nat /\ nextValue \in Nat /\ now \in Nat /\ launches \in Nat
         /\ MaxJobs \in Nat /\ JobIds \subseteq Nat
PROOF
<1> USE RestoreAssumption DEF RestoreInv, RestoreTypeOK
<1>1. rows \in [DOMAIN rows -> Row] /\ DOMAIN rows \subseteq JobIds /\ nextValue \in 1 .. MaxJobs + 1
  BY DEF StoreTypeOK
<1>2. JobIds \subseteq Nat
  BY DEF JobIds
<1>3. ASSUME NEW id \in DOMAIN rows
      PROVE  /\ id \in JobIds /\ id \in Nat /\ rows[id] \in Row
             /\ rows[id].spec \in Specs /\ rows[id].attemptsMade \in Nat
             /\ rows[id].spec.priority \in Nat
             /\ createdAt[id] \in Nat
  <2>1. rows[id] \in Row
    BY <1>1
  <2>2. rows[id].spec \in Specs /\ rows[id].attemptsMade \in Nat
    BY <2>1 DEF Row
  <2>3. rows[id].spec.priority \in Nat
    BY <2>2
  <2>4. createdAt[id] \in 0 .. MaxSecond
    OBVIOUS
  <2> QED
    BY <1>1, <1>2, <2>1, <2>2, <2>3, <2>4
<1>4. \A entry \in queue :
        /\ entry.sequence \in Nat /\ entry.job \in Job /\ entry.job.id \in JobIds
  BY DEF QueueTypeOK, QueuedJob, Job
<1>5. nextSequence \in Nat
  BY DEF QueueTypeOK
<1>6. \A h \in RequestThreads :
        /\ request[h].pc \in {"idle", "save", "push"}
        /\ request[h].pc # "idle" =>
             request[h].job \in Job /\ request[h].job.id \in JobIds
  BY DEF Idle, Job
<1> QED
  BY <1>1, <1>2, <1>3, <1>4, <1>5, <1>6

\* add() takes an id: the jobs in the table whose requests have ended come before.
LEMMA TakeIdKeepsInv ==
  ASSUME RestoreInv, NEW h \in RequestThreads, NEW spec \in Specs, TakeId(h, spec)
  PROVE  RestoreInv'
PROOF
<1> USE RestoreAssumption DEF RestoreInv
<1> DEFINE id == nextValue
           new == [pc |-> "save", job |-> [id |-> id, spec |-> spec]]
<1>1. /\ up /\ request[h].pc = "idle"
      /\ id \in JobIds /\ nextValue' = nextValue + 1 /\ UNCHANGED rows
      /\ request' = [request EXCEPT ![h] = new]
      /\ before' = [i \in DOMAIN before \cup {id} |->
                      IF i = id THEN DOMAIN rows \ InAdd ELSE before[i]]
      /\ UNCHANGED <<createdAt, queue, nextSequence, shutdown, running, up, now, launches>>
  BY DEF TakeId, GenerateJobId, jobQueueVars
<1>2. id \in Nat /\ nextValue \in 1 .. MaxJobs + 1 /\ DOMAIN rows \subseteq JobIds
  BY DEF RestoreTypeOK, StoreTypeOK
<1>3. request'[h] = new /\ \A k \in RequestThreads \ {h} : request'[k] = request[k]
  BY <1>1 DEF RestoreTypeOK
<1>4. new.pc = "save" /\ new.job.id = id /\ new.job \in Job
  BY <1>1 DEF Job
<1>5. DOMAIN before = 1 .. id - 1 /\ DOMAIN rows \subseteq 1 .. id - 1
  BY DEF IdsOK
<1>6. /\ DOMAIN before' = DOMAIN before \cup {id}
      /\ before'[id] = DOMAIN rows \ InAdd
      /\ \A i \in DOMAIN before : before'[i] = before[i]
  BY <1>1, <1>2, <1>5
<1>7. \A i \in DOMAIN rows : i \in 1 .. id - 1 /\ i \in Nat /\ i # id /\ i < id
  BY <1>2, <1>5
<1> HIDE DEF id, new
<1>8. RestoreTypeOK'
  <2>1. StoreTypeOK'
    <3>1. nextValue' \in 1 .. MaxJobs + 1
      BY <1>1, <1>2 DEF JobIds, id
    <3> QED
      BY <1>1, <3>1 DEF RestoreTypeOK, StoreTypeOK
  <2>2. QueueTypeOK'
    BY <1>1 DEF RestoreTypeOK, QueueTypeOK
  <2>3. request' \in [RequestThreads -> {Idle} \cup [pc : {"save", "push"}, job : Job]]
    <3>1. new \in [pc : {"save", "push"}, job : Job]
      BY <1>4 DEF new
    <3> QED
      BY <1>1, <3>1 DEF RestoreTypeOK
  <2>4. before' \in [DOMAIN before' -> SUBSET JobIds]
    <3>1. \A i \in DOMAIN before' : before'[i] \in SUBSET JobIds
      BY <1>2, <1>6 DEF RestoreTypeOK
    <3>2. before' = [i \in DOMAIN before' |-> before'[i]]
      BY <1>1
    <3> QED
      BY <3>1, <3>2
  <2> QED
    BY <1>1, <2>1, <2>2, <2>3, <2>4 DEF RestoreTypeOK
<1>9. IdsOK'
  <2>1. DOMAIN before' = 1 .. nextValue' - 1
    BY <1>1, <1>2, <1>5, <1>6 DEF id
  <2>2. ASSUME NEW later \in DOMAIN before', NEW earlier \in before'[later]
        PROVE  /\ earlier \in DOMAIN rows' /\ earlier < later
               /\ \A k \in RequestThreads :
                    request'[k].pc # "idle" => request'[k].job.id # earlier
               /\ later \in DOMAIN rows' => createdAt'[earlier] <= createdAt'[later]
    <3>1. CASE later = id
      <4>1. earlier \in DOMAIN rows /\ earlier \notin InAdd
        BY <1>6, <2>2, <3>1
      <4>2. \A k \in RequestThreads : request[k].pc # "idle" => request[k].job.id # earlier
        BY <4>1 DEF InAdd
      <4>3. earlier < id /\ earlier # id
        BY <4>1, <1>7
      <4>4. later \notin DOMAIN rows
        BY <3>1, <1>7
      <4> QED
        BY <1>1, <1>3, <1>4, <3>1, <4>1, <4>2, <4>3, <4>4
    <3>2. CASE later # id
      <4>1. later \in DOMAIN before /\ earlier \in before[later]
        BY <1>6, <2>2, <3>2
      <4>2. /\ earlier \in DOMAIN rows /\ earlier < later
            /\ \A k \in RequestThreads :
                 request[k].pc # "idle" => request[k].job.id # earlier
            /\ later \in DOMAIN rows => createdAt[earlier] <= createdAt[later]
        BY <4>1 DEF IdsOK
      <4> QED
        BY <1>1, <1>3, <1>4, <1>7, <4>2
    <3> QED
      BY <3>1, <3>2
  <2>3. DOMAIN rows' \subseteq DOMAIN before' /\ \A i \in DOMAIN rows' : createdAt'[i] <= now'
    BY <1>1, <1>6 DEF IdsOK
  <2> QED
    BY <2>1, <2>2, <2>3 DEF IdsOK
<1>10. RequestsOK'
  <2>1. \A k \in RequestThreads \ {h} : request[k].pc # "idle" => request[k].job.id # id
    <3> SUFFICES ASSUME NEW k \in RequestThreads \ {h}, request[k].pc # "idle"
                 PROVE  request[k].job.id # id
      OBVIOUS
    <3>1. request[k].job.id \in DOMAIN before
      BY DEF RequestsOK
    <3> QED
      BY <1>2, <1>5, <3>1
  <2>2. id \notin DOMAIN rows /\ id \in DOMAIN before'
    BY <1>6, <1>7
  <2> SUFFICES ASSUME NEW k \in RequestThreads, request'[k].pc # "idle"
               PROVE  /\ up'
                      /\ request'[k].job.id \in DOMAIN before'
                      /\ request'[k].pc = "save" => request'[k].job.id \notin DOMAIN rows'
                      /\ request'[k].pc = "push" =>
                           /\ request'[k].job.id \in DOMAIN rows'
                           /\ rows'[request'[k].job.id].spec = request'[k].job.spec
                      /\ \A g \in RequestThreads \ {k} :
                           request'[g].pc # "idle" => request'[g].job.id # request'[k].job.id
    BY DEF RequestsOK
  <2>3. CASE k = h
    BY <1>1, <1>3, <1>4, <2>1, <2>2, <2>3
  <2>4. CASE k # h
    <3>1. request'[k] = request[k] /\ request[k].pc # "idle" /\ request[k].job.id # id
      BY <1>3, <2>1, <2>4
    <3>2. \A g \in RequestThreads \ {k} :
            request'[g].pc # "idle" => request'[g].job.id # request[k].job.id
      BY <1>3, <1>4, <3>1 DEF RequestsOK
    <3> QED
      BY <1>1, <1>6, <3>1, <3>2 DEF RequestsOK
  <2> QED
    BY <2>3, <2>4
<1>11. RowsOK'
  BY <1>1 DEF RowsOK
<1>12. QueueOK'
  <2>1. \A i \in DOMAIN rows :
          \/ rows[i].attemptsMade # 0
          \/ \E k \in RequestThreads : request'[k].pc # "idle" /\ request'[k].job.id = i
          \/ \E entry \in queue : entry.job.id = i
    <3> SUFFICES ASSUME NEW i \in DOMAIN rows, rows[i].attemptsMade = 0,
                        ~ \E entry \in queue : entry.job.id = i
                 PROVE  \E k \in RequestThreads : request'[k].pc # "idle" /\ request'[k].job.id = i
      OBVIOUS
    <3>1. PICK k \in RequestThreads : request[k].pc # "idle" /\ request[k].job.id = i
      BY <1>1 DEF QueueOK
    <3> QED
      BY <1>1, <1>3, <3>1
  <2> QED
    BY <1>1, <2>1 DEF QueueOK
<1>13. OrderOK'
  <2> SUFFICES ASSUME NEW x \in queue, NEW y \in queue,
                      x.job.id \in before'[y.job.id],
                      NeverStarted(x.job.id)', NeverStarted(y.job.id)'
               PROVE  x.sequence < y.sequence \/ ReadFirst(y.job.id, x.job.id)'
    BY <1>1 DEF OrderOK
  <2>1. y.job.id \in DOMAIN rows /\ y.job.id \in DOMAIN before
    BY DEF QueueOK, IdsOK
  <2>2. x.job.id \in before[y.job.id]
    BY <1>6, <2>1
  <2>3. NeverStarted(x.job.id) /\ NeverStarted(y.job.id)
    BY <1>1 DEF NeverStarted
  <2>4. x.sequence < y.sequence \/ ReadFirst(y.job.id, x.job.id)
    BY <2>2, <2>3 DEF OrderOK
  <2> QED
    BY <1>1, <2>4 DEF ReadFirst
<1> QED
  BY <1>8, <1>9, <1>10, <1>11, <1>12, <1>13 DEF RestoreInv

\* save(): the row is new, and no other job names it.
LEMMA SaveJobKeepsInv ==
  ASSUME RestoreInv, NEW h \in RequestThreads, SaveJob(h)
  PROVE  RestoreInv'
PROOF
<1> USE RestoreAssumption DEF RestoreInv
<1> DEFINE job == request[h].job
           id == job.id
           row == [spec |-> job.spec, status |-> "waiting", attemptsMade |-> 0,
                   failureReason |-> NULL, result |-> NULL, availableAt |-> NULL]
<1>1. /\ request[h].pc = "save"
      /\ job.spec.maxAttempts # 0 /\ id \notin DOMAIN rows
      /\ rows' = [i \in DOMAIN rows \cup {id} |-> IF i = id THEN row ELSE rows[i]]
      /\ createdAt' = [i \in DOMAIN rows' |-> IF i \in DOMAIN rows THEN createdAt[i] ELSE now]
      /\ request' = [request EXCEPT ![h].pc = "push"]
      /\ UNCHANGED <<nextValue, queue, nextSequence, shutdown, running, up, now, launches, before>>
  BY DEF SaveJob, Save, AcceptsSave, jobQueueVars, historyVars
<1>2. job \in Job /\ id \in JobIds /\ job.spec \in Specs /\ id \in DOMAIN before /\ up
  <2>1. job \in Job /\ id \in JobIds
    BY <1>1, TypesOfRestore
  <2> QED
    BY <1>1, <2>1 DEF RequestsOK, Job
<1>3. /\ request'[h].pc = "push" /\ request'[h].job = job
      /\ \A k \in RequestThreads \ {h} : request'[k] = request[k]
      /\ request'[h] \in [pc : {"save", "push"}, job : Job]
  <2>1. request[h] \in [pc : {"save", "push"}, job : Job]
    BY <1>1 DEF RestoreTypeOK, Idle
  <2>2. request'[h] = [request[h] EXCEPT !.pc = "push"]
    BY <1>1 DEF RestoreTypeOK
  <2> QED
    BY <1>1, <2>1, <2>2 DEF RestoreTypeOK
<1>4. row.spec = job.spec /\ row.attemptsMade = 0 /\ row.status = "waiting" /\ row \in Row
  BY <1>2 DEF Row, Statuses
<1> HIDE DEF row, id, job
<1>5. /\ DOMAIN rows' = DOMAIN rows \cup {id} /\ rows'[id] = row
      /\ \A i \in DOMAIN rows : rows'[i] = rows[i] /\ i # id
  BY <1>1
<1>6. /\ createdAt'[id] = now /\ \A i \in DOMAIN rows : createdAt'[i] = createdAt[i]
      /\ DOMAIN createdAt' = DOMAIN rows'
  BY <1>1, <1>5
<1>7. \A k \in RequestThreads \ {h} : request[k].pc # "idle" => request[k].job.id # id
  BY <1>1 DEF RequestsOK, id, job
<1>8. RestoreTypeOK'
  <2>1. StoreTypeOK'
    <3>1. \A i \in DOMAIN rows' : rows'[i] \in Row
      BY <1>4, <1>5 DEF RestoreTypeOK, StoreTypeOK
    <3>2. rows' = [i \in DOMAIN rows' |-> rows'[i]]
      BY <1>1
    <3>3. DOMAIN rows' \subseteq JobIds
      BY <1>2, <1>5 DEF RestoreTypeOK, StoreTypeOK
    <3>4. rows' \in [DOMAIN rows' -> Row]
      BY <3>1, <3>2
    <3> QED
      BY <1>1, <3>3, <3>4 DEF RestoreTypeOK, StoreTypeOK
  <2>2. QueueTypeOK'
    BY <1>1 DEF RestoreTypeOK, QueueTypeOK
  <2>3. request' \in [RequestThreads -> {Idle} \cup [pc : {"save", "push"}, job : Job]]
    <3>1. DOMAIN request' = RequestThreads /\ request' = [k \in RequestThreads |-> request'[k]]
      BY <1>1 DEF RestoreTypeOK
    <3>2. \A k \in RequestThreads : request'[k] \in {Idle} \cup [pc : {"save", "push"}, job : Job]
      BY <1>3 DEF RestoreTypeOK
    <3> QED
      BY <3>1, <3>2
  <2>4. createdAt' \in [DOMAIN rows' -> 0 .. MaxSecond]
    <3>1. \A i \in DOMAIN rows' : createdAt'[i] \in 0 .. MaxSecond
      BY <1>5, <1>6 DEF RestoreTypeOK
    <3>2. createdAt' = [i \in DOMAIN rows' |-> createdAt'[i]]
      BY <1>1
    <3> QED
      BY <3>1, <3>2
  <2> QED
    BY <1>1, <1>5, <2>1, <2>2, <2>3, <2>4 DEF RestoreTypeOK
<1>9. IdsOK'
  <2>1. DOMAIN before' = 1 .. nextValue' - 1 /\ DOMAIN rows' \subseteq DOMAIN before'
    BY <1>1, <1>2, <1>5 DEF IdsOK
  <2>2. \A i \in DOMAIN rows' : createdAt'[i] <= now'
    BY <1>1, <1>5, <1>6, TypesOfRestore DEF IdsOK
  <2>3. ASSUME NEW later \in DOMAIN before, NEW earlier \in before[later]
        PROVE  /\ earlier \in DOMAIN rows' /\ earlier < later
               /\ \A k \in RequestThreads :
                    request'[k].pc # "idle" => request'[k].job.id # earlier
               /\ later \in DOMAIN rows' => createdAt'[earlier] <= createdAt'[later]
    <3>1. /\ earlier \in DOMAIN rows /\ earlier < later
          /\ \A k \in RequestThreads :
               request[k].pc # "idle" => request[k].job.id # earlier
          /\ later \in DOMAIN rows => createdAt[earlier] <= createdAt[later]
          /\ createdAt[earlier] <= now
      BY <2>3 DEF IdsOK
    <3>2. \A k \in RequestThreads : request'[k].pc # "idle" => request'[k].job.id # earlier
      BY <1>1, <1>3, <3>1 DEF job
    <3>3. later \in DOMAIN rows' => createdAt'[earlier] <= createdAt'[later]
      BY <1>5, <1>6, <3>1
    <3> QED
      BY <1>5, <3>1, <3>2, <3>3
  <2> QED
    BY <1>1, <2>1, <2>2, <2>3 DEF IdsOK
<1>10. RequestsOK'
  <2> SUFFICES ASSUME NEW k \in RequestThreads, request'[k].pc # "idle"
               PROVE  /\ up'
                      /\ request'[k].job.id \in DOMAIN before'
                      /\ request'[k].pc = "save" => request'[k].job.id \notin DOMAIN rows'
                      /\ request'[k].pc = "push" =>
                           /\ request'[k].job.id \in DOMAIN rows'
                           /\ rows'[request'[k].job.id].spec = request'[k].job.spec
                      /\ \A g \in RequestThreads \ {k} :
                           request'[g].pc # "idle" => request'[g].job.id # request'[k].job.id
    BY DEF RequestsOK
  <2>1. CASE k = h
    BY <1>1, <1>2, <1>3, <1>4, <1>5, <1>7, <2>1 DEF id
  <2>2. CASE k # h
    <3>1. request'[k] = request[k] /\ request[k].pc # "idle" /\ request[k].job.id # id
      BY <1>3, <1>7, <2>2
    <3>2. \A g \in RequestThreads \ {k} :
            request'[g].pc # "idle" => request'[g].job.id # request[k].job.id
      BY <1>1, <1>3, <3>1 DEF RequestsOK, job, id
    <3>3. /\ request[k].job.id \in DOMAIN before
          /\ request[k].pc = "save" => request[k].job.id \notin DOMAIN rows
          /\ request[k].pc = "push" =>
               /\ request[k].job.id \in DOMAIN rows
               /\ rows[request[k].job.id].spec = request[k].job.spec
      BY <3>1 DEF RequestsOK
    <3> QED
      BY <1>1, <1>2, <1>5, <3>1, <3>2, <3>3
  <2> QED
    BY <2>1, <2>2
<1>11. RowsOK'
  <2>1. id \notin running
    BY <1>1 DEF RestoreTypeOK, id, job
  <2>2. row.spec.maxAttempts # 0
    BY <1>1, <1>4
  <2> QED
    BY <1>1, <1>4, <1>5, <2>1, <2>2 DEF RowsOK
<1>12. QueueOK'
  <2>1. ASSUME NEW i \in DOMAIN rows', rows'[i].attemptsMade = 0,
               ~ \E entry \in queue : entry.job.id = i
        PROVE  \E k \in RequestThreads : request'[k].pc # "idle" /\ request'[k].job.id = i
    <3>1. CASE i = id
      BY <1>3, <3>1 DEF id
    <3>2. CASE i # id
      <4>1. PICK k \in RequestThreads : request[k].pc # "idle" /\ request[k].job.id = i
        BY <1>2, <1>5, <2>1, <3>2 DEF QueueOK
      <4> QED
        BY <1>3, <3>2, <4>1 DEF id, job
    <3> QED
      BY <3>1, <3>2
  <2>2. \A entry \in queue :
          /\ entry.job.id \in DOMAIN rows'
          /\ entry.job.spec = rows'[entry.job.id].spec
          /\ entry.sequence < nextSequence
    BY <1>5 DEF QueueOK
  <2> QED
    BY <1>1, <2>1, <2>2 DEF QueueOK
<1>13. OrderOK'
  <2> SUFFICES ASSUME NEW x \in queue, NEW y \in queue,
                      x.job.id \in before[y.job.id],
                      NeverStarted(x.job.id)', NeverStarted(y.job.id)'
               PROVE  x.sequence < y.sequence \/ ReadFirst(y.job.id, x.job.id)'
    BY <1>1 DEF OrderOK
  <2>1. x.job.id \in DOMAIN rows /\ y.job.id \in DOMAIN rows
    BY DEF QueueOK
  <2>2. NeverStarted(x.job.id) /\ NeverStarted(y.job.id)
    BY <1>5, <2>1 DEF NeverStarted
  <2>3. x.sequence < y.sequence \/ ReadFirst(y.job.id, x.job.id)
    BY <2>2 DEF OrderOK
  <2> QED
    BY <1>1, <1>6, <2>1, <2>3 DEF ReadFirst
<1> QED
  BY <1>8, <1>9, <1>10, <1>11, <1>12, <1>13 DEF RestoreInv

\* What a step leaves true that adds no row and no request.
LEMMA RequestsGoOn ==
  ASSUME RestoreInv,
         DOMAIN rows' = DOMAIN rows,
         \A id \in DOMAIN rows : rows'[id].spec = rows[id].spec,
         UNCHANGED <<nextValue, createdAt, before, request, up>>,
         now' \in Nat, now' >= now
  PROVE  IdsOK' /\ RequestsOK'
PROOF
<1> USE DEF RestoreInv
<1>1. IdsOK'
  <2>1. \A id \in DOMAIN rows : createdAt[id] <= now'
    BY TypesOfRestore DEF IdsOK
  <2> QED
    BY <2>1 DEF IdsOK
<1>2. RequestsOK'
  BY DEF RequestsOK
<1> QED
  BY <1>1, <1>2

\* queue_.push: the job goes behind all the others, and none of them comes after it.
LEMMA PushJobKeepsInv ==
  ASSUME RestoreInv, NEW h \in RequestThreads, PushJob(h)
  PROVE  RestoreInv'
PROOF
<1> USE RestoreAssumption DEF RestoreInv
<1> DEFINE job == request[h].job
           entry == [sequence |-> nextSequence, job |-> job]
<1>1. /\ request[h].pc = "push"
      /\ queue' = queue \cup {entry} /\ nextSequence' = nextSequence + 1
      /\ request' = [request EXCEPT ![h] = Idle]
      /\ UNCHANGED <<shutdown, rows, nextValue, createdAt, running, up, now, launches, before>>
  BY DEF PushJob, Push, tableVars, historyVars, QueueOK
<1>2. job \in Job /\ nextSequence \in Nat
  BY <1>1, TypesOfRestore
<1>3. /\ request'[h].pc = "idle"
      /\ \A k \in RequestThreads \ {h} : request'[k] = request[k]
  BY <1>1 DEF RestoreTypeOK, Idle
<1>4. /\ up /\ job.id \in DOMAIN rows /\ job.spec = rows[job.id].spec
      /\ \A later \in DOMAIN before : job.id \notin before[later]
  BY <1>1 DEF RequestsOK, IdsOK
<1>5. entry.sequence = nextSequence /\ entry.job = job
  OBVIOUS
<1> HIDE DEF job, entry
<1>6. RestoreTypeOK'
  <2>1. StoreTypeOK'
    BY <1>1 DEF RestoreTypeOK, StoreTypeOK
  <2>2. QueueTypeOK'
    BY <1>1, <1>2 DEF RestoreTypeOK, QueueTypeOK, QueuedJob, entry
  <2>3. request' \in [RequestThreads -> {Idle} \cup [pc : {"save", "push"}, job : Job]]
    BY <1>1 DEF RestoreTypeOK
  <2> QED
    BY <1>1, <2>1, <2>2, <2>3 DEF RestoreTypeOK
<1>7. \A k \in RequestThreads :
        request'[k].pc # "idle" => k # h /\ request'[k] = request[k]
  BY <1>3
<1>8. IdsOK'
  BY <1>1, <1>7 DEF IdsOK
<1>9. RequestsOK'
  <2> SUFFICES ASSUME NEW k \in RequestThreads, request'[k].pc # "idle"
               PROVE  /\ up'
                      /\ request'[k].job.id \in DOMAIN before'
                      /\ request'[k].pc = "save" => request'[k].job.id \notin DOMAIN rows'
                      /\ request'[k].pc = "push" =>
                           /\ request'[k].job.id \in DOMAIN rows'
                           /\ rows'[request'[k].job.id].spec = request'[k].job.spec
                      /\ \A g \in RequestThreads \ {k} :
                           request'[g].pc # "idle" => request'[g].job.id # request'[k].job.id
    BY DEF RequestsOK
  <2> QED
    BY <1>1, <1>7 DEF RequestsOK
<1>10. RowsOK'
  BY <1>1 DEF RowsOK
<1>11. QueueOK'
  <2>1. ASSUME NEW e \in queue'
        PROVE  /\ e.job.id \in DOMAIN rows /\ e.job.spec = rows[e.job.id].spec
               /\ e.sequence < nextSequence + 1
    <3>1. CASE e \in queue
      <4>1. e.job.id \in DOMAIN rows /\ e.job.spec = rows[e.job.id].spec /\ e.sequence < nextSequence
        BY <3>1 DEF QueueOK
      <4>2. e.sequence \in Nat
        BY <3>1, TypesOfRestore
      <4> QED
        BY <1>2, <4>1, <4>2
    <3>2. CASE e = entry
      BY <1>2, <1>4, <1>5, <3>2
    <3> QED
      BY <1>1, <3>1, <3>2
  <2>2. ASSUME NEW i \in DOMAIN rows, rows[i].attemptsMade = 0,
               ~ \E e \in queue' : e.job.id = i
        PROVE  \E k \in RequestThreads : request'[k].pc # "idle" /\ request'[k].job.id = i
    <3>1. i # job.id
      BY <1>1, <1>5, <2>2
    <3>2. PICK k \in RequestThreads : request[k].pc # "idle" /\ request[k].job.id = i
      BY <1>1, <1>4, <2>2 DEF QueueOK
    <3> QED
      BY <1>3, <3>1, <3>2 DEF job
  <2> QED
    BY <1>1, <1>4, <2>1, <2>2 DEF QueueOK
<1>12. OrderOK'
  <2> SUFFICES ASSUME NEW x \in queue', NEW y \in queue',
                      x.job.id \in before[y.job.id],
                      NeverStarted(x.job.id)', NeverStarted(y.job.id)'
               PROVE  x.sequence < y.sequence \/ ReadFirst(y.job.id, x.job.id)'
    BY <1>1 DEF OrderOK
  <2>1. y.job.id \in DOMAIN rows
    BY <1>1, <1>4, <1>5 DEF QueueOK
  <2>2. y.job.id \in DOMAIN before
    BY <2>1 DEF IdsOK
  <2>3. x # entry
    BY <1>4, <1>5, <2>2
  <2>4. x \in queue
    BY <1>1, <2>3
  <2>5. CASE y = entry
    BY <1>5, <2>4, <2>5 DEF QueueOK
  <2>6. CASE y \in queue
    <3>1. NeverStarted(x.job.id) /\ NeverStarted(y.job.id)
      BY <1>1 DEF NeverStarted
    <3>2. x.sequence < y.sequence \/ ReadFirst(y.job.id, x.job.id)
      BY <2>4, <2>6, <3>1 DEF OrderOK
    <3> QED
      BY <1>1, <3>2 DEF ReadFirst
  <2> QED
    BY <1>1, <2>5, <2>6
<1> QED
  BY <1>6, <1>8, <1>9, <1>10, <1>11, <1>12 DEF RestoreInv

\* A job leaves the queue and its attempt is counted.
LEMMA StartKeepsInv ==
  ASSUME RestoreInv, NEW entry \in queue, Start(entry)
  PROVE  /\ RestoreInv'
         /\ \A i \in DOMAIN rows \ {entry.job.id} : rows'[i] = rows[i]
PROOF
<1> USE RestoreAssumption DEF RestoreInv
<1> DEFINE id == entry.job.id
<1>1. /\ queue' = queue \ {entry}
      /\ id \in DOMAIN rows
      /\ UpdateRow(id, "active", rows[id].attemptsMade + 1, NULL, NULL, NULL)
      /\ running' = running \cup {id}
      /\ UNCHANGED <<nextSequence, shutdown, createdAt, request, up, now, launches, before>>
  BY DEF Start, PopJob, StartAttempt, AcceptsStart, historyVars
<1> HIDE DEF id
<1>2. rows[id].attemptsMade \in Nat /\ rows[id].attemptsMade + 1 \in Nat /\ StoreTypeOK
  BY <1>1, TypesOfRestore DEF RestoreTypeOK
<1>3. /\ StoreTypeOK' /\ DOMAIN rows' = DOMAIN rows /\ nextValue' = nextValue
      /\ \A j \in DOMAIN rows : rows'[j].spec = rows[j].spec
      /\ \A j \in DOMAIN rows \ {id} : rows'[j] = rows[j]
      /\ rows'[id].attemptsMade = rows[id].attemptsMade + 1
  BY <1>1, <1>2, UpdatedRow DEF Statuses
<1>4. rows'[id].attemptsMade # 0
  BY <1>2, <1>3
<1>5. RestoreTypeOK'
  <2>1. QueueTypeOK'
    BY <1>1 DEF RestoreTypeOK, QueueTypeOK
  <2> QED
    BY <1>1, <1>3, <2>1 DEF RestoreTypeOK
<1>6. IdsOK' /\ RequestsOK'
  BY <1>1, <1>3, RequestsGoOn, TypesOfRestore
<1>7. RowsOK'
  BY <1>1, <1>3, <1>4 DEF RowsOK
<1>8. QueueOK'
  <2>1. up /\ queue # {}
    BY DEF QueueOK
  <2>2. ASSUME NEW i \in DOMAIN rows, rows'[i].attemptsMade = 0
        PROVE  \/ \E k \in RequestThreads : request[k].pc # "idle" /\ request[k].job.id = i
               \/ \E e \in queue' : e.job.id = i
    <3>1. i # id /\ rows[i].attemptsMade = 0
      BY <1>3, <1>4, <2>2
    <3>2. \/ \E k \in RequestThreads : request[k].pc # "idle" /\ request[k].job.id = i
          \/ \E e \in queue : e.job.id = i
      BY <2>1, <3>1 DEF QueueOK
    <3> QED
      BY <1>1, <3>1, <3>2 DEF id
  <2>3. \A e \in queue' : /\ e.job.id \in DOMAIN rows'
                          /\ e.job.spec = rows'[e.job.id].spec
                          /\ e.sequence < nextSequence'
    BY <1>1, <1>3 DEF QueueOK
  <2> QED
    BY <1>1, <1>3, <2>1, <2>2, <2>3 DEF QueueOK
<1>9. OrderOK'
  <2> SUFFICES ASSUME NEW x \in queue', NEW y \in queue',
                      x.job.id \in before[y.job.id],
                      NeverStarted(x.job.id)', NeverStarted(y.job.id)'
               PROVE  x.sequence < y.sequence \/ ReadFirst(y.job.id, x.job.id)'
    BY <1>1 DEF OrderOK
  <2>1. x \in queue /\ y \in queue /\ x.job.id \in DOMAIN rows /\ y.job.id \in DOMAIN rows
    BY <1>1 DEF QueueOK
  <2>2. NeverStarted(x.job.id) /\ NeverStarted(y.job.id)
    BY <1>3, <1>4, <2>1 DEF NeverStarted
  <2>3. x.sequence < y.sequence \/ ReadFirst(y.job.id, x.job.id)
    BY <2>1, <2>2 DEF OrderOK
  <2> QED
    BY <1>1, <2>3 DEF ReadFirst
<1> QED
  BY <1>3, <1>5, <1>6, <1>7, <1>8, <1>9 DEF RestoreInv, id

\* The order of the queue outlives a step that takes nothing into it and starts
\* no job.
LEMMA OrderStays ==
  ASSUME RestoreInv,
         queue' \subseteq queue,
         \A id \in DOMAIN rows : rows'[id].attemptsMade = rows[id].attemptsMade,
         UNCHANGED <<createdAt, before, launches>>
  PROVE  OrderOK'
PROOF
<1> USE DEF RestoreInv
<1> SUFFICES ASSUME NEW x \in queue', NEW y \in queue',
                    x.job.id \in before[y.job.id],
                    NeverStarted(x.job.id)', NeverStarted(y.job.id)'
             PROVE  x.sequence < y.sequence \/ ReadFirst(y.job.id, x.job.id)'
  BY DEF OrderOK
<1>1. x \in queue /\ y \in queue /\ x.job.id \in DOMAIN rows /\ y.job.id \in DOMAIN rows
  BY DEF QueueOK
<1>2. NeverStarted(x.job.id) /\ NeverStarted(y.job.id)
  BY <1>1 DEF NeverStarted
<1>3. x.sequence < y.sequence \/ ReadFirst(y.job.id, x.job.id)
  BY <1>1, <1>2 DEF OrderOK
<1> QED
  BY <1>3 DEF ReadFirst

\* The attempt ends its job.
LEMMA CompleteKeepsInv ==
  ASSUME RestoreInv, NEW id \in running, Complete(id)
  PROVE  /\ RestoreInv' /\ DOMAIN rows' = DOMAIN rows
         /\ \A i \in DOMAIN rows : rows'[i].attemptsMade = rows[i].attemptsMade
PROOF
<1> USE RestoreAssumption DEF RestoreInv
<1>1. /\ id \in DOMAIN rows
      /\ UpdateRow(id, "completed", rows[id].attemptsMade, NULL, "result", NULL)
      /\ running' = running \ {id}
      /\ UNCHANGED <<queue, nextSequence, shutdown, createdAt, request, up, now, launches, before>>
  BY DEF Complete, MarkCompleted, AcceptsOutcome, jobQueueVars, historyVars
<1>2. rows[id].attemptsMade \in Nat /\ StoreTypeOK /\ rows[id].attemptsMade # 0
  BY <1>1, TypesOfRestore DEF RestoreTypeOK, RowsOK
<1>3. /\ StoreTypeOK' /\ DOMAIN rows' = DOMAIN rows /\ nextValue' = nextValue
      /\ \A j \in DOMAIN rows : rows'[j].spec = rows[j].spec
      /\ \A j \in DOMAIN rows \ {id} : rows'[j] = rows[j]
      /\ rows'[id].attemptsMade = rows[id].attemptsMade
  BY <1>1, <1>2, UpdatedRow DEF Statuses
<1>4. \A j \in DOMAIN rows : rows'[j].attemptsMade = rows[j].attemptsMade
  BY <1>3
<1>5. RestoreTypeOK'
  <2>1. QueueTypeOK'
    BY <1>1 DEF RestoreTypeOK, QueueTypeOK
  <2> QED
    BY <1>1, <1>3, <2>1 DEF RestoreTypeOK
<1>6. IdsOK' /\ RequestsOK'
  BY <1>1, <1>3, RequestsGoOn, TypesOfRestore
<1>7. RowsOK'
  BY <1>1, <1>2, <1>3 DEF RowsOK
<1>8. QueueOK'
  BY <1>1, <1>3, <1>4 DEF QueueOK
<1>9. OrderOK'
  BY <1>1, <1>4, OrderStays
<1> QED
  BY <1>3, <1>4, <1>5, <1>6, <1>7, <1>8, <1>9 DEF RestoreInv

\* The attempt asks for a retry: its job was started, so its place behind the
\* others disturbs no order.
LEMMA RetryKeepsInv ==
  ASSUME RestoreInv, NEW id \in running, Retry(id)
  PROVE  /\ RestoreInv' /\ DOMAIN rows' = DOMAIN rows
         /\ \A i \in DOMAIN rows : rows'[i].attemptsMade = rows[i].attemptsMade
PROOF
<1> USE RestoreAssumption DEF RestoreInv
<1> DEFINE entry == [sequence |-> nextSequence, job |-> [id |-> id, spec |-> rows[id].spec]]
<1>1. /\ id \in DOMAIN rows
      /\ UpdateRow(id, "waiting", rows[id].attemptsMade, NULL, NULL, NULL)
      /\ queue' = queue \cup {entry} /\ nextSequence' = nextSequence + 1
      /\ running' = running \ {id}
      /\ UNCHANGED <<shutdown, createdAt, request, up, now, launches, before>>
  BY DEF Retry, MarkWaiting, AcceptsWaiting, Push, QueueOK, historyVars
<1>2. /\ rows[id].attemptsMade \in Nat /\ StoreTypeOK /\ rows[id].attemptsMade # 0
      /\ id \in JobIds /\ rows[id].spec \in Specs /\ nextSequence \in Nat
  BY <1>1, TypesOfRestore DEF RestoreTypeOK, RowsOK
<1>3. /\ StoreTypeOK' /\ DOMAIN rows' = DOMAIN rows /\ nextValue' = nextValue
      /\ \A j \in DOMAIN rows : rows'[j].spec = rows[j].spec
      /\ \A j \in DOMAIN rows \ {id} : rows'[j] = rows[j]
      /\ rows'[id].attemptsMade = rows[id].attemptsMade
  BY <1>1, <1>2, UpdatedRow DEF Statuses
<1>4. \A j \in DOMAIN rows : rows'[j].attemptsMade = rows[j].attemptsMade
  BY <1>3
<1>5. entry.sequence = nextSequence /\ entry.job.id = id /\ entry.job.spec = rows[id].spec
  OBVIOUS
<1>6. entry \in QueuedJob
  BY <1>2 DEF QueuedJob, Job
<1> HIDE DEF entry
<1>7. RestoreTypeOK'
  <2>1. QueueTypeOK'
    BY <1>1, <1>2, <1>6 DEF RestoreTypeOK, QueueTypeOK
  <2> QED
    BY <1>1, <1>3, <2>1 DEF RestoreTypeOK
<1>8. IdsOK' /\ RequestsOK'
  BY <1>1, <1>3, RequestsGoOn, TypesOfRestore
<1>9. RowsOK'
  BY <1>1, <1>2, <1>3 DEF RowsOK
<1>10. QueueOK'
  <2>1. up
    BY DEF QueueOK
  <2>2. ASSUME NEW e \in queue'
        PROVE  /\ e.job.id \in DOMAIN rows /\ e.job.spec = rows[e.job.id].spec
               /\ e.sequence < nextSequence + 1
    <3>1. CASE e \in queue
      <4>1. e.job.id \in DOMAIN rows /\ e.job.spec = rows[e.job.id].spec /\ e.sequence < nextSequence
        BY <3>1 DEF QueueOK
      <4>2. e.sequence \in Nat
        BY <3>1, TypesOfRestore
      <4> QED
        BY <1>2, <4>1, <4>2
    <3>2. CASE e = entry
      BY <1>1, <1>2, <1>5, <3>2
    <3> QED
      BY <1>1, <3>1, <3>2
  <2>3. \A i \in DOMAIN rows :
          \/ rows'[i].attemptsMade # 0
          \/ \E k \in RequestThreads : request[k].pc # "idle" /\ request[k].job.id = i
          \/ \E e \in queue' : e.job.id = i
    BY <1>1, <1>4, <2>1 DEF QueueOK
  <2> QED
    BY <1>1, <1>3, <2>1, <2>2, <2>3 DEF QueueOK
<1>11. OrderOK'
  <2> SUFFICES ASSUME NEW x \in queue', NEW y \in queue',
                      x.job.id \in before[y.job.id],
                      NeverStarted(x.job.id)', NeverStarted(y.job.id)'
               PROVE  x.sequence < y.sequence \/ ReadFirst(y.job.id, x.job.id)'
    BY <1>1 DEF OrderOK
  <2>1. ~NeverStarted(id)'
    BY <1>2, <1>3 DEF NeverStarted
  <2>2. x \in queue /\ y \in queue
    BY <1>1, <1>5, <2>1
  <2>3. x.job.id \in DOMAIN rows /\ y.job.id \in DOMAIN rows
    BY <2>2 DEF QueueOK
  <2>4. NeverStarted(x.job.id) /\ NeverStarted(y.job.id)
    BY <1>4, <2>3 DEF NeverStarted
  <2>5. x.sequence < y.sequence \/ ReadFirst(y.job.id, x.job.id)
    BY <2>2, <2>4 DEF OrderOK
  <2> QED
    BY <1>1, <2>5 DEF ReadFirst
<1> QED
  BY <1>3, <1>4, <1>7, <1>8, <1>9, <1>10, <1>11 DEF RestoreInv

\* The process dies: only the table is left.
LEMMA CrashKeepsInv ==
  ASSUME RestoreInv, Crash
  PROVE  RestoreInv' /\ rows' = rows
PROOF
<1> USE RestoreAssumption DEF RestoreInv
<1>1. /\ up' = FALSE /\ queue' = {} /\ nextSequence' = 0 /\ shutdown' = FALSE
      /\ request' = [h \in RequestThreads |-> Idle] /\ running' = {}
      /\ UNCHANGED <<rows, nextValue, createdAt, now, launches, before>>
  BY DEF Crash, tableVars, historyVars
<1>2. \A h \in RequestThreads : request'[h] = Idle /\ request'[h].pc = "idle"
  BY <1>1 DEF Idle
<1>3. RestoreTypeOK'
  <2>1. StoreTypeOK'
    BY <1>1 DEF RestoreTypeOK, StoreTypeOK
  <2>2. QueueTypeOK'
    BY <1>1 DEF QueueTypeOK
  <2> QED
    BY <1>1, <2>1, <2>2 DEF RestoreTypeOK
<1>4. IdsOK'
  BY <1>1, <1>2 DEF IdsOK
<1>5. RequestsOK'
  BY <1>2 DEF RequestsOK
<1>6. RowsOK'
  BY <1>1 DEF RowsOK
<1>7. QueueOK' /\ OrderOK'
  BY <1>1 DEF QueueOK, OrderOK
<1> QED
  BY <1>1, <1>3, <1>4, <1>5, <1>6, <1>7 DEF RestoreInv

\* A second passes.
LEMMA TickKeepsInv ==
  ASSUME RestoreInv, Tick
  PROVE  RestoreInv' /\ rows' = rows
PROOF
<1> USE RestoreAssumption DEF RestoreInv
<1>1. /\ now < MaxSecond /\ now' = now + 1
      /\ UNCHANGED <<rows, nextValue, createdAt, queue, nextSequence, shutdown, request,
                     running, up, launches, before>>
  BY DEF Tick, tableVars, jobQueueVars
<1>2. now \in 0 .. MaxSecond /\ now' \in 0 .. MaxSecond /\ now' \in Nat /\ now' >= now
  BY <1>1 DEF RestoreTypeOK
<1>3. RestoreTypeOK'
  <2>1. StoreTypeOK'
    BY <1>1 DEF RestoreTypeOK, StoreTypeOK
  <2>2. QueueTypeOK'
    BY <1>1 DEF RestoreTypeOK, QueueTypeOK
  <2> QED
    BY <1>1, <1>2, <2>1, <2>2 DEF RestoreTypeOK
<1>4. IdsOK' /\ RequestsOK'
  BY <1>1, <1>2, RequestsGoOn
<1>5. RowsOK' /\ QueueOK'
  BY <1>1 DEF RowsOK, QueueOK
<1>6. OrderOK'
  BY <1>1, OrderStays
<1> QED
  BY <1>1, <1>3, <1>4, <1>5, <1>6 DEF RestoreInv

\* The order in which the rows are read back is a strict order.
LEMMA ReadOrder ==
  ASSUME RestoreInv
  PROVE  /\ \A i \in DOMAIN rows : ~ReadBefore(i, i)
         /\ \A i, j, k \in DOMAIN rows :
              ReadBefore(i, j) /\ ReadBefore(j, k) => ReadBefore(i, k)
PROOF
<1>1. \A i \in DOMAIN rows : i \in Nat /\ createdAt[i] \in Nat
  BY TypesOfRestore
<1>2. \A i \in DOMAIN rows : ~ReadBefore(i, i)
  BY <1>1, TextOrder DEF ReadBefore
<1>3. ASSUME NEW i \in DOMAIN rows, NEW j \in DOMAIN rows, NEW k \in DOMAIN rows,
             ReadBefore(i, j), ReadBefore(j, k)
      PROVE  ReadBefore(i, k)
  <2>1. /\ createdAt[i] < createdAt[j] \/ (createdAt[i] = createdAt[j] /\ TextBefore(i, j))
        /\ createdAt[j] < createdAt[k] \/ (createdAt[j] = createdAt[k] /\ TextBefore(j, k))
    BY <1>3 DEF ReadBefore
  <2>2. createdAt[i] < createdAt[k] \/ (createdAt[i] = createdAt[k] /\ TextBefore(i, k))
    BY <1>1, <2>1, TextOrder
  <2> QED
    BY <2>2 DEF ReadBefore
<1> QED
  BY <1>2, <1>3

\* The rows read before a row are fewer than all, and more than those read
\* before a row that comes earlier.
LEMMA ReadPositions ==
  ASSUME RestoreInv, NEW R \in SUBSET DOMAIN rows
  PROVE  /\ Cardinality(R) \in Nat
         /\ \A id \in R : /\ Cardinality({i \in R : ReadBefore(i, id)}) \in Nat
                          /\ Cardinality({i \in R : ReadBefore(i, id)}) < Cardinality(R)
         /\ \A x, y \in R :
              ReadBefore(x, y) => Cardinality({i \in R : ReadBefore(i, x)})
                                    < Cardinality({i \in R : ReadBefore(i, y)})
PROOF
<1> DEFINE Earlier(id) == {i \in R : ReadBefore(i, id)}
<1>1. IsFiniteSet(R)
  <2>1. IsFiniteSet(1 .. MaxJobs)
    BY RestoreAssumption, FS_Interval
  <2>2. R \subseteq 1 .. MaxJobs
    BY TypesOfRestore DEF JobIds
  <2> QED
    BY <2>1, <2>2, FS_Subset
<1>2. Cardinality(R) \in Nat
  BY <1>1, FS_CardinalityType
<1>3. ASSUME NEW id \in R
      PROVE  /\ IsFiniteSet(Earlier(id)) /\ Cardinality(Earlier(id)) \in Nat
             /\ Cardinality(Earlier(id)) < Cardinality(R)
  <2>1. Earlier(id) \subseteq R
    OBVIOUS
  <2>2. id \notin Earlier(id)
    BY ReadOrder
  <2> HIDE DEF Earlier
  <2>3. /\ IsFiniteSet(Earlier(id)) /\ Cardinality(Earlier(id)) <= Cardinality(R)
        /\ Cardinality(Earlier(id)) = Cardinality(R) => Earlier(id) = R
    BY <1>1, <2>1, FS_Subset
  <2>4. Cardinality(Earlier(id)) \in Nat
    BY <2>3, FS_CardinalityType
  <2> QED
    BY <1>2, <2>2, <2>3, <2>4
<1>4. ASSUME NEW x \in R, NEW y \in R, ReadBefore(x, y)
      PROVE  Cardinality(Earlier(x)) < Cardinality(Earlier(y))
  <2>1. Earlier(x) \subseteq Earlier(y)
    BY <1>4, ReadOrder
  <2>2. x \in Earlier(y) /\ x \notin Earlier(x)
    BY <1>4, ReadOrder
  <2> HIDE DEF Earlier
  <2>3. IsFiniteSet(Earlier(y)) /\ Cardinality(Earlier(y)) \in Nat /\ Cardinality(Earlier(x)) \in Nat
    BY <1>3
  <2>4. /\ Cardinality(Earlier(x)) <= Cardinality(Earlier(y))
        /\ Cardinality(Earlier(x)) = Cardinality(Earlier(y)) => Earlier(x) = Earlier(y)
    BY <2>1, <2>3, FS_Subset
  <2> QED
    BY <2>2, <2>3, <2>4
<1> QED
  BY <1>2, <1>3, <1>4

\* A restart reads the jobs that never started in the order of their requests,
\* or reads the one with the longer numeral first.
LEMMA LaunchKeepsInv ==
  ASSUME RestoreInv, Launch
  PROVE  /\ RestoreInv' /\ DOMAIN rows' = DOMAIN rows
         /\ \A i \in DOMAIN rows : rows'[i].attemptsMade = rows[i].attemptsMade
PROOF
<1> USE RestoreAssumption DEF RestoreInv
<1> DEFINE unfinished == {id \in DOMAIN rows : ~IsTerminal(rows[id].status)}
           exhausted  == {id \in unfinished :
                            rows[id].attemptsMade >= rows[id].spec.maxAttempts}
           restored   == unfinished \ exhausted
           Position(id) == Cardinality({i \in restored : ReadBefore(i, id)})
           Entry(id) == [sequence |-> Position(id), job |-> [id |-> id, spec |-> rows[id].spec]]
<1>1. /\ ~up /\ launches < MaxLaunches
      /\ rows' = [id \in DOMAIN rows |->
                    CASE id \in exhausted ->
                           [rows[id] EXCEPT !.status = "failed",
                                            !.failureReason = "exhausted"]
                      [] id \in restored -> [rows[id] EXCEPT !.status = "waiting"]
                      [] OTHER -> rows[id]]
      /\ queue' = {Entry(id) : id \in restored}
      /\ nextSequence' = Cardinality(restored)
      /\ up' = TRUE /\ launches' = launches + 1
      /\ UNCHANGED <<nextValue, createdAt, shutdown, request, running, now, before>>
  BY DEF Launch
<1>2. DOMAIN rows' = DOMAIN rows
  BY <1>1
<1>3. launches \in 1 .. MaxLaunches /\ launches' \in 1 .. MaxLaunches /\ launches' > 1
  <2>1. launches < MaxLaunches /\ launches' = launches + 1
    BY DEF Launch
  <2>2. launches \in 1 .. MaxLaunches
    BY DEF RestoreTypeOK
  <2> QED
    BY <2>1, <2>2
<1>4. restored \in SUBSET DOMAIN rows
  OBVIOUS
<1>5. ASSUME NEW id \in DOMAIN rows
      PROVE  /\ rows'[id] \in Row
             /\ rows'[id].spec = rows[id].spec
             /\ rows'[id].attemptsMade = rows[id].attemptsMade
             /\ rows[id].attemptsMade = 0 => id \in restored /\ rows'[id].status = "waiting"
  <2>1. /\ rows[id] \in Row /\ rows[id].spec.maxAttempts \in Nat
        /\ rows[id].attemptsMade \in Nat
    BY TypesOfRestore
  <2>2. CASE id \in exhausted
    <3>1. rows'[id] = [rows[id] EXCEPT !.status = "failed", !.failureReason = "exhausted"]
      BY <1>1, <2>2
    <3>2. rows[id].attemptsMade # 0
      BY <2>1, <2>2 DEF RowsOK
    <3> QED
      BY <2>1, <3>1, <3>2 DEF Row, Statuses
  <2>3. CASE id \in restored
    <3>1. rows'[id] = [rows[id] EXCEPT !.status = "waiting"]
      BY <1>1, <2>3
    <3> QED
      BY <2>1, <2>3, <3>1 DEF Row, Statuses
  <2>4. CASE id \notin exhausted /\ id \notin restored
    <3>1. rows'[id] = rows[id]
      BY <1>1, <2>4
    <3>2. rows[id].attemptsMade # 0
      BY <2>1, <2>4 DEF RowsOK, IsTerminal
    <3> QED
      BY <2>1, <3>1, <3>2
  <2> QED
    BY <2>2, <2>3, <2>4
<1>6. /\ Cardinality(restored) \in Nat
      /\ \A id \in restored : Position(id) \in Nat /\ Position(id) < Cardinality(restored)
      /\ \A x, y \in restored : ReadBefore(x, y) => Position(x) < Position(y)
  <2> HIDE DEF restored
  <2> QED
    BY <1>4, ReadPositions
<1> HIDE DEF restored, Position
<1>7. RestoreTypeOK'
  <2>1. StoreTypeOK'
    <3>1. rows' \in [DOMAIN rows' -> Row]
      BY <1>1, <1>2, <1>5
    <3> QED
      BY <1>1, <1>2, <3>1 DEF RestoreTypeOK, StoreTypeOK
  <2>2. QueueTypeOK'
    <3>1. \A id \in restored : Entry(id) \in QueuedJob
      <4> SUFFICES ASSUME NEW id \in restored PROVE Entry(id) \in QueuedJob
        OBVIOUS
      <4>1. id \in DOMAIN rows /\ Position(id) \in Nat
        BY <1>4, <1>6
      <4>2. [id |-> id, spec |-> rows[id].spec] \in Job
        BY <4>1, TypesOfRestore DEF Job
      <4> QED
        BY <4>1, <4>2 DEF QueuedJob
    <3>2. queue' \subseteq QueuedJob
      BY <1>1, <3>1
    <3> QED
      BY <1>1, <1>6, <3>2 DEF RestoreTypeOK, QueueTypeOK
  <2> QED
    BY <1>1, <1>2, <1>3, <2>1, <2>2 DEF RestoreTypeOK
<1>8. \A h \in RequestThreads : request[h].pc = "idle"
  BY <1>1 DEF RequestsOK
<1>9. IdsOK'
  BY <1>1, <1>2, <1>8 DEF IdsOK
<1>10. RequestsOK'
  BY <1>1, <1>8 DEF RequestsOK
<1>11. RowsOK'
  <2>1. running = {}
    BY <1>1 DEF QueueOK
  <2> QED
    BY <1>1, <1>2, <1>5, <2>1 DEF RowsOK
<1>12. \A id \in restored : /\ Entry(id).sequence = Position(id) /\ Entry(id).job.id = id
                            /\ Entry(id).job.spec = rows[id].spec
  OBVIOUS
<1>13. QueueOK'
  <2>1. ASSUME NEW e \in queue'
        PROVE  /\ e.job.id \in DOMAIN rows' /\ e.job.spec = rows'[e.job.id].spec
               /\ e.sequence < nextSequence'
    <3>1. PICK id \in restored : e = Entry(id)
      BY <1>1, <2>1
    <3>2. id \in DOMAIN rows
      BY <1>4
    <3>3. e.sequence = Position(id) /\ e.job.id = id /\ e.job.spec = rows[id].spec
      BY <1>12, <3>1
    <3> QED
      BY <1>1, <1>2, <1>5, <1>6, <3>2, <3>3
  <2>2. ASSUME NEW id \in DOMAIN rows, rows'[id].attemptsMade = 0
        PROVE  \E e \in queue' : e.job.id = id
    <3>1. id \in restored
      BY <1>5, <2>2
    <3>2. Entry(id) \in queue' /\ Entry(id).job.id = id
      BY <1>1, <3>1
    <3> QED
      BY <3>2
  <2> QED
    BY <1>1, <1>2, <2>1, <2>2 DEF QueueOK
<1>14. OrderOK'
  <2> SUFFICES ASSUME NEW x \in queue', NEW y \in queue',
                      x.job.id \in before[y.job.id],
                      ~(x.sequence < y.sequence)
               PROVE  ReadFirst(y.job.id, x.job.id)'
    BY <1>1 DEF OrderOK
  <2>1. PICK earlier \in restored : x = Entry(earlier)
    BY <1>1
  <2>2. PICK later \in restored : y = Entry(later)
    BY <1>1
  <2>3. /\ x.sequence = Position(earlier) /\ x.job.id = earlier
        /\ y.sequence = Position(later) /\ y.job.id = later
        /\ earlier \in DOMAIN rows /\ later \in DOMAIN rows
    BY <1>4, <1>12, <2>1, <2>2
  <2>4. ~ReadBefore(earlier, later)
    BY <1>6, <2>1, <2>2, <2>3
  <2>5. earlier < later /\ createdAt[earlier] <= createdAt[later]
    BY <2>3 DEF IdsOK
  <2>6. /\ earlier \in Nat /\ later \in Nat /\ createdAt[earlier] \in Nat
        /\ createdAt[later] \in Nat
    BY <2>3, TypesOfRestore
  <2>7. createdAt[earlier] = createdAt[later] /\ ~TextBefore(earlier, later)
    BY <2>4, <2>5, <2>6 DEF ReadBefore
  <2>8. /\ Len(Numeral[earlier]) <= Len(Numeral[later])
        /\ Len(Numeral[earlier]) # Len(Numeral[later])
        /\ Len(Numeral[earlier]) \in Nat /\ Len(Numeral[later]) \in Nat
    BY <2>5, <2>6, <2>7, NumeralsGrow, NumeralType
  <2>9. Len(Numeral[earlier]) < Len(Numeral[later])
    BY <2>8
  <2> QED
    BY <1>1, <1>3, <2>3, <2>7, <2>9 DEF ReadFirst
<1> QED
  BY <1>2, <1>5, <1>7, <1>9, <1>10, <1>11, <1>13, <1>14 DEF RestoreInv

-----------------------------------------------------------------------------
\* Every step keeps the invariant.
LEMMA RestoreInvStep == RestoreInv /\ [RestoreNext]_vars => RestoreInv'
PROOF
<1> SUFFICES ASSUME RestoreInv, [RestoreNext]_vars PROVE RestoreInv'
  OBVIOUS
<1>1. CASE \E h \in RequestThreads, spec \in Specs : TakeId(h, spec)
  BY <1>1, TakeIdKeepsInv
<1>2. CASE \E h \in RequestThreads : SaveJob(h)
  BY <1>2, SaveJobKeepsInv
<1>3. CASE \E h \in RequestThreads : PushJob(h)
  BY <1>3, PushJobKeepsInv
<1>4. CASE \E entry \in queue : Start(entry)
  BY <1>4, StartKeepsInv
<1>5. CASE \E id \in running : Complete(id)
  BY <1>5, CompleteKeepsInv
<1>6. CASE \E id \in running : Retry(id)
  BY <1>6, RetryKeepsInv
<1>7. CASE Crash
  BY <1>7, CrashKeepsInv
<1>8. CASE Launch
  BY <1>8, LaunchKeepsInv
<1>9. CASE Tick
  BY <1>9, TickKeepsInv
<1>10. CASE UNCHANGED vars
  <2>1. UNCHANGED <<rows, nextValue, createdAt, queue, nextSequence, shutdown, request,
                    running, up, now, launches, before>>
    BY <1>10 DEF vars, tableVars, jobQueueVars, historyVars
  <2>2. RestoreTypeOK'
    BY <2>1 DEF RestoreInv, RestoreTypeOK, StoreTypeOK, QueueTypeOK
  <2>3. IdsOK' /\ RequestsOK'
    BY <2>1 DEF RestoreInv, IdsOK, RequestsOK
  <2>4. RowsOK' /\ QueueOK'
    BY <2>1 DEF RestoreInv, RowsOK, QueueOK
  <2>5. OrderOK'
    BY <2>1 DEF RestoreInv, OrderOK, NeverStarted, ReadFirst
  <2> QED
    BY <2>2, <2>3, <2>4, <2>5 DEF RestoreInv
<1> QED
  BY <1>1, <1>2, <1>3, <1>4, <1>5, <1>6, <1>7, <1>8, <1>9, <1>10 DEF RestoreNext

\* Only a job that leaves the queue starts, and the queue puts no job of its
\* priority before it but one that the restart read first.
LEMMA StartsInOrder ==
  ASSUME RestoreInv, [RestoreNext]_vars,
         NEW later \in DOMAIN rows, NEW earlier \in before[later],
         NeverStarted(earlier), NeverStarted(later),
         rows[earlier].spec.priority = rows[later].spec.priority,
         rows'[later].attemptsMade = 1
  PROVE  ReadFirst(later, earlier)
PROOF
<1> USE DEF RestoreInv
<1>1. rows'[later].attemptsMade # rows[later].attemptsMade
  BY DEF NeverStarted
<1>2. \E entry \in queue : Start(entry) /\ entry.job.id = later
  <2>1. CASE \E h \in RequestThreads, spec \in Specs : TakeId(h, spec)
    BY <1>1, <2>1 DEF TakeId, GenerateJobId
  <2>2. CASE \E h \in RequestThreads : SaveJob(h)
    BY <1>1, <2>2 DEF SaveJob, Save, AcceptsSave
  <2>3. CASE \E h \in RequestThreads : PushJob(h)
    BY <1>1, <2>3 DEF PushJob, tableVars
  <2>4. CASE \E entry \in queue : Start(entry)
    BY <1>1, <2>4, StartKeepsInv
  <2>5. CASE \E id \in running : Complete(id)
    BY <1>1, <2>5, CompleteKeepsInv
  <2>6. CASE \E id \in running : Retry(id)
    BY <1>1, <2>6, RetryKeepsInv
  <2>7. CASE Crash
    BY <1>1, <2>7, CrashKeepsInv
  <2>8. CASE Launch
    BY <1>1, <2>8, LaunchKeepsInv
  <2>9. CASE Tick
    BY <1>1, <2>9, TickKeepsInv
  <2>10. CASE UNCHANGED vars
    BY <1>1, <2>10 DEF vars, tableVars
  <2> QED
    BY <2>1, <2>2, <2>3, <2>4, <2>5, <2>6, <2>7, <2>8, <2>9, <2>10 DEF RestoreNext
<1>3. PICK y \in queue : Start(y) /\ y.job.id = later
  BY <1>2
<1>4. up
  BY DEF QueueOK
<1>5. /\ later \in DOMAIN before /\ earlier \in DOMAIN rows /\ earlier < later
      /\ \A h \in RequestThreads : request[h].pc # "idle" => request[h].job.id # earlier
  BY DEF IdsOK
<1>6. PICK x \in queue : x.job.id = earlier
  BY <1>4, <1>5 DEF QueueOK, NeverStarted
<1>7. /\ x.job.spec.priority = y.job.spec.priority /\ x.job.spec.priority \in Nat
      /\ x.sequence \in Nat /\ y.sequence \in Nat
  BY <1>3, <1>5, <1>6, TypesOfRestore DEF QueueOK
<1>8. earlier # later
  BY <1>5, TypesOfRestore
<1>9. JobComesAfter(x, y)
  BY <1>3, <1>6, <1>8 DEF Start, PopJob, IsTop
<1>10. ~(x.sequence < y.sequence)
  BY <1>7, <1>9 DEF JobComesAfter
<1> QED
  BY <1>3, <1>6, <1>10 DEF OrderOK

\* Every variable has its type, and jobs of one priority start in the order of
\* their requests, across restarts too, but for those that a restart reads in
\* the order of their texts.
THEOREM JobsStartInOrder == RestoreSpec => SubmissionOrder
PROOF
<1>1. RestoreInv => RestoreTypeOK
  BY DEF RestoreInv
<1>2. RestoreInv /\ [RestoreNext]_vars =>
        [\A later \in DOMAIN rows : \A earlier \in before[later] :
           ( /\ NeverStarted(earlier) /\ NeverStarted(later)
             /\ rows[earlier].spec.priority = rows[later].spec.priority
             /\ rows'[later].attemptsMade = 1 )
           => /\ launches > 1
              /\ createdAt[earlier] = createdAt[later]
              /\ Len(Numeral[earlier]) < Len(Numeral[later])]_vars
  BY StartsInOrder DEF ReadFirst
<1> QED
  BY <1>1, <1>2, RestoreInvInit, RestoreInvStep, PTL DEF RestoreSpec, SubmissionOrder
=============================================================================
