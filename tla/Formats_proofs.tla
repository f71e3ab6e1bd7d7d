--------------------------- MODULE Formats_proofs ---------------------------
(***************************************************************************)
(* Proofs about Formats, for every sample of two bytes, every number of    *)
(* samples and every clock: what a receiver reads in a line, a packet or   *)
(* raw data is what the ADC has sent, the words of a packet add up to its  *)
(* checksum, and the time printed counts from the first block.             *)
(***************************************************************************)
EXTENDS Formats, FiniteSetTheorems, TLAPS

(* Quotient and remainder, and that there are no others.                   *)
LEMMA Divided ==
  ASSUME NEW m \in Nat \ {0}, NEW a \in Int
  PROVE  /\ a \div m \in Int /\ (a % m) \in Int
         /\ 0 <= (a % m) /\ (a % m) < m
         /\ a = m * (a \div m) + (a % m)
OBVIOUS

LEMMA Quotient ==
  ASSUME NEW m \in Nat \ {0}, NEW q \in Int, NEW r \in Int, 0 <= r, r < m
  PROVE  (m * q + r) \div m = q /\ ((m * q + r) % m) = r
<1> DEFINE a == m * q + r
           p == a \div m
           s == a % m
<1>1. a \in Int /\ m * q \in Int
  OBVIOUS
<1>2. p \in Int /\ s \in Int /\ 0 <= s /\ s < m /\ a = m * p + s
  BY <1>1
<1>3. m * q + r = m * p + s
  BY <1>2
<1> HIDE DEF a, p, s
<1> DEFINE z == q - p
<1>4. m * p \in Int /\ m * z = m * q - m * p
  BY <1>2
<1>5. z \in Int /\ m * z = s - r
  BY <1>1, <1>2, <1>3, <1>4
<1>6. m * z < m /\ -m < m * z
  BY <1>2, <1>5
<1> HIDE DEF z
<1>7. z >= 1 => m * z >= m
  BY <1>5
<1>8. z <= -1 => m * z <= -m
  BY <1>5
<1>9. z = 0
  BY <1>5, <1>6, <1>7, <1>8
<1>10. q = p /\ r = s
  BY <1>2, <1>5, <1>9 DEF z
<1> QED BY <1>10 DEF a, p, s

(* The clock's difference is that of the times, up to wraps.               *)
LEMMA ModDifference ==
  ASSUME NEW m \in Nat \ {0}, NEW a \in Nat, NEW b \in Nat
  PROVE  (((a % m) - (b % m)) % m) = ((a - b) % m)
<1> DEFINE p == a \div m
           q == b \div m
           r == a % m
           s == b % m
           c == r - s
           k == c \div m
           d == c % m
<1>1. p \in Int /\ r \in Int /\ a = m * p + r
  BY Divided
<1>2. q \in Int /\ s \in Int /\ b = m * q + s
  BY Divided
<1> HIDE DEF p, q, r, s
<1>3. k \in Int /\ d \in Int /\ 0 <= d /\ d < m /\ c = m * k + d
  BY <1>1, <1>2, Divided
<1>4. c = r - s
  OBVIOUS
<1> HIDE DEF c, k, d
<1>5. /\ m * p \in Int /\ m * q \in Int /\ m * k \in Int
      /\ m * (p - q + k) = m * p - m * q + m * k
  BY <1>1, <1>2, <1>3
<1>6. a - b = m * (p - q + k) + d
  BY <1>1, <1>2, <1>3, <1>4, <1>5
<1>7. p - q + k \in Int
  BY <1>1, <1>2, <1>3
<1>8. ((a - b) % m) = d
  BY <1>3, <1>6, <1>7, Quotient
<1> QED BY <1>8 DEF d, c, r, s

-----------------------------------------------------------------------------
(* The widths.                                                             *)

(* byte, uint16 and int16 keep what fits, and cut off their range once.    *)
LEMMA ByteSmall ==
  ASSUME NEW x \in Int, 0 <= x, x < 256
  PROVE  byte(x) = x
BY DEF byte

LEMMA ByteBelow ==
  ASSUME NEW x \in Int, -256 <= x, x < 0
  PROVE  byte(x) = x + 256
BY DEF byte

LEMMA Uint16Small ==
  ASSUME NEW x \in Int, 0 <= x, x < 65536
  PROVE  uint16(x) = x
BY DEF uint16

LEMMA Uint16Cut ==
  ASSUME NEW x \in Int, NEW k \in Int, 0 <= x, x < 65536
  PROVE  uint16(x + 65536 * k) = x
BY DEF uint16

LEMMA Int16Small ==
  ASSUME NEW x \in Int, -32768 <= x, x < 32768
  PROVE  int16(x) = x
BY DEF int16

LEMMA Int16Above ==
  ASSUME NEW x \in Int, 32768 <= x, x < 98304
  PROVE  int16(x) = x - 65536
BY DEF int16

LEMMA Int16Range ==
  ASSUME NEW x \in Int
  PROVE  int16(x) \in Int /\ -32768 <= int16(x) /\ int16(x) < 32768
BY DEF int16

(* A sample less the offset is cut off once, not twice.                    *)
LEMMA Int16Twice ==
  ASSUME NEW a \in Int, NEW b \in Int
  PROVE  int16(int16(a + 65536 * b) - 250) = int16(a - 250)
BY DEF int16

-----------------------------------------------------------------------------
(* The words of a block.                                                   *)

(* Two bytes back to the word.                                             *)
LEMMA Halves ==
  ASSUME NEW w \in Int, 0 <= w, w < 65536
  PROVE  LittleEndian(w)[1] + 256 * LittleEndian(w)[2] = w
<1> DEFINE d == w \div 256
<1>1. d \in Int /\ 0 <= d /\ d < 256 /\ byte(w) + 256 * d = w
  BY DEF byte
<1>2. LittleEndian(w) = <<byte(w), byte(d)>>
  BY DEF LittleEndian
<1> HIDE DEF d
<1>3. byte(d) = d
  BY <1>1, ByteSmall
<1> QED BY <1>1, <1>2, <1>3

(* A byte that was sent.                                                   *)
LEMMA ByteSent ==
  ASSUME NEW s \in (0..255) \X (0..255)
  PROVE  /\ s[1] \in Int /\ 0 <= s[1] /\ s[1] < 256
         /\ s[2] \in Int /\ 0 <= s[2] /\ s[2] < 256
OBVIOUS

(* The shift in ADC_RAW_VAL swaps the bytes, and leaves the lower one in   *)
(* the upper half of the int.                                              *)
LEMMA RawVal ==
  ASSUME NEW u \in Int, NEW l \in Int, 0 <= u, u < 256, 0 <= l, l < 256,
         NEW s, s[1] = u, s[2] = l
  PROVE  ADC_RAW_VAL(Received(s)) = (256 * u + l) + 65536 * l
<1> DEFINE d == u + 256 * l
<1>1. /\ d \in Int /\ 0 <= d /\ d < 65536 /\ d \div 256 = l
      /\ d * 256 + l = (256 * u + l) + 65536 * l
  OBVIOUS
<1>2. Received(s) = d
  BY DEF Received
<1> HIDE DEF d
<1>3. uint16(d) = d
  BY <1>1, Uint16Small
<1> QED BY <1>1, <1>2, <1>3 DEF ADC_RAW_VAL

(* Where a pair is found among the bytes.                                  *)
LEMMA LaidOut ==
  ASSUME NEW n \in Nat, NEW pairs, Len(pairs) = n
  PROVE  /\ Laid(pairs) = [k \in 1..(2 * n) |-> Laid(pairs)[k]]
         /\ \A x \in 1..n : /\ Laid(pairs)[2 * x - 1] = pairs[x][1]
                            /\ Laid(pairs)[2 * x] = pairs[x][2]
<1>1. Laid(pairs) = [k \in 1..(2 * n) |-> Laid(pairs)[k]]
  BY DEF Laid
<1>2. ASSUME NEW x \in 1..n
      PROVE  Laid(pairs)[2 * x - 1] = pairs[x][1]
  <2>1. ((2 * (x - 1) + 1) % 2) = 1
    BY Quotient
  <2>2. (2 * x + 0) \div 2 = x
    BY Quotient
  <2>3. /\ 2 * x - 1 \in 1..(2 * n) /\ 2 * (x - 1) + 1 = 2 * x - 1
        /\ 2 * x + 0 = (2 * x - 1) + 1
    OBVIOUS
  <2>4. ((2 * x - 1) % 2) = 1 /\ ((2 * x - 1) + 1) \div 2 = x
    BY <2>1, <2>2, <2>3
  <2> QED BY <2>3, <2>4 DEF Laid
<1>3. ASSUME NEW x \in 1..n
      PROVE  Laid(pairs)[2 * x] = pairs[x][2]
  <2>1. ((2 * x + 0) % 2) = 0 /\ (2 * x + 0) \div 2 = x
    BY Quotient
  <2>2. 2 * x \in 1..(2 * n) /\ 2 * x + 0 = 2 * x
    OBVIOUS
  <2>3. ((2 * x) % 2) # 1 /\ (2 * x) \div 2 = x
    BY <2>1, <2>2
  <2> QED BY <2>2, <2>3 DEF Laid
<1> QED BY <1>1, <1>2, <1>3

(* What is found where when one sequence follows another.                  *)
LEMMA Joined ==
  ASSUME NEW m \in Nat, NEW n \in Nat, NEW a, NEW b,
         a = [k \in 1..m |-> a[k]], b = [k \in 1..n |-> b[k]]
  PROVE  /\ a \o b = [k \in 1..(m + n) |-> (a \o b)[k]] /\ Len(a \o b) = m + n
         /\ \A k \in 1..m : (a \o b)[k] = a[k]
         /\ \A k \in 1..n : (a \o b)[m + k] = b[k]
<1> DEFINE S == {a[k] : k \in 1..m} \cup {b[k] : k \in 1..n}
<1>1. a \in Seq(S) /\ Len(a) = m
  OBVIOUS
<1>2. b \in Seq(S) /\ Len(b) = n
  OBVIOUS
<1> HIDE DEF S
<1>3. a \o b \in Seq(S) /\ Len(a \o b) = m + n
  BY <1>1, <1>2
<1>4. \A k \in 1..m : (a \o b)[k] = a[k]
  BY <1>1, <1>2
<1>5. \A k \in 1..n : (a \o b)[m + k] = b[k]
  BY <1>1, <1>2
<1>6. a \o b = [k \in 1..(m + n) |-> (a \o b)[k]]
  BY <1>3
<1> QED BY <1>3, <1>4, <1>5, <1>6

-----------------------------------------------------------------------------
(* Sums. The library defines the sum of a function by a recursive function *)
(* that it chooses; that there is one, and that it does not depend on the  *)
(* order, takes inductions over the data.                                  *)

(* Induction over the subsets of a finite set: a family of them that has   *)
(* each one of which it has all the smaller ones has them all. The         *)
(* property is the set Z of those that have it, because the provers take   *)
(* no operator; a smallest one outside of Z exists, strict inclusion being *)
(* well founded.                                                           *)
LEMMA SubsetInduction ==
  ASSUME NEW S, IsFiniteSet(S), NEW Z,
         \A T \in SUBSET S : (\A U \in SUBSET T : U # T => U \in Z) => T \in Z
  PROVE  SUBSET S \subseteq Z
<1> DEFINE Bad == {T \in SUBSET S : T \notin Z}
<1> SUFFICES ASSUME Bad # {} PROVE FALSE
  OBVIOUS
<1>1. Bad \subseteq FiniteSubsetsOf(S)
  BY FS_Subset DEF FiniteSubsetsOf
<1>2. PICK T \in Bad : \A U \in Bad : ~ (<<U, T>> \in StrictSubsetOrdering(S))
  <2> HIDE DEF Bad
  <2> QED BY <1>1, WFMin, FS_StrictSubsetOrderingWellFounded
<1>3. \A U \in SUBSET T : U # T => U \in Z
  BY <1>2 DEF StrictSubsetOrdering
<1> QED BY <1>3

Some(s) == CHOOSE x \in s : TRUE
Sums(f, S, g) ==
  g = [s \in SUBSET S |-> IF s = {} THEN 0 ELSE f[Some(s)] + g[s \ {Some(s)}]]
TheSums(f, S) == CHOOSE g : Sums(f, S, g)

(* SumFunctionOnSet folds over the set; this is the fold, with a name for  *)
(* the function it is chosen to be.                                        *)
LEMMA Unfold ==
  ASSUME NEW f, NEW S
  PROVE  SumFunctionOnSet(f, S) = TheSums(f, S)[S]
BY DEF SumFunctionOnSet, FoldFunctionOnSet, MapThenFoldSet, TheSums, Sums, Some

(* The set without the element that is taken out first is smaller.         *)
LEMMA SomeIn ==
  ASSUME NEW s, s # {}
  PROVE  Some(s) \in s /\ s \ {Some(s)} \in SUBSET s /\ s \ {Some(s)} # s
BY DEF Some

(* What such a function is at a subset.                                    *)
LEMMA SumsAt ==
  ASSUME NEW f, NEW S, NEW g, Sums(f, S, g), NEW s \in SUBSET S
  PROVE  g[s] = IF s = {} THEN 0 ELSE f[Some(s)] + g[s \ {Some(s)}]
BY DEF Sums

(* There is one such function at most: where two agree on all smaller      *)
(* subsets they agree.                                                     *)
LEMMA SumsUnique ==
  ASSUME NEW f, NEW S, IsFiniteSet(S), NEW g, NEW h,
         Sums(f, S, g), Sums(f, S, h)
  PROVE  g = h
<1> DEFINE Z == {T \in SUBSET S : g[T] = h[T]}
<1>1. ASSUME NEW T \in SUBSET S, \A U \in SUBSET T : U # T => U \in Z
      PROVE  T \in Z
  <2>1. CASE T = {}
    BY <2>1, SumsAt
  <2>2. CASE T # {}
    <3>1. g[T \ {Some(T)}] = h[T \ {Some(T)}]
      BY <1>1, <2>2, SomeIn
    <3> QED BY <2>2, <3>1, SumsAt
  <2> QED BY <2>1, <2>2
<1> HIDE DEF Z
<1>2. SUBSET S \subseteq Z
  BY <1>1, SubsetInduction
<1>3. \A T \in SUBSET S : g[T] = h[T]
  BY <1>2 DEF Z
<1>4. g = [T \in SUBSET S |-> g[T]] /\ h = [T \in SUBSET S |-> h[T]]
  BY DEF Sums
<1> QED BY <1>3, <1>4

(* Restricted to the subsets of a subset it is the one for those.          *)
LEMMA SumsBelow ==
  ASSUME NEW f, NEW S, NEW g, Sums(f, S, g), NEW R \in SUBSET S
  PROVE  Sums(f, R, [s \in SUBSET R |-> g[s]])
<1>1. ASSUME NEW s \in SUBSET R
      PROVE  g[s] = IF s = {} THEN 0 ELSE f[Some(s)] + g[s \ {Some(s)}]
  BY SumsAt
<1>2. \A s \in SUBSET R : s \ {Some(s)} \in SUBSET R
  OBVIOUS
<1> QED BY <1>1, <1>2 DEF Sums

(* There is one: it is put together from those of the smaller subsets.     *)
LEMMA SumsExist ==
  ASSUME NEW f, NEW S, IsFiniteSet(S)
  PROVE  \E g : Sums(f, S, g)
<1> DEFINE Z == {T \in SUBSET S : \E g : Sums(f, T, g)}
<1>1. ASSUME NEW T \in SUBSET S, \A U \in SUBSET T : U # T => U \in Z
      PROVE  T \in Z
  <2> DEFINE G(s) == TheSums(f, s)[s]
             Rest(s) == s \ {Some(s)}
             V(s) == IF s = {} THEN 0 ELSE f[Some(s)] + G(Rest(s))
             h == [s \in SUBSET T |-> V(s)]
  <2>1. ASSUME NEW s \in SUBSET T, s # T
        PROVE  G(s) = V(s)
    <3>1. Sums(f, s, TheSums(f, s))
      BY <1>1, <2>1 DEF TheSums
    <3>2. CASE s = {}
      BY <3>1, <3>2, SumsAt
    <3>3. CASE s # {}
      <4> DEFINE r == Rest(s)
      <4>1. r \in SUBSET s /\ r # T /\ r \in SUBSET T
        BY <3>3, SomeIn
      <4>2. Sums(f, r, TheSums(f, r))
        BY <1>1, <4>1 DEF TheSums
      <4>3. Sums(f, r, [q \in SUBSET r |-> TheSums(f, s)[q]])
        BY <3>1, <4>1, SumsBelow
      <4>4. IsFiniteSet(r)
        BY <4>1, FS_Subset
      <4> HIDE DEF r
      <4>5. TheSums(f, r) = [q \in SUBSET r |-> TheSums(f, s)[q]]
        BY <4>2, <4>3, <4>4, SumsUnique
      <4>6. TheSums(f, r)[r] = TheSums(f, s)[r]
        BY <4>5
      <4>7. TheSums(f, s)[s] = f[Some(s)] + TheSums(f, s)[r]
        BY <3>1, <3>3, SumsAt DEF r
      <4> QED BY <3>3, <4>6, <4>7 DEF r
    <3> QED BY <3>2, <3>3
  <2>2. \A s \in SUBSET T : s # {} => h[Rest(s)] = G(Rest(s))
    BY <2>1, SomeIn
  <2>3. Sums(f, T, h)
    BY <2>2 DEF Sums
  <2> QED BY <2>3
<1> HIDE DEF Z
<1>2. SUBSET S \subseteq Z
  BY <1>1, SubsetInduction
<1> QED BY <1>2 DEF Z

(* So the sum over a finite set is 0, or one element and the sum of the    *)
(* rest.                                                                   *)
LEMMA SumUnfold ==
  ASSUME NEW f, NEW S, IsFiniteSet(S)
  PROVE  SumFunctionOnSet(f, S) =
           IF S = {} THEN 0
           ELSE f[Some(S)] + SumFunctionOnSet(f, S \ {Some(S)})
<1> DEFINE R == S \ {Some(S)}
<1>1. Sums(f, S, TheSums(f, S))
  BY SumsExist DEF TheSums
<1>2. CASE S = {}
  BY <1>1, <1>2, SumsAt, Unfold
<1>3. CASE S # {}
  <2>1. IsFiniteSet(R) /\ R \in SUBSET S
    BY FS_Subset
  <2>2. Sums(f, R, TheSums(f, R))
    BY <2>1, SumsExist DEF TheSums
  <2>3. Sums(f, R, [s \in SUBSET R |-> TheSums(f, S)[s]])
    BY <1>1, <2>1, SumsBelow
  <2>4. TheSums(f, S)[S] = f[Some(S)] + TheSums(f, S)[R]
    BY <1>1, <1>3, SumsAt
  <2> HIDE DEF R
  <2>5. TheSums(f, R) = [s \in SUBSET R |-> TheSums(f, S)[s]]
    BY <2>1, <2>2, <2>3, SumsUnique
  <2>6. TheSums(f, R)[R] = TheSums(f, S)[R]
    BY <2>5
  <2>7. SumFunctionOnSet(f, S) = f[Some(S)] + SumFunctionOnSet(f, R)
    BY <2>4, <2>6, Unfold
  <2> QED BY <1>3, <2>7 DEF R
<1> QED BY <1>2, <1>3

(* A sum of integers is one.                                               *)
LEMMA SumType ==
  ASSUME NEW f, NEW S, IsFiniteSet(S), \A x \in S : f[x] \in Int
  PROVE  SumFunctionOnSet(f, S) \in Int
<1> DEFINE Z == {T \in SUBSET S : SumFunctionOnSet(f, T) \in Int}
<1>1. ASSUME NEW T \in SUBSET S, \A U \in SUBSET T : U # T => U \in Z
      PROVE  T \in Z
  <2>1. IsFiniteSet(T)
    BY FS_Subset
  <2>2. CASE T = {}
    <3>1. SumFunctionOnSet(f, T) = 0
      BY <2>1, <2>2, SumUnfold
    <3> QED BY <3>1
  <2>3. CASE T # {}
    <3>1. SumFunctionOnSet(f, T \ {Some(T)}) \in Int /\ f[Some(T)] \in Int
      BY <1>1, <2>3, SomeIn
    <3> QED BY <2>1, <2>3, <3>1, SumUnfold
  <2> QED BY <2>2, <2>3
<1> HIDE DEF Z
<1>2. SUBSET S \subseteq Z
  BY <1>1, SubsetInduction
<1> QED BY <1>2 DEF Z

(* The element taken out first may be any: adding is commutative.          *)
LEMMA SumOut ==
  ASSUME NEW f, NEW S, IsFiniteSet(S), \A x \in S : f[x] \in Int
  PROVE  \A x \in S :
           SumFunctionOnSet(f, S) = f[x] + SumFunctionOnSet(f, S \ {x})
<1> DEFINE Out(T) == \A x \in T :
             SumFunctionOnSet(f, T) = f[x] + SumFunctionOnSet(f, T \ {x})
           Z == {T \in SUBSET S : Out(T)}
<1>1. ASSUME NEW T \in SUBSET S, \A U \in SUBSET T : U # T => U \in Z,
             NEW x \in T
      PROVE  SumFunctionOnSet(f, T) = f[x] + SumFunctionOnSet(f, T \ {x})
  <2> DEFINE y == Some(T)
             A == T \ {x}
             B == T \ {y}
             C == T \ {x, y}
  <2>1. y \in T
    BY SomeIn
  <2>2. IsFiniteSet(T) /\ IsFiniteSet(C)
    BY FS_Subset
  <2>3. SumFunctionOnSet(f, T) = f[y] + SumFunctionOnSet(f, B)
    BY <2>2, SumUnfold
  <2>4. CASE x = y
    BY <2>3, <2>4
  <2>5. CASE x # y
    <3>1. /\ x \in B /\ B \in SUBSET T /\ B # T /\ B \ {x} = C
          /\ y \in A /\ A \in SUBSET T /\ A # T /\ A \ {y} = C
      BY <2>1, <2>5
    <3>2. SumFunctionOnSet(f, B) = f[x] + SumFunctionOnSet(f, C)
      <4>1. Out(B)
        BY <1>1, <3>1
      <4> HIDE DEF B, C
      <4> QED BY <3>1, <4>1
    <3>3. SumFunctionOnSet(f, A) = f[y] + SumFunctionOnSet(f, C)
      <4>1. Out(A)
        BY <1>1, <3>1
      <4> HIDE DEF A, C, y
      <4> QED BY <3>1, <4>1
    <3>4. f[x] \in Int /\ f[y] \in Int /\ SumFunctionOnSet(f, C) \in Int
      BY <2>1, <2>2, SumType
    <3> HIDE DEF A, B, C, y
    <3>5. SumFunctionOnSet(f, T) = f[x] + SumFunctionOnSet(f, A)
      BY <2>3, <3>2, <3>3, <3>4
    <3> QED BY <3>5 DEF A
  <2> QED BY <2>4, <2>5
<1>2. ASSUME NEW T \in SUBSET S, \A U \in SUBSET T : U # T => U \in Z
      PROVE  T \in Z
  BY <1>1, <1>2
<1> HIDE DEF Z
<1>3. SUBSET S \subseteq Z
  BY <1>2, SubsetInduction
<1> QED BY <1>3 DEF Z

(* The sum of values that are found four places further on.                *)
LEMMA SumMoved ==
  ASSUME NEW n \in Nat, NEW f, NEW h,
         \A x \in 1..n : f[x] \in Int /\ h[4 + x] = f[x]
  PROVE  SumFunctionOnSet(h, {4 + x : x \in 1..n}) =
           SumFunctionOnSet(f, 1..n)
<1> DEFINE S == 1..n
           M(T) == {4 + x : x \in T}
           Z == {T \in SUBSET S :
                   SumFunctionOnSet(h, M(T)) = SumFunctionOnSet(f, T)}
<1>1. ASSUME NEW T \in SUBSET S, \A U \in SUBSET T : U # T => U \in Z
      PROVE  T \in Z
  <2>1. IsFiniteSet(T) /\ IsFiniteSet(M(T))
    <3>1. IsFiniteSet(1..n) /\ IsFiniteSet(1..(4 + n))
      BY FS_Interval
    <3>2. M(T) \in SUBSET (1..(4 + n))
      OBVIOUS
    <3> QED BY <3>1, <3>2, FS_Subset
  <2>2. CASE T = {}
    <3>1. M(T) = {}
      BY <2>2
    <3>2. SumFunctionOnSet(f, T) = 0 /\ SumFunctionOnSet(h, M(T)) = 0
      BY <2>1, <2>2, <3>1, SumUnfold
    <3> QED BY <3>2
  <2>3. CASE T # {}
    <3> DEFINE y == Some(T)
               U == T \ {y}
    <3>1. y \in T /\ U \in SUBSET T /\ U # T
      BY <2>3, SomeIn
    <3>2. SumFunctionOnSet(f, T) = f[y] + SumFunctionOnSet(f, U)
      BY <2>1, <2>3, SumUnfold
    <3>3. SumFunctionOnSet(h, M(U)) = SumFunctionOnSet(f, U)
      BY <1>1, <3>1
    <3> HIDE DEF y
    <3>4. \A x \in M(T) : h[x] \in Int
      OBVIOUS
    <3>5. 4 + y \in M(T) /\ M(T) \ {4 + y} = M(U)
      BY <3>1
    <3>6. h[4 + y] = f[y]
      BY <3>1
    <3> HIDE DEF U, M
    <3>7. SumFunctionOnSet(h, M(T)) = h[4 + y] + SumFunctionOnSet(h, M(U))
      BY <2>1, <3>4, <3>5, SumOut
    <3> QED BY <3>2, <3>3, <3>6, <3>7
  <2> QED BY <2>2, <2>3
<1>2. IsFiniteSet(S)
  BY FS_Interval
<1> HIDE DEF Z, S
<1>3. SUBSET S \subseteq Z
  BY <1>1, <1>2, SubsetInduction
<1> QED BY <1>3 DEF Z, S

(* Four words and the values behind them, added up.                        *)
LEMMA SumHeaded ==
  ASSUME NEW n \in Nat, NEW f, NEW h,
         \A x \in 1..n : f[x] \in Int /\ h[4 + x] = f[x],
         \A k \in 1..4 : h[k] \in Int
  PROVE  /\ SumFunctionOnSet(f, 1..n) \in Int
         /\ SumFunctionOnSet(h, 1..(n + 4)) =
              h[1] + h[2] + h[3] + h[4] + SumFunctionOnSet(f, 1..n)
<1> DEFINE A0 == 1..(n + 4)
           A1 == A0 \ {1}
           A2 == A1 \ {2}
           A3 == A2 \ {3}
           A4 == A3 \ {4}
<1>1. /\ IsFiniteSet(A0) /\ IsFiniteSet(A1) /\ IsFiniteSet(A2)
      /\ IsFiniteSet(A3)
  <2>1. IsFiniteSet(A0)
    BY FS_Interval
  <2> HIDE DEF A0
  <2> QED BY <2>1, FS_RemoveElement
<1>2. 1 \in A0 /\ 2 \in A1 /\ 3 \in A2 /\ 4 \in A3
  OBVIOUS
<1>3. \A k \in A0 : h[k] \in Int
  <2>1. \A k \in A0 : k \in 1..4 \/ (k - 4 \in 1..n /\ 4 + (k - 4) = k)
    OBVIOUS
  <2> QED BY <2>1
<1>4. /\ \A k \in A1 : h[k] \in Int
      /\ \A k \in A2 : h[k] \in Int
      /\ \A k \in A3 : h[k] \in Int
  BY <1>3
<1>5. A4 = {4 + x : x \in 1..n}
  <2>1. \A k \in A4 : k - 4 \in 1..n /\ 4 + (k - 4) = k
    OBVIOUS
  <2>2. \A x \in 1..n : 4 + x \in A4
    OBVIOUS
  <2> HIDE DEF A4
  <2> QED BY <2>1, <2>2
<1>6. SumFunctionOnSet(h, A4) = SumFunctionOnSet(f, 1..n)
  BY <1>5, SumMoved
<1>7. SumFunctionOnSet(f, 1..n) \in Int
  <2>1. IsFiniteSet(1..n)
    BY FS_Interval
  <2>2. \A x \in 1..n : f[x] \in Int
    OBVIOUS
  <2> QED BY <2>1, <2>2, SumType
<1>8. SumFunctionOnSet(h, A0) = h[1] + SumFunctionOnSet(h, A1)
  <2> HIDE DEF A0
  <2> QED BY <1>1, <1>2, <1>3, SumOut
<1>9. SumFunctionOnSet(h, A1) = h[2] + SumFunctionOnSet(h, A2)
  <2> HIDE DEF A1
  <2> QED BY <1>1, <1>2, <1>4, SumOut
<1>10. SumFunctionOnSet(h, A2) = h[3] + SumFunctionOnSet(h, A3)
  <2> HIDE DEF A2
  <2> QED BY <1>1, <1>2, <1>4, SumOut
<1>11. SumFunctionOnSet(h, A3) = h[4] + SumFunctionOnSet(h, A4)
  <2> HIDE DEF A3
  <2> QED BY <1>1, <1>2, <1>4, SumOut
<1>12. h[1] \in Int /\ h[2] \in Int /\ h[3] \in Int /\ h[4] \in Int
  OBVIOUS
<1>13. SumFunctionOnSet(h, A0) =
         h[1] + h[2] + h[3] + h[4] + SumFunctionOnSet(f, 1..n)
  <2> HIDE DEF A0, A1, A2, A3, A4
  <2> QED BY <1>6, <1>7, <1>8, <1>9, <1>10, <1>11, <1>12
<1> QED BY <1>7, <1>13

(* SumFunction is the sum over the domain.                                 *)
LEMMA SumOfAll ==
  ASSUME NEW n \in Nat, NEW f, f = [k \in 1..n |-> f[k]]
  PROVE  SumFunction(f) = SumFunctionOnSet(f, 1..n)
<1>1. DOMAIN f = 1..n
  OBVIOUS
<1> QED BY <1>1 DEF SumFunction

-----------------------------------------------------------------------------
(* What a receiver makes of a block.                                       *)

Sent == (0..255) \X (0..255)

(* A line of CSV.                                                          *)
LEMMA CsvBack ==
  ASSUME samples' \in [1..NSamp -> Sent], csv' = Csv(samples')
  PROVE  CsvDecodes'
<1> SUFFICES ASSUME NEW x \in 1..NSamp
             PROVE  csv'[x] = (Value(x) + 65536 * samples[x][2])'
  BY DEF CsvDecodes
<1>1. samples'[x] \in Sent
  OBVIOUS
<1>2. csv'[x] = ADC_RAW_VAL(Received(samples'[x]))
  BY DEF Csv
<1>3. /\ samples'[x][1] \in Int /\ 0 <= samples'[x][1] /\ samples'[x][1] < 256
      /\ samples'[x][2] \in Int /\ 0 <= samples'[x][2] /\ samples'[x][2] < 256
  BY <1>1, ByteSent DEF Sent
<1>4. ADC_RAW_VAL(Received(samples'[x]))
        = (256 * samples'[x][1] + samples'[x][2]) + 65536 * samples'[x][2]
  BY <1>3, RawVal
<1> QED BY <1>2, <1>4 DEF Value

(* C's remainder and quotient in two bytes: what is missing in the upper   *)
(* one of a negative number that is no multiple of 256.                    *)
LEMMA Rounded ==
  ASSUME NEW v \in Int, -32768 <= v, v < 32768
  PROVE  int16(byte(Rem(v)) + 256 * byte(Quot(v)))
           = IF v < 0 /\ (v % 256) # 0 THEN v + 256 ELSE v
<1>1. CASE v >= 0
  <2> DEFINE d == v \div 256
             r == v % 256
  <2>1. /\ d \in Int /\ 0 <= d /\ d < 256
        /\ r \in Int /\ 0 <= r /\ r < 256 /\ r + 256 * d = v
    BY <1>1
  <2>2. Quot(v) = d
    BY <1>1 DEF Quot
  <2> HIDE DEF d, r
  <2>3. Rem(v) = r
    BY <2>1, <2>2 DEF Rem
  <2>4. byte(d) = d /\ byte(r) = r
    BY <2>1, ByteSmall
  <2>5. byte(Rem(v)) + 256 * byte(Quot(v)) = v
    BY <2>1, <2>2, <2>3, <2>4
  <2> QED BY <1>1, <2>5, Int16Small
<1>2. CASE v < 0
  <2> DEFINE w == -v
             q == w \div 256
             r == w % 256
             s == byte(Rem(v)) + 256 * byte(Quot(v))
  <2>1. /\ q \in Int /\ 0 <= q /\ q <= 128
        /\ r \in Int /\ 0 <= r /\ r < 256 /\ v = -r - 256 * q
    BY <1>2
  <2>2. Quot(v) = -q
    BY <1>2 DEF Quot
  <2>3. (v % 256) = 0 <=> r = 0
    BY <1>2
  <2> HIDE DEF w, q, r
  <2>4. Rem(v) = -r
    BY <2>1, <2>2 DEF Rem
  <2>5. byte(-r) = IF r = 0 THEN 0 ELSE 256 - r
    <3>1. r = 0 => byte(-r) = 0
      BY ByteSmall
    <3>2. r # 0 => byte(-r) = -r + 256
      BY <2>1, ByteBelow
    <3> QED BY <2>1, <3>1, <3>2
  <2>6. byte(-q) = IF q = 0 THEN 0 ELSE 256 - q
    <3>1. q = 0 => byte(-q) = 0
      BY ByteSmall
    <3>2. q # 0 => byte(-q) = -q + 256
      BY <2>1, ByteBelow
    <3> QED BY <2>1, <3>1, <3>2
  <2>7. s = byte(-r) + 256 * byte(-q)
    BY <2>2, <2>4
  <2> HIDE DEF s
  <2>8. CASE r = 0
    <3>1. q # 0 /\ s = v + 65536
      BY <1>2, <2>1, <2>5, <2>6, <2>7, <2>8
    <3>2. int16(s) = v
      BY <1>2, <3>1, Int16Above
    <3> QED BY <2>3, <2>8, <3>2 DEF s
  <2>9. CASE r # 0
    <3>1. s = IF q = 0 THEN v + 256 ELSE v + 256 + 65536
      BY <2>1, <2>5, <2>6, <2>7, <2>9
    <3>2. CASE q = 0
      <4>1. s = v + 256 /\ 0 <= s /\ s < 256 /\ s \in Int
        BY <1>2, <2>1, <3>1, <3>2
      <4>2. int16(s) = v + 256
        BY <4>1, Int16Small
      <4> QED BY <1>2, <2>3, <2>9, <4>2 DEF s
    <3>3. CASE q # 0
      <4>1. s = v + 256 + 65536 /\ 32768 <= s /\ s < 98304 /\ s \in Int
        BY <1>2, <2>1, <3>1, <3>3
      <4>2. int16(s) = v + 256
        BY <4>1, Int16Above
      <4> QED BY <1>2, <2>3, <2>9, <4>2 DEF s
    <3> QED BY <3>2, <3>3
  <2> QED BY <2>8, <2>9
<1> QED BY <1>1, <1>2

(* Raw data.                                                               *)
LEMMA CentredIs ==
  ASSUME NEW s \in Sent
  PROVE  Centred(s) = int16((256 * s[1] + s[2]) - 250)
<1>1. /\ s[1] \in Int /\ 0 <= s[1] /\ s[1] < 256
      /\ s[2] \in Int /\ 0 <= s[2] /\ s[2] < 256
  BY ByteSent DEF Sent
<1> DEFINE w == 256 * s[1] + s[2]
           b == s[2]
<1>2. ADC_RAW_VAL(Received(s)) = w + 65536 * b
  BY <1>1, RawVal
<1>3. w \in Int /\ b \in Int
  BY <1>1
<1> HIDE DEF w, b
<1>4. int16(int16(w + 65536 * b) - 250) = int16(w - 250)
  BY <1>3 DEF int16
<1>5. Centred(s) = int16(w - 250)
  BY <1>2, <1>4 DEF Centred
<1> QED BY <1>5 DEF w

LEMMA RawBack ==
  ASSUME samples' \in [1..NSamp -> Sent], raw' = Raw(samples')
  PROVE  RawDecodes'
<1> DEFINE C(x) == Centred(samples'[x])
           pairs == [x \in 1..NSamp |-> <<byte(Rem(C(x))), byte(Quot(C(x)))>>]
<1>1. NSamp \in Nat /\ Len(pairs) = NSamp
  BY NSampAssumption
<1>2. raw' = Laid(pairs)
  BY DEF Raw
<1>3. \A x \in 1..NSamp :
        pairs[x][1] = byte(Rem(C(x))) /\ pairs[x][2] = byte(Quot(C(x)))
  OBVIOUS
<1> HIDE DEF pairs
<1>4. ASSUME NEW x \in 1..NSamp
      PROVE  Word(raw, x)' = byte(Rem(C(x))) + 256 * byte(Quot(C(x)))
  <2>1. Laid(pairs)[2 * x - 1] = pairs[x][1]
    BY <1>1, LaidOut, ZenonT(30)
  <2>2. Laid(pairs)[2 * x] = pairs[x][2]
    BY <1>1, LaidOut, ZenonT(30)
  <2>3. raw'[2 * x - 1] = pairs[x][1] /\ raw'[2 * x] = pairs[x][2]
    BY <1>2, <2>1, <2>2
  <2> QED BY <1>3, <2>3 DEF Word
<1> HIDE DEF C
<1>5. ASSUME NEW x \in 1..NSamp
      PROVE  /\ C(x) = int16(Value(x)' - 250) /\ C(x) \in Int
             /\ -32768 <= C(x) /\ C(x) < 32768
  <2>1. samples'[x] \in Sent
    OBVIOUS
  <2>2. C(x) = int16(Value(x)' - 250)
    BY <2>1, CentredIs DEF C, Value
  <2>3. Value(x)' - 250 \in Int
    <3>1. samples'[x][1] \in Int /\ samples'[x][2] \in Int
      BY <2>1, ByteSent DEF Sent
    <3> QED BY <3>1 DEF Value
  <2> QED BY <2>2, <2>3, Int16Range
<1>6. ASSUME NEW x \in 1..NSamp
      PROVE  int16(Word(raw, x)') = IF C(x) < 0 /\ (C(x) % 256) # 0
                               THEN C(x) + 256 ELSE C(x)
  BY <1>4, <1>5, Rounded
<1> QED BY <1>5, <1>6 DEF RawDecodes

(* A packet.                                                               *)
LEMMA DataIs ==
  ASSUME NEW s \in Sent
  PROVE  /\ uint16(ADC_RAW_VAL(Received(s))) = 256 * s[1] + s[2]
         /\ 256 * s[1] + s[2] \in Int
         /\ 0 <= 256 * s[1] + s[2] /\ 256 * s[1] + s[2] < 65536
<1>1. /\ s[1] \in Int /\ 0 <= s[1] /\ s[1] < 256
      /\ s[2] \in Int /\ 0 <= s[2] /\ s[2] < 256
  BY ByteSent DEF Sent
<1> DEFINE w == 256 * s[1] + s[2]
           b == s[2]
<1>2. w \in Int /\ b \in Int /\ 0 <= w /\ w < 65536
  BY <1>1
<1>3. ADC_RAW_VAL(Received(s)) = w + 65536 * b
  BY <1>1, RawVal
<1> HIDE DEF w, b
<1>4. uint16(w + 65536 * b) = w
  BY <1>2 DEF uint16
<1>5. uint16(ADC_RAW_VAL(Received(s))) = w
  BY <1>3, <1>4
<1> QED BY <1>2, <1>5 DEF w

(* The words after the header.                                             *)
LEMMA WordsAre ==
  ASSUME NEW block
  PROVE  /\ Len(Words(block)) = NSamp + 3
         /\ Words(block)[1] = 2 * (NSamp + 5)
         /\ Words(block)[2] = uint16(num)
         /\ \A x \in 1..NSamp : Words(block)[2 + x] = Data(block)[x]
         /\ Words(block)[NSamp + 3] = Checksum(Data(block))
<1> DEFINE data  == Data(block)
           last  == <<Checksum(data)>>
           first2 == <<2 * (NSamp + 5), uint16(num)>>
           front == first2 \o data
           words == front \o last
<1>1. Words(block) = words
  BY DEF Words
<1>2. NSamp \in Nat
  BY NSampAssumption
<1>3. /\ first2 = [k \in 1..2 |-> first2[k]]
      /\ first2[1] = 2 * (NSamp + 5) /\ first2[2] = uint16(num)
  OBVIOUS
<1>4. last = [k \in 1..1 |-> last[k]] /\ last[1] = Checksum(data)
  OBVIOUS
<1>5. data = [k \in 1..NSamp |-> data[k]]
  BY DEF Data
<1> HIDE DEF data, last, first2
<1>6. /\ front = [k \in 1..(2 + NSamp) |-> front[k]]
      /\ \A k \in 1..2 : front[k] = first2[k]
      /\ \A x \in 1..NSamp : front[2 + x] = data[x]
  BY <1>2, <1>3, <1>5, Joined
<1> HIDE DEF front
<1>7. 2 + NSamp \in Nat /\ NSamp + 3 = (2 + NSamp) + 1
  BY <1>2
<1>8. /\ Len(words) = (2 + NSamp) + 1
      /\ \A k \in 1..(2 + NSamp) : words[k] = front[k]
      /\ words[(2 + NSamp) + 1] = last[1]
  BY <1>4, <1>6, <1>7, Joined
<1> HIDE DEF words
<1>9. /\ 1 \in 1..(2 + NSamp) /\ 2 \in 1..(2 + NSamp)
      /\ 1 \in 1..2 /\ 2 \in 1..2
      /\ \A x \in 1..NSamp : 2 + x \in 1..(2 + NSamp)
  BY <1>2
<1> QED BY <1>1, <1>3, <1>4, <1>6, <1>7, <1>8, <1>9 DEF data

(* The samples add up, and their checksum fits into a word.                *)
LEMMA DataAdds ==
  ASSUME NEW block \in [1..NSamp -> Sent], num \in Nat
  PROVE  /\ SumFunction(Data(block))
              = SumFunctionOnSet(Data(block), 1..NSamp)
         /\ SumFunction(Data(block)) \in Int
         /\ Checksum(Data(block)) \in Int
         /\ 0 <= Checksum(Data(block)) /\ Checksum(Data(block)) < 65536
<1> DEFINE data == Data(block)
           s == SumFunction(data)
           u == num % 65536
           a == -1 + 2 * (NSamp + 5) + u + s
<1>1. NSamp \in Nat
  BY NSampAssumption
<1>2. data = [x \in 1..NSamp |-> data[x]]
  BY DEF Data
<1>3. ASSUME NEW x \in 1..NSamp
      PROVE  data[x] \in Int
  <2>1. block[x] \in Sent
    OBVIOUS
  <2> QED BY <2>1, DataIs DEF Data
<1>4. Checksum(data) = (a % 65536) /\ u \in Int
  BY DEF Checksum, uint16
<1> HIDE DEF data
<1>5. s = SumFunctionOnSet(data, 1..NSamp)
  BY <1>1, <1>2, SumOfAll, Zenon
<1>6. s \in Int
  <2>1. IsFiniteSet(1..NSamp)
    BY <1>1, FS_Interval
  <2>2. SumFunctionOnSet(data, 1..NSamp) \in Int
    BY <1>3, <2>1, SumType
  <2> QED BY <1>5, <2>2
<1> HIDE DEF s, u
<1>7. a \in Int
  BY <1>1, <1>4, <1>6
<1> HIDE DEF a
<1>8. (a % 65536) \in Int /\ 0 <= (a % 65536) /\ (a % 65536) < 65536
  BY <1>7
<1> QED BY <1>4, <1>5, <1>6, <1>8 DEF s, data

(* The words of a packet are found in its bytes.                           *)
LEMMA PacketBack ==
  ASSUME samples' \in [1..NSamp -> Sent], packet' = Packet(samples'),
         num \in Nat, num' = num + 1
  PROVE  PacketDecodes' /\ Word(packet, NSamp + 5)' = Checksum(Data(samples'))
<1> DEFINE words  == Words(samples')
           pairs  == [x \in 1..Len(words) |-> LittleEndian(words[x])]
           n      == NSamp + 3
<1>1. packet' = <<255, 127, 0, 128>> \o Laid(pairs)
  BY DEF Packet
<1>2. NSamp \in Nat /\ n \in Nat /\ NSamp <= 1024
  BY NSampAssumption
<1>3. Len(words) = n
  BY WordsAre
<1> HIDE DEF words
<1>4. Len(pairs) = n /\ \A j \in 1..n : pairs[j] = LittleEndian(words[j])
  BY <1>2, <1>3
<1> HIDE DEF pairs, n
<1> DEFINE body == Laid(pairs)
<1> HIDE DEF body
<1>5. /\ body = [k \in 1..(2 * n) |-> body[k]]
      /\ \A j \in 1..n : /\ body[2 * j - 1] = LittleEndian(words[j])[1]
                         /\ body[2 * j] = LittleEndian(words[j])[2]
  <2>1. n \in Nat /\ Len(pairs) = n
    BY <1>2, <1>4
  <2>2. ASSUME NEW j \in 1..n
        PROVE  Laid(pairs)[2 * j - 1] = pairs[j][1]
    BY <2>1, LaidOut, ZenonT(30)
  <2>3. ASSUME NEW j \in 1..n
        PROVE  Laid(pairs)[2 * j] = pairs[j][2]
    BY <2>1, LaidOut, ZenonT(30)
  <2>4. Laid(pairs) = [k \in 1..(2 * n) |-> Laid(pairs)[k]]
    BY <2>1, LaidOut, Zenon
  <2> QED BY <1>4, <2>2, <2>3, <2>4 DEF body
<1> DEFINE header == <<255, 127, 0, 128>>
<1>6. /\ header = [k \in 1..4 |-> header[k]] /\ header[1] = 255
      /\ header[2] = 127 /\ header[3] = 0 /\ header[4] = 128
  OBVIOUS
<1> HIDE DEF header
<1>7. 2 * n \in Nat /\ 4 \in Nat
  BY <1>2
<1>8. /\ Len(packet') = 4 + 2 * n
      /\ \A k \in 1..4 : packet'[k] = header[k]
      /\ \A k \in 1..(2 * n) : packet'[4 + k] = body[k]
  <2>1. /\ Len(header \o body) = 4 + 2 * n
        /\ \A k \in 1..4 : (header \o body)[k] = header[k]
        /\ \A k \in 1..(2 * n) : (header \o body)[4 + k] = body[k]
    <3> DEFINE four == 4
               m    == 2 * n
               h    == header
               b    == body
    <3>1. /\ h = [k \in 1..four |-> h[k]] /\ four \in Nat
          /\ b = [k \in 1..m |-> b[k]] /\ m \in Nat
      BY <1>5, <1>6, <1>7
    <3> HIDE DEF four, m, h, b
    <3>2. /\ Len(h \o b) = four + m
          /\ \A k \in 1..four : (h \o b)[k] = h[k]
          /\ \A k \in 1..m : (h \o b)[four + k] = b[k]
      BY <3>1, Joined
    <3> QED BY <3>2 DEF four, m, h, b
  <2>2. packet' = header \o body
    BY <1>1 DEF header, body
  <2> QED BY <2>1, <2>2
<1>9. Len(packet') = 2 * NSamp + 10
  BY <1>2, <1>8 DEF n
<1>10. Word(packet, 1)' = 32767 /\ Word(packet, 2)' = 32768
  <2>1. /\ packet'[1] = 255 /\ packet'[2] = 127
        /\ packet'[3] = 0 /\ packet'[4] = 128
    BY <1>6, <1>8
  <2> QED BY <2>1 DEF Word
<1>11. ASSUME NEW j \in 1..n, words[j] \in Int, 0 <= words[j],
              words[j] < 65536
       PROVE  Word(packet, 2 + j)' = words[j]
  <2>1. 2 * j - 1 \in 1..(2 * n) /\ 2 * j \in 1..(2 * n)
    BY <1>2
  <2>2. /\ packet'[4 + (2 * j - 1)] = LittleEndian(words[j])[1]
        /\ packet'[4 + 2 * j] = LittleEndian(words[j])[2]
    BY <1>5, <1>8, <2>1
  <2>3. 4 + (2 * j - 1) = 2 * (2 + j) - 1 /\ 4 + 2 * j = 2 * (2 + j)
    OBVIOUS
  <2>4. Word(packet, 2 + j)' = LittleEndian(words[j])[1]
                         + 256 * LittleEndian(words[j])[2]
    BY <2>2, <2>3 DEF Word
  <2> QED BY <1>11, <2>4, Halves
<1>12. Word(packet, 3)' = 2 * NSamp + 10
  <2>1. words[1] = 2 * NSamp + 10
    BY <1>2, WordsAre DEF words
  <2>2. 1 \in 1..n /\ words[1] \in Int /\ 0 <= words[1] /\ words[1] < 65536
    BY <1>2, <2>1 DEF n
  <2>3. Word(packet, 2 + 1)' = words[1]
    BY <1>11, <2>2
  <2> QED BY <2>1, <2>3
<1>13. Word(packet, 4)' = ((num' - 1) % 65536)
  <2>1. words[2] = num % 65536
    BY WordsAre DEF words, uint16
  <2>2. num % 65536 \in Int /\ 0 <= num % 65536 /\ num % 65536 < 65536
    OBVIOUS
  <2>3. 2 \in 1..n
    BY <1>2 DEF n
  <2>4. Word(packet, 2 + 2)' = words[2]
    BY <1>11, <2>1, <2>2, <2>3
  <2>5. num' - 1 = num
    OBVIOUS
  <2> QED BY <2>1, <2>4, <2>5
<1>14. ASSUME NEW x \in 1..NSamp
       PROVE  Word(packet, 4 + x)' = Value(x)'
  <2>1. samples'[x] \in Sent
    OBVIOUS
  <2>2. words[2 + x] = uint16(ADC_RAW_VAL(Received(samples'[x])))
    BY WordsAre DEF words, Data
  <2>3. /\ words[2 + x] = Value(x)' /\ words[2 + x] \in Int
        /\ 0 <= words[2 + x] /\ words[2 + x] < 65536
    BY <2>1, <2>2, DataIs DEF Value
  <2>4. 2 + x \in 1..n /\ 2 + (2 + x) = 4 + x
    BY <1>2 DEF n
  <2>5. Word(packet, 2 + (2 + x))' = words[2 + x]
    BY <1>11, <2>3, <2>4
  <2> QED BY <2>3, <2>4, <2>5
<1>15. Word(packet, NSamp + 5)' = Checksum(Data(samples'))
  <2>1. words[NSamp + 3] = Checksum(Data(samples'))
    BY WordsAre DEF words
  <2>2. NSamp + 3 \in 1..n /\ 2 + (NSamp + 3) = NSamp + 5
    BY <1>2 DEF n
  <2>3. /\ words[NSamp + 3] \in Int /\ 0 <= words[NSamp + 3]
        /\ words[NSamp + 3] < 65536
    BY <2>1, DataAdds
  <2>4. Word(packet, 2 + (NSamp + 3))' = words[NSamp + 3]
    BY <1>11, <2>2, <2>3
  <2> QED BY <2>1, <2>2, <2>4
<1> QED BY <1>9, <1>10, <1>12, <1>13, <1>14, <1>15 DEF PacketDecodes

(* The checksum is the sum of the words before it: -1 is what the two      *)
(* words of the header add to, but for 65536.                              *)
LEMMA ChecksumBack ==
  ASSUME samples' \in [1..NSamp -> Sent], packet' = Packet(samples'),
         num \in Nat, num' = num + 1
  PROVE  AddsFrom(1)'
<1> DEFINE data == Data(samples')
           word == [k \in 1..(NSamp + 4) |-> Word(packet, k)']
           s    == SumFunctionOnSet(data, 1..NSamp)
           u    == num % 65536
<1>1. PacketDecodes' /\ Word(packet, NSamp + 5)' = Checksum(data)
  BY PacketBack
<1>2. NSamp \in Nat
  BY NSampAssumption
<1>3. u \in Int
  OBVIOUS
<1>4. /\ Word(packet, 1)' = 32767 /\ Word(packet, 2)' = 32768
      /\ Word(packet, 3)' = 2 * NSamp + 10 /\ Word(packet, 4)' = u
  BY <1>1 DEF PacketDecodes
<1>5. /\ word[1] = 32767 /\ word[2] = 32768
      /\ word[3] = 2 * NSamp + 10 /\ word[4] = u
  BY <1>2, <1>4
<1>6. ASSUME NEW x \in 1..NSamp
      PROVE  data[x] \in Int /\ word[4 + x] = data[x]
  <2>1. samples'[x] \in Sent
    OBVIOUS
  <2>2. data[x] = Value(x)' /\ data[x] \in Int
    BY <2>1, DataIs DEF Data, Value
  <2>3. 4 + x \in 1..(NSamp + 4)
    BY <1>2
  <2>4. word[4 + x] = Word(packet, 4 + x)'
    BY <2>3
  <2> QED BY <1>1, <2>2, <2>4 DEF PacketDecodes
<1>7. SumFunction(data) = s
  BY DataAdds
<1>8. word = [k \in 1..(NSamp + 4) |-> word[k]]
  OBVIOUS
<1>9. AddsFrom(1)' <=> Word(packet, NSamp + 5)' = (SumFunction(word) % 65536)
  <2>1. NSamp + 5 - 1 = NSamp + 4
    BY <1>2
  <2>2. \A k \in 1..(NSamp + 4) : Word(packet, 1 - 1 + k)' = Word(packet, k)'
    <3> SUFFICES ASSUME NEW k \in 1..(NSamp + 4)
                 PROVE  Word(packet, 1 - 1 + k)' = Word(packet, k)'
      OBVIOUS
    <3>1. 1 - 1 + k = k
      OBVIOUS
    <3> QED BY <3>1
  <2>3. [k \in 1..(NSamp + 5 - 1) |-> Word(packet, 1 - 1 + k)'] = word
    BY <2>1, <2>2
  <2> QED BY <2>3 DEF AddsFrom
<1> HIDE DEF data, word
<1>10. SumFunction(word) = SumFunctionOnSet(word, 1..(NSamp + 4))
  <2>1. NSamp + 4 \in Nat
    BY <1>2
  <2> QED BY <1>8, <2>1, SumOfAll
<1>11. \A k \in 1..4 : word[k] \in Int
  BY <1>2, <1>3, <1>5
<1>12. /\ s \in Int
       /\ SumFunctionOnSet(word, 1..(NSamp + 4))
            = word[1] + word[2] + word[3] + word[4] + s
  BY <1>2, <1>6, <1>11, SumHeaded
<1> DEFINE a == -1 + 2 * (NSamp + 5) + u + s
<1>13. Checksum(data) = (a % 65536)
  BY <1>7 DEF Checksum, uint16
<1> HIDE DEF s, u
<1>14. SumFunction(word) = a + 65536 /\ a \in Int
  BY <1>2, <1>3, <1>5, <1>10, <1>12
<1> HIDE DEF a
<1>15. ((a + 65536) % 65536) = (a % 65536)
  BY <1>14
<1> QED BY <1>1, <1>9, <1>13, <1>14, <1>15

-----------------------------------------------------------------------------
(* The invariant and what follows from it.                                 *)

(* No block has been formatted.                                            *)
LEMMA InitFormats == Init => FormatsInv
<1> SUFFICES ASSUME Init PROVE FormatsInv
  OBVIOUS
<1>1. now \in Nat /\ num \in Nat
  BY ClockAssumption DEF Init
<1>2. FormatsOK /\ ClockInv
  BY <1>1 DEF Init, FormatsOK, ClockInv
<1>3. TimeFromFirst
  BY DEF Init, TimeFromFirst
<1>4. calls = 0
  BY DEF Init
<1> QED BY <1>2, <1>3, <1>4 DEF FormatsInv, Decodes

(* The start is set by the first block whose time stamp is not 0, for      *)
(* good.                                                                   *)
LEMMA TimeStep ==
  ASSUME FormatsInv, NEW gap \in Gaps, NEW block, Format(gap, block)
  PROVE  FormatsOK' /\ ClockInv' /\ TimeFromFirst'
<1> USE DEF FormatsInv
<1>1. FormatsOK'
  BY ClockAssumption DEF FormatsOK, Format
<1>2. ClockMod \in Nat \ {0} /\ now' \in Nat /\ first' \in Nat /\ calls \in Nat
  BY <1>1, ClockAssumption DEF FormatsOK
<1>3. first' % ClockMod # 0 => usec_start' = first' % ClockMod
  <2>1. CASE calls = 0
    BY <2>1 DEF Format, ClockInv, StartOf
  <2>2. CASE calls # 0
    BY <1>2, <2>2 DEF Format, ClockInv, StartOf
  <2> QED BY <2>1, <2>2
<1>4. calls' # 0
  BY <1>2 DEF Format
<1>5. ClockInv'
  BY <1>3, <1>4 DEF ClockInv
<1>6. first' % ClockMod # 0 => usec' = (now' - first') % ClockMod
  <2> SUFFICES ASSUME first' % ClockMod # 0
               PROVE  usec' = (now' - first') % ClockMod
    OBVIOUS
  <2>1. usec' = ((now' % ClockMod) - (first' % ClockMod)) % ClockMod
    BY <1>3 DEF Format, Elapsed
  <2> QED BY <1>2, <2>1, ModDifference
<1>7. TimeFromFirst'
  BY <1>6 DEF TimeFromFirst
<1> QED BY <1>1, <1>5, <1>7

(* Each format gives the samples back, and a packet adds up.               *)
LEMMA BackStep ==
  ASSUME FormatsInv, NEW gap \in Gaps, NEW block \in Blocks, Format(gap, block)
  PROVE  Decodes'
<1>1. samples' \in [1..NSamp -> Sent]
  <2>1. block \in [1..NSamp -> Bytes \X Bytes]
    BY DEF Blocks
  <2>2. \A x \in 1..NSamp : block[x] \in Sent
    BY <2>1, BytesAssumption DEF Sent
  <2> QED BY <2>1, <2>2 DEF Format
<1>2. num \in Nat /\ num' = num + 1
  BY DEF Format, FormatsInv, FormatsOK
<1>3. /\ csv' = Csv(samples') /\ packet' = Packet(samples')
      /\ raw' = Raw(samples')
  BY DEF Format
<1>4. CsvDecodes' /\ RawDecodes'
  BY <1>1, <1>3, CsvBack, RawBack
<1>5. PacketDecodes' /\ AddsFrom(1)'
  BY <1>1, <1>2, <1>3, PacketBack, ChecksumBack
<1> QED BY <1>4, <1>5 DEF Decodes

(* Every block keeps the invariant.                                        *)
LEMMA FormatsNext == FormatsInv /\ [Next]_vars => FormatsInv'
<1> SUFFICES ASSUME FormatsInv, [Next]_vars PROVE FormatsInv'
  OBVIOUS
<1>1. CASE Next
  <2>1. PICK gap \in Gaps, block \in Blocks : Format(gap, block)
    BY <1>1 DEF Next
  <2> QED BY <2>1, TimeStep, BackStep DEF FormatsInv
<1>2. CASE UNCHANGED vars
  BY <1>2 DEF vars, FormatsInv, FormatsOK, ClockInv, TimeFromFirst,
     Decodes, CsvDecodes, PacketDecodes, RawDecodes, AddsFrom, Value, Word
<1> QED BY <1>1, <1>2

(* Whatever the ADC sends, and whenever the blocks arrive.                 *)
THEOREM FormatsInvariance == Spec => []FormatsInv
<1>1. Init => FormatsInv
  BY InitFormats
<1>2. FormatsInv /\ [Next]_vars => FormatsInv'
  BY FormatsNext
<1> QED BY <1>1, <1>2, PTL DEF Spec

(* The time printed by adc_stream_csv counts from the first block, also    *)
(* when the clock wraps, unless the first stamp is 0.                      *)
THEOREM TimeCounts == Spec => []TimeFromFirst
<1>1. FormatsInv => TimeFromFirst
  BY DEF FormatsInv
<1> QED BY <1>1, FormatsInvariance, PTL

(* Every sample that was sent can be read back from a line, from a packet  *)
(* and, but for the upper byte of negative ones, from raw data; a packet   *)
(* has its header, its length and its serial number, and the words before  *)
(* the checksum add up to it.                                              *)
THEOREM SamplesAreBack == Spec => []Decodes
<1>1. FormatsInv => Decodes
  BY DEF FormatsInv
<1> QED BY <1>1, FormatsInvariance, PTL
=============================================================================
