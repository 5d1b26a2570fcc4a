---------------------------- MODULE LayoutProofs ----------------------------
(***************************************************************************)
(* The lemmas that every other proof module uses, and what the codecs of   *)
(* Layout write and read back, for every body length and every number of   *)
(* public inputs.                                                          *)
(***************************************************************************)
EXTENDS Layout, SequencesExt, SequenceTheorems, FiniteSetTheorems,
        WellFoundedInduction, TLAPS

(* A chain of "?" succeeds exactly when all of its calls do: the processors
   rely on it to make every earlier check a fact for the code below it. *)
LEMMA ThenOk ==
    ASSUME NEW r, NEW s
    PROVE  (r ?? s) = Ok <=> r = Ok /\ s = Ok
BY DEF ??

(* "r?; s" is s after a success and stays at the first error. *)
LEMMA ThenFirst ==
    ASSUME NEW r, NEW s
    PROVE  /\ r = Ok => (r ?? s) = s
           /\ r # Ok => (r ?? s) = r
BY DEF ??

(* Induction over the natural numbers, for the set of the numbers that have the
   property: the least number outside it would have a predecessor inside. *)
LEMMA InductionBySet ==
    ASSUME NEW A, 0 \in A, \A n \in Nat : n \in A => n + 1 \in A
    PROVE  \A n \in Nat : n \in A
<1> DEFINE outside == Nat \ A
           less == OpToRel(<, Nat)
<1>1. SUFFICES ASSUME outside # {} PROVE FALSE
  OBVIOUS
<1>2. IsWellFoundedOn(less, Nat) /\ outside \subseteq Nat
  BY NatLessThanWellFounded
<1> HIDE DEF outside, less
<1>3. PICK x \in outside : \A y \in outside : <<y, x>> \notin less
  BY <1>1, <1>2, WFMin
<1>4. \A y \in outside : ~(y < x)
  BY <1>2, <1>3 DEF less, OpToRel
<1>5. x \in Nat /\ x # 0
  BY <1>2 DEF outside
<1>6. x - 1 \in Nat /\ x - 1 < x /\ x = (x - 1) + 1
  BY <1>5
<1>7. x - 1 \in A
  BY <1>4, <1>6 DEF outside
<1> QED
  BY <1>6, <1>7 DEF outside

-----------------------------------------------------------------------------
(* Sequences, whatever they hold, and their parts. *)
IsSequence(s) == \E S : s \in Seq(S)

(* Whatever a sequence holds, appending makes it one longer. *)
LEMMA AppendGrows ==
    ASSUME NEW s, NEW e, IsSequence(s)
    PROVE  IsSequence(Append(s, e)) /\ Len(Append(s, e)) = Len(s) + 1
           /\ Len(s) \in Nat
<1>1. PICK S : s \in Seq(S)
  BY DEF IsSequence
<1>2. s \in Seq(S \cup {e})
  BY <1>1
<1>3. Append(s, e) \in Seq(S \cup {e}) /\ Len(Append(s, e)) = Len(s) + 1
  BY <1>2
<1> QED BY <1>1, <1>3 DEF IsSequence

(* Appending to a sequence, one entry at a time. *)
LEMMA AppendCells ==
    ASSUME NEW s, NEW e, IsSequence(s)
    PROVE  /\ Len(s) \in Nat /\ Len(Append(s, e)) = Len(s) + 1
           /\ Append(s, e)[Len(s) + 1] = e
           /\ \A k \in 1..Len(s) : Append(s, e)[k] = s[k]
<1>1. PICK S : s \in Seq(S)
  BY DEF IsSequence
<1>2. s \in Seq(S \cup {e})
  BY <1>1
<1> QED BY <1>2

(* A slice of one cell is that cell. *)
LEMMA CellAt ==
    ASSUME NEW S, NEW s \in Seq(S), NEW k \in 1..Len(s)
    PROVE  s[k] \in S /\ SubSeq(s, k, k)[1] = s[k]
<1>1. k \in Nat /\ Len(s) \in Nat
  OBVIOUS
<1>2. s[k] \in S
  OBVIOUS
<1>3. SubSeq(s, k, k)[1] = s[1 + k - 1]
  BY <1>1
<1> QED BY <1>1, <1>2, <1>3

(* The head and tail of a sequence, entry by entry. *)
LEMMA TailCells ==
    ASSUME NEW s, IsSequence(s), Len(s) >= 1
    PROVE  /\ Len(s) \in Nat /\ Head(s) = s[1] /\ DOMAIN Tail(s) = 1..Len(s) - 1
           /\ \A k \in 1..Len(s) - 1 : Tail(s)[k] = s[k + 1]
<1>1. PICK S : s \in Seq(S)
  BY DEF IsSequence
<1>2. Len(s) \in Nat /\ s # <<>>
  BY <1>1
<1> QED BY <1>1, <1>2

(* The entries of a stretch of a sequence. *)
LEMMA StretchCells ==
    ASSUME NEW s, IsSequence(s), NEW m \in Nat, NEW n \in Nat, m <= n, n <= Len(s)
    PROVE  /\ DOMAIN SubSeq(s, m + 1, n) = 1..n - m
           /\ \A k \in 1..n - m : SubSeq(s, m + 1, n)[k] = s[m + k]
<1>1. PICK S : s \in Seq(S)
  BY DEF IsSequence
<1>2. Len(s) \in Nat /\ \A k \in 1..Len(s) : s[k] \in S
  BY <1>1
<1> QED BY <1>1, <1>2, SMTT(30)

(* A list that agrees with a stretch of s is that stretch. *)
LEMMA Stretch ==
    ASSUME NEW S, NEW s \in Seq(S), NEW m \in Nat, NEW n \in Nat, m <= n, n <= Len(s),
           NEW a, a = [k \in 1..n - m |-> a[k]],
           \A k \in 1..n - m : a[k] = s[m + k]
    PROVE  a = SubSeq(s, m + 1, n)
<1> DEFINE b == SubSeq(s, m + 1, n)
<1>1. Len(s) \in Nat /\ \A k \in 1..Len(s) : s[k] \in S
  OBVIOUS
<1>2. b \in Seq(S) /\ Len(b) = n - m /\ \A k \in 1..n - m : b[k] = s[m + k]
  BY <1>1, SMTT(30)
<1> HIDE DEF b
<1>3. b = [k \in 1..n - m |-> b[k]]
  BY <1>2
<1>4. \A k \in 1..n - m : a[k] = b[k]
  BY <1>2
<1>5. a = b
  BY <1>3, <1>4
<1> QED BY <1>5 DEF b

(* Two sequences put together, entry by entry. *)
LEMMA Concatenated ==
    ASSUME NEW S, NEW a \in Seq(S), NEW b \in Seq(S)
    PROVE  /\ a \o b \in Seq(S) /\ Len(a \o b) = Len(a) + Len(b)
           /\ \A i \in 1..Len(a) : (a \o b)[i] = a[i]
           /\ \A i \in 1..Len(b) : (a \o b)[Len(a) + i] = b[i]
<1>1. Len(a) \in Nat /\ Len(b) \in Nat
  OBVIOUS
<1>2. a \o b \in Seq(S) /\ Len(a \o b) = Len(a) + Len(b)
  BY ConcatProperties
<1>3. \A i \in 1..Len(a) : (a \o b)[i] = a[i]
  BY <1>1, ConcatProperties
<1>4. ASSUME NEW i \in 1..Len(b)
      PROVE  (a \o b)[Len(a) + i] = b[i]
  <2>1. /\ Len(a) + i \in 1..(Len(a) + Len(b)) /\ ~(Len(a) + i <= Len(a))
        /\ (Len(a) + i) - Len(a) = i
    BY <1>1
  <2> QED BY <2>1, ConcatProperties
<1> QED BY <1>1, <1>2, <1>3, <1>4

(* Slicing what was written one part after another yields the part. *)
LEMMA SliceOfParts ==
    ASSUME NEW Cell, NEW a \in Seq(Cell), NEW b \in Seq(Cell), NEW c \in Seq(Cell)
    PROVE  SubSeq(a \o (b \o c), Len(a) + 1, Len(a) + Len(b)) = b
<1> DEFINE all == a \o (b \o c)
           part == SubSeq(all, Len(a) + 1, Len(a) + Len(b))
<1>1. Len(a) \in Nat /\ Len(b) \in Nat /\ Len(c) \in Nat
  OBVIOUS
<1>2. /\ b \o c \in Seq(Cell)
      /\ Len(b \o c) = Len(b) + Len(c)
      /\ \A i \in 1..Len(b) : (b \o c)[i] = b[i]
  BY <1>1, ConcatProperties
<1>3. ASSUME NEW i \in 1..Len(b)
      PROVE  all[Len(a) + i] = b[i]
  <2>1. Len(a) + i \in 1..(Len(a) + Len(b \o c)) /\ ~(Len(a) + i <= Len(a))
    BY <1>1, <1>2
  <2>2. all[Len(a) + i] = (b \o c)[(Len(a) + i) - Len(a)]
    BY <1>2, <2>1, ConcatProperties
  <2> QED
    BY <1>1, <1>2, <2>2
<1> HIDE DEF all
<1>4. \A k \in (Len(a) + 1)..(Len(a) + Len(b)) : all[k] \in Cell
  <2> SUFFICES ASSUME NEW k \in (Len(a) + 1)..(Len(a) + Len(b))
               PROVE  all[k] \in Cell
    OBVIOUS
  <2>1. PICK i \in 1..Len(b) : Len(a) + i = k
    <3>1. k - Len(a) \in 1..Len(b) /\ Len(a) + (k - Len(a)) = k
      BY <1>1
    <3> QED
      BY <3>1
  <2>2. b[i] \in Cell
    OBVIOUS
  <2> QED
    BY <1>3, <2>1, <2>2
<1>5. /\ part \in Seq(Cell) /\ Len(part) = Len(b)
      /\ \A i \in 1..Len(b) : part[i] = all[(Len(a) + 1) + i - 1]
  BY <1>1, <1>4, SubSeqProperties
<1>6. \A i \in 1..Len(b) : part[i] = b[i]
  BY <1>1, <1>3, <1>5
<1> QED
  BY <1>5, <1>6, SeqEqual

(* Adjacent slices put together again. *)
LEMMA Rejoined ==
    ASSUME NEW S, NEW s \in Seq(S), NEW m \in Nat, NEW n \in Nat, NEW e \in Nat,
           m <= n, n <= e, e <= Len(s)
    PROVE  SubSeq(s, m + 1, n) \o SubSeq(s, n + 1, e) = SubSeq(s, m + 1, e)
<1> DEFINE a == SubSeq(s, m + 1, n)
           b == SubSeq(s, n + 1, e)
           whole == SubSeq(s, m + 1, e)
<1>1. Len(s) \in Nat /\ \A i \in 1..Len(s) : s[i] \in S
  OBVIOUS
<1>2. /\ a \in Seq(S) /\ Len(a) = n - m /\ \A i \in 1..n - m : a[i] = s[m + i]
      /\ b \in Seq(S) /\ Len(b) = e - n /\ \A i \in 1..e - n : b[i] = s[n + i]
      /\ whole \in Seq(S) /\ Len(whole) = e - m
      /\ \A i \in 1..e - m : whole[i] = s[m + i]
  BY <1>1, SMTT(30)
<1> HIDE DEF a, b, whole
<1>3. a \o b \in Seq(S) /\ Len(a \o b) = e - m
  <2>1. a \in Seq(S) /\ b \in Seq(S)
    BY <1>2
  <2>2. a \o b \in Seq(S) /\ Len(a \o b) = Len(a) + Len(b)
    BY <2>1, ConcatProperties
  <2>3. (n - m) + (e - n) = e - m
    OBVIOUS
  <2> QED BY <1>2, <2>2, <2>3
<1>4. ASSUME NEW i \in 1..Len(a \o b)
      PROVE  (a \o b)[i] = whole[i]
  <2>1. CASE i <= n - m
    <3>1. (a \o b)[i] = a[i] /\ i \in 1..n - m /\ i \in 1..e - m
      BY <1>2, <1>3, <2>1
    <3> QED BY <1>2, <3>1
  <2>2. CASE ~(i <= n - m)
    <3>1. Len(a) = n - m /\ Len(b) = e - n /\ i \in 1..e - m
      BY <1>2, <1>3
    <3>2. /\ i - (n - m) \in 1..e - n /\ n + (i - (n - m)) = m + i
          /\ (n - m) + (i - (n - m)) = i
      BY <2>2, <3>1
    <3>3. (a \o b)[(n - m) + (i - (n - m))] = b[i - (n - m)]
      <4>1. a \in Seq(S) /\ b \in Seq(S)
        BY <1>2
      <4>2. \A k \in 1..Len(b) : (a \o b)[Len(a) + k] = b[k]
        BY <4>1, Concatenated
      <4> QED BY <3>1, <3>2, <4>2
    <3> QED BY <1>2, <3>1, <3>2, <3>3
  <2> QED BY <2>1, <2>2
<1>5. a \o b = whole
  BY <1>2, <1>3, <1>4, SeqEqual
<1> QED BY <1>5 DEF a, b, whole

(* Four stretches one after the other are the whole. *)
LEMMA FourStretches ==
    ASSUME NEW S, NEW s \in Seq(S), NEW i \in Nat, NEW j \in Nat, NEW k \in Nat,
           NEW zero, zero = 0, i <= j, j <= k, k <= Len(s)
    PROVE  ((SubSeq(s, zero + 1, i) \o SubSeq(s, i + 1, j)) \o SubSeq(s, j + 1, k))
             \o SubSeq(s, k + 1, Len(s)) = s
<1> DEFINE e == Len(s)
<1>1. zero \in Nat /\ e \in Nat /\ zero <= i /\ zero <= j /\ zero <= k /\ k <= e
      /\ i <= e /\ j <= e /\ e <= Len(s)
  OBVIOUS
<1>2. SubSeq(s, zero + 1, e) = s
  OBVIOUS
<1> HIDE DEF e
<1>3. SubSeq(s, zero + 1, i) \o SubSeq(s, i + 1, j) = SubSeq(s, zero + 1, j)
  BY <1>1, Rejoined
<1>4. SubSeq(s, zero + 1, j) \o SubSeq(s, j + 1, k) = SubSeq(s, zero + 1, k)
  BY <1>1, Rejoined
<1>5. SubSeq(s, zero + 1, k) \o SubSeq(s, k + 1, e) = SubSeq(s, zero + 1, e)
  BY <1>1, Rejoined
<1> QED BY <1>2, <1>3, <1>4, <1>5 DEF e

(* So are two. *)
LEMMA TwoStretches ==
    ASSUME NEW S, NEW s \in Seq(S), NEW i \in Nat, i <= Len(s), NEW zero, zero = 0
    PROVE  SubSeq(s, zero + 1, i) \o SubSeq(s, i + 1, Len(s)) = s
<1> DEFINE e == Len(s)
<1>1. zero \in Nat /\ e \in Nat /\ zero <= i /\ i <= e /\ e <= Len(s)
  OBVIOUS
<1>2. SubSeq(s, zero + 1, e) = s
  OBVIOUS
<1> HIDE DEF e
<1>3. SubSeq(s, zero + 1, i) \o SubSeq(s, i + 1, e) = SubSeq(s, zero + 1, e)
  BY <1>1, Rejoined
<1> QED BY <1>2, <1>3 DEF e

(* Two parts, read back: the first by its length, the second up to the end. *)
LEMMA Divided ==
    ASSUME NEW Cell, NEW a \in Seq(Cell), NEW b \in Seq(Cell)
    PROVE  /\ a \o b \in Seq(Cell)
           /\ Len(a \o b) = Len(a) + Len(b)
           /\ SubSeq(a \o b, 1, Len(a)) = a
           /\ SubSeq(a \o b, Len(a) + 1, Len(a \o b)) = b
           /\ \A j \in 1..Len(b) : (a \o b)[Len(a) + j] = b[j]
<1> DEFINE e == <<>>
<1>1. e \in Seq(Cell) /\ Len(e) = 0 /\ Len(a) \in Nat /\ Len(b) \in Nat
  BY EmptySeq
<1>2. a \o b \in Seq(Cell) /\ Len(a \o b) = Len(a) + Len(b)
  BY ConcatProperties
<1>3. SubSeq(a \o b, 1, Len(a)) = a
  <2>1. SubSeq(e \o (a \o b), Len(e) + 1, Len(e) + Len(a)) = a
    BY <1>1, SliceOfParts
  <2>2. e \o (a \o b) = a \o b
    BY <1>2, ConcatEmptySeq
  <2>3. Len(e) + 1 = 1 /\ Len(e) + Len(a) = Len(a)
    BY <1>1
  <2> QED
    BY <2>1, <2>2, <2>3
<1>4. SubSeq(a \o b, Len(a) + 1, Len(a \o b)) = b
  <2>1. SubSeq(a \o (b \o e), Len(a) + 1, Len(a) + Len(b)) = b
    BY <1>1, SliceOfParts
  <2>2. b \o e = b
    BY ConcatEmptySeq
  <2> QED
    BY <1>2, <2>1, <2>2
<1>5. \A j \in 1..Len(b) : (a \o b)[Len(a) + j] = b[j]
  BY Concatenated
<1> QED
  BY <1>2, <1>3, <1>4, <1>5

Associates(a, b, c) == (a \o b) \o c = a \o (b \o c)

(* Three sequences put together, from the left or from the right. *)
LEMMA ThreeRegrouped ==
    ASSUME NEW Cell, NEW a \in Seq(Cell), NEW b \in Seq(Cell), NEW c \in Seq(Cell)
    PROVE  Associates(a, b, c)
BY ConcatAssociative DEF Associates

(* The parts as Input::parse takes them from data. *)
ReadBack(data, x, body, proof, inputs, y) ==
    LET rest == SubSeq(data, 2 + Len(body), Len(data)) IN
    /\ data[1] = x[1]
    /\ Len(data) = 2 + Len(body) + Len(proof) + Len(inputs)
    /\ SubSeq(data, 2, 1 + Len(body)) = body
    /\ SubSeq(rest, 1, Len(proof)) = proof
    /\ SubSeq(rest, Len(proof) + 1, Len(proof) + Len(inputs)) = inputs
    /\ rest[Len(proof) + Len(inputs) + 1] = y[1]

(* One cell: the length bytes of the workload are one cell each. *)
Single(x) == Len(x) = 1

(* What is written part after part is read back part after part. *)
LEMMA PartsReadBack ==
    ASSUME NEW Cell, NEW x \in Seq(Cell), NEW body \in Seq(Cell),
           NEW proof \in Seq(Cell), NEW inputs \in Seq(Cell), NEW y \in Seq(Cell),
           Single(x), Single(y)
    PROVE  ReadBack(x \o body \o proof \o inputs \o y, x, body, proof, inputs, y)
<1> DEFINE xb == x \o body
           iy == inputs \o y
           piy == proof \o iy
           data == xb \o piy
<1>1. Len(body) \in Nat /\ Len(proof) \in Nat /\ Len(inputs) \in Nat
      /\ Len(x) = 1 /\ Len(y) = 1
  BY DEF Single
<1>2. /\ xb \in Seq(Cell) /\ Len(xb) = Len(x) + Len(body)
      /\ \A j \in 1..Len(x) : xb[j] = x[j]
  BY Concatenated
<1>3. /\ iy \in Seq(Cell) /\ Len(iy) = Len(inputs) + Len(y)
      /\ \A j \in 1..Len(y) : iy[Len(inputs) + j] = y[j]
  BY Concatenated
<1>4. SubSeq(piy, Len(proof) + 1, Len(proof) + Len(inputs)) = inputs
  BY SliceOfParts
<1> HIDE DEF xb, iy
<1>5. ((xb \o proof) \o inputs) \o y = xb \o (proof \o iy)
  <2>1. xb \in Seq(Cell)
    BY <1>2
  <2> DEFINE p == xb \o proof
  <2>2. p \in Seq(Cell)
    BY <2>1, Concatenated
  <2> HIDE DEF p
  <2>3. Associates(p, inputs, y) /\ Associates(xb, proof, iy)
    BY <1>3, <2>1, <2>2, ThreeRegrouped
  <2> QED
    BY <2>3, Zenon DEF Associates, iy, p
<1>6. /\ piy \in Seq(Cell) /\ Len(piy) = Len(proof) + Len(iy)
      /\ SubSeq(piy, 1, Len(proof)) = proof
      /\ \A j \in 1..Len(iy) : piy[Len(proof) + j] = iy[j]
  <2>1. iy \in Seq(Cell)
    BY <1>3
  <2> QED
    BY <2>1, Divided
<1> HIDE DEF piy
<1>7. data = x \o (body \o piy)
  <2>1. piy \in Seq(Cell)
    BY <1>6
  <2>2. Associates(x, body, piy)
    BY <2>1, ThreeRegrouped
  <2> QED
    BY <2>2, Zenon DEF Associates, xb
<1>8. /\ data \in Seq(Cell) /\ Len(data) = Len(xb) + Len(piy)
      /\ SubSeq(data, Len(xb) + 1, Len(data)) = piy
  <2>1. xb \in Seq(Cell) /\ piy \in Seq(Cell)
    BY <1>2, <1>6
  <2> QED
    BY <2>1, Divided
<1>9. \A j \in 1..Len(xb) : data[j] = xb[j]
  BY <1>2, <1>6, Concatenated
<1>10. SubSeq(data, Len(x) + 1, Len(x) + Len(body)) = body
  <2>1. SubSeq(x \o (body \o piy), Len(x) + 1, Len(x) + Len(body)) = body
    BY <1>6, SliceOfParts
  <2> QED
    BY <1>7, <2>1, Zenon
<1> HIDE DEF data
<1>11. data[1] = x[1]
  <2>1. 1 \in 1..Len(x) /\ 1 \in 1..Len(xb)
    BY <1>1, <1>2
  <2> QED
    BY <1>2, <1>9, <2>1
<1>12. piy[Len(proof) + Len(inputs) + 1] = y[1]
  <2>1. /\ 1 \in 1..Len(y) /\ Len(inputs) + 1 \in 1..Len(iy)
        /\ Len(proof) + (Len(inputs) + 1) = Len(proof) + Len(inputs) + 1
    BY <1>1, <1>3
  <2>2. piy[Len(proof) + (Len(inputs) + 1)] = iy[Len(inputs) + 1]
    BY <1>6, <2>1
  <2>3. iy[Len(inputs) + 1] = y[1]
    BY <1>3, <2>1
  <2> QED
    BY <2>1, <2>2, <2>3
<1>13. /\ Len(xb) + 1 = 2 + Len(body) /\ Len(x) + 1 = 2
       /\ Len(x) + Len(body) = 1 + Len(body)
       /\ Len(data) = 2 + Len(body) + Len(proof) + Len(inputs)
  BY <1>1, <1>2, <1>3, <1>6, <1>8
<1>14. SubSeq(data, 2 + Len(body), Len(data)) = piy
  BY <1>8, <1>13
<1>15. SubSeq(data, 2, 1 + Len(body)) = body
  BY <1>10, <1>13
<1>16. ReadBack(data, x, body, proof, inputs, y)
  BY <1>4, <1>6, <1>11, <1>12, <1>13, <1>14, <1>15 DEF ReadBack
<1> QED
  BY <1>5, <1>16, Zenon DEF xb, piy, data

(* The recursion of FlattenSeq over the first n of the parts. *)
FlatStep(ss, f, i) == IF i = 1 THEN ss[i] ELSE f[i - 1] \o ss[i]
SameUpTo(ss, tt, n) == \A i \in 1..n : ss[i] = tt[i]
IsFlat(f, ss, n) == f = [i \in 1..n |-> FlatStep(ss, f, i)]

(* The recursion has a solution ... *)
LEMMA FlatExists ==
    ASSUME NEW ss
    PROVE  \A n \in Nat : \E f : IsFlat(f, ss, n)
<1> DEFINE A == {n \in Nat : \E f : IsFlat(f, ss, n)}
<1>1. 0 \in A
  <2> DEFINE f == [i \in 1..0 |-> 0]
  <2>1. f = [i \in 1..0 |-> FlatStep(ss, f, i)]
    <3>1. \A i \in 1..0 : FALSE
      OBVIOUS
    <3> QED BY <3>1
  <2> QED BY <2>1 DEF IsFlat
<1>2. ASSUME NEW n \in Nat, n \in A
      PROVE  n + 1 \in A
  <2>1. PICK f : IsFlat(f, ss, n)
    BY <1>2
  <2> DEFINE g == [i \in 1..n + 1 |-> FlatStep(ss, f, i)]
  <2>2. \A i \in 1..n : f[i] = FlatStep(ss, f, i)
    BY <2>1 DEF IsFlat
  <2>3. ASSUME NEW i \in 1..n + 1
        PROVE  FlatStep(ss, f, i) = FlatStep(ss, g, i)
    <3>1. CASE i = 1
      BY <3>1 DEF FlatStep
    <3>2. CASE i # 1
      <4>1. i - 1 \in 1..n /\ i - 1 \in 1..n + 1
        BY <3>2
      <4>2. g[i - 1] = f[i - 1]
        BY <2>2, <4>1
      <4> QED BY <3>2, <4>2 DEF FlatStep
    <3> QED BY <3>1, <3>2
  <2>4. g = [i \in 1..n + 1 |-> FlatStep(ss, g, i)]
    BY <2>3
  <2>5. \E h : IsFlat(h, ss, n + 1)
    BY <2>4 DEF IsFlat
  <2> QED BY <2>5
<1> HIDE DEF A
<1>3. \A n \in Nat : n \in A
  BY <1>1, <1>2, InductionBySet
<1> QED BY <1>3 DEF A

(* ... which no longer part changes. *)
LEMMA FlatUnique ==
    ASSUME NEW ss, NEW tt, NEW m \in Nat, NEW n \in Nat, NEW f, NEW g, m <= n,
           SameUpTo(ss, tt, m), IsFlat(f, ss, m), IsFlat(g, tt, n)
    PROVE  SameUpTo(f, g, m)
<1> DEFINE A == {i \in Nat : i \in 1..m => f[i] = g[i]}
<1>1. 0 \in A
  OBVIOUS
<1>2. ASSUME NEW i \in Nat, i \in A
      PROVE  i + 1 \in A
  <2> SUFFICES ASSUME i + 1 \in 1..m PROVE f[i + 1] = g[i + 1]
    OBVIOUS
  <2>1. i + 1 \in 1..n
    OBVIOUS
  <2>2. f[i + 1] = FlatStep(ss, f, i + 1) /\ g[i + 1] = FlatStep(tt, g, i + 1)
    BY <2>1 DEF IsFlat
  <2>3. CASE i = 0
    BY <2>2, <2>3 DEF FlatStep, SameUpTo
  <2>4. CASE i # 0
    <3>1. i \in 1..m /\ i + 1 # 1 /\ (i + 1) - 1 = i
      BY <2>4
    <3>2. f[i] = g[i]
      BY <1>2, <3>1
    <3> QED BY <2>2, <3>1, <3>2 DEF FlatStep, SameUpTo
  <2> QED BY <2>3, <2>4
<1> HIDE DEF A
<1>3. \A i \in Nat : i \in A
  BY <1>1, <1>2, InductionBySet
<1> QED BY <1>3 DEF A, SameUpTo

(* Flattening one part more appends it. *)
LEMMA FlattenAppend ==
    ASSUME NEW S, NEW ss \in Seq(Seq(S)), NEW s \in Seq(S), FlattenSeq(ss) \in Seq(S)
    PROVE  /\ FlattenSeq(Append(ss, s)) = FlattenSeq(ss) \o s
           /\ FlattenSeq(Append(ss, s)) \in Seq(S)
<1> DEFINE n == Len(ss)
           tt == Append(ss, s)
           Flat(uu) == CHOOSE f : f = [i \in 1..Len(uu) |-> FlatStep(uu, f, i)]
<1>1. /\ n \in Nat /\ Len(tt) = n + 1 /\ tt[n + 1] = s
      /\ \A i \in 1..n : ss[i] = tt[i]
  OBVIOUS
<1>2. ASSUME NEW uu
      PROVE  FlattenSeq(uu) = IF Len(uu) = 0 THEN uu ELSE Flat(uu)[Len(uu)]
  BY DEF FlattenSeq, FlatStep
<1>3. ASSUME NEW uu, Len(uu) \in Nat
      PROVE  IsFlat(Flat(uu), uu, Len(uu))
  BY <1>3, FlatExists DEF IsFlat
<1> HIDE DEF Flat, tt
<1>4. IsFlat(Flat(ss), ss, n) /\ IsFlat(Flat(tt), tt, n + 1)
  <2>1. IsFlat(Flat(ss), ss, Len(ss))
    BY <1>1, <1>3
  <2>2. Len(tt) \in Nat
    BY <1>1
  <2>3. IsFlat(Flat(tt), tt, Len(tt))
    BY <1>3, <2>2
  <2> QED BY <1>1, <2>1, <2>3
<1>5. FlattenSeq(tt) = FlatStep(tt, Flat(tt), n + 1)
  <2>1. FlattenSeq(tt) = Flat(tt)[Len(tt)]
    BY <1>1, <1>2
  <2> HIDE DEF n
  <2>2. n + 1 \in 1..n + 1
    BY <1>1
  <2> QED BY <1>1, <1>4, <2>1, <2>2 DEF IsFlat
<1>6. CASE n = 0
  <2>1. FlattenSeq(ss) = ss
    BY <1>2, <1>6
  <2>2. ss = <<>>
    BY <1>6, EmptySeq
  <2>3. FlattenSeq(tt) = s
    BY <1>1, <1>5, <1>6 DEF FlatStep
  <2>4. <<>> \o s = s
    OBVIOUS
  <2> QED BY <2>1, <2>2, <2>3, <2>4 DEF tt
<1>7. CASE n # 0
  <2>1. FlattenSeq(ss) = Flat(ss)[n]
    BY <1>2, <1>7
  <2>2. n \in 1..n /\ n <= n + 1 /\ n + 1 \in Nat /\ n + 1 # 1 /\ (n + 1) - 1 = n
    BY <1>1, <1>7
  <2> HIDE DEF n
  <2>3. \A i \in 1..n : Flat(ss)[i] = Flat(tt)[i]
    <3> DEFINE all == n + 1
               f == Flat(ss)
               g == Flat(tt)
    <3>1. /\ n \in Nat /\ all \in Nat /\ n <= all
          /\ SameUpTo(ss, tt, n)
          /\ IsFlat(f, ss, n) /\ IsFlat(g, tt, all)
      BY <1>1, <1>4, <2>2 DEF SameUpTo
    <3> HIDE DEF all, f, g
    <3>2. SameUpTo(f, g, n)
      BY <3>1, FlatUnique
    <3> QED BY <3>2 DEF SameUpTo, f, g
  <2>4. FlattenSeq(tt) = Flat(ss)[n] \o s
    BY <1>1, <1>5, <2>2, <2>3 DEF FlatStep
  <2>5. FlattenSeq(ss) \o s \in Seq(S)
    OBVIOUS
  <2> QED BY <2>1, <2>4, <2>5 DEF tt
<1> QED BY <1>6, <1>7

-----------------------------------------------------------------------------
(* Folds over finite sets, as MapThenFoldSet takes them: one element at a time,
   in the order of a choice function. *)

IsChoice(c, S) == \A s \in SUBSET S : s # {} => c[s] \in s

FoldStep(op, base, c, g, s) == IF s = {} THEN base ELSE op[c[s]][g[s \ {c[s]}]]

(* g[s] is the fold of op over s, for every subset s of S. *)
IsFold(g, op, base, c, S) ==
    g = [s \in SUBSET S |-> FoldStep(op, base, c, g, s)]

(* Removing the chosen element makes a finite set smaller. *)
LEMMA ChoiceSmaller ==
    ASSUME NEW S, IsFiniteSet(S), NEW c, IsChoice(c, S)
    PROVE  \A s \in SUBSET S :
             /\ Cardinality(s) \in Nat
             /\ Cardinality(s) <= Cardinality(S)
             /\ Cardinality(s) <= 0 => s = {}
             /\ s # {} => /\ c[s] \in s
                          /\ s \ {c[s]} \in SUBSET S
                          /\ Cardinality(s \ {c[s]}) = Cardinality(s) - 1
<1> SUFFICES ASSUME NEW s \in SUBSET S
             PROVE  /\ Cardinality(s) \in Nat
                    /\ Cardinality(s) <= Cardinality(S)
                    /\ Cardinality(s) <= 0 => s = {}
                    /\ s # {} => /\ c[s] \in s
                                 /\ s \ {c[s]} \in SUBSET S
                                 /\ Cardinality(s \ {c[s]}) = Cardinality(s) - 1
  OBVIOUS
<1>1. s # {} => c[s] \in s
  BY DEF IsChoice
<1>2. IsFiniteSet(s) /\ Cardinality(s) <= Cardinality(S)
  BY FS_Subset
<1>3. Cardinality(s) \in Nat /\ (Cardinality(s) = 0 <=> s = {})
  BY <1>2, FS_CardinalityType, FS_EmptySet
<1>4. s # {} => Cardinality(s \ {c[s]}) = Cardinality(s) - 1
  BY <1>1, <1>2, FS_RemoveElement
<1>5. Cardinality(s) <= 0 => s = {}
  BY <1>3
<1> QED
  BY <1>1, <1>2, <1>3, <1>4, <1>5

(* Induction over the subsets of a finite set. *)
LEMMA SubsetInduction ==
    ASSUME NEW S, IsFiniteSet(S), NEW c, IsChoice(c, S), NEW A, {} \in A,
           \A s \in SUBSET S : s # {} /\ s \ {c[s]} \in A => s \in A
    PROVE  S \in A
<1> DEFINE N == {n \in Nat : \A s \in SUBSET S : Cardinality(s) <= n => s \in A}
<1>1. 0 \in N
  <2>1. \A s \in SUBSET S : Cardinality(s) <= 0 => s = {}
    BY ChoiceSmaller
  <2> QED
    BY <2>1
<1>2. ASSUME NEW n \in Nat, n \in N
      PROVE  n + 1 \in N
  <2>1. ASSUME NEW s \in SUBSET S, Cardinality(s) <= n + 1, s # {}
        PROVE  s \in A
    <3>1. s \ {c[s]} \in SUBSET S /\ Cardinality(s \ {c[s]}) <= n
      BY <2>1, ChoiceSmaller
    <3> QED
      BY <1>2, <2>1, <3>1
  <2>2. \A s \in SUBSET S : Cardinality(s) <= n + 1 => s \in A
    BY <2>1
  <2> QED
    BY <2>2
<1> HIDE DEF N
<1>3. Cardinality(S) \in N
  BY <1>1, <1>2, InductionBySet, FS_CardinalityType
<1> QED
  BY <1>3, FS_CardinalityType DEF N

(* One step of a fold stays among the values of the operator. *)
LEMMA FoldStepType ==
    ASSUME NEW S, IsFiniteSet(S), NEW c, IsChoice(c, S), NEW V, NEW base \in V,
           NEW op \in [S -> [V -> V]], NEW g, NEW s \in SUBSET S,
           s # {} => g[s \ {c[s]}] \in V
    PROVE  FoldStep(op, base, c, g, s) \in V
<1>1. s # {} => c[s] \in S
  BY DEF IsChoice
<1> QED
  BY <1>1 DEF FoldStep

(* Every operator has its fold: extend it to larger and larger subsets. *)
LEMMA FoldExists ==
    ASSUME NEW S, IsFiniteSet(S), NEW c, IsChoice(c, S), NEW V, NEW base \in V,
           NEW op \in [S -> [V -> V]]
    PROVE  \E g \in [SUBSET S -> V] : IsFold(g, op, base, c, S)
<1> DEFINE Step(g, s) == FoldStep(op, base, c, g, s)
           N == {n \in Nat : \E g \in [SUBSET S -> V] : \A s \in SUBSET S :
                    Cardinality(s) <= n => g[s] = Step(g, s)}
<1>1. 0 \in N
  <2> DEFINE g == [s \in SUBSET S |-> base]
  <2>1. g \in [SUBSET S -> V]
    OBVIOUS
  <2>2. \A s \in SUBSET S : Cardinality(s) <= 0 => g[s] = Step(g, s)
    <3>1. \A s \in SUBSET S : Cardinality(s) <= 0 => s = {}
      BY ChoiceSmaller
    <3> QED
      BY <3>1 DEF FoldStep
  <2> QED
    BY <2>1, <2>2
<1>2. ASSUME NEW n \in Nat, n \in N
      PROVE  n + 1 \in N
  <2>1. PICK g \in [SUBSET S -> V] : \A s \in SUBSET S :
                    Cardinality(s) <= n => g[s] = Step(g, s)
    BY <1>2
  <2> DEFINE k == [s \in SUBSET S |-> Step(g, s)]
  <2>2. k \in [SUBSET S -> V]
    <3>1. ASSUME NEW s \in SUBSET S
          PROVE  Step(g, s) \in V
      <4>1. s \ {c[s]} \in SUBSET S
        OBVIOUS
      <4>2. g[s \ {c[s]}] \in V
        BY <4>1
      <4> QED
        BY <4>2, FoldStepType
    <3> HIDE DEF Step
    <3> QED
      BY <3>1
  <2>3. ASSUME NEW s \in SUBSET S, Cardinality(s) <= n + 1
        PROVE  k[s] = Step(k, s)
    <3>1. CASE s = {}
      BY <3>1 DEF FoldStep
    <3>2. CASE s # {}
      <4>1. s \ {c[s]} \in SUBSET S /\ Cardinality(s \ {c[s]}) <= n
        BY <3>2, <2>3, ChoiceSmaller
      <4>2. g[s \ {c[s]}] = k[s \ {c[s]}]
        BY <4>1, <2>1
      <4> HIDE DEF k
      <4>3. Step(g, s) = Step(k, s)
        BY <4>2 DEF FoldStep
      <4> QED
        BY <4>3 DEF k
    <3> QED
      BY <3>1, <3>2
  <2> HIDE DEF k
  <2> QED
    BY <2>2, <2>3
<1> HIDE DEF N, Step
<1>3. Cardinality(S) \in N
  BY <1>1, <1>2, InductionBySet, FS_CardinalityType
<1>4. PICK g \in [SUBSET S -> V] : \A s \in SUBSET S :
                    Cardinality(s) <= Cardinality(S) => g[s] = Step(g, s)
  BY <1>3 DEF N
<1>5. \A s \in SUBSET S : Cardinality(s) <= Cardinality(S)
  BY ChoiceSmaller
<1>6. g = [s \in SUBSET S |-> Step(g, s)]
  BY <1>4, <1>5
<1> QED
  BY <1>6 DEF IsFold, Step

-----------------------------------------------------------------------------
(* The codecs. *)

(* data[offset..]: what is left after the header. *)
LEMMA FromProperties ==
    ASSUME NEW Cell, NEW data \in Seq(Cell), NEW offset \in Nat,
           offset <= Len(data)
    PROVE  /\ From(data, offset) \in Seq(Cell)
           /\ Len(From(data, offset)) = Len(data) - offset
           /\ \A i \in 1..(Len(data) - offset) :
                From(data, offset)[i] = data[offset + i]
<1> DEFINE rest == SubSeq(data, offset + 1, Len(data))
<1>1. Len(data) \in Nat /\ \A i \in (offset + 1)..Len(data) : data[i] \in Cell
  OBVIOUS
<1>2. rest \in Seq(Cell)
  BY <1>1, SubSeqProperties
<1>3. Len(rest) = Len(data) - offset
  <2>1. CASE offset + 1 <= Len(data)
    BY <1>1, <2>1, SubSeqProperties
  <2>2. CASE offset = Len(data)
    BY <1>1, <2>2, SubSeqEmpty
  <2> QED
    BY <1>1, <2>1, <2>2
<1>4. ASSUME NEW i \in 1..(Len(data) - offset)
      PROVE  rest[i] = data[offset + i]
  <2>1. rest[i] = data[(offset + 1) + i - 1]
    BY <1>1, SubSeqProperties
  <2> QED
    BY <2>1
<1> QED
  BY <1>2, <1>3, <1>4 DEF From

(* Copying a slice into account data keeps its length and its cells' type,
   and reaches nothing before the slice: Write cannot touch the header. *)
LEMMA CopyFromSlice ==
    ASSUME NEW Cell, NEW data \in Seq(Cell), NEW bytes \in Seq(Cell),
           NEW start \in Nat,
           NEW copied, copied = copy_from_slice(data, start, bytes)
    PROVE  /\ copied \in Seq(Cell)
           /\ Len(copied) = Len(data)
           /\ \A i \in 1..Len(data) : i <= start => copied[i] = data[i]
           /\ \A i \in 1..Len(data) :
                start < i /\ i <= start + Len(bytes) => copied[i] = bytes[i - start]
<1>1. DOMAIN data = 1..Len(data) /\ DOMAIN bytes = 1..Len(bytes)
           /\ Len(data) \in Nat /\ Len(bytes) \in Nat
  OBVIOUS
<1>2. copied = [i \in 1..Len(data) |->
                  IF i - start \in 1..Len(bytes) THEN bytes[i - start] ELSE data[i]]
  BY <1>1 DEF copy_from_slice
<1>3. \A i \in 1..Len(data) : copied[i] \in Cell
  BY <1>1, <1>2
<1>4. copied \in Seq(Cell) /\ Len(copied) = Len(data)
  BY <1>1, <1>2, <1>3, IsASeq, LenProperties
<1> QED
  BY <1>1, <1>2, <1>4

(* The staging header that InitializeStaging writes is the one that Write,
   Publish and CloseStaging read; the length is kept. *)
LEMMA StagingHeader ==
    ASSUME NEW Cell, {0, 2} \subseteq Cell,
           NEW data \in Seq(Cell), Len(data) >= STAGING_HEADER_LEN,
           NEW n \in Cell, NEW authority \in Cell,
           NEW written, written = write_staging_header(data, n, authority)
    PROVE  /\ written \in Seq(Cell)
           /\ Len(written) = Len(data)
           /\ At(written, DISCRIMINATOR_OFFSET) = DISCRIMINATOR_STAGING
           /\ read_n(written) = n
           /\ StagingAuthority(written) = authority
<1> DEFINE head == <<DISCRIMINATOR_STAGING, 0, n, 0, authority>>
           rest == StagingBody(data)
<1>1. rest \in Seq(Cell) /\ Len(rest) = Len(data) - 5
  BY FromProperties DEF StagingBody, STAGING_HEADER_LEN
<1>2. head \in Seq(Cell) /\ Len(head) = 5
  BY DEF DISCRIMINATOR_STAGING
<1>3. write_staging_header(data, n, authority) = head \o rest
  BY DEF write_staging_header
<1>4. /\ head \o rest \in Seq(Cell)
      /\ Len(head \o rest) = Len(data)
      /\ \A i \in 1..5 : (head \o rest)[i] = head[i]
  BY <1>1, <1>2, ConcatProperties
<1> QED
  BY <1>3, <1>4 DEF At, DISCRIMINATOR_OFFSET, DISCRIMINATOR_STAGING, read_n,
     NUM_PUBLIC_INPUTS_OFFSET, StagingAuthority, STAGING_AUTHORITY_OFFSET

(* A key account filled by Publish, header then body, reads back as a key
   account for exactly that n, bump and body. *)
LEMMA KeyAccountData ==
    ASSUME NEW Cell, {0, 1} \subseteq Cell,
           NEW n \in 0..MAX_PUBLIC_INPUTS, n \in Cell, NEW bump \in Cell,
           NEW body \in Seq(Cell), Len(body) = vk_body_len(n),
           NEW blank \in Seq(Cell), Len(blank) = key_account_len(n),
           NEW data,
           data = copy_from_slice(write_key_header(blank, bump, n),
                                  KEY_HEADER_LEN, body)
    PROVE  /\ data \in Seq(Cell)
           /\ Len(data) = key_account_len(n)
           /\ At(data, DISCRIMINATOR_OFFSET) = DISCRIMINATOR_KEY
           /\ At(data, KEY_BUMP_OFFSET) = bump
           /\ read_n(data) = n
           /\ KeyBody(data) = body
           /\ read_key_account(data) = Ok
<1> DEFINE head == <<DISCRIMINATOR_KEY, bump, n, 0>>
           rest == KeyBody(blank)
           headed == write_key_header(blank, bump, n)
           len == key_account_len(n)
<1>1. vk_body_len(n) \in Nat /\ len = 4 + vk_body_len(n)
  BY LayoutAssumption DEF vk_body_len, key_account_len, KEY_HEADER_LEN
<1>2. rest \in Seq(Cell) /\ Len(rest) = len - 4
  BY <1>1, SubSeqProperties DEF KeyBody, From, KEY_HEADER_LEN
<1>3. head \in Seq(Cell) /\ Len(head) = 4
  BY DEF DISCRIMINATOR_KEY
<1>4. /\ headed \in Seq(Cell)
      /\ Len(headed) = len
      /\ \A i \in 1..4 : headed[i] = head[i]
  BY <1>1, <1>2, <1>3, ConcatProperties DEF write_key_header
<1>5. /\ data \in Seq(Cell)
      /\ Len(data) = len
      /\ \A i \in 1..4 : data[i] = head[i]
      /\ \A i \in 1..Len(body) : data[i + 4] = body[i]
  <2>1. Len(body) \in Nat /\ len = 4 + Len(body)
    BY <1>1
  <2>2. /\ data \in Seq(Cell)
        /\ Len(data) = len
        /\ \A i \in 1..len : i <= 4 => data[i] = headed[i]
        /\ \A i \in 1..len : 4 < i /\ i <= 4 + Len(body) => data[i] = body[i - 4]
    BY <1>4, CopyFromSlice DEF KEY_HEADER_LEN
  <2>3. ASSUME NEW i \in 1..Len(body)
        PROVE  data[i + 4] = body[i]
    <3> i + 4 \in 1..len /\ 4 < i + 4 /\ i + 4 <= 4 + Len(body) /\ (i + 4) - 4 = i
      BY <2>1
    <3> QED
      BY <2>2
  <2> HIDE DEF headed, len, head
  <2>4. \A i \in 1..4 : i \in 1..len /\ i <= 4
    BY <2>1
  <2> QED
    BY <1>4, <2>2, <2>3, <2>4
<1>6. KeyBody(data) = body
  <2>1. KeyBody(data) = SubSeq(data, 5, len)
    BY <1>5 DEF KeyBody, From, KEY_HEADER_LEN
  <2>2. /\ KeyBody(data) \in Seq(Cell)
        /\ Len(KeyBody(data)) = Len(body)
        /\ \A i \in 1..Len(body) : KeyBody(data)[i] = data[i + 4]
    BY <1>1, <1>5, <2>1, SubSeqProperties
  <2> QED
    BY <1>5, <2>2, SeqEqual
<1>7. /\ At(data, DISCRIMINATOR_OFFSET) = DISCRIMINATOR_KEY
      /\ At(data, KEY_BUMP_OFFSET) = bump
      /\ read_n(data) = n
  BY <1>5 DEF At, DISCRIMINATOR_OFFSET, KEY_BUMP_OFFSET, read_n,
     NUM_PUBLIC_INPUTS_OFFSET
<1>8. read_key_account(data) = Ok
  BY <1>1, <1>5, <1>6, <1>7, LayoutAssumption, ThenOk
  DEF read_key_account, from_body_with_len, Ensure, KEY_HEADER_LEN
<1> QED
  BY <1>5, <1>6, <1>7, <1>8
=============================================================================
