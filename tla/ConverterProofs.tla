-------------------------- MODULE ConverterProofs --------------------------
(***************************************************************************)
(* Theorems about the converter, for every file, modulus and curve:        *)
(* whatever a file contains, the parsers read and allocate no more than it *)
(* has room for; what they accept is what gnark writes; what they return   *)
(* decodes to the elements they read; a body that decodes is rebuilt cell  *)
(* for cell.  And for every file that gnark wrote: what it converts to     *)
(* decodes to what gnark held, what the format cannot express is refused,  *)
(* and the same file cut or extended is an error of length.                *)
(***************************************************************************)
EXTENDS GnarkFiles, LayoutProofs

WitnessPc == {"nb_public", "nb_secret", "len", "scalars"}

(* BoundedByInput with the types it needs; a loop never has more rounds left
   than it allocated for, and only the witness parser allocates without the
   limit of a key. *)
BoundInv ==
    /\ file \in File
    /\ pos \in 0..Len(file.bytes)
    /\ IsSequence(read) /\ IsSequence(counts)
    /\ left \in Nat /\ capacity \in Nat
    /\ pc \in {"ic", "scalars"} => left <= capacity
    /\ pc \in WitnessPc => file.kind = "witness"
    /\ BoundedByInput

-----------------------------------------------------------------------------
(* The reader never stands past the end. *)
LEMMA FileTyped ==
    ASSUME BoundInv
    PROVE  /\ file.bytes \in Seq(0..Radix - 1) /\ Len(file.bytes) \in Nat
           /\ Remaining \in Nat
<1>1. file.bytes \in Seq(0..Radix - 1)
  BY FileAssumption DEF BoundInv
<1>2. Len(file.bytes) \in Nat
  BY <1>1
<1>3. Remaining \in Nat
  BY <1>2 DEF BoundInv, Remaining
<1> QED BY <1>1, <1>2, <1>3

(* A point takes one or two coordinates. *)
LEMMA PointSizes ==
    ASSUME NEW g
    PROVE  SizeOf(g) \in {2, 4, 8}
<1>1. PointSize(g) \in {4, 8}
  BY WireAssumption DEF PointSize, G2_SIZE, FQ_SIZE
<1> QED BY <1>1 DEF SizeOf

(* What was read was there. *)
LEMMA PointFits ==
    ASSUME BoundInv, NEW g, ReadPoint(g).outcome = Ok
    PROVE  SizeOf(g) <= Remaining
<1>1. CASE Remaining = 0
  BY <1>1 DEF ReadPoint, Fail, Ok
<1>2. CASE Remaining # 0
  <2>1. take(SizeOf(g)).outcome = Ok
    BY <1>2 DEF ReadPoint
  <2>2. ~(SizeOf(g) > Remaining)
    BY <2>1 DEF take, Fail, Ok
  <2> QED BY <2>2, PointSizes, FileTyped
<1> QED BY <1>1, <1>2

(* A count that was read is a cell of the file. *)
LEMMA CountFits ==
    ASSUME BoundInv, u32.outcome = Ok
    PROVE  N \in Nat /\ Remaining >= 1
<1>1. ~(U32_SIZE > Remaining)
  BY DEF u32, take, Fail, Ok
<1>2. Remaining >= 1
  BY <1>1, FileTyped DEF U32_SIZE
<1>3. u32.value = SubSeq(file.bytes, pos + 1, pos + 1)
  BY <1>1 DEF u32, take, Done, Slice, U32_SIZE
<1>4. pos \in Nat /\ pos + 1 \in 1..Len(file.bytes)
  BY <1>2, FileTyped DEF BoundInv, Remaining
<1>5. /\ file.bytes[pos + 1] \in 0..Radix - 1
      /\ SubSeq(file.bytes, pos + 1, pos + 1)[1] = file.bytes[pos + 1]
  BY <1>4, FileTyped, CellAt
<1>6. N \in 0..Radix - 1
  BY <1>3, <1>5 DEF N
<1> QED BY <1>2, <1>6, WireAssumption

-----------------------------------------------------------------------------
(* A return changes nothing that counts. *)
LEMMA ReturnKeeps ==
    ASSUME BoundInv, NEW r, Return(r)
    PROVE  BoundInv'
BY DEF BoundInv, Return, BoundedByInput, Remaining, WitnessPc

(* A point read outside the loops, or in the loop over IC. *)
LEMMA PointKeeps ==
    ASSUME BoundInv, NEW g, NEW next, PointRead(g, next),
           next \notin WitnessPc,
           next = "ic" => pc = "ic" /\ left > 0
    PROVE  BoundInv'
<1>1. CASE ReadPoint(g).outcome # Ok
  BY <1>1, ReturnKeeps DEF PointRead
<1>2. CASE ReadPoint(g).outcome = Ok
  <2>1. SizeOf(g) <= Remaining /\ SizeOf(g) \in {2, 4, 8}
    BY <1>2, PointFits, PointSizes
  <2>2. /\ read' = Append(read, ReadPoint(g).value) /\ pos' = pos + SizeOf(g)
        /\ pc' = next /\ left' = (IF left > 0 THEN left - 1 ELSE 0)
        /\ UNCHANGED <<file, counts, capacity, result>>
    BY <1>2 DEF PointRead
  <2>3. IsSequence(read)' /\ Len(read)' = Len(read) + 1 /\ Len(read) \in Nat
    BY <2>2, AppendGrows DEF BoundInv
  <2>4. Len(counts) \in Nat
    BY AppendGrows DEF BoundInv
  <2>5. pos' \in 0..Len(file.bytes)
    BY <2>1, <2>2, FileTyped DEF BoundInv, Remaining
  <2>6. BoundedByInput'
    <3>1. pc' \in {"ic", "scalars"} => left' # capacity' /\ left' <= capacity'
      BY <2>2 DEF BoundInv, WitnessPc
    <3>2. (file.kind = "key" => capacity <= MAX_PUBLIC_INPUTS + 1)'
      BY <2>2 DEF BoundInv, BoundedByInput
    <3>3. (Len(read) + Len(counts) <= pos)'
      BY <2>1, <2>2, <2>3, <2>4, FileTyped DEF BoundInv, BoundedByInput
    <3>4. (pos <= Len(file.bytes))'
      BY <2>2, <2>5, FileTyped
    <3> QED BY <3>1, <3>2, <3>3, <3>4 DEF BoundedByInput
  <2> QED BY <2>2, <2>3, <2>5, <2>6 DEF BoundInv, WitnessPc
<1> QED BY <1>1, <1>2

(* A count read: the loop and the room it asks for are bounded by its checks. *)
LEMMA CountKeeps ==
    ASSUME BoundInv, NEW checks, NEW next, NEW loop, NEW room,
           CountRead(checks, next, loop, room),
           u32.outcome = Ok /\ checks = Ok =>
             /\ loop \in Nat /\ room \in Nat
             /\ next \in {"ic", "scalars"} =>
                  loop <= room /\ room * FQ_SIZE <= Remaining - U32_SIZE
             /\ next \in WitnessPc => file.kind = "witness"
             /\ file.kind = "key" => room <= MAX_PUBLIC_INPUTS + 1
    PROVE  BoundInv'
<1>1. CASE (u32.outcome ?? checks) # Ok
  BY <1>1, ReturnKeeps DEF CountRead
<1>2. CASE (u32.outcome ?? checks) = Ok
  <2>1. u32.outcome = Ok /\ checks = Ok
    BY <1>2, ThenOk
  <2>2. N \in Nat /\ Remaining >= 1
    BY <2>1, CountFits
  <2>3. /\ counts' = Append(counts, N) /\ pos' = pos + 1 /\ pc' = next
        /\ left' = loop /\ capacity' = room /\ UNCHANGED <<file, read, result>>
    BY <1>2 DEF CountRead, U32_SIZE
  <2>4. IsSequence(counts)' /\ Len(counts)' = Len(counts) + 1 /\ Len(counts) \in Nat
    BY <2>3, AppendGrows DEF BoundInv
  <2>5. Len(read) \in Nat
    BY AppendGrows DEF BoundInv
  <2>6. pos' \in 0..Len(file.bytes) /\ Remaining' = Remaining - 1
    BY <2>2, <2>3, FileTyped DEF BoundInv, Remaining
  <2>7. BoundedByInput'
    <3>1. (pc \in {"ic", "scalars"} /\ left = capacity =>
             capacity * FQ_SIZE <= Remaining)'
      BY <2>1, <2>3, <2>6 DEF U32_SIZE, FQ_SIZE
    <3>2. (file.kind = "key" => capacity <= MAX_PUBLIC_INPUTS + 1)'
      BY <2>1, <2>3
    <3>3. (Len(read) + Len(counts) <= pos)'
      BY <2>3, <2>4, <2>5, FileTyped DEF BoundInv, BoundedByInput
    <3>4. (pos <= Len(file.bytes))'
      BY <2>3, <2>6, FileTyped
    <3> QED BY <3>1, <3>2, <3>3, <3>4 DEF BoundedByInput
  <2> QED BY <2>1, <2>3, <2>4, <2>6, <2>7 DEF BoundInv
<1> QED BY <1>1, <1>2

-----------------------------------------------------------------------------
(* A count that passes ensure_remaining leaves room for that many elements. *)
LEMMA RoomFor ==
    ASSUME NEW count, NEW size, ensure_remaining(count, size) = Ok
    PROVE  count * size <= Remaining - U32_SIZE
BY DEF ensure_remaining, Ensure, Ok

(* The steps of parse_verifying_key keep BoundInv ... *)
LEMMA KeyKeeps ==
    ASSUME BoundInv,
           KeyPoint \/ KeyLen \/ KeyIc \/ KeyOuter \/ KeyInner
             \/ KeyCommitmentKeys \/ KeyEnd
    PROVE  BoundInv'
<1>1. CASE KeyPoint
  <2> DEFINE k == Len(read) + 1
             after == IF k = Len(KeyPoints) THEN "k_len" ELSE pc
  <2>1. PointRead(KeyPoints[k], after) /\ pc = "key points"
    BY <1>1 DEF KeyPoint
  <2>2. after \in {"k_len", "key points"}
    BY <2>1
  <2> HIDE DEF after
  <2> QED BY <2>1, <2>2, PointKeeps DEF WitnessPc
<1>2. CASE KeyLen
  <2> DEFINE checks == ensure_remaining(N, FQ_SIZE)
                         ?? Ensure(N <= MAX_PUBLIC_INPUTS + 1, "TooManyPublicInputs")
  <2>1. CountRead(checks, "ic", N, N)
    BY <1>2 DEF KeyLen
  <2>2. ASSUME u32.outcome = Ok, checks = Ok
        PROVE  /\ N \in Nat /\ N * FQ_SIZE <= Remaining - U32_SIZE
               /\ N <= MAX_PUBLIC_INPUTS + 1
    <3>1. /\ ensure_remaining(N, FQ_SIZE) = Ok
          /\ Ensure(N <= MAX_PUBLIC_INPUTS + 1, "TooManyPublicInputs") = Ok
      BY <2>2, ThenOk
    <3>2. N \in Nat
      BY <2>2, CountFits
    <3>3. N <= MAX_PUBLIC_INPUTS + 1
      BY <3>1 DEF Ensure, Ok
    <3> QED BY <3>1, <3>2, <3>3, RoomFor
  <2> HIDE DEF checks
  <2> QED BY <2>1, <2>2, CountKeeps DEF WitnessPc
<1>3. CASE KeyIc
  BY <1>3, PointKeeps DEF KeyIc, WitnessPc
<1>4. CASE KeyOuter
  BY <1>4, CountFits, CountKeeps DEF KeyOuter, WitnessPc, BoundInv, BoundedByInput
<1>5. CASE KeyInner
  <2>1. /\ CountRead(Ensure(N = 0, "Unsupported"), "inner", left - 1, capacity)
        /\ left - 1 \in Nat
    BY <1>5 DEF KeyInner, BoundInv
  <2> QED BY <2>1, CountKeeps DEF WitnessPc, BoundInv, BoundedByInput
<1>6. CASE KeyCommitmentKeys
  BY <1>6, CountKeeps DEF KeyCommitmentKeys, WitnessPc, BoundInv, BoundedByInput
<1>7. CASE KeyEnd
  BY <1>7, ReturnKeeps DEF KeyEnd
<1> QED BY <1>1, <1>2, <1>3, <1>4, <1>5, <1>6, <1>7

(* ... and those of parse_proof ... *)
LEMMA ProofKeeps ==
    ASSUME BoundInv, ProofPoint \/ ProofCommitments \/ ProofPok \/ ProofEnd
    PROVE  BoundInv'
<1>1. CASE ProofPoint
  <2> DEFINE k == Len(read) + 1
             after == IF k = Len(ProofPoints) THEN "commitments" ELSE pc
  <2>1. PointRead(ProofPoints[k], after) /\ pc = "proof points"
    BY <1>1 DEF ProofPoint
  <2>2. after \in {"commitments", "proof points"}
    BY <2>1
  <2> HIDE DEF after
  <2> QED BY <2>1, <2>2, PointKeeps DEF WitnessPc
<1>2. CASE ProofCommitments
  BY <1>2, CountKeeps DEF ProofCommitments, WitnessPc, BoundInv, BoundedByInput
<1>3. CASE ProofPok
  BY <1>3, PointKeeps DEF ProofPok, WitnessPc
<1>4. CASE ProofEnd
  BY <1>4, ReturnKeeps DEF ProofEnd
<1> QED BY <1>1, <1>2, <1>3, <1>4

(* ... and those of parse_public_witness. *)
LEMMA WitnessKeeps ==
    ASSUME BoundInv,
           WitnessPublic \/ WitnessSecret \/ WitnessLen \/ WitnessScalar \/ WitnessEnd
    PROVE  BoundInv'
<1>1. CASE WitnessPublic
  <2>1. CountRead(Ok, "nb_secret", 0, 0) /\ file.kind = "witness"
    BY <1>1 DEF WitnessPublic, BoundInv, WitnessPc
  <2> QED BY <2>1, CountKeeps
<1>2. CASE WitnessSecret
  <2>1. CountRead(Ensure(N = 0, "Unsupported"), "len", 0, 0) /\ file.kind = "witness"
    BY <1>2 DEF WitnessSecret, BoundInv, WitnessPc
  <2> QED BY <2>1, CountKeeps
<1>3. CASE WitnessLen
  <2> DEFINE checks == Ensure(N = counts[1], "Unsupported")
                         ?? ensure_remaining(N, FR_SIZE)
  <2>1. CountRead(checks, "scalars", N, N) /\ file.kind = "witness"
    BY <1>3 DEF WitnessLen, BoundInv, WitnessPc
  <2>2. ASSUME u32.outcome = Ok, checks = Ok
        PROVE  N \in Nat /\ N * FQ_SIZE <= Remaining - U32_SIZE
    <3>1. ensure_remaining(N, FR_SIZE) = Ok
      BY <2>2, ThenOk
    <3> QED BY <2>2, <3>1, RoomFor, CountFits DEF FR_SIZE, FQ_SIZE
  <2> HIDE DEF checks
  <2> QED BY <2>1, <2>2, CountKeeps DEF WitnessPc
<1>4. CASE WitnessScalar
  <2>1. CASE fr.outcome # Ok
    BY <1>4, <2>1, ReturnKeeps DEF WitnessScalar
  <2>2. CASE fr.outcome = Ok
    <3>1. /\ read' = Append(read, fr.value) /\ pos' = pos + FR_SIZE
          /\ left' = left - 1 /\ left > 0 /\ pc = "scalars"
          /\ UNCHANGED <<file, pc, counts, capacity, result>>
      BY <1>4, <2>2 DEF WitnessScalar
    <3>2. FR_SIZE <= Remaining
      <4>1. take(FR_SIZE).outcome = Ok
        BY <2>2 DEF fr
      <4> QED BY <4>1, FileTyped DEF take, Fail, Ok, FR_SIZE
    <3>3. IsSequence(read)' /\ Len(read)' = Len(read) + 1 /\ Len(read) \in Nat
      BY <3>1, AppendGrows DEF BoundInv
    <3>4. Len(counts) \in Nat
      BY AppendGrows DEF BoundInv
    <3>5. pos' \in 0..Len(file.bytes)
      BY <3>1, <3>2, FileTyped DEF BoundInv, Remaining, FR_SIZE
    <3>6. left' \in Nat /\ left' <= capacity' /\ left' # capacity'
      BY <3>1 DEF BoundInv
    <3>7. (Len(read) + Len(counts) <= pos)'
      BY <3>1, <3>3, <3>4, FileTyped DEF BoundInv, BoundedByInput, FR_SIZE
    <3>8. BoundedByInput'
      BY <3>1, <3>5, <3>6, <3>7, FileTyped DEF BoundInv, BoundedByInput
    <3> QED BY <3>1, <3>3, <3>5, <3>6, <3>8 DEF BoundInv
  <2> QED BY <2>1, <2>2
<1>5. CASE WitnessEnd
  BY <1>5, ReturnKeeps DEF WitnessEnd
<1> QED BY <1>1, <1>2, <1>3, <1>4, <1>5

-----------------------------------------------------------------------------
(* BoundInv is an invariant of the converter. *)
LEMMA BoundInvariant == Spec => []BoundInv
<1>1. Init => BoundInv
  <2> SUFFICES ASSUME Init PROVE BoundInv
    OBVIOUS
  <2>1. /\ file.bytes \in Seq(0..Radix - 1)
        /\ file.kind \in {"key", "proof", "witness", "body"}
    BY FileAssumption DEF Init
  <2>2. Len(file.bytes) \in Nat
    BY <2>1
  <2>3. IsSequence(<<>>) /\ Len(<<>>) = 0
    BY <<>> \in Seq({}) DEF IsSequence
  <2>4. /\ pc \notin {"ic", "scalars"}
        /\ pc \in WitnessPc => file.kind = "witness"
    <3>1. pc = Entry[file.kind]
      BY DEF Init
    <3>2. /\ Entry["key"] = "key points" /\ Entry["proof"] = "proof points"
          /\ Entry["body"] = "body" /\ Entry["witness"] = "nb_public"
      BY DEF Entry
    <3> QED BY <2>1, <3>1, <3>2 DEF WitnessPc
  <2>5. BoundedByInput
    BY <2>2, <2>3, <2>4, LayoutAssumption DEF Init, BoundedByInput
  <2> QED BY <2>2, <2>3, <2>4, <2>5 DEF Init, BoundInv
<1>2. BoundInv /\ [Next]_vars => BoundInv'
  <2> SUFFICES ASSUME BoundInv, [Next]_vars PROVE BoundInv'
    OBVIOUS
  <2>1. CASE FromBody
    BY <2>1, ReturnKeeps DEF FromBody
  <2>2. CASE UNCHANGED vars
    BY <2>2 DEF vars, BoundInv, BoundedByInput, Remaining
  <2> QED BY <2>1, <2>2, KeyKeeps, ProofKeeps, WitnessKeeps DEF Next, Returned
<1> QED BY <1>1, <1>2, PTL DEF Spec

(* For every file, of any length and content, every limit on the inputs, every
   modulus and every curve: a parser allocates no more elements than the bytes
   left can hold and no more than a key may have, and never reads past the end. *)
THEOREM AllocationBounded == Spec => []BoundedByInput
<1>1. BoundInv => BoundedByInput
  BY DEF BoundInv
<1> QED BY <1>1, BoundInvariant, PTL

-----------------------------------------------------------------------------
(* The encodings of WireFormat: every element survives being written and read,
   and what can be read is the one encoding of its value. *)
Byte == 0..Radix - 1

(* The constants of the curve, as the encodings use them. *)
LEMMA WireFacts ==
    /\ Radix \in Nat /\ Radix > 0 /\ Q_MODULUS \in Nat /\ Q_MODULUS > 0
    /\ Q_MODULUS <= Radix * Radix
    /\ G1_SIZE = 4 /\ VK_FIXED_SIZE = 28
    /\ PointSize("G1") = 4 /\ PointSize("G2") = 8
BY WireAssumption DEF PointSize, G2_SIZE, FQ_SIZE

(* A number in base r, below r * r, is its two digits. *)
LEMMA Digits ==
    ASSUME NEW r \in Nat, r > 0, NEW x \in Nat, x < r * r
    PROVE  /\ x \div r \in 0..r - 1 /\ x % r \in 0..r - 1
           /\ (x \div r) * r + (x % r) = x
OBVIOUS

(* A number below the modulus is its own remainder ... *)
LEMMA Small ==
    ASSUME NEW q \in Nat, q > 0, NEW x \in 0..q - 1
    PROVE  x % q = x
OBVIOUS

(* ... and every remainder is below the modulus. *)
LEMMA Reduced ==
    ASSUME NEW q \in Nat, q > 0, NEW x \in Nat
    PROVE  x % q \in 0..q - 1
OBVIOUS

(* -x stays in the field, and -(-x) = x. *)
LEMMA NegFq ==
    ASSUME NEW x \in Fq
    PROVE  neg_fq(x) \in Fq /\ neg_fq(neg_fq(x)) = x
<1>1. CASE x = 0
  <2>1. Q_MODULUS % Q_MODULUS = 0 /\ Q_MODULUS - 0 = Q_MODULUS
    BY WireFacts
  <2> QED BY <1>1, <2>1, WireFacts DEF neg_fq, Fq
<1>2. CASE x # 0
  <2>1. Q_MODULUS - x \in 0..Q_MODULUS - 1 /\ Q_MODULUS - (Q_MODULUS - x) = x
    BY <1>2, WireFacts DEF Fq
  <2>2. neg_fq(x) = Q_MODULUS - x
    BY <2>1, WireFacts, Small DEF neg_fq
  <2>3. neg_fq(Q_MODULUS - x) = x
    BY <2>1, WireFacts, Small DEF neg_fq, Fq
  <2> QED BY <2>1, <2>2, <2>3 DEF Fq
<1> QED BY <1>1, <1>2

(* A field element survives its encoding ... *)
LEMMA FqEncoded ==
    ASSUME NEW x \in Fq
    PROVE  /\ fq_to_bytes(x) \in Seq(Byte) /\ Len(fq_to_bytes(x)) = 2
           /\ fq_from_bytes(fq_to_bytes(x)) = Done(x)
<1>1. x \in Nat /\ x < Radix * Radix
  BY WireFacts DEF Fq
<1>2. /\ x \div Radix \in Byte /\ x % Radix \in Byte
      /\ (x \div Radix) * Radix + (x % Radix) = x
  BY <1>1, Digits, WireFacts DEF Byte
<1>3. x % Q_MODULUS = x
  BY Small, WireFacts DEF Fq
<1>4. /\ fq_to_bytes(x)[1] = x \div Radix /\ fq_to_bytes(x)[2] = x % Radix
      /\ fq_to_bytes(x) \in Seq(Byte) /\ Len(fq_to_bytes(x)) = 2
  BY <1>2 DEF fq_to_bytes
<1>5. fq_from_bytes(fq_to_bytes(x)) = Done(x)
  BY <1>2, <1>3, <1>4 DEF fq_from_bytes
<1> QED BY <1>4, <1>5

(* ... and what decodes is the one encoding of its value. *)
LEMMA FqDecoded ==
    ASSUME NEW bytes, bytes[1] \in Byte, bytes[2] \in Byte,
           fq_from_bytes(bytes).outcome = Ok
    PROVE  /\ fq_from_bytes(bytes).value \in Fq
           /\ fq_to_bytes(fq_from_bytes(bytes).value) = bytes
<1> DEFINE x == (bytes[1] * Radix + bytes[2]) % Q_MODULUS
<1>1. bytes[1] * Radix + bytes[2] \in Nat
  BY WireFacts DEF Byte
<1>2. x \in Fq
  BY <1>1, WireFacts, Reduced DEF Fq
<1> HIDE DEF x
<1>3. fq_from_bytes(bytes)
        = IF fq_to_bytes(x) # bytes THEN Fail("NonCanonicalField") ELSE Done(x)
  BY DEF fq_from_bytes, x
<1>4. fq_to_bytes(x) = bytes
  BY <1>3 DEF Fail, Ok
<1> QED BY <1>2, <1>3, <1>4 DEF Done

(* Two parts, and the slices that are them. *)
LEMMA TwoParts ==
    ASSUME NEW S, NEW a \in Seq(S), NEW b \in Seq(S)
    PROVE  /\ a \o b \in Seq(S) /\ Len(a \o b) = Len(a) + Len(b)
           /\ Slice(a \o b, 0, Len(a)) = a /\ Slice(a \o b, Len(a), Len(b)) = b
           /\ \A i \in 1..Len(a) : (a \o b)[i] = a[i]
           /\ \A i \in 1..Len(b) : (a \o b)[Len(a) + i] = b[i]
<1> DEFINE none == <<>>
<1>1. none \in Seq(S) /\ Len(none) = 0 /\ b \o none = b /\ none \o (a \o b) = a \o b
  BY a \o b \in Seq(S), ConcatEmptySeq
<1>2. SubSeq(none \o (a \o b), Len(none) + 1, Len(none) + Len(a)) = a
  BY <1>1, SliceOfParts
<1>3. SubSeq(a \o (b \o none), Len(a) + 1, Len(a) + Len(b)) = b
  BY <1>1, SliceOfParts
<1> HIDE DEF none
<1>4. /\ a \o b \in Seq(S) /\ Len(a \o b) = Len(a) + Len(b)
      /\ \A i \in 1..Len(a) : (a \o b)[i] = a[i]
      /\ \A i \in 1..Len(b) : (a \o b)[Len(a) + i] = b[i]
  BY Concatenated
<1>5. Len(a) \in Nat
  OBVIOUS
<1> QED BY <1>1, <1>2, <1>3, <1>4, <1>5 DEF Slice

(* A slice within a sequence. *)
LEMMA SliceCells ==
    ASSUME NEW S, NEW s \in Seq(S), NEW offset \in Nat, NEW size \in Nat,
           offset + size <= Len(s)
    PROVE  /\ Slice(s, offset, size) \in Seq(S) /\ Len(Slice(s, offset, size)) = size
           /\ \A i \in 1..size : Slice(s, offset, size)[i] = s[offset + i]
<1>1. Len(s) \in Nat /\ \A i \in 1..Len(s) : s[i] \in S
  OBVIOUS
<1> QED BY <1>1, SMTT(30) DEF Slice

(* Only zero, which is its own negative, is encoded as zeros. *)
LEMMA FqZero ==
    ASSUME NEW x \in Fq, AllZero(fq_to_bytes(x))
    PROVE  neg_fq(x) = x
<1>1. x \in Nat /\ x < Radix * Radix
  BY WireFacts DEF Fq
<1>2. (x \div Radix) * Radix + (x % Radix) = x
  BY <1>1, Digits, WireFacts
<1>3. x \div Radix = 0 /\ x % Radix = 0
  BY DEF AllZero, fq_to_bytes
<1>4. x = 0
  BY <1>2, <1>3, WireFacts
<1>5. Q_MODULUS % Q_MODULUS = 0 /\ Q_MODULUS - 0 = Q_MODULUS
  BY WireFacts
<1> QED BY <1>4, <1>5 DEF neg_fq

(* The same of Fq2, which puts c1 first: encoding ... *)
LEMMA Fq2Encoded ==
    ASSUME NEW x \in Fq2
    PROVE  /\ fq2_to_bytes(x) \in Seq(Byte) /\ Len(fq2_to_bytes(x)) = 4
           /\ fq2_from_bytes(fq2_to_bytes(x)) = Done(x)
           /\ AllZero(fq2_to_bytes(x)) => neg_y("G2", x) = x
<1> DEFINE a == fq_to_bytes(x.c1)
           b == fq_to_bytes(x.c0)
<1>1. x.c0 \in Fq /\ x.c1 \in Fq /\ x = [c0 |-> x.c0, c1 |-> x.c1]
  BY DEF Fq2
<1>2. /\ a \in Seq(Byte) /\ Len(a) = 2 /\ fq_from_bytes(a) = Done(x.c1)
      /\ b \in Seq(Byte) /\ Len(b) = 2 /\ fq_from_bytes(b) = Done(x.c0)
  BY <1>1, FqEncoded
<1> HIDE DEF a, b
<1>3. fq2_to_bytes(x) = a \o b
  BY DEF fq2_to_bytes, a, b
<1>4. /\ a \o b \in Seq(Byte) /\ Len(a \o b) = 4
      /\ \A i \in 1..2 : (a \o b)[i] = a[i] /\ (a \o b)[2 + i] = b[i]
      /\ Slice(a \o b, 0, 2) = a /\ Slice(a \o b, 2, 2) = b
  <2>1. a \in Seq(Byte) /\ b \in Seq(Byte)
    BY <1>2
  <2>2. /\ a \o b \in Seq(Byte) /\ Len(a \o b) = Len(a) + Len(b)
        /\ Slice(a \o b, 0, Len(a)) = a /\ Slice(a \o b, Len(a), Len(b)) = b
        /\ \A i \in 1..Len(a) : (a \o b)[i] = a[i]
        /\ \A i \in 1..Len(b) : (a \o b)[Len(a) + i] = b[i]
    BY <2>1, TwoParts
  <2>3. Len(a) = 2 /\ Len(b) = 2 /\ 2 + 2 = 4
    BY <1>2
  <2> QED BY <2>2, <2>3
<1>6. fq2_from_bytes(a \o b) = Done(x)
  BY <1>1, <1>2, <1>4 DEF fq2_from_bytes, FQ_SIZE, Done, Ok
<1>7. ASSUME AllZero(a \o b)
      PROVE  neg_y("G2", x) = x
  <2>1. \A i \in 1..4 : (a \o b)[i] = 0
    BY <1>4, <1>7 DEF AllZero
  <2>2. AllZero(a) /\ AllZero(b)
    <3>2. \A i \in 1..2 : i \in 1..4 /\ 2 + i \in 1..4
      OBVIOUS
    <3>3. DOMAIN a = 1..2 /\ DOMAIN b = 1..2
      BY <1>2
    <3> QED BY <1>4, <2>1, <3>2, <3>3 DEF AllZero
  <2>3. neg_fq(x.c0) = x.c0 /\ neg_fq(x.c1) = x.c1
    BY <1>1, <2>2, FqZero DEF a, b
  <2> QED BY <1>1, <2>3 DEF neg_y
<1> QED BY <1>3, <1>4, <1>6, <1>7

(* ... and decoding. *)
LEMMA Fq2Decoded ==
    ASSUME NEW bytes \in Seq(Byte), Len(bytes) = 4,
           fq2_from_bytes(bytes).outcome = Ok
    PROVE  /\ fq2_from_bytes(bytes).value \in Fq2
           /\ fq2_to_bytes(fq2_from_bytes(bytes).value) = bytes
<1> DEFINE a == Slice(bytes, 0, 2)
           b == Slice(bytes, 2, 2)
           c1 == fq_from_bytes(a)
           c0 == fq_from_bytes(b)
<1>1. /\ a \in Seq(Byte) /\ Len(a) = 2 /\ b \in Seq(Byte) /\ Len(b) = 2
  <2>1. 0 \in Nat /\ 2 \in Nat /\ 0 + 2 <= Len(bytes) /\ 2 + 2 <= Len(bytes)
    OBVIOUS
  <2> HIDE DEF a, b
  <2>2. /\ Slice(bytes, 0, 2) \in Seq(Byte) /\ Len(Slice(bytes, 0, 2)) = 2
        /\ Slice(bytes, 2, 2) \in Seq(Byte) /\ Len(Slice(bytes, 2, 2)) = 2
    BY <2>1, SliceCells, ZenonT(60)
  <2> QED BY <2>2 DEF a, b
<1>2. a[1] \in Byte /\ a[2] \in Byte /\ b[1] \in Byte /\ b[2] \in Byte
  <2> HIDE DEF a, b
  <2>1. 1 \in 1..2 /\ 2 \in 1..2
    OBVIOUS
  <2> QED BY <1>1, <2>1, ElementOfSeq
<1>3. a \o b = bytes
  <2>1. SubSeq(bytes, 0 + 1, 2) \o SubSeq(bytes, 2 + 1, 4) = SubSeq(bytes, 0 + 1, 4)
    BY Rejoined
  <2>2. SubSeq(bytes, 1, 4) = bytes
    BY SubSeqFull
  <2> QED BY <2>1, <2>2 DEF Slice
<1> HIDE DEF a, b
<1>4. c1.outcome = Ok /\ c0.outcome = Ok
      /\ fq2_from_bytes(bytes).value = [c0 |-> c0.value, c1 |-> c1.value]
  BY DEF fq2_from_bytes, FQ_SIZE, Fail, Done, Ok, a, b
<1>5. /\ c1.value \in Fq /\ fq_to_bytes(c1.value) = a
      /\ c0.value \in Fq /\ fq_to_bytes(c0.value) = b
  BY <1>2, <1>4, FqDecoded
<1> QED BY <1>3, <1>4, <1>5 DEF Fq2, fq2_to_bytes

-----------------------------------------------------------------------------
(* The same of both fields. *)
LEMMA FieldEncoded ==
    ASSUME NEW g \in Group, NEW x \in Field(g)
    PROVE  /\ FieldBytes(g, x) \in Seq(Byte)
           /\ Len(FieldBytes(g, x)) = PointSize(g) \div 2
           /\ FieldFrom(g, FieldBytes(g, x)) = Done(x)
           /\ AllZero(FieldBytes(g, x)) => neg_y(g, x) = x
<1>0. 4 \div 2 = 2 /\ 8 \div 2 = 4
  OBVIOUS
<1>1. CASE g = "G1"
  <2>1. x \in Fq /\ FieldBytes(g, x) = fq_to_bytes(x)
    BY <1>1 DEF Field, FieldBytes
  <2> QED BY <1>0, <1>1, <2>1, FqEncoded, FqZero, WireFacts DEF FieldFrom, neg_y
<1>2. CASE g = "G2"
  <2>1. x \in Fq2 /\ FieldBytes(g, x) = fq2_to_bytes(x)
    BY <1>2 DEF Field, FieldBytes
  <2> QED BY <1>0, <1>2, <2>1, Fq2Encoded, WireFacts DEF FieldFrom
<1> QED BY <1>1, <1>2 DEF Group

(* What decodes as a coordinate is its one encoding. *)
LEMMA FieldDecoded ==
    ASSUME NEW g \in Group, NEW bytes \in Seq(Byte),
           Len(bytes) = PointSize(g) \div 2, FieldFrom(g, bytes).outcome = Ok
    PROVE  /\ FieldFrom(g, bytes).value \in Field(g)
           /\ FieldBytes(g, FieldFrom(g, bytes).value) = bytes
<1>1. CASE g = "G1"
  <2>1. bytes[1] \in Byte /\ bytes[2] \in Byte
    BY <1>1, WireFacts
  <2> QED BY <1>1, <2>1, FqDecoded DEF Field, FieldBytes, FieldFrom
<1>2. CASE g = "G2"
  <2>1. Len(bytes) = 4
    BY <1>2, WireFacts
  <2> QED BY <1>2, <2>1, Fq2Decoded DEF Field, FieldBytes, FieldFrom
<1> QED BY <1>1, <1>2 DEF Group

(* Negation within a group, undone by itself. *)
LEMMA NegPoint ==
    ASSUME NEW g \in Group, NEW p \in Point(g)
    PROVE  neg(g, p) \in Point(g) /\ neg(g, neg(g, p)) = p
<1>1. CASE p = Identity
  BY <1>1 DEF neg, Point
<1>2. CASE p \in InSubgroup(g)
  <2>1. neg(g, p) \in Point(g)
    BY <1>2, WireAssumption DEF Point
  <2>2. PICK x \in Field(g), y \in Field(g) : p = <<x, y>>
    BY <1>2, WireAssumption
  <2>3. neg_y(g, neg_y(g, y)) = y
    <3>1. CASE g = "G1"
      BY <3>1, NegFq DEF neg_y, Field
    <3>2. CASE g = "G2"
      <4>1. y.c0 \in Fq /\ y.c1 \in Fq /\ y = [c0 |-> y.c0, c1 |-> y.c1]
        BY <3>2 DEF Field, Fq2
      <4> QED BY <3>2, <4>1, NegFq DEF neg_y
    <3> QED BY <3>1, <3>2 DEF Group
  <2>4. neg(g, p) = <<x, neg_y(g, y)>> /\ neg(g, neg(g, p)) = <<x, neg_y(g, neg_y(g, y))>>
    BY <2>2 DEF neg, Identity
  <2> QED BY <2>1, <2>2, <2>3, <2>4
<1> QED BY <1>1, <1>2 DEF Point

(* Half of a point is a coordinate. *)
LEMMA Halves ==
    ASSUME NEW g \in Group
    PROVE  /\ PointSize(g) \in Nat /\ PointSize(g) \div 2 \in Nat
           /\ (PointSize(g) \div 2) + (PointSize(g) \div 2) = PointSize(g)
BY WireFacts DEF Group

(* The identity is encoded as zeros and decoded from them. *)
LEMMA IdentityEncoded ==
    ASSUME NEW g \in Group
    PROVE  /\ to_bytes(g, Identity) \in Seq(Byte)
           /\ Len(to_bytes(g, Identity)) = PointSize(g)
           /\ AllZero(to_bytes(g, Identity))
           /\ \A bytes \in Seq(Byte) :
                Len(bytes) = PointSize(g) /\ AllZero(bytes) =>
                  to_bytes(g, Identity) = bytes
<1> DEFINE zeros == [k \in 1..PointSize(g) |-> 0]
<1>1. to_bytes(g, Identity) = zeros
  BY DEF to_bytes
<1>2. zeros \in Seq(Byte) /\ Len(zeros) = PointSize(g)
  BY Halves, WireFacts DEF Byte
<1>3. AllZero(zeros)
  BY DEF AllZero
<1>4. ASSUME NEW bytes \in Seq(Byte), Len(bytes) = PointSize(g), AllZero(bytes)
      PROVE  zeros = bytes
  <2>1. \A k \in 1..Len(bytes) : bytes[k] = 0
    BY <1>4 DEF AllZero
  <2> QED BY <1>4, <2>1
<1> QED BY <1>1, <1>2, <1>3, <1>4

(* A point of the group survives its encoding: in particular no affine point is
   taken for the identity, since only a y that is its own negative is zero. *)
LEMMA PointEncoded ==
    ASSUME NEW g \in Group, NEW p \in Point(g)
    PROVE  /\ to_bytes(g, p) \in Seq(Byte) /\ Len(to_bytes(g, p)) = PointSize(g)
           /\ from_bytes(g, to_bytes(g, p)) = Done(p)
<1>1. CASE p = Identity
  <2>1. from_bytes(g, to_bytes(g, p)) = Done(Identity)
    BY <1>1, IdentityEncoded DEF from_bytes
  <2> QED BY <1>1, <2>1, IdentityEncoded
<1>2. CASE p \in InSubgroup(g)
  <2>1. PICK x \in Field(g), y \in Field(g) : p = <<x, y>>
    BY <1>2, WireAssumption
  <2> DEFINE half == PointSize(g) \div 2
             a == FieldBytes(g, x)
             b == FieldBytes(g, y)
  <2>2. /\ a \in Seq(Byte) /\ Len(a) = half /\ FieldFrom(g, a) = Done(x)
        /\ b \in Seq(Byte) /\ Len(b) = half /\ FieldFrom(g, b) = Done(y)
        /\ AllZero(b) => neg_y(g, y) = y
    BY FieldEncoded
  <2>3. to_bytes(g, p) = a \o b
    BY <2>1 DEF to_bytes, Identity
  <2>4. half \in Nat /\ half + half = PointSize(g)
    BY Halves
  <2> HIDE DEF half, a, b
  <2>5. /\ a \o b \in Seq(Byte) /\ Len(a \o b) = Len(a) + Len(b)
        /\ Slice(a \o b, 0, Len(a)) = a /\ Slice(a \o b, Len(a), Len(b)) = b
        /\ \A i \in 1..Len(b) : (a \o b)[Len(a) + i] = b[i]
    <3>1. a \in Seq(Byte) /\ b \in Seq(Byte)
      BY <2>2
    <3> QED BY <3>1, TwoParts
  <2>6. Slice(a \o b, 0, half) = a /\ Slice(a \o b, half, half) = b
    BY <2>2, <2>5
  <2>7. ~AllZero(a \o b)
    <3> SUFFICES ASSUME AllZero(a \o b) PROVE FALSE
      OBVIOUS
    <3>1. ASSUME NEW i \in 1..half PROVE b[i] = 0
      <4>1. half + i \in 1..(half + half) /\ DOMAIN (a \o b) = 1..(half + half)
        BY <2>2, <2>4, <2>5
      <4>2. (a \o b)[half + i] = 0
        BY <4>1 DEF AllZero
      <4> QED BY <2>2, <2>5, <4>2
    <3>2. AllZero(b)
      BY <2>2, <3>1 DEF AllZero
    <3>3. neg(g, p) = p
      BY <2>1, <2>2, <3>2 DEF neg
    <3> QED BY <1>2, <3>3, WireAssumption
  <2>8. checked_affine(g, <<x, y>>) = Done(p)
    BY <1>2, <2>1, WireAssumption DEF checked_affine
  <2>9. from_bytes(g, a \o b) = Done(p)
    <3>1. /\ FieldFrom(g, a).outcome = Ok /\ FieldFrom(g, a).value = x
          /\ FieldFrom(g, b).outcome = Ok /\ FieldFrom(g, b).value = y
      BY <2>2 DEF Done
    <3>2. from_bytes(g, a \o b)
            = checked_affine(g, <<FieldFrom(g, a).value, FieldFrom(g, b).value>>)
      BY <2>6, <2>7, <3>1 DEF from_bytes, half
    <3> QED BY <2>8, <3>1, <3>2
  <2> QED BY <2>2, <2>3, <2>4, <2>5, <2>9
<1> QED BY <1>1, <1>2 DEF Point

(* What decodes is a point of the group, in its one encoding. *)
LEMMA PointDecoded ==
    ASSUME NEW g \in Group, NEW bytes \in Seq(Byte), Len(bytes) = PointSize(g),
           from_bytes(g, bytes).outcome = Ok
    PROVE  /\ from_bytes(g, bytes).value \in Point(g)
           /\ to_bytes(g, from_bytes(g, bytes).value) = bytes
<1>1. CASE AllZero(bytes)
  <2>1. from_bytes(g, bytes).value = Identity
    BY <1>1 DEF from_bytes, Done
  <2> QED BY <1>1, <2>1, IdentityEncoded DEF Point
<1>2. CASE ~AllZero(bytes)
  <2> DEFINE half == PointSize(g) \div 2
             a == Slice(bytes, 0, half)
             b == Slice(bytes, half, half)
             x == FieldFrom(g, a)
             y == FieldFrom(g, b)
  <2>1. half \in Nat /\ half + half = Len(bytes) /\ 0 + half <= Len(bytes)
    BY Halves
  <2> HIDE DEF half
  <2>2. /\ a \in Seq(Byte) /\ Len(a) = half
        /\ b \in Seq(Byte) /\ Len(b) = half
    BY <2>1, SliceCells
  <2>3. a \o b = bytes
    <3>1. /\ 0 \in Nat /\ 0 <= half /\ half <= half + half /\ half + half <= Len(bytes)
          /\ half + half \in Nat
      BY <2>1
    <3>2. SubSeq(bytes, 0 + 1, half) \o SubSeq(bytes, half + 1, half + half)
            = SubSeq(bytes, 0 + 1, half + half)
      BY <3>1, <2>1, Rejoined
    <3>3. SubSeq(bytes, 1, Len(bytes)) = bytes
      BY SubSeqFull
    <3> QED BY <2>1, <3>2, <3>3 DEF Slice
  <2>4. from_bytes(g, bytes)
          = IF x.outcome # Ok THEN x
            ELSE IF y.outcome # Ok THEN y
            ELSE checked_affine(g, <<x.value, y.value>>)
    BY <1>2 DEF from_bytes, half
  <2> HIDE DEF a, b
  <2>5. /\ x.outcome = Ok /\ y.outcome = Ok
        /\ from_bytes(g, bytes) = checked_affine(g, <<x.value, y.value>>)
    BY <2>4
  <2>6. FieldBytes(g, x.value) = a /\ FieldBytes(g, y.value) = b
    BY <2>2, <2>5, FieldDecoded DEF half
  <2> HIDE DEF x, y
  <2>7. /\ <<x.value, y.value>> \in InSubgroup(g)
        /\ from_bytes(g, bytes).value = <<x.value, y.value>>
    BY <2>5 DEF checked_affine, Fail, Done, Ok, Identity
  <2>8. to_bytes(g, <<x.value, y.value>>) = a \o b
    BY <2>6 DEF to_bytes, Identity
  <2> QED BY <2>3, <2>7, <2>8 DEF Point
<1> QED BY <1>1, <1>2

(* The parts of a body, as decode_body reads them. *)
G1At(body, offset) == g1_from_bytes(Slice(body, offset, G1_SIZE))
G2At(body, offset) == g2_from_bytes(Slice(body, offset, G2_SIZE))
IcAt(body, i) == G1At(body, VK_FIXED_SIZE + (i - 1) * G1_SIZE)
IcCount(body) == InferredInputs(body) + 1

Decodes(body) ==
    /\ from_body(body) = Ok
    /\ G1At(body, 0).outcome = Ok
    /\ G2At(body, G1_SIZE).outcome = Ok
    /\ G2At(body, G1_SIZE + G2_SIZE).outcome = Ok
    /\ G2At(body, G1_SIZE + 2 * G2_SIZE).outcome = Ok
    /\ \A i \in 1..IcCount(body) : IcAt(body, i).outcome = Ok

Elements(body) ==
    [alpha |-> G1At(body, 0).value,
     beta |-> neg("G2", G2At(body, G1_SIZE).value),
     gamma |-> neg("G2", G2At(body, G1_SIZE + G2_SIZE).value),
     delta |-> neg("G2", G2At(body, G1_SIZE + 2 * G2_SIZE).value),
     ic |-> [i \in 1..IcCount(body) |-> IcAt(body, i).value]]

(* A set of natural numbers that is not empty has a least element. *)
LEMMA Least ==
    ASSUME NEW A, A \subseteq Nat, A # {}
    PROVE  \E k \in A : \A j \in A : ~(j < k)
<1> DEFINE less == OpToRel(<, Nat)
<1>1. IsWellFoundedOn(less, Nat)
  BY NatLessThanWellFounded
<1> HIDE DEF less
<1>2. PICK k \in A : \A j \in A : <<j, k>> \notin less
  BY <1>1, WFMin
<1> QED BY <1>2 DEF less, OpToRel

(* The length of a body that from_body accepts. *)
LEMMA BodyLength ==
    ASSUME NEW body \in Seq(Byte), from_body(body) = Ok
    PROVE  /\ IcCount(body) \in 1..MAX_PUBLIC_INPUTS + 1
           /\ Len(body) = 28 + 4 * IcCount(body)
<1> DEFINE rest == Len(body) - VK_FIXED_SIZE
<1>1. /\ Ensure(rest >= 0, "InvalidKeyLength") = Ok
      /\ Ensure(rest % G1_SIZE = 0, "InvalidKeyLength") = Ok
      /\ Ensure(rest \div G1_SIZE >= 1, "InvalidKeyLength") = Ok
      /\ Ensure(InferredInputs(body) <= MAX_PUBLIC_INPUTS, "InvalidKeyLength") = Ok
  BY ThenOk DEF from_body
<1>2. /\ rest >= 0 /\ rest % G1_SIZE = 0 /\ rest \div G1_SIZE >= 1
      /\ InferredInputs(body) <= MAX_PUBLIC_INPUTS
  BY <1>1 DEF Ensure, Ok
<1>3. Len(body) \in Nat
  OBVIOUS
<1>4. MAX_PUBLIC_INPUTS \in Nat
  BY LayoutAssumption
<1> QED BY <1>2, <1>3, <1>4, WireFacts DEF IcCount, InferredInputs

(* decode_body succeeds exactly when every part does, and then has their values. *)
LEMMA DecodeBody ==
    ASSUME NEW body \in Seq(Byte)
    PROVE  /\ decode_body(body).outcome = Ok => Decodes(body)
           /\ Decodes(body) => decode_body(body) = Done(Elements(body))
<1> DEFINE Negated(r) == Then(r, LAMBDA p : Done(neg("G2", p)))
           r1 == G1At(body, 0)
           r2 == G2At(body, G1_SIZE)
           r3 == G2At(body, G1_SIZE + G2_SIZE)
           r4 == G2At(body, G1_SIZE + 2 * G2_SIZE)
           fixed == <<r1, Negated(r2), Negated(r3), Negated(r4)>>
           ic == [i \in 1..IcCount(body) |-> IcAt(body, i)]
           all == fixed \o ic
           Failed(k) == all[k].outcome # Ok
           vk == [alpha |-> fixed[1].value, beta |-> fixed[2].value,
                  gamma |-> fixed[3].value, delta |-> fixed[4].value,
                  ic |-> [i \in DOMAIN ic |-> ic[i].value]]
           first == CHOOSE k \in DOMAIN all : Failed(k) /\ \A j \in 1..k - 1 : ~Failed(j)
<1>1. decode_body(body)
        = IF from_body(body) # Ok THEN Fail("Unsupported")
          ELSE IF \E k \in DOMAIN all : Failed(k) THEN all[first]
          ELSE Done(vk)
  BY DEF decode_body, G1At, G2At, IcAt, IcCount
<1>2. CASE from_body(body) # Ok
  BY <1>1, <1>2 DEF Decodes, Fail, Ok
<1>3. CASE from_body(body) = Ok
  <2>1. \A r : /\ Negated(r).outcome = Ok <=> r.outcome = Ok
               /\ r.outcome = Ok => Negated(r).value = neg("G2", r.value)
    BY DEF Then, Done
  <2>2. fixed[1] = r1 /\ fixed[2] = Negated(r2) /\ fixed[3] = Negated(r3)
          /\ fixed[4] = Negated(r4)
    OBVIOUS
  <2> HIDE DEF r1, r2, r3, r4, Negated
  <2>3. IcCount(body) \in Nat
    BY <1>3, BodyLength
  <2>4. PICK V : fixed \in Seq(V) /\ ic \in Seq(V)
    <3> DEFINE V == {r1, Negated(r2), Negated(r3), Negated(r4)}
                      \cup {IcAt(body, i) : i \in 1..IcCount(body)}
    <3>1. ic \in Seq(V)
      BY <2>3
    <3>2. fixed \in Seq(V)
      OBVIOUS
    <3> QED BY <3>1, <3>2
  <2>5. Len(fixed) = 4 /\ Len(ic) = IcCount(body)
    BY <2>3
  <2>6. DOMAIN ic = 1..IcCount(body) /\ \A i \in 1..IcCount(body) : ic[i] = IcAt(body, i)
    OBVIOUS
  <2> HIDE DEF fixed, ic
  <2>7. /\ all \in Seq(V) /\ Len(all) = Len(fixed) + Len(ic)
        /\ \A i \in 1..Len(fixed) : all[i] = fixed[i]
        /\ \A i \in 1..Len(ic) : all[Len(fixed) + i] = ic[i]
    BY <2>4, TwoParts
  <2>8. /\ DOMAIN all = 1..(4 + IcCount(body))
        /\ all[1] = fixed[1] /\ all[2] = fixed[2]
        /\ all[3] = fixed[3] /\ all[4] = fixed[4]
        /\ \A i \in 1..IcCount(body) : all[4 + i] = IcAt(body, i)
    BY <2>5, <2>6, <2>7
  <2> HIDE DEF all
  <2>9. Decodes(body) <=> \A k \in DOMAIN all : ~Failed(k)
    <3>1. Decodes(body) <=> /\ ~Failed(1) /\ ~Failed(2) /\ ~Failed(3) /\ ~Failed(4)
                            /\ \A i \in 1..IcCount(body) : ~Failed(4 + i)
      BY <1>3, <2>1, <2>2, <2>8 DEF Decodes, r1, r2, r3, r4
    <3>2. \A k \in 1..(4 + IcCount(body)) :
            k = 1 \/ k = 2 \/ k = 3 \/ k = 4 \/ \E i \in 1..IcCount(body) : k = 4 + i
      <4> SUFFICES ASSUME NEW k \in 1..(4 + IcCount(body)), k > 4
                   PROVE  \E i \in 1..IcCount(body) : k = 4 + i
        BY <2>3
      <4>1. k - 4 \in 1..IcCount(body) /\ k = 4 + (k - 4)
        BY <2>3
      <4> QED BY <4>1
    <3>3. /\ 1 \in DOMAIN all /\ 2 \in DOMAIN all /\ 3 \in DOMAIN all /\ 4 \in DOMAIN all
          /\ \A i \in 1..IcCount(body) : 4 + i \in DOMAIN all
      BY <2>3, <2>8
    <3> HIDE DEF Failed
    <3> QED BY <2>8, <3>1, <3>2, <3>3
  <2>10. ASSUME \E k \in DOMAIN all : Failed(k)
         PROVE  decode_body(body).outcome # Ok
    <3> DEFINE A == {k \in DOMAIN all : Failed(k)}
    <3>1. A # {} /\ A \subseteq Nat
      BY <2>8, <2>10
    <3>2. PICK k \in A : \A j \in A : ~(j < k)
      BY <3>1, Least
    <3>3. \A j \in 1..k - 1 : j \in DOMAIN all /\ j < k
      BY <2>3, <2>8, <3>1
    <3>4. \A j \in 1..k - 1 : ~Failed(j)
      BY <3>2, <3>3
    <3> HIDE DEF Failed
    <3>5. Failed(first)
      BY <3>2, <3>4
    <3> QED BY <1>1, <1>3, <2>10, <3>5 DEF Failed
  <2>11. ASSUME Decodes(body)
         PROVE  decode_body(body) = Done(Elements(body))
    <3>1. decode_body(body) = Done(vk)
      <4> HIDE DEF Failed, vk, first
      <4> QED BY <1>1, <1>3, <2>9, <2>11
    <3>2. vk = Elements(body)
      <4>1. /\ fixed[1].value = G1At(body, 0).value
            /\ fixed[2].value = neg("G2", G2At(body, G1_SIZE).value)
            /\ fixed[3].value = neg("G2", G2At(body, G1_SIZE + G2_SIZE).value)
            /\ fixed[4].value = neg("G2", G2At(body, G1_SIZE + 2 * G2_SIZE).value)
        BY <2>1, <2>2, <2>11 DEF Decodes, r1, r2, r3, r4
      <4>2. [i \in DOMAIN ic |-> ic[i].value]
              = [i \in 1..IcCount(body) |-> IcAt(body, i).value]
        BY <2>6
      <4> QED BY <4>1, <4>2 DEF Elements
    <3> QED BY <3>1, <3>2
  <2> QED BY <2>9, <2>10, <2>11
<1> QED BY <1>2, <1>3

(* A slice of one of two parts is the same slice of the whole. *)
LEMMA SliceWithin ==
    ASSUME NEW S, NEW a \in Seq(S), NEW b \in Seq(S),
           NEW offset \in Nat, NEW size \in Nat
    PROVE  /\ offset + size <= Len(a) =>
                Slice(a \o b, offset, size) = Slice(a, offset, size)
           /\ offset + size <= Len(b) =>
                Slice(a \o b, Len(a) + offset, size) = Slice(b, offset, size)
<1>1. Len(a) \in Nat /\ Len(b) \in Nat
  OBVIOUS
<1>2. /\ a \o b \in Seq(S) /\ Len(a \o b) = Len(a) + Len(b)
      /\ \A i \in 1..Len(a) : (a \o b)[i] = a[i]
      /\ \A i \in 1..Len(b) : (a \o b)[Len(a) + i] = b[i]
  BY TwoParts
<1> DEFINE all == a \o b
<1>all. all \in Seq(S)
  BY <1>2
<1> HIDE DEF all
<1>3. ASSUME offset + size <= Len(a)
      PROVE  Slice(all, offset, size) = Slice(a, offset, size)
  <2> DEFINE s == Slice(all, offset, size)
             t == Slice(a, offset, size)
  <2>1. offset + size <= Len(all)
    BY <1>1, <1>2, <1>3 DEF all
  <2>2. /\ s \in Seq(S) /\ Len(s) = size /\ \A i \in 1..size : s[i] = all[offset + i]
    BY <1>all, <2>1, SliceCells
  <2>3. /\ t \in Seq(S) /\ Len(t) = size /\ \A i \in 1..size : t[i] = a[offset + i]
    BY <1>3, SliceCells
  <2>4. \A i \in 1..size : offset + i \in 1..Len(a)
    BY <1>1, <1>3
  <2>5. \A i \in 1..size : s[i] = t[i]
    BY <1>2, <2>2, <2>3, <2>4 DEF all
  <2> HIDE DEF s, t
  <2>6. s = t
    BY <2>2, <2>3, <2>5, SeqEqual
  <2> QED BY <2>6 DEF s, t
<1>4. ASSUME offset + size <= Len(b)
      PROVE  Slice(all, Len(a) + offset, size) = Slice(b, offset, size)
  <2> DEFINE m == Len(a) + offset
             s == Slice(all, m, size)
             t == Slice(b, offset, size)
  <2>1. m \in Nat /\ m + size <= Len(all)
    BY <1>1, <1>2, <1>4 DEF all
  <2> HIDE DEF m
  <2>2. /\ s \in Seq(S) /\ Len(s) = size /\ \A i \in 1..size : s[i] = all[m + i]
    BY <1>all, <2>1, SliceCells
  <2>3. /\ t \in Seq(S) /\ Len(t) = size /\ \A i \in 1..size : t[i] = b[offset + i]
    BY <1>4, SliceCells
  <2>4. \A i \in 1..size : offset + i \in 1..Len(b) /\ m + i = Len(a) + (offset + i)
    BY <1>1, <1>4 DEF m
  <2>5. \A i \in 1..size : s[i] = t[i]
    BY <1>2, <2>2, <2>3, <2>4 DEF all
  <2> HIDE DEF s, t
  <2>6. s = t
    BY <2>2, <2>3, <2>5, SeqEqual
  <2> QED BY <2>6 DEF s, t, m
<1> QED BY <1>3, <1>4 DEF all

(* The IC points, one after the other. *)
LEMMA IcEncoded ==
    ASSUME NEW ic \in Seq(Point("G1"))
    PROVE  /\ IcBytes(ic) \in Seq(Byte) /\ Len(IcBytes(ic)) = 4 * Len(ic)
           /\ \A i \in 1..Len(ic) :
                Slice(IcBytes(ic), (i - 1) * 4, 4) = to_bytes("G1", ic[i])
<1> DEFINE P(i) == to_bytes("G1", ic[i])
           at(k) == ((k - 1) \div 4) + 1
           cell(k) == ((k - 1) % 4) + 1
           e == [k \in 1..4 * Len(ic) |-> P(at(k))[cell(k)]]
<1>1. IcBytes(ic) = e
  BY WireFacts DEF IcBytes, g1_to_bytes
<1>2. Len(ic) \in Nat /\ 4 * Len(ic) \in Nat
  OBVIOUS
<1>3. ASSUME NEW i \in 1..Len(ic)
      PROVE  P(i) \in Seq(Byte) /\ Len(P(i)) = 4
  <2>1. ic[i] \in Point("G1") /\ "G1" \in Group
    BY DEF Group
  <2> QED BY <2>1, PointEncoded, WireFacts
<1>4. ASSUME NEW k \in 1..4 * Len(ic)
      PROVE  at(k) \in 1..Len(ic) /\ cell(k) \in 1..4
  BY <1>2
<1>5. e \in Seq(Byte) /\ Len(e) = 4 * Len(ic)
  <2> HIDE DEF P, at, cell
  <2>1. ASSUME NEW k \in 1..4 * Len(ic) PROVE P(at(k))[cell(k)] \in Byte
    <3>1. at(k) \in 1..Len(ic) /\ cell(k) \in 1..4
      BY <1>4
    <3>2. P(at(k)) \in Seq(Byte) /\ Len(P(at(k))) = 4
      BY <1>3, <3>1
    <3> QED BY <3>1, <3>2, ElementOfSeq
  <2> QED BY <1>2, <2>1
<1>6. ASSUME NEW i \in 1..Len(ic)
      PROVE  Slice(e, (i - 1) * 4, 4) = P(i)
  <2> DEFINE o == (i - 1) * 4
             s == Slice(e, o, 4)
  <2>1. o \in Nat /\ 4 \in Nat /\ o + 4 <= 4 * Len(ic)
    BY <1>2
  <2>2. ASSUME NEW j \in 1..4
        PROVE  o + j \in 1..4 * Len(ic) /\ at(o + j) = i /\ cell(o + j) = j
    BY <1>2
  <2>3. \A j \in 1..4 : e[o + j] = P(i)[j]
    <3> HIDE DEF o, P, at, cell
    <3> QED BY <2>2
  <2> HIDE DEF e, o, P
  <2>4. s \in Seq(Byte) /\ Len(s) = 4 /\ \A j \in 1..4 : s[j] = e[o + j]
    BY <1>5, <2>1, SliceCells
  <2>5. P(i) \in Seq(Byte) /\ Len(P(i)) = 4
    BY <1>3
  <2>6. \A j \in 1..4 : s[j] = P(i)[j]
    BY <2>3, <2>4
  <2> HIDE DEF s
  <2>7. s = P(i)
    BY <2>4, <2>5, <2>6, SeqEqual
  <2> QED BY <2>7 DEF s, o
<1> QED BY <1>1, <1>5, <1>6

(* A verifying key that arkworks can hold. *)
KeyElements ==
    [alpha : Point("G1"), beta : Point("G2"), gamma : Point("G2"), delta : Point("G2"),
     ic : Seq(Point("G1"))]

(* The parts of a body, cut where decode_body cuts it. *)
Joined(a, b, c, d, e) == a \o b \o c \o d \o e

CutInto(body, a, b, c, d, e) ==
    /\ body \in Seq(Byte) /\ Len(body) = 28 + Len(e)
    /\ Slice(body, 0, 4) = a /\ Slice(body, 4, 8) = b
    /\ Slice(body, 12, 8) = c /\ Slice(body, 20, 8) = d
    /\ \A offset, size \in Nat : offset + size <= Len(e) =>
         Slice(body, 28 + offset, size) = Slice(e, offset, size)

(* A body joined from its parts is cut into the same parts. *)
LEMMA BodyParts ==
    ASSUME NEW a \in Seq(Byte), NEW b \in Seq(Byte), NEW c \in Seq(Byte),
           NEW d \in Seq(Byte), NEW e \in Seq(Byte)
    PROVE  Len(a) = 4 /\ Len(b) = 8 /\ Len(c) = 8 /\ Len(d) = 8 =>
             CutInto(Joined(a, b, c, d, e), a, b, c, d, e)
<1> DEFINE ab == a \o b
           abc == ab \o c
           abcd == abc \o d
           body == abcd \o e
<1>1. /\ ab \in Seq(Byte) /\ Len(ab) = Len(a) + Len(b)
      /\ Slice(ab, 0, Len(a)) = a /\ Slice(ab, Len(a), Len(b)) = b
  BY TwoParts
<1> HIDE DEF ab
<1>m1. ab \in Seq(Byte)
  BY <1>1
<1>2. /\ abc \in Seq(Byte) /\ Len(abc) = Len(ab) + Len(c)
      /\ Slice(abc, Len(ab), Len(c)) = c
  BY <1>m1, TwoParts
<1>s2. ASSUME NEW o \in Nat, NEW s \in Nat
       PROVE  o + s <= Len(ab) => Slice(abc, o, s) = Slice(ab, o, s)
  BY <1>m1, SliceWithin
<1> HIDE DEF abc
<1>m2. abc \in Seq(Byte)
  BY <1>2
<1>3. /\ abcd \in Seq(Byte) /\ Len(abcd) = Len(abc) + Len(d)
      /\ Slice(abcd, Len(abc), Len(d)) = d
  BY <1>m2, TwoParts
<1>s3. ASSUME NEW o \in Nat, NEW s \in Nat
       PROVE  o + s <= Len(abc) => Slice(abcd, o, s) = Slice(abc, o, s)
  BY <1>m2, SliceWithin
<1> HIDE DEF abcd
<1>m3. abcd \in Seq(Byte)
  BY <1>3
<1>4. body \in Seq(Byte) /\ Len(body) = Len(abcd) + Len(e)
  BY <1>m3, TwoParts
<1>s4. ASSUME NEW o \in Nat, NEW s \in Nat
       PROVE  /\ o + s <= Len(abcd) => Slice(body, o, s) = Slice(abcd, o, s)
              /\ o + s <= Len(e) => Slice(body, Len(abcd) + o, s) = Slice(e, o, s)
  BY <1>m3, SliceWithin
<1> HIDE DEF body
<1>5. ASSUME Len(a) = 4, Len(b) = 8, Len(c) = 8, Len(d) = 8
      PROVE  /\ body \in Seq(Byte) /\ Len(body) = 28 + Len(e)
             /\ Slice(body, 0, 4) = a /\ Slice(body, 4, 8) = b
             /\ Slice(body, 12, 8) = c /\ Slice(body, 20, 8) = d
             /\ \A offset, size \in Nat : offset + size <= Len(e) =>
                  Slice(body, 28 + offset, size) = Slice(e, offset, size)
  <2>1. Len(ab) = 12 /\ Len(abc) = 20 /\ Len(abcd) = 28
    BY <1>1, <1>2, <1>3, <1>5
  <2>2. ASSUME NEW o \in Nat, NEW s \in Nat
        PROVE  /\ o + s <= 28 => Slice(body, o, s) = Slice(abcd, o, s)
               /\ o + s <= 20 => Slice(abcd, o, s) = Slice(abc, o, s)
               /\ o + s <= 12 => Slice(abc, o, s) = Slice(ab, o, s)
               /\ o + s <= Len(e) => Slice(body, 28 + o, s) = Slice(e, o, s)
    BY <1>s2, <1>s3, <1>s4, <2>1
  <2>3. Slice(ab, 0, 4) = a /\ Slice(ab, 4, 8) = b
    BY <1>1, <1>5
  <2>4. Slice(abc, 12, 8) = c /\ Slice(abcd, 20, 8) = d
    BY <1>2, <1>3, <1>5, <2>1
  <2>5. /\ 0 + 4 <= 12 /\ 4 + 8 <= 12 /\ 12 + 8 <= 20 /\ 20 + 8 <= 28
        /\ 0 + 4 <= 20 /\ 4 + 8 <= 20 /\ 0 + 4 <= 28 /\ 4 + 8 <= 28 /\ 12 + 8 <= 28
        /\ 0 \in Nat /\ 4 \in Nat /\ 8 \in Nat /\ 12 \in Nat /\ 20 \in Nat
    OBVIOUS
  <2>6. Slice(body, 0, 4) = a /\ Slice(body, 4, 8) = b
    BY <2>2, <2>3, <2>5
  <2>7. Slice(body, 12, 8) = c /\ Slice(body, 20, 8) = d
    BY <2>2, <2>4, <2>5
  <2> QED BY <1>4, <2>1, <2>2, <2>6, <2>7
<1> QED BY <1>5 DEF Joined, CutInto, ab, abc, abcd, body

(* from_body accepts every length that stands for a number of inputs in range. *)
LEMMA BodyAccepted ==
    ASSUME NEW body \in Seq(Byte), NEW n \in 1..MAX_PUBLIC_INPUTS + 1,
           Len(body) = 28 + 4 * n
    PROVE  from_body(body) = Ok /\ IcCount(body) = n
<1>1. MAX_PUBLIC_INPUTS \in Nat
  BY LayoutAssumption
<1>2. /\ Len(body) - 28 = 4 * n /\ 4 * n >= 0 /\ (4 * n) % 4 = 0 /\ (4 * n) \div 4 = n
      /\ n >= 1 /\ n - 1 <= MAX_PUBLIC_INPUTS /\ (n - 1) + 1 = n
  BY <1>1
<1>3. InferredInputs(body) = n - 1
  BY <1>2, WireFacts DEF InferredInputs
<1> QED BY <1>2, <1>3, WireFacts DEF from_body, IcCount, Ensure, ??, Ok

(* A key read back from its body is the key. *)
LEMMA KeyDecoded ==
    ASSUME NEW vk \in KeyElements, OnChainKey_new(vk).outcome = Ok
    PROVE  decode_body(OnChainKey_new(vk).value) = Done(vk)
<1> DEFINE a == g1_to_bytes(vk.alpha)
           b == g2_to_bytes(neg("G2", vk.beta))
           c == g2_to_bytes(neg("G2", vk.gamma))
           d == g2_to_bytes(neg("G2", vk.delta))
           e == IcBytes(vk.ic)
           n == Len(vk.ic)
           body == Joined(a, b, c, d, e)
<1>1. /\ vk.alpha \in Point("G1") /\ vk.beta \in Point("G2") /\ vk.gamma \in Point("G2")
      /\ vk.delta \in Point("G2") /\ vk.ic \in Seq(Point("G1"))
      /\ "G1" \in Group /\ "G2" \in Group
  BY DEF KeyElements, Group
<1>2. n \in 1..MAX_PUBLIC_INPUTS + 1 /\ OnChainKey_new(vk) = Done(body)
  <2> HIDE DEF body
  <2>1. Len(vk.ic) \in Nat /\ MAX_PUBLIC_INPUTS \in Nat
    BY <1>1, LayoutAssumption
  <2>2. Len(vk.ic) # 0 /\ ~(Len(vk.ic) - 1 > MAX_PUBLIC_INPUTS)
    BY DEF OnChainKey_new, Fail, Ok
  <2>3. OnChainKey_new(vk) = Done(body)
    BY <2>2 DEF OnChainKey_new, Joined, body
  <2> QED BY <2>1, <2>2, <2>3
<1>3. /\ a \in Seq(Byte) /\ Len(a) = 4 /\ g1_from_bytes(a) = Done(vk.alpha)
  BY <1>1, PointEncoded, WireFacts DEF g1_to_bytes, g1_from_bytes
<1>4. ASSUME NEW p \in Point("G2")
      PROVE  LET s == g2_to_bytes(neg("G2", p)) IN
             /\ s \in Seq(Byte) /\ Len(s) = 8
             /\ g2_from_bytes(s).outcome = Ok /\ neg("G2", g2_from_bytes(s).value) = p
  <2>1. neg("G2", p) \in Point("G2") /\ neg("G2", neg("G2", p)) = p
    BY <1>1, NegPoint
  <2> DEFINE m == neg("G2", p)
  <2> HIDE DEF m
  <2>2. /\ to_bytes("G2", m) \in Seq(Byte) /\ Len(to_bytes("G2", m)) = 8
        /\ from_bytes("G2", to_bytes("G2", m)) = Done(m)
    BY <1>1, <2>1, PointEncoded, WireFacts DEF m
  <2> QED BY <2>1, <2>2 DEF g2_to_bytes, g2_from_bytes, Done, m
<1>5. /\ e \in Seq(Byte) /\ Len(e) = 4 * n
      /\ \A i \in 1..n : Slice(e, (i - 1) * 4, 4) = to_bytes("G1", vk.ic[i])
  BY <1>1, IcEncoded
<1>6. /\ b \in Seq(Byte) /\ c \in Seq(Byte) /\ d \in Seq(Byte)
      /\ Len(b) = 8 /\ Len(c) = 8 /\ Len(d) = 8
      /\ g2_from_bytes(b).outcome = Ok /\ neg("G2", g2_from_bytes(b).value) = vk.beta
      /\ g2_from_bytes(c).outcome = Ok /\ neg("G2", g2_from_bytes(c).value) = vk.gamma
      /\ g2_from_bytes(d).outcome = Ok /\ neg("G2", g2_from_bytes(d).value) = vk.delta
  BY <1>1, <1>4
<1> HIDE DEF a, b, c, d, e
<1>7. /\ body \in Seq(Byte) /\ Len(body) = 28 + Len(e)
      /\ Slice(body, 0, 4) = a /\ Slice(body, 4, 8) = b
      /\ Slice(body, 12, 8) = c /\ Slice(body, 20, 8) = d
      /\ \A offset, size \in Nat : offset + size <= Len(e) =>
           Slice(body, 28 + offset, size) = Slice(e, offset, size)
  <2>1. /\ a \in Seq(Byte) /\ b \in Seq(Byte) /\ c \in Seq(Byte) /\ d \in Seq(Byte)
        /\ e \in Seq(Byte)
    BY <1>3, <1>5, <1>6
  <2>2. Len(a) = 4 /\ Len(b) = 8 /\ Len(c) = 8 /\ Len(d) = 8
    BY <1>3, <1>6
  <2>3. Len(a) = 4 /\ Len(b) = 8 /\ Len(c) = 8 /\ Len(d) = 8 =>
          CutInto(body, a, b, c, d, e)
    BY <2>1, BodyParts
  <2> QED BY <2>2, <2>3 DEF CutInto
<1> HIDE DEF body
<1>8. from_body(body) = Ok /\ IcCount(body) = n
  <2>1. Len(body) = 28 + 4 * n
    BY <1>5, <1>7
  <2> HIDE DEF n
  <2> QED BY <1>2, <1>7, <2>1, BodyAccepted
<1>9. ASSUME NEW i \in 1..n
      PROVE  IcAt(body, i) = Done(vk.ic[i])
  <2>1. /\ n \in Nat /\ (i - 1) * 4 \in Nat /\ 4 \in Nat /\ (i - 1) * 4 + 4 <= Len(e)
    BY <1>2, <1>5, LayoutAssumption
  <2>2. Slice(body, 28 + (i - 1) * 4, 4) = to_bytes("G1", vk.ic[i])
    BY <1>5, <1>7, <2>1
  <2>3. vk.ic[i] \in Point("G1")
    BY <1>1
  <2>4. from_bytes("G1", to_bytes("G1", vk.ic[i])) = Done(vk.ic[i])
    BY <1>1, <2>3, PointEncoded
  <2> QED BY <2>2, <2>4, WireFacts DEF IcAt, G1At, g1_from_bytes
<1>10. /\ G1At(body, 0) = g1_from_bytes(a)
       /\ G2At(body, G1_SIZE) = g2_from_bytes(b)
       /\ G2At(body, G1_SIZE + G2_SIZE) = g2_from_bytes(c)
       /\ G2At(body, G1_SIZE + 2 * G2_SIZE) = g2_from_bytes(d)
  BY <1>7, WireFacts DEF G1At, G2At, G2_SIZE, FQ_SIZE
<1>11. Decodes(body)
  <2>1. g1_from_bytes(a).outcome = Ok /\ \A i \in 1..n : IcAt(body, i).outcome = Ok
    BY <1>3, <1>9 DEF Done
  <2> QED BY <1>6, <1>8, <1>10, <2>1 DEF Decodes
<1>12. Elements(body) = vk
  <2>1. G1At(body, 0).value = vk.alpha
    BY <1>3, <1>10 DEF Done
  <2>2. [i \in 1..IcCount(body) |-> IcAt(body, i).value] = vk.ic
    <3>1. \A i \in 1..n : IcAt(body, i).value = vk.ic[i]
      BY <1>9 DEF Done
    <3>2. vk.ic = [i \in 1..n |-> vk.ic[i]]
      BY <1>1
    <3> QED BY <1>8, <3>1, <3>2
  <2>3. vk = [alpha |-> vk.alpha, beta |-> vk.beta, gamma |-> vk.gamma,
              delta |-> vk.delta, ic |-> vk.ic]
    BY DEF KeyElements
  <2> QED BY <1>6, <1>10, <2>1, <2>2, <2>3 DEF Elements
<1> QED BY <1>2, <1>7, <1>11, <1>12, DecodeBody DEF Done

(* A body that decodes is rebuilt cell for cell from its elements. *)
LEMMA KeyRebuilt ==
    ASSUME NEW body \in Seq(Byte), Decodes(body)
    PROVE  OnChainKey_new(Elements(body)) = Done(body)
<1> DEFINE n == IcCount(body)
           vk == Elements(body)
           s1 == Slice(body, 0, 4)
           s2 == Slice(body, 4, 8)
           s3 == Slice(body, 12, 8)
           s4 == Slice(body, 20, 8)
           s5 == Slice(body, 28, 4 * n)
<1>0. "G1" \in Group /\ "G2" \in Group
  BY DEF Group
<1>1. /\ n \in 1..MAX_PUBLIC_INPUTS + 1 /\ Len(body) = 28 + 4 * n
      /\ MAX_PUBLIC_INPUTS \in Nat /\ n \in Nat
  BY BodyLength, LayoutAssumption DEF Decodes
<1>2. ASSUME NEW o \in Nat, o + 4 <= Len(body), G1At(body, o).outcome = Ok
      PROVE  g1_to_bytes(G1At(body, o).value) = Slice(body, o, 4)
  <2>1. Slice(body, o, 4) \in Seq(Byte) /\ Len(Slice(body, o, 4)) = 4
    BY <1>2, 4 \in Nat, SliceCells
  <2>2. G1At(body, o) = from_bytes("G1", Slice(body, o, 4))
    BY WireFacts DEF G1At, g1_from_bytes
  <2> QED BY <1>0, <1>2, <2>1, <2>2, PointDecoded, WireFacts DEF g1_to_bytes
<1>3. ASSUME NEW o \in Nat, o + 8 <= Len(body), G2At(body, o).outcome = Ok
      PROVE  g2_to_bytes(neg("G2", neg("G2", G2At(body, o).value))) = Slice(body, o, 8)
  <2>1. Slice(body, o, 8) \in Seq(Byte) /\ Len(Slice(body, o, 8)) = 8
    BY <1>3, 8 \in Nat, SliceCells
  <2>2. G2At(body, o) = from_bytes("G2", Slice(body, o, 8))
    BY DEF G2At, g2_from_bytes, G2_SIZE, FQ_SIZE
  <2>3. /\ G2At(body, o).value \in Point("G2")
        /\ to_bytes("G2", G2At(body, o).value) = Slice(body, o, 8)
    BY <1>0, <1>3, <2>1, <2>2, PointDecoded, WireFacts
  <2> QED BY <1>0, <2>3, NegPoint DEF g2_to_bytes
<1>4. /\ 0 \in Nat /\ 4 \in Nat /\ 12 \in Nat /\ 20 \in Nat
      /\ 0 + 4 <= Len(body) /\ 4 + 8 <= Len(body) /\ 12 + 8 <= Len(body)
      /\ 20 + 8 <= Len(body)
  BY <1>1
<1>5. /\ G1At(body, 0).outcome = Ok /\ G2At(body, 4).outcome = Ok
      /\ G2At(body, 12).outcome = Ok /\ G2At(body, 20).outcome = Ok
      /\ \A i \in 1..n : IcAt(body, i).outcome = Ok
  BY WireFacts DEF Decodes, G2_SIZE, FQ_SIZE
<1>6. /\ vk.alpha = G1At(body, 0).value
      /\ vk.beta = neg("G2", G2At(body, 4).value)
      /\ vk.gamma = neg("G2", G2At(body, 12).value)
      /\ vk.delta = neg("G2", G2At(body, 20).value)
      /\ vk.ic = [i \in 1..n |-> IcAt(body, i).value]
  BY WireFacts DEF Elements, G2_SIZE, FQ_SIZE
<1> HIDE DEF vk
<1>7. g1_to_bytes(vk.alpha) = s1
  BY <1>2, <1>4, <1>5, <1>6
<1>8. /\ g2_to_bytes(neg("G2", vk.beta)) = s2
      /\ g2_to_bytes(neg("G2", vk.gamma)) = s3
      /\ g2_to_bytes(neg("G2", vk.delta)) = s4
  BY <1>3, <1>4, <1>5, <1>6
<1>9. IcBytes(vk.ic) = s5
  <2> DEFINE at(k) == ((k - 1) \div 4) + 1
             cell(k) == ((k - 1) % 4) + 1
  <2>1. Len(vk.ic) = n
    BY <1>1, <1>6
  <2>2. ASSUME NEW k \in 1..4 * n
        PROVE  g1_to_bytes(vk.ic[at(k)])[cell(k)] = body[28 + k]
    <3> DEFINE o == 28 + (at(k) - 1) * 4
    <3>1. /\ at(k) \in 1..n /\ cell(k) \in 1..4
          /\ o \in Nat /\ o + 4 <= Len(body) /\ o + cell(k) = 28 + k
      BY <1>1
    <3> HIDE DEF at, cell
    <3>2. G1At(body, o) = IcAt(body, at(k))
      BY WireFacts DEF IcAt
    <3> HIDE DEF o
    <3>3. g1_to_bytes(G1At(body, o).value) = Slice(body, o, 4)
      BY <1>2, <1>5, <3>1, <3>2
    <3>4. vk.ic[at(k)] = G1At(body, o).value
      BY <1>6, <3>1, <3>2
    <3>5. Slice(body, o, 4)[cell(k)] = body[o + cell(k)]
      BY <3>1, 4 \in Nat, SliceCells
    <3> QED BY <3>1, <3>3, <3>4, <3>5
  <2>3. IcBytes(vk.ic) = [k \in 1..4 * n |-> g1_to_bytes(vk.ic[at(k)])[cell(k)]]
    BY <2>1, WireFacts DEF IcBytes
  <2> HIDE DEF at, cell
  <2>4. /\ s5 \in Seq(Byte) /\ Len(s5) = 4 * n /\ \A k \in 1..4 * n : s5[k] = body[28 + k]
    <3>1. 28 \in Nat /\ 4 * n \in Nat /\ 28 + 4 * n <= Len(body)
      BY <1>1
    <3> HIDE DEF n
    <3> QED BY <3>1, SliceCells, ZenonT(60)
  <2> HIDE DEF s5
  <2>5. s5 = [k \in 1..4 * n |-> body[28 + k]]
    BY <2>4
  <2> QED BY <2>2, <2>3, <2>5
<1>10. s1 \o s2 \o s3 \o s4 \o s5 = body
  <2> DEFINE upto(k) == SubSeq(body, 1, k)
             end == Len(body)
  <2>1. ASSUME NEW m \in Nat, NEW k \in Nat, m <= k, k <= end
        PROVE  upto(m) \o SubSeq(body, m + 1, k) = upto(k)
    <3>1. 0 \in Nat /\ 0 <= m /\ 0 + 1 = 1
      OBVIOUS
    <3> QED BY <2>1, <3>1, Rejoined
  <2>2. /\ 4 <= 12 /\ 12 <= 20 /\ 20 <= 28 /\ 28 <= end /\ 12 <= end /\ 20 <= end
        /\ end <= end /\ 28 \in Nat /\ end \in Nat
    BY <1>1
  <2>3. /\ s1 = upto(4) /\ s2 = SubSeq(body, 4 + 1, 12)
        /\ s3 = SubSeq(body, 12 + 1, 20) /\ s4 = SubSeq(body, 20 + 1, 28)
        /\ s5 = SubSeq(body, 28 + 1, end)
    BY <1>1 DEF Slice
  <2>4. upto(end) = body
    BY SubSeqFull
  <2> HIDE DEF s1, s2, s3, s4, s5, upto, end
  <2>5. s1 \o s2 = upto(12)
    BY <1>4, <2>1, <2>2, <2>3
  <2>6. upto(12) \o s3 = upto(20)
    BY <1>4, <2>1, <2>2, <2>3
  <2>7. upto(20) \o s4 = upto(28)
    BY <1>4, <2>1, <2>2, <2>3
  <2>8. upto(28) \o s5 = upto(end)
    BY <1>4, <2>1, <2>2, <2>3
  <2> QED BY <2>4, <2>5, <2>6, <2>7, <2>8, Zenon
<1>11. Len(vk.ic) = n
  BY <1>1, <1>6
<1>12. ~(n = 0) /\ ~(n - 1 > MAX_PUBLIC_INPUTS)
  BY <1>1
<1> HIDE DEF s1, s2, s3, s4, s5, n
<1>13. OnChainKey_new(vk) = Done(body)
  BY <1>7, <1>8, <1>9, <1>10, <1>11, <1>12 DEF OnChainKey_new
<1> QED BY <1>13 DEF vk

(* A proof read back from its encoding is the proof. *)
LEMMA ProofDecoded ==
    ASSUME NEW pa \in Point("G1"), NEW pb \in Point("G2"), NEW pc_ \in Point("G1")
    PROVE  LET proof == [a |-> pa, b |-> pb, c |-> pc_] IN
           OnChainProof_elements(OnChainProof_new(proof)) = Done(proof)
<1> DEFINE proof == [a |-> pa, b |-> pb, c |-> pc_]
           a == g1_to_bytes(pa)
           b == g2_to_bytes(pb)
           c == g1_to_bytes(pc_)
           ab == a \o b
           bytes == ab \o c
<1>1. "G1" \in Group /\ "G2" \in Group
  BY DEF Group
<1>2. /\ a \in Seq(Byte) /\ Len(a) = 4 /\ g1_from_bytes(a) = Done(pa)
      /\ b \in Seq(Byte) /\ Len(b) = 8 /\ g2_from_bytes(b) = Done(pb)
      /\ c \in Seq(Byte) /\ Len(c) = 4 /\ g1_from_bytes(c) = Done(pc_)
  BY <1>1, PointEncoded, WireFacts
     DEF g1_to_bytes, g2_to_bytes, g1_from_bytes, g2_from_bytes
<1> HIDE DEF a, b, c
<1>3. a \in Seq(Byte) /\ b \in Seq(Byte) /\ c \in Seq(Byte)
  BY <1>2
<1>4. /\ ab \in Seq(Byte) /\ Len(ab) = Len(a) + Len(b)
      /\ Slice(ab, 0, Len(a)) = a /\ Slice(ab, Len(a), Len(b)) = b
  BY <1>3, TwoParts
<1> HIDE DEF ab
<1>5. ab \in Seq(Byte)
  BY <1>4
<1>6. Slice(bytes, Len(ab), Len(c)) = c
  BY <1>3, <1>5, TwoParts
<1>7. ASSUME NEW o \in Nat, NEW s \in Nat
      PROVE  o + s <= Len(ab) => Slice(bytes, o, s) = Slice(ab, o, s)
  BY <1>3, <1>5, SliceWithin
<1> HIDE DEF bytes
<1>8. Len(ab) = 12 /\ Slice(ab, 0, 4) = a /\ Slice(ab, 4, 8) = b
  BY <1>2, <1>4
<1>9. /\ 0 \in Nat /\ 4 \in Nat /\ 8 \in Nat /\ 0 + 4 <= Len(ab) /\ 4 + 8 <= Len(ab)
  BY <1>8
<1>10. /\ Slice(bytes, 0, 4) = a /\ Slice(bytes, 4, 8) = b /\ Slice(bytes, 12, 4) = c
  BY <1>2, <1>6, <1>7, <1>8, <1>9
<1>11. OnChainProof_new(proof) = bytes
  BY DEF OnChainProof_new, a, b, c, ab, bytes
<1>12. /\ PROOF_A_OFFSET = 0 /\ PROOF_B_OFFSET = 4 /\ PROOF_C_OFFSET = 12
       /\ G1_SIZE = 4 /\ G2_SIZE = 8
  BY WireFacts DEF PROOF_A_OFFSET, PROOF_B_OFFSET, PROOF_C_OFFSET, G2_SIZE, FQ_SIZE
<1>13. OnChainProof_elements(bytes) = Done(proof)
  <2>1. /\ g1_from_bytes(a).outcome = Ok /\ g1_from_bytes(a).value = pa
        /\ g2_from_bytes(b).outcome = Ok /\ g2_from_bytes(b).value = pb
        /\ g1_from_bytes(c).outcome = Ok /\ g1_from_bytes(c).value = pc_
    BY <1>2 DEF Done
  <2> QED BY <1>10, <1>12, <2>1 DEF OnChainProof_elements
<1> QED BY <1>11, <1>13

-----------------------------------------------------------------------------
(* What a parser returns passed the subgroup check. *)
LEMMA CheckedPoint ==
    ASSUME NEW g, NEW p, checked_affine(g, p).outcome = Ok
    PROVE  checked_affine(g, p).value \in Point(g)
BY DEF checked_affine, Done, Fail, Ok, Point

(* Raw or compressed, a point that was read is in the subgroup. *)
LEMMA PointChecked ==
    ASSUME NEW g, ReadPoint(g).outcome = Ok
    PROVE  ReadPoint(g).value \in Point(g)
<1>1. PICK raw : ReadPoint(g) = Decoded(g, Flag(peek), raw)
  <2>1. Remaining # 0
    BY DEF ReadPoint, Fail, Ok
  <2>2. take(SizeOf(g)).outcome = Ok
    BY <2>1 DEF ReadPoint
  <2>3. ReadPoint(g) = Decoded(g, Flag(peek), take(SizeOf(g)).value)
    BY <2>1, <2>2 DEF ReadPoint
  <2> QED BY <2>3
<1>2. Identity \in Point(g) /\ Done(Identity).value = Identity
  BY DEF Point, Done
<1>3. CASE Flag(peek) = FLAG_UNCOMPRESSED
  <2>1. ReadPoint(g) = from_bytes(g, raw)
    BY <1>1, <1>3 DEF Decoded
  <2>2. CASE AllZero(raw)
    BY <1>2, <2>1, <2>2 DEF from_bytes
  <2>3. CASE ~AllZero(raw)
    <3>1. PICK p : from_bytes(g, raw) = checked_affine(g, p)
      <4> DEFINE half == PointSize(g) \div 2
                 x == FieldFrom(g, Slice(raw, 0, half))
                 y == FieldFrom(g, Slice(raw, half, half))
      <4>1. from_bytes(g, raw) = IF x.outcome # Ok THEN x
                                 ELSE IF y.outcome # Ok THEN y
                                 ELSE checked_affine(g, <<x.value, y.value>>)
        BY <2>3 DEF from_bytes
      <4> HIDE DEF x, y
      <4> QED BY <2>1, <4>1
    <3> QED BY <2>1, <3>1, CheckedPoint
  <2> QED BY <2>2, <2>3
<1>4. CASE Flag(peek) # FLAG_UNCOMPRESSED /\ Flag(peek) = FLAG_COMPRESSED_INFINITY
  <2>1. ReadPoint(g) = expect_zero_after_flag(raw)
    BY <1>1, <1>4 DEF Decoded
  <2> QED BY <1>2, <2>1 DEF expect_zero_after_flag, Fail, Ok
<1>5. CASE Flag(peek) # FLAG_UNCOMPRESSED /\ Flag(peek) # FLAG_COMPRESSED_INFINITY
  <2> DEFINE x == FieldFrom(g, Unflagged(raw))
             largest == Flag(peek) = FLAG_COMPRESSED_LARGEST
             found == get_point_from_x_unchecked(g, x.value, largest)
  <2>1. ReadPoint(g) = IF x.outcome # Ok THEN x ELSE decompress(g, x.value, largest)
    BY <1>1, <1>5 DEF Decoded
  <2> HIDE DEF x, largest
  <2>2. ReadPoint(g) = decompress(g, x.value, largest)
    BY <2>1
  <2>3. decompress(g, x.value, largest)
          = IF found.outcome # Ok THEN found
            ELSE IF found.value = Identity THEN Fail("InvalidPoint")
            ELSE checked_affine(g, found.value)
    BY DEF decompress
  <2> HIDE DEF found
  <2>4. ReadPoint(g) = checked_affine(g, found.value)
    BY <2>2, <2>3 DEF Fail, Ok
  <2> QED BY <2>4, CheckedPoint
<1> QED BY <1>3, <1>4, <1>5

-----------------------------------------------------------------------------
Stages == [key |-> {"key points", "k_len", "ic", "inner", "key end"},
           proof |-> {"proof points", "commitments", "pok", "proof end"},
           witness |-> WitnessPc,
           body |-> {"body"}]

(* The group of the k-th point of a file. *)
FixedPoints == IF file.kind = "key" THEN KeyPoints ELSE ProofPoints
FixedCount == IF file.kind = "key" THEN 6 ELSE 3
PointType(k) == IF k <= FixedCount THEN FixedPoints[k] ELSE "G1"

ReadsPoints == file.kind \in {"key", "proof"}
Reading == {"key points", "proof points"}

(* The value of a call that succeeds. *)
Answer(r) ==
    /\ file.kind = "key" => Len(read) >= 6 /\ r = OnChainKey_new(ParsedKey)
    /\ file.kind = "proof" =>
         /\ Len(read) >= 3
         /\ r = Done(OnChainProof_new([a |-> read[1], b |-> read[2], c |-> read[3]]))
    /\ file.kind = "body" => r = OnChainKey_from_body(file.bytes)

(* Every point kept so far is a checked point of the group expected there, and
   the fixed points are complete once the parser is past them. *)
ReadInv ==
    /\ pc \in Stages[file.kind] \cup {"done"}
    /\ ReadsPoints =>
         /\ \A k \in 1..Len(read) : read[k] \in Point(PointType(k))
         /\ pc \in Reading => Len(read) < FixedCount
         /\ pc \notin Reading \cup {"done"} => Len(read) >= FixedCount
    /\ pc = "done" /\ result.outcome = Ok => Answer(result)

(* The statements of each parser, one by one. *)
LEMMA StageSets ==
    /\ Stages["key"] = {"key points", "k_len", "ic", "inner", "key end"}
    /\ Stages["proof"] = {"proof points", "commitments", "pok", "proof end"}
    /\ Stages["witness"] = {"nb_public", "nb_secret", "len", "scalars"}
    /\ Stages["body"] = {"body"}
BY DEF Stages, WitnessPc

(* The statement that runs tells what is being parsed. *)
LEMMA KindOf ==
    ASSUME BoundInv, ReadInv
    PROVE  /\ pc \in Stages["key"] => file.kind = "key"
           /\ pc \in Stages["proof"] => file.kind = "proof"
           /\ pc \in Stages["witness"] => file.kind = "witness"
           /\ pc \in Stages["body"] => file.kind = "body"
<1>1. file.kind \in {"key", "proof", "witness", "body"}
  BY FileAssumption DEF BoundInv
<1>2. pc \in Stages[file.kind] \cup {"done"}
  BY DEF ReadInv
<1> QED BY <1>1, <1>2, StageSets

(* A return keeps ReadInv if a success returns the answer. *)
LEMMA ReturnTyped ==
    ASSUME ReadInv, NEW r, Return(r), r.outcome = Ok => Answer(r)
    PROVE  ReadInv'
<1>1. UNCHANGED <<file, read>> /\ result' = r /\ pc' = "done"
  BY DEF Return
<1>2. (result.outcome = Ok => Answer(result))'
  BY <1>1 DEF Answer, ParsedKey
<1>3. (ReadsPoints => \A k \in 1..Len(read) : read[k] \in Point(PointType(k)))'
  BY <1>1 DEF ReadInv, ReadsPoints, PointType, FixedPoints, FixedCount
<1> QED BY <1>1, <1>2, <1>3 DEF ReadInv, Reading

(* A return with an error keeps the invariant. *)
LEMMA FailTyped ==
    ASSUME ReadInv, NEW r, Return(r), r.outcome # Ok
    PROVE  ReadInv'
BY ReturnTyped

(* A point read where one of its group is expected. *)
LEMMA PointTyped ==
    ASSUME BoundInv, ReadInv, NEW g, NEW next, PointRead(g, next), ReadsPoints,
           g = PointType(Len(read) + 1),
           next \in Stages[file.kind],
           next \in Reading => Len(read) + 1 < FixedCount,
           next \notin Reading => Len(read) + 1 >= FixedCount
    PROVE  ReadInv'
<1>1. CASE ReadPoint(g).outcome # Ok
  BY <1>1, FailTyped DEF PointRead
<1>2. CASE ReadPoint(g).outcome = Ok
  <2> DEFINE p == ReadPoint(g).value
             n == Len(read)
  <2>1. p \in Point(g)
    BY <1>2, PointChecked
  <2>2. /\ read' = Append(read, p) /\ pc' = next /\ UNCHANGED <<file, result>>
    BY <1>2 DEF PointRead
  <2> HIDE DEF p
  <2>3. PICK S : read \in Seq(S)
    BY DEF BoundInv, IsSequence
  <2>4. read \in Seq(S \cup {p}) /\ n \in Nat
    BY <2>3
  <2>5. /\ Len(Append(read, p)) = n + 1 /\ Append(read, p)[n + 1] = p
        /\ \A k \in 1..n : Append(read, p)[k] = read[k]
    BY <2>4
  <2>6. ASSUME NEW k \in 1..n + 1
        PROVE  Append(read, p)[k] \in Point(PointType(k))
    <3>1. CASE k = n + 1
      BY <2>1, <2>5, <3>1
    <3>2. CASE k # n + 1
      <4>1. k \in 1..n
        BY <2>4, <3>2
      <4> QED BY <2>5, <4>1 DEF ReadInv
    <3> QED BY <3>1, <3>2
  <2>7. next # "done"
    BY StageSets DEF ReadsPoints
  <2>9. (\A k \in 1..Len(read) : read[k] \in Point(PointType(k)))'
    BY <2>2, <2>5, <2>6 DEF PointType, FixedPoints, FixedCount
  <2>10. (FixedCount)' = FixedCount /\ Len(read)' = n + 1
    BY <2>2, <2>5 DEF FixedPoints, FixedCount
  <2> HIDE DEF n
  <2> QED BY <2>2, <2>7, <2>9, <2>10 DEF ReadInv, Reading, n
<1> QED BY <1>1, <1>2

(* A count read past the fixed points. *)
LEMMA CountTyped ==
    ASSUME BoundInv, ReadInv, NEW checks, NEW next, NEW loop, NEW room,
           CountRead(checks, next, loop, room),
           pc \notin Reading \cup {"done"},
           next \in Stages[file.kind], next \notin Reading \cup {"done"}
    PROVE  ReadInv'
<1>1. CASE (u32.outcome ?? checks) # Ok
  <2>1. Fail(u32.outcome ?? checks).outcome # Ok
    BY <1>1 DEF Fail
  <2> QED BY <1>1, <2>1, FailTyped DEF CountRead
<1>2. CASE (u32.outcome ?? checks) = Ok
  <2>1. pc' = next /\ UNCHANGED <<file, read, result>>
    BY <1>2 DEF CountRead
  <2>2. (ReadsPoints => \A k \in 1..Len(read) : read[k] \in Point(PointType(k)))'
    BY <2>1 DEF ReadInv, ReadsPoints, PointType, FixedPoints, FixedCount
  <2>3. (ReadsPoints => Len(read) >= FixedCount)'
    BY <2>1 DEF ReadInv, ReadsPoints, FixedPoints, FixedCount
  <2> QED BY <2>1, <2>2, <2>3 DEF ReadInv
<1> QED BY <1>1, <1>2

(* The steps of parse_verifying_key keep ReadInv ... *)
LEMMA KeyReads ==
    ASSUME BoundInv, ReadInv,
           KeyPoint \/ KeyLen \/ KeyIc \/ KeyOuter \/ KeyInner
             \/ KeyCommitmentKeys \/ KeyEnd
    PROVE  ReadInv'
<1>1. file.kind = "key" /\ ReadsPoints /\ FixedCount = 6 /\ FixedPoints = KeyPoints
  <2>1. pc \in Stages["key"]
    BY StageSets
       DEF KeyPoint, KeyLen, KeyIc, KeyOuter, KeyInner, KeyCommitmentKeys, KeyEnd
  <2> QED BY <2>1, KindOf DEF ReadsPoints, FixedPoints, FixedCount
<1>2. Len(read) \in Nat
  BY AppendGrows DEF BoundInv
<1>3. CASE KeyPoint
  <2> DEFINE k == Len(read) + 1
             after == IF k = Len(KeyPoints) THEN "k_len" ELSE pc
  <2>1. PointRead(KeyPoints[k], after) /\ pc = "key points" /\ Len(read) < 6
    <3>1. PointRead(KeyPoints[k], after) /\ pc = "key points"
      BY <1>3 DEF KeyPoint
    <3>2. Len(read) < FixedCount
      BY <1>1, <3>1 DEF ReadInv, Reading
    <3> QED BY <1>1, <3>1, <3>2
  <2>2. KeyPoints[k] = PointType(k)
    <3>1. Len(read) < 6
      BY <2>1
    <3>2. k <= 6
      BY <1>2, <3>1
    <3> QED BY <1>1, <3>2 DEF PointType
  <2>3. /\ after \in Stages["key"]
        /\ after \in Reading => k < 6
        /\ after \notin Reading => k >= 6
    <3>1. after = IF k = 6 THEN "k_len" ELSE "key points"
      BY <2>1 DEF KeyPoints
    <3>2. Len(read) < 6
      BY <2>1
    <3>3. (k = 6 /\ k >= 6) \/ (k # 6 /\ k < 6)
      BY <1>2, <3>2
    <3> HIDE DEF k, after
    <3>4. CASE k = 6 /\ k >= 6
      <4>1. after = "k_len"
        BY <3>1, <3>4
      <4> QED BY <3>4, <4>1, StageSets DEF Reading
    <3>5. CASE k # 6 /\ k < 6
      <4>1. after = "key points"
        BY <3>1, <3>5
      <4> QED BY <3>5, <4>1, StageSets DEF Reading
    <3> QED BY <3>3, <3>4, <3>5
  <2> DEFINE g == KeyPoints[k]
  <2> HIDE DEF after
  <2>4. /\ PointRead(g, after) /\ g = PointType(Len(read) + 1)
        /\ after \in Stages[file.kind]
        /\ after \in Reading => Len(read) + 1 < FixedCount
        /\ after \notin Reading => Len(read) + 1 >= FixedCount
    BY <1>1, <2>1, <2>2, <2>3
  <2> HIDE DEF g
  <2> QED BY <1>1, <2>4, PointTyped
<1>4. CASE KeyIc
  <2>1. PointRead("G1", "ic") /\ Len(read) >= 6
    BY <1>1, <1>4 DEF KeyIc, ReadInv, Reading
  <2>2. Len(read) + 1 >= 6 /\ ~(Len(read) + 1 <= 6)
    <3>1. Len(read) >= 6
      BY <2>1
    <3> QED BY <1>2, <3>1
  <2>3. PointType(Len(read) + 1) = "G1"
    BY <1>1, <2>2 DEF PointType
  <2> QED BY <1>1, <2>1, <2>2, <2>3, StageSets, PointTyped DEF Reading
<1>5. CASE KeyLen
  BY <1>1, <1>5, StageSets, CountTyped DEF KeyLen, Reading
<1>6. CASE KeyOuter
  BY <1>1, <1>6, StageSets, CountTyped DEF KeyOuter, Reading
<1>7. CASE KeyInner
  BY <1>1, <1>7, StageSets, CountTyped DEF KeyInner, Reading
<1>8. CASE KeyCommitmentKeys
  BY <1>1, <1>8, StageSets, CountTyped DEF KeyCommitmentKeys, Reading
<1>9. CASE KeyEnd
  <2> DEFINE r == IF finish # Ok THEN Fail(finish) ELSE OnChainKey_new(ParsedKey)
  <2>1. Return(r) /\ Len(read) >= 6
    BY <1>1, <1>9 DEF KeyEnd, ReadInv, Reading
  <2>2. r.outcome = Ok => Answer(r)
    BY <1>1, <2>1 DEF Answer, Fail
  <2> HIDE DEF r
  <2> QED BY <2>1, <2>2, ReturnTyped
<1> QED BY <1>3, <1>4, <1>5, <1>6, <1>7, <1>8, <1>9

(* ... and those of parse_proof ... *)
LEMMA ProofReads ==
    ASSUME BoundInv, ReadInv, ProofPoint \/ ProofCommitments \/ ProofPok \/ ProofEnd
    PROVE  ReadInv'
<1>1. /\ file.kind = "proof" /\ ReadsPoints /\ FixedCount = 3
      /\ FixedPoints = ProofPoints
  <2>1. pc \in Stages["proof"]
    BY StageSets DEF ProofPoint, ProofCommitments, ProofPok, ProofEnd
  <2> QED BY <2>1, KindOf DEF ReadsPoints, FixedPoints, FixedCount
<1>2. Len(read) \in Nat
  BY AppendGrows DEF BoundInv
<1>3. CASE ProofPoint
  <2> DEFINE k == Len(read) + 1
             after == IF k = Len(ProofPoints) THEN "commitments" ELSE pc
  <2>1. PointRead(ProofPoints[k], after) /\ pc = "proof points" /\ Len(read) < 3
    <3>1. PointRead(ProofPoints[k], after) /\ pc = "proof points"
      BY <1>3 DEF ProofPoint
    <3>2. Len(read) < FixedCount
      BY <1>1, <3>1 DEF ReadInv, Reading
    <3> QED BY <1>1, <3>1, <3>2
  <2>2. ProofPoints[k] = PointType(k)
    <3>1. Len(read) < 3
      BY <2>1
    <3>2. k <= 3
      BY <1>2, <3>1
    <3> QED BY <1>1, <3>2 DEF PointType
  <2>3. /\ after \in Stages["proof"]
        /\ after \in Reading => k < 3
        /\ after \notin Reading => k >= 3
    <3>1. after = IF k = 3 THEN "commitments" ELSE "proof points"
      BY <2>1 DEF ProofPoints
    <3>2. Len(read) < 3
      BY <2>1
    <3>3. (k = 3 /\ k >= 3) \/ (k # 3 /\ k < 3)
      BY <1>2, <3>2
    <3> HIDE DEF k, after
    <3>4. CASE k = 3 /\ k >= 3
      <4>1. after = "commitments"
        BY <3>1, <3>4
      <4> QED BY <3>4, <4>1, StageSets DEF Reading
    <3>5. CASE k # 3 /\ k < 3
      <4>1. after = "proof points"
        BY <3>1, <3>5
      <4> QED BY <3>5, <4>1, StageSets DEF Reading
    <3> QED BY <3>3, <3>4, <3>5
  <2> DEFINE g == ProofPoints[k]
  <2> HIDE DEF after
  <2>4. /\ PointRead(g, after) /\ g = PointType(Len(read) + 1)
        /\ after \in Stages[file.kind]
        /\ after \in Reading => Len(read) + 1 < FixedCount
        /\ after \notin Reading => Len(read) + 1 >= FixedCount
    BY <1>1, <2>1, <2>2, <2>3
  <2> HIDE DEF g
  <2> QED BY <1>1, <2>4, PointTyped
<1>4. CASE ProofCommitments
  BY <1>1, <1>4, StageSets, CountTyped DEF ProofCommitments, Reading
<1>5. CASE ProofPok
  <2>1. PointRead("G1", "proof end") /\ Len(read) >= 3
    BY <1>1, <1>5 DEF ProofPok, ReadInv, Reading
  <2>2. Len(read) + 1 >= 3 /\ ~(Len(read) + 1 <= 3)
    <3>1. Len(read) >= 3
      BY <2>1
    <3> QED BY <1>2, <3>1
  <2>3. PointType(Len(read) + 1) = "G1"
    BY <1>1, <2>2 DEF PointType
  <2> QED BY <1>1, <2>1, <2>2, <2>3, StageSets, PointTyped DEF Reading
<1>6. CASE ProofEnd
  <2> DEFINE r == IF finish # Ok THEN Fail(finish)
                  ELSE Done(OnChainProof_new([a |-> read[1], b |-> read[2],
                                              c |-> read[3]]))
  <2>1. Return(r) /\ Len(read) >= 3
    BY <1>1, <1>6 DEF ProofEnd, ReadInv, Reading
  <2>2. r.outcome = Ok => Answer(r)
    BY <1>1, <2>1 DEF Answer, Fail
  <2> HIDE DEF r
  <2> QED BY <2>1, <2>2, ReturnTyped
<1> QED BY <1>3, <1>4, <1>5, <1>6

(* ... and those of parse_public_witness. *)
LEMMA WitnessReads ==
    ASSUME BoundInv, ReadInv,
           WitnessPublic \/ WitnessSecret \/ WitnessLen \/ WitnessScalar \/ WitnessEnd
    PROVE  ReadInv'
<1>1. file.kind = "witness"
  <2>1. pc \in Stages["witness"]
    BY StageSets DEF WitnessPublic, WitnessSecret, WitnessLen, WitnessScalar, WitnessEnd
  <2> QED BY <2>1, KindOf
<1>2. \A r : r.outcome = Ok => Answer(r)
  BY <1>1 DEF Answer
<1>3. CASE WitnessPublic
  BY <1>1, <1>3, StageSets, CountTyped DEF WitnessPublic, Reading
<1>4. CASE WitnessSecret
  BY <1>1, <1>4, StageSets, CountTyped DEF WitnessSecret, Reading
<1>5. CASE WitnessLen
  BY <1>1, <1>5, StageSets, CountTyped DEF WitnessLen, Reading
<1>6. CASE WitnessScalar
  <2>1. CASE fr.outcome # Ok
    BY <1>6, <2>1, FailTyped DEF WitnessScalar
  <2>2. CASE fr.outcome = Ok
    <3>1. UNCHANGED <<file, pc, result>> /\ pc = "scalars"
      BY <1>6, <2>2 DEF WitnessScalar
    <3> QED BY <1>1, <3>1, StageSets DEF ReadInv, ReadsPoints
  <2> QED BY <2>1, <2>2
<1>7. CASE WitnessEnd
  BY <1>2, <1>7, ReturnTyped DEF WitnessEnd
<1> QED BY <1>3, <1>4, <1>5, <1>6, <1>7

(* ReadInv is an invariant of the converter. *)
LEMMA ReadInvariant == Spec => []ReadInv
<1>1. Init => ReadInv
  <2> SUFFICES ASSUME Init PROVE ReadInv
    OBVIOUS
  <2>1. file.kind \in {"key", "proof", "witness", "body"}
    BY FileAssumption DEF Init
  <2>2. pc = Entry[file.kind] /\ read = <<>> /\ Len(read) = 0
    BY DEF Init
  <2>3. /\ Entry["key"] = "key points" /\ Entry["proof"] = "proof points"
        /\ Entry["body"] = "body" /\ Entry["witness"] = "nb_public"
    BY DEF Entry
  <2>4. pc \in Stages[file.kind] /\ pc # "done" /\ (ReadsPoints => pc \in Reading)
    BY <2>1, <2>2, <2>3, StageSets DEF ReadsPoints, Reading
  <2>5. ReadsPoints => Len(read) < FixedCount
    BY <2>2 DEF FixedCount
  <2> QED BY <2>2, <2>4, <2>5 DEF ReadInv
<1>2. BoundInv /\ ReadInv /\ [Next]_vars => ReadInv'
  <2> SUFFICES ASSUME BoundInv, ReadInv, [Next]_vars PROVE ReadInv'
    OBVIOUS
  <2>1. CASE FromBody
    <3>1. file.kind = "body"
      BY <2>1, KindOf, StageSets DEF FromBody
    <3>2. Answer(OnChainKey_from_body(file.bytes))
      BY <3>1 DEF Answer
    <3> QED BY <2>1, <3>2, ReturnTyped DEF FromBody
  <2>2. CASE UNCHANGED vars
    BY <2>2 DEF vars, ReadInv, ReadsPoints, PointType, FixedPoints, FixedCount, Answer,
                ParsedKey
  <2> QED BY <2>1, <2>2, KeyReads, ProofReads, WitnessReads DEF Next, Returned
<1> QED BY <1>1, <1>2, BoundInvariant, PTL DEF Spec

(* OnChainKey::from_body, for every body of any length, modulus and curve: a body
   that decodes is rebuilt cell for cell, so the debug assertion there never
   fails and one key has one body. *)
THEOREM BodyRebuilt == Spec => []RebuildsBody
<1>1. BoundInv /\ ReadInv => RebuildsBody
  <2> SUFFICES ASSUME BoundInv, ReadInv, pc = "done", file.kind = "body",
                      result.outcome = Ok
               PROVE  result.value = file.bytes
    BY DEF RebuildsBody, done
  <2> DEFINE body == file.bytes
  <2>1. body \in Seq(Byte)
    BY FileTyped DEF Byte
  <2>2. result = Then(decode_body(body), OnChainKey_new)
    BY DEF ReadInv, Answer, OnChainKey_from_body
  <2> HIDE DEF body
  <2>3. decode_body(body).outcome = Ok
    BY <2>2 DEF Then
  <2>4. decode_body(body) = Done(Elements(body)) /\ Decodes(body)
    BY <2>1, <2>3, DecodeBody
  <2>5. result = OnChainKey_new(Elements(body))
    BY <2>2, <2>4 DEF Then, Done
  <2>6. result = Done(body)
    BY <2>1, <2>4, <2>5, KeyRebuilt
  <2> QED BY <2>6 DEF Done, body
<1> QED BY <1>1, BoundInvariant, ReadInvariant, PTL

(* For every file, damaged or not: a key or proof that a parser returns decodes
   on chain, with every subgroup check, to the very elements that were read, the
   negations of beta, gamma and delta undone. *)
THEOREM NothingUnchecked == Spec => []ConvertedDecodes
<1>1. BoundInv /\ ReadInv => ConvertedDecodes
  <2> SUFFICES ASSUME BoundInv, ReadInv, done, result.outcome = Ok
               PROVE  /\ file.kind = "key" =>
                           OnChainKey_elements(result.value) = Done(ParsedKey)
                      /\ file.kind = "proof" =>
                           OnChainProof_elements(result.value).outcome = Ok
    BY DEF ConvertedDecodes
  <2>1. Answer(result)
    BY DEF ReadInv, done
  <2>2. ASSUME NEW k \in 1..Len(read), ReadsPoints
        PROVE  read[k] \in Point(PointType(k))
    BY <2>2 DEF ReadInv
  <2>3. Len(read) \in Nat
    BY AppendGrows DEF BoundInv
  <2>4. ASSUME file.kind = "key"
        PROVE  OnChainKey_elements(result.value) = Done(ParsedKey)
    <3>1. Len(read) >= 6 /\ result = OnChainKey_new(ParsedKey) /\ ReadsPoints
      BY <2>1, <2>4 DEF Answer, ReadsPoints
    <3>2. ParsedKey \in KeyElements
      <4>1. /\ PointType(1) = "G1" /\ PointType(3) = "G2" /\ PointType(4) = "G2"
            /\ PointType(6) = "G2" /\ \A k \in 7..Len(read) : PointType(k) = "G1"
        BY <2>4 DEF PointType, FixedPoints, FixedCount, KeyPoints
      <4>2. /\ 1 \in 1..Len(read) /\ 3 \in 1..Len(read) /\ 4 \in 1..Len(read)
            /\ 6 \in 1..Len(read) /\ \A k \in 7..Len(read) : k \in 1..Len(read)
        BY <2>3, <3>1
      <4>3. /\ read[1] \in Point("G1") /\ read[3] \in Point("G2")
            /\ read[4] \in Point("G2") /\ read[6] \in Point("G2")
            /\ \A k \in 7..Len(read) : read[k] \in Point("G1")
        BY <2>2, <3>1, <4>1, <4>2
      <4>4. SubSeq(read, 7, Len(read)) \in Seq(Point("G1"))
        BY <2>3, <4>3, SubSeqProperties
      <4>5. Len(KeyPoints) + 1 = 7
        BY DEF KeyPoints
      <4> QED BY <4>3, <4>4, <4>5 DEF ParsedKey, KeyElements
    <3> HIDE DEF ParsedKey
    <3> QED BY <3>1, <3>2, KeyDecoded DEF OnChainKey_elements
  <2>5. ASSUME file.kind = "proof"
        PROVE  OnChainProof_elements(result.value).outcome = Ok
    <3>1. /\ Len(read) >= 3 /\ ReadsPoints
          /\ result.value
               = OnChainProof_new([a |-> read[1], b |-> read[2], c |-> read[3]])
      BY <2>1, <2>5 DEF Answer, ReadsPoints, Done
    <3>2. PointType(1) = "G1" /\ PointType(2) = "G2" /\ PointType(3) = "G1"
      BY <2>5 DEF PointType, FixedPoints, FixedCount, ProofPoints
    <3>3. 1 \in 1..Len(read) /\ 2 \in 1..Len(read) /\ 3 \in 1..Len(read)
      BY <2>3, <3>1
    <3>4. read[1] \in Point("G1") /\ read[2] \in Point("G2") /\ read[3] \in Point("G1")
      BY <2>2, <3>1, <3>2, <3>3
    <3>5. OnChainProof_elements(result.value)
            = Done([a |-> read[1], b |-> read[2], c |-> read[3]])
      BY <3>1, <3>4, ProofDecoded
    <3> QED BY <3>5 DEF Done
  <2> QED BY <2>4, <2>5
<1> QED BY <1>1, BoundInvariant, ReadInvariant, PTL

-----------------------------------------------------------------------------
(* One spelling: the cells consumed are always what gnark writes for the elements
   read, with a mixture of raw and compressed points. *)

(* The cells of each token. *)
Pieces(toks, raw) == [k \in DOMAIN toks |-> WriteToken(toks[k], k \in raw)]

(* bytes is how gnark writes the tokens, with the points in raw left raw. *)
Spelled(toks, raw, bytes) ==
    /\ IsSequence(toks)
    /\ raw \subseteq {k \in DOMAIN toks : toks[k][1] \in Group}
    /\ Pieces(toks, raw) \in Seq(Seq(Byte))
    /\ Write(toks, raw) = bytes
    /\ bytes \in Seq(Byte)

(* Nothing is spelled by nothing. *)
LEMMA SpelledNone == Spelled(<<>>, {}, <<>>)
<1>1. IsSequence(<<>>) /\ DOMAIN <<>> = {}
  BY <<>> \in Seq({}) DEF IsSequence
<1>2. Pieces(<<>>, {}) = <<>> /\ Write(<<>>, {}) = FlattenSeq(Pieces(<<>>, {}))
  BY <1>1 DEF Pieces, Write
<1>3. FlattenSeq(<<>>) = <<>>
  BY DEF FlattenSeq
<1>4. <<>> \in Seq(Seq(Byte)) /\ <<>> \in Seq(Byte)
  BY EmptySeq
<1> QED BY <1>1, <1>2, <1>3, <1>4 DEF Spelled

(* One token more: its cells are appended. *)
LEMMA SpelledAppend ==
    ASSUME NEW toks, NEW raw, NEW bytes, Spelled(toks, raw, bytes),
           NEW t, NEW b \in BOOLEAN, b => t[1] \in Group,
           NEW piece \in Seq(Byte), WriteToken(t, b) = piece
    PROVE  \E more : Spelled(Append(toks, t), more, bytes \o piece)
<1> DEFINE n == Len(toks)
           longer == Append(toks, t)
           more == IF b THEN raw \cup {n + 1} ELSE raw
           P == Pieces(toks, raw)
<1>1. PICK S : toks \in Seq(S)
  BY DEF Spelled, IsSequence
<1>2. toks \in Seq(S \cup {t}) /\ n \in Nat
  BY <1>1
<1>3. /\ longer \in Seq(S \cup {t}) /\ Len(longer) = n + 1 /\ longer[n + 1] = t
      /\ DOMAIN longer = 1..n + 1 /\ DOMAIN toks = 1..n
      /\ \A k \in 1..n : longer[k] = toks[k]
  BY <1>2
<1> HIDE DEF longer
<1>4. n + 1 \notin raw /\ raw \subseteq 1..n
  BY <1>2, <1>3 DEF Spelled
<1>5. more \subseteq {k \in DOMAIN longer : longer[k][1] \in Group}
  <2>1. \A k \in raw : k \in 1..n + 1 /\ longer[k][1] \in Group
    BY <1>2, <1>3, <1>4 DEF Spelled
  <2>2. b => n + 1 \in 1..n + 1 /\ longer[n + 1][1] \in Group
    BY <1>2, <1>3
  <2> QED BY <1>3, <2>1, <2>2
<1>6. /\ P \in Seq(Seq(Byte)) /\ DOMAIN P = 1..n /\ Len(P) = n
      /\ \A k \in 1..n : P[k] = WriteToken(toks[k], k \in raw)
  BY <1>2, <1>3 DEF Spelled, Pieces
<1>7. Pieces(longer, more) = Append(P, piece)
  <2>1. /\ Append(P, piece) \in Seq(Seq(Byte)) /\ DOMAIN Append(P, piece) = 1..n + 1
        /\ Append(P, piece)[n + 1] = piece
        /\ \A k \in 1..n : Append(P, piece)[k] = P[k]
    <3> HIDE DEF P, n
    <3> QED BY <1>2, <1>6
  <2>2. Append(P, piece) = [k \in 1..n + 1 |-> Append(P, piece)[k]]
    <3> DEFINE q == Append(P, piece)
    <3>1. q \in Seq(Seq(Byte)) /\ DOMAIN q = 1..n + 1
      BY <2>1
    <3> HIDE DEF q
    <3>2. q = [k \in 1..Len(q) |-> q[k]] /\ DOMAIN q = 1..Len(q)
      BY <3>1
    <3>3. q = [k \in DOMAIN q |-> q[k]]
      BY <3>2
    <3> QED BY <3>1, <3>3 DEF q
  <2>3. ASSUME NEW k \in 1..n + 1
        PROVE  WriteToken(longer[k], k \in more) = Append(P, piece)[k]
    <3>1. CASE k = n + 1
      <4>1. (k \in more) = b
        BY <1>4, <3>1
      <4> QED BY <1>3, <2>1, <3>1, <4>1
    <3>2. CASE k # n + 1
      <4>1. k \in 1..n
        BY <1>2, <3>2
      <4>2. (k \in more) = (k \in raw)
        BY <3>2
      <4> QED BY <1>3, <1>6, <2>1, <4>1, <4>2
    <3> QED BY <3>1, <3>2
  <2> HIDE DEF P, n, more
  <2> QED BY <1>3, <2>2, <2>3 DEF Pieces
<1>8. FlattenSeq(P) = bytes /\ bytes \in Seq(Byte)
  BY DEF Spelled, Write, Pieces
<1> HIDE DEF P, more
<1>9. /\ FlattenSeq(Append(P, piece)) = bytes \o piece
      /\ bytes \o piece \in Seq(Byte)
  BY <1>6, <1>8, FlattenAppend, ZenonT(60)
<1>10. Append(P, piece) \in Seq(Seq(Byte))
  BY <1>6
<1>11. Write(longer, more) = FlattenSeq(Pieces(longer, more))
  BY DEF Write, Pieces
<1>12. Spelled(longer, more, bytes \o piece)
  BY <1>3, <1>5, <1>7, <1>9, <1>10, <1>11 DEF Spelled, IsSequence
<1> QED BY <1>12 DEF longer

(* Which of x and -x is the larger: the modulus is odd. *)
LEMMA HalfFq ==
    ASSUME NEW x \in Fq
    PROVE  LET half == (Q_MODULUS - 1) \div 2 IN
           /\ x \in Nat /\ neg_fq(x) \in Nat
           /\ neg_fq(x) < x <=> x > half
           /\ x < neg_fq(x) <=> x # 0 /\ ~(x > half)
           /\ neg_fq(x) = x <=> x = 0
<1>1. Q_MODULUS % 2 = 1 /\ Q_MODULUS \in Nat
  BY WireAssumption
<1>2. PICK h \in Nat : Q_MODULUS = 2 * h + 1
  <2>1. (Q_MODULUS \div 2) \in Nat /\ Q_MODULUS = 2 * (Q_MODULUS \div 2) + 1
    BY <1>1
  <2> QED BY <2>1
<1>3. (Q_MODULUS - 1) \div 2 = h
  BY <1>2
<1>4. x \in Nat /\ x < Q_MODULUS
  BY <1>1 DEF Fq
<1>5. CASE x = 0
  <2>1. neg_fq(x) = 0
    BY <1>1, <1>2, <1>5 DEF neg_fq
  <2> QED BY <1>2, <1>3, <1>5, <2>1
<1>6. CASE x # 0
  <2>1. Q_MODULUS - x \in 0..Q_MODULUS - 1
    BY <1>1, <1>4, <1>6
  <2>2. neg_fq(x) = Q_MODULUS - x
    BY <1>2, <2>1, Small DEF neg_fq
  <2> QED BY <1>2, <1>3, <1>4, <1>6, <2>2
<1> QED BY <1>5, <1>6

(* The root that arkworks picks for a flag is the one gnark sets that flag for. *)
LEMMA LargestAgrees ==
    ASSUME NEW g \in Group, NEW p \in InSubgroup(g)
    PROVE  /\ ~Less(g, p[2], neg_y(g, p[2])) => IsLargest(g, p[2])
           /\ ~Less(g, neg_y(g, p[2]), p[2]) => ~IsLargest(g, p[2])
<1> DEFINE half == (Q_MODULUS - 1) \div 2
<1>1. PICK x \in Field(g), y \in Field(g) : p = <<x, y>>
  BY WireAssumption
<1>2. p[2] = y /\ neg_y(g, y) # y
  <2>1. neg(g, p) # p
    BY WireAssumption
  <2> QED BY <1>1, <2>1 DEF neg, Identity
<1>3. CASE g = "G1"
  <2>1. y \in Fq
    BY <1>3 DEF Field
  <2>2. /\ y \in Nat /\ neg_fq(y) \in Nat
        /\ neg_fq(y) < y <=> y > half
        /\ y < neg_fq(y) <=> y # 0 /\ ~(y > half)
        /\ neg_fq(y) = y <=> y = 0
    BY <2>1, HalfFq
  <2>3. y # 0
    BY <1>2, <1>3, <2>2 DEF neg_y
  <2> HIDE DEF half
  <2>4. /\ ~(y < neg_fq(y)) => y > half
        /\ ~(neg_fq(y) < y) => ~(y > half)
    BY <2>2, <2>3
  <2> QED BY <1>2, <1>3, <2>4 DEF Less, IsLargest, neg_y, half
<1>4. CASE g = "G2"
  <2>1. y.c0 \in Fq /\ y.c1 \in Fq /\ y = [c0 |-> y.c0, c1 |-> y.c1]
    BY <1>4 DEF Field, Fq2
  <2> DEFINE a == y.c0
             b == y.c1
             n == neg_y(g, y)
  <2>2. n.c0 = neg_fq(a) /\ n.c1 = neg_fq(b) /\ n = [c0 |-> neg_fq(a), c1 |-> neg_fq(b)]
    BY <1>4 DEF neg_y
  <2>3. ~(neg_fq(a) = a /\ neg_fq(b) = b)
    BY <1>2, <2>1, <2>2
  <2>4. /\ a \in Nat /\ neg_fq(a) \in Nat
        /\ neg_fq(a) < a <=> a > half
        /\ a < neg_fq(a) <=> a # 0 /\ ~(a > half)
        /\ neg_fq(a) = a <=> a = 0
    BY <2>1, HalfFq
  <2>5. /\ b \in Nat /\ neg_fq(b) \in Nat
        /\ neg_fq(b) < b <=> b > half
        /\ b < neg_fq(b) <=> b # 0 /\ ~(b > half)
        /\ neg_fq(b) = b <=> b = 0
    BY <2>1, HalfFq
  <2>6. IsLargest(g, y) <=> IF b = 0 THEN a > half ELSE b > half
    BY <1>4 DEF IsLargest
  <2>7. /\ Less(g, y, n) <=> b < neg_fq(b) \/ (b = neg_fq(b) /\ a < neg_fq(a))
        /\ Less(g, n, y) <=> neg_fq(b) < b \/ (neg_fq(b) = b /\ neg_fq(a) < a)
    BY <1>4, <2>2 DEF Less
  <2> HIDE DEF half, a, b, n
  <2>8. /\ ~Less(g, y, n) => IsLargest(g, y)
        /\ ~Less(g, n, y) => ~IsLargest(g, y)
    <3>1. CASE b = 0
      <4>1. a # 0 /\ neg_fq(b) = b /\ ~(b < neg_fq(b)) /\ ~(neg_fq(b) < b)
        BY <2>3, <2>4, <2>5, <3>1
      <4> QED BY <2>4, <2>6, <2>7, <3>1, <4>1
    <3>2. CASE b # 0
      BY <2>5, <2>6, <2>7, <3>2
    <3> QED BY <3>1, <3>2
  <2> QED BY <1>2, <2>8 DEF n
<1> QED BY <1>3, <1>4 DEF Group

(* Of a point and its negative, one is picked. *)
LEMMA RootPicked ==
    ASSUME NEW g \in Group, NEW x, NEW greatest \in BOOLEAN,
           get_point_from_x_unchecked(g, x, greatest).outcome = Ok
    PROVE  LET p == get_point_from_x_unchecked(g, x, greatest).value IN
           /\ p \in OnCurve(g) /\ p[1] = x
           /\ greatest => ~Less(g, p[2], neg_y(g, p[2]))
           /\ ~greatest => ~Less(g, neg_y(g, p[2]), p[2])
<1> DEFINE roots == {p \in OnCurve(g) : p[1] = x}
           Picked(p) == IF greatest THEN ~Less(g, p[2], neg_y(g, p[2]))
                        ELSE ~Less(g, neg_y(g, p[2]), p[2])
           chosen == CHOOSE p \in roots : Picked(p)
<1>1. roots # {} /\ get_point_from_x_unchecked(g, x, greatest).value = chosen
  <2>1. get_point_from_x_unchecked(g, x, greatest)
          = IF roots = {} THEN Fail("InvalidPoint") ELSE Done(chosen)
    BY DEF get_point_from_x_unchecked
  <2> HIDE DEF roots, chosen
  <2> QED BY <2>1 DEF Fail, Done, Ok
<1>2. PICK q : q \in OnCurve(g) /\ q[1] = x
  BY <1>1
<1>3. PICK u \in Field(g), y \in Field(g) : q = <<u, y>>
  BY <1>2, WireAssumption
<1>4. neg_y(g, neg_y(g, y)) = y
  <2>1. CASE g = "G1"
    BY <2>1, NegFq DEF neg_y, Field
  <2>2. CASE g = "G2"
    <3>1. y.c0 \in Fq /\ y.c1 \in Fq /\ y = [c0 |-> y.c0, c1 |-> y.c1]
      BY <2>2 DEF Field, Fq2
    <3> QED BY <2>2, <3>1, NegFq DEF neg_y
  <2> QED BY <2>1, <2>2 DEF Group
<1>5. ~(Less(g, y, neg_y(g, y)) /\ Less(g, neg_y(g, y), y))
  <2>1. CASE g = "G1"
    BY <2>1, NegFq, WireFacts DEF neg_y, Field, Less, Fq
  <2>2. CASE g = "G2"
    <3> DEFINE n == neg_y(g, y)
    <3>1. y.c0 \in Fq /\ y.c1 \in Fq /\ n.c0 = neg_fq(y.c0) /\ n.c1 = neg_fq(y.c1)
      BY <2>2 DEF Field, Fq2, neg_y
    <3>2. y.c0 \in Int /\ y.c1 \in Int /\ n.c0 \in Int /\ n.c1 \in Int
      BY <3>1, NegFq, WireFacts DEF Fq
    <3> HIDE DEF n
    <3>3. ~(Less(g, y, n) /\ Less(g, n, y))
      BY <2>2, <3>2 DEF Less
    <3> QED BY <3>3 DEF n
  <2> QED BY <2>1, <2>2 DEF Group
<1>6. \E p \in roots : Picked(p)
  <2> DEFINE m == neg(g, q)
  <2>1. q \in roots /\ m \in roots /\ q[2] = y /\ m[2] = neg_y(g, y)
    <3>1. m = <<u, neg_y(g, y)>> /\ u = x
      BY <1>2, <1>3 DEF neg, Identity
    <3>2. m \in OnCurve(g)
      BY <1>2, WireAssumption
    <3> QED BY <1>2, <1>3, <3>1, <3>2
  <2>2. Picked(q) \/ Picked(m)
    BY <1>4, <1>5, <2>1
  <2> QED BY <2>1, <2>2
<1>7. chosen \in roots /\ Picked(chosen)
  <2> HIDE DEF roots, Picked
  <2> QED BY <1>6
<1> QED BY <1>1, <1>7

(* Two bits and the rest of a cell. *)
LEMMA FourParts ==
    ASSUME NEW q \in Nat, q > 0, NEW c \in Nat, c < 4 * q
    PROVE  /\ c \div q \in 0..3 /\ c % q \in 0..q - 1
           /\ (c % q) + (c \div q) * q = c
OBVIOUS

(* The flag of a point and the rest of its first cell make up the cell. *)
LEMMA FlagAndRest ==
    ASSUME NEW raw \in Seq(Byte), Len(raw) >= 1
    PROVE  /\ Unflagged(raw) \in Seq(Byte) /\ Len(Unflagged(raw)) = Len(raw)
           /\ Flag(raw[1]) \in 0..3
           /\ WithFlag(Flag(raw[1]), Unflagged(raw)) = raw
<1> DEFINE q == Radix \div 4
           c == raw[1]
<1>1. q \in Nat /\ q > 0 /\ Radix = 4 * q
  BY WireAssumption
<1>2. 1 \in 1..Len(raw) /\ Len(raw) \in Nat /\ DOMAIN raw = 1..Len(raw)
  OBVIOUS
<1>3. c \in Nat /\ c < 4 * q
  <2>1. c \in Byte
    BY <1>2, ElementOfSeq
  <2> QED BY <1>1, <2>1 DEF Byte
<1> HIDE DEF q
<1>4. /\ c \div q \in 0..3 /\ c % q \in 0..q - 1
      /\ (c % q) + (c \div q) * q = c
  BY <1>1, <1>3, FourParts
<1>5. c % q \in Byte
  BY <1>1, <1>4 DEF Byte
<1> DEFINE u == Unflagged(raw)
<1>6. u = [raw EXCEPT ![1] = c % q] /\ Flag(c) = c \div q
  BY DEF Unflagged, Flag, q
<1>7. /\ u \in Seq(Byte) /\ Len(u) = Len(raw) /\ u[1] = c % q /\ DOMAIN u = DOMAIN raw
      /\ \A k \in DOMAIN raw : k # 1 => u[k] = raw[k]
  <2> HIDE DEF u
  <2> QED BY <1>2, <1>5, <1>6
<1> HIDE DEF u
<1>8. WithFlag(Flag(c), u) = [u EXCEPT ![1] = u[1] + Flag(c) * q]
  BY DEF WithFlag, q
<1>9. [u EXCEPT ![1] = u[1] + Flag(c) * q] = raw
  <2>1. u[1] + Flag(c) * q = raw[1]
    BY <1>4, <1>6, <1>7
  <2>2. [u EXCEPT ![1] = raw[1]] = raw
    BY <1>2, <1>7
  <2> QED BY <2>1, <2>2
<1> QED BY <1>4, <1>6, <1>7, <1>8, <1>9 DEF u

(* A point that was read is written as it was read: raw, or compressed with the
   flag that it had. *)
LEMMA PointSpelled ==
    ASSUME NEW g \in Group, NEW raw \in Seq(Byte), NEW flag, flag = Flag(raw[1]),
           Len(raw) = IF flag = FLAG_UNCOMPRESSED THEN PointSize(g)
                      ELSE PointSize(g) \div 2,
           Decoded(g, flag, raw).outcome = Ok
    PROVE  \E b \in BOOLEAN : WriteToken(<<g, Decoded(g, flag, raw).value>>, b) = raw
<1> DEFINE p == Decoded(g, flag, raw).value
           u == Unflagged(raw)
<1>1. /\ WriteToken(<<g, p>>, TRUE) = to_bytes(g, p)
      /\ WriteToken(<<g, p>>, FALSE) = gnark_compress(g, p)
  <2> HIDE DEF p
  <2> QED BY DEF WriteToken, Group
<1>2. CASE flag = FLAG_UNCOMPRESSED
  <2>1. Decoded(g, flag, raw) = from_bytes(g, raw)
    BY <1>2 DEF Decoded
  <2>2. Len(raw) = PointSize(g)
    BY <1>2
  <2>3. to_bytes(g, p) = raw
    BY <2>1, <2>2, PointDecoded
  <2> QED BY <1>1, <2>3
<1>3. CASE flag # FLAG_UNCOMPRESSED
  <2>1. Len(raw) = PointSize(g) \div 2 /\ Len(raw) >= 1
    BY <1>3, WireFacts DEF Group
  <2>2. /\ u \in Seq(Byte) /\ Len(u) = Len(raw) /\ flag \in 0..3
        /\ WithFlag(flag, u) = raw
    BY <2>1, FlagAndRest
  <2>3. CASE flag = FLAG_COMPRESSED_INFINITY
    <3>1. Decoded(g, flag, raw) = expect_zero_after_flag(raw)
      BY <1>3, <2>3 DEF Decoded
    <3>2. AllZero(u) /\ p = Identity
      BY <3>1 DEF expect_zero_after_flag, Fail, Done, Ok
    <3>3. u = [k \in 1..PointSize(g) \div 2 |-> 0]
      <4>1. DOMAIN u = 1..PointSize(g) \div 2 /\ u = [k \in DOMAIN u |-> u[k]]
        <5> HIDE DEF u
        <5> QED BY <2>1, <2>2
      <4>2. \A k \in DOMAIN u : u[k] = 0
        BY <3>2 DEF AllZero
      <4> HIDE DEF u
      <4> QED BY <4>1, <4>2
    <3>4. gnark_compress(g, p) = raw
      BY <2>2, <2>3, <3>2, <3>3 DEF gnark_compress
    <3> QED BY <1>1, <3>4
  <2>4. CASE flag # FLAG_COMPRESSED_INFINITY
    <3> DEFINE x == FieldFrom(g, u)
               largest == flag = FLAG_COMPRESSED_LARGEST
               found == get_point_from_x_unchecked(g, x.value, largest)
    <3>1. Decoded(g, flag, raw)
            = IF x.outcome # Ok THEN x ELSE decompress(g, x.value, largest)
      BY <1>3, <2>4 DEF Decoded
    <3> HIDE DEF u, largest, x
    <3>2. x.outcome = Ok /\ Decoded(g, flag, raw) = decompress(g, x.value, largest)
      BY <3>1
    <3>3. decompress(g, x.value, largest)
            = IF found.outcome # Ok THEN found
              ELSE IF found.value = Identity THEN Fail("InvalidPoint")
              ELSE checked_affine(g, found.value)
      BY DEF decompress
    <3> HIDE DEF found
    <3>4. /\ found.outcome = Ok /\ found.value # Identity
          /\ Decoded(g, flag, raw) = checked_affine(g, found.value)
      BY <3>2, <3>3 DEF Fail, Ok
    <3>5. p = found.value /\ p \in InSubgroup(g)
      BY <3>4 DEF checked_affine, Fail, Done, Ok
    <3> HIDE DEF p
    <3>6. largest \in BOOLEAN
      BY DEF largest
    <3>7. /\ p[1] = x.value
          /\ largest => ~Less(g, p[2], neg_y(g, p[2]))
          /\ ~largest => ~Less(g, neg_y(g, p[2]), p[2])
      BY <3>4, <3>5, <3>6, RootPicked DEF found
    <3>8. IsLargest(g, p[2]) <=> largest
      BY <3>5, <3>7, LargestAgrees
    <3>9. FieldBytes(g, p[1]) = u
      BY <2>1, <2>2, <3>2, <3>7, FieldDecoded DEF x
    <3>10. flag = IF IsLargest(g, p[2]) THEN FLAG_COMPRESSED_LARGEST
                  ELSE FLAG_COMPRESSED_SMALLEST
      BY <1>3, <2>2, <2>4, <3>8
         DEF largest, FLAG_COMPRESSED_LARGEST, FLAG_COMPRESSED_SMALLEST,
             FLAG_UNCOMPRESSED, FLAG_COMPRESSED_INFINITY
    <3>11. p # Identity
      BY <3>4, <3>5
    <3>12. gnark_compress(g, p) = raw
      BY <2>2, <3>9, <3>10, <3>11 DEF gnark_compress, u
    <3> QED BY <1>1, <3>12 DEF p
  <2> QED BY <2>3, <2>4
<1> QED BY <1>2, <1>3

(* The tokens read so far, in the order of the file: rd holds its points or
   scalars, ct its counts. *)
KeyToken(rd, ct, k) ==
    IF k <= 6 THEN <<KeyPoints[k], rd[k]>>
    ELSE IF k = 7 THEN <<"u32", ct[1]>>
    ELSE IF k <= Len(rd) + 1 THEN <<"G1", rd[k - 1]>>
    ELSE <<"u32", ct[k - Len(rd)]>>
ProofToken(rd, ct, k) ==
    IF k <= 3 THEN <<ProofPoints[k], rd[k]>>
    ELSE IF k = 4 THEN <<"u32", ct[1]>> ELSE <<"G1", rd[4]>>
WitnessToken(rd, ct, k) ==
    IF k <= Len(ct) THEN <<"u32", ct[k]>> ELSE <<"Fr", rd[k - Len(ct)]>>
TokenAt(kind, rd, ct, k) ==
    IF kind = "key" THEN KeyToken(rd, ct, k)
    ELSE IF kind = "proof" THEN ProofToken(rd, ct, k) ELSE WitnessToken(rd, ct, k)
TokenCount(rd, ct) == Len(rd) + Len(ct)
TokenList(kind, rd, ct) == [k \in 1..TokenCount(rd, ct) |-> TokenAt(kind, rd, ct, k)]
TokensSoFar == TokenList(file.kind, read, counts)

(* How much has been read when the statement l runs: m elements and c counts. *)
PhaseAt(l, m, c) ==
    /\ l \in {"key points", "k_len", "proof points", "commitments"} => c = 0
    /\ l \in {"ic", "pok", "proof end"} => c = 1
    /\ l \in {"inner", "key end"} => c >= 1
    /\ l \in {"nb_public", "nb_secret", "len"} => m = 0
    /\ l = "k_len" => m = 6
    /\ l \in {"commitments", "pok"} => m = 3
    /\ l = "proof end" => m = 4

(* A parser that succeeds has read the whole file. *)
Finished ==
    /\ file.kind # "body" => pos = Len(file.bytes)
    /\ file.kind = "key" => Len(read) >= 6 /\ Len(counts) >= 1
    /\ file.kind = "proof" => Len(read) = 4 /\ Len(counts) = 1

(* Where the parser is tells how much it has read. *)
Phase ==
    /\ PhaseAt(pc, Len(read), Len(counts))
    /\ pc = "done" /\ result.outcome = Ok => Finished

(* The cells consumed are how gnark writes the tokens read. *)
SpelledSoFar == \E raw : Spelled(TokensSoFar, raw, SubSeq(file.bytes, 1, pos))

-----------------------------------------------------------------------------
(* The lengths are numbers. *)
LEMMA Lengths ==
    ASSUME BoundInv
    PROVE  Len(read) \in Nat /\ Len(counts) \in Nat
BY AppendGrows DEF BoundInv

(* A return keeps Phase if a success comes at the end of the file. *)
LEMMA PhaseReturn ==
    ASSUME Phase, NEW r, Return(r), r.outcome = Ok => Finished
    PROVE  Phase'
<1>1. UNCHANGED <<file, pos, read, counts>> /\ result' = r /\ pc' = "done"
  BY DEF Return
<1>2. PhaseAt("done", Len(read), Len(counts))
  BY DEF PhaseAt
<1>3. (result.outcome = Ok => Finished)'
  BY <1>1 DEF Finished
<1> QED BY <1>1, <1>2, <1>3 DEF Phase

(* A point read, followed by the statement next. *)
LEMMA PhasePoint ==
    ASSUME BoundInv, Phase, NEW g, NEW next, PointRead(g, next), next # "done",
           PhaseAt(next, Len(read) + 1, Len(counts))
    PROVE  Phase'
<1>1. CASE ReadPoint(g).outcome # Ok
  BY <1>1, PhaseReturn DEF PointRead
<1>2. CASE ReadPoint(g).outcome = Ok
  <2>1. read' = Append(read, ReadPoint(g).value) /\ pc' = next /\ counts' = counts
    BY <1>2 DEF PointRead
  <2>2. Len(read)' = Len(read) + 1
    BY <2>1, AppendGrows DEF BoundInv
  <2> QED BY <2>1, <2>2 DEF Phase
<1> QED BY <1>1, <1>2

(* A count read, likewise. *)
LEMMA PhaseCount ==
    ASSUME BoundInv, Phase, NEW checks, NEW next, NEW loop, NEW room,
           CountRead(checks, next, loop, room), next # "done",
           PhaseAt(next, Len(read), Len(counts) + 1)
    PROVE  Phase'
<1>1. CASE (u32.outcome ?? checks) # Ok
  <2>1. Fail(u32.outcome ?? checks).outcome # Ok
    BY <1>1 DEF Fail
  <2> QED BY <1>1, <2>1, PhaseReturn DEF CountRead
<1>2. CASE (u32.outcome ?? checks) = Ok
  <2>1. counts' = Append(counts, N) /\ pc' = next /\ read' = read
    BY <1>2 DEF CountRead
  <2>2. Len(counts)' = Len(counts) + 1
    BY <2>1, AppendGrows DEF BoundInv
  <2> QED BY <2>1, <2>2 DEF Phase
<1> QED BY <1>1, <1>2

(* finish passes at the end of the file only. *)
LEMMA Finish ==
    ASSUME BoundInv, finish = Ok
    PROVE  pos = Len(file.bytes)
<1>1. Remaining = 0
  BY DEF finish, Ensure, Ok
<1> QED BY <1>1, FileTyped DEF Remaining, BoundInv

(* The steps of parse_verifying_key keep Phase ... *)
LEMMA KeyPhase ==
    ASSUME BoundInv, ReadInv, Phase,
           KeyPoint \/ KeyLen \/ KeyIc \/ KeyOuter \/ KeyInner
             \/ KeyCommitmentKeys \/ KeyEnd
    PROVE  Phase'
<1>1. Len(read) \in Nat /\ Len(counts) \in Nat
  BY Lengths
<1>2. file.kind = "key"
  <2>1. pc \in Stages["key"]
    BY StageSets
       DEF KeyPoint, KeyLen, KeyIc, KeyOuter, KeyInner, KeyCommitmentKeys, KeyEnd
  <2> QED BY <2>1, KindOf
<1>3. PhaseAt(pc, Len(read), Len(counts))
  BY DEF Phase
<1>4. CASE KeyPoint
  <2> DEFINE k == Len(read) + 1
             after == IF k = Len(KeyPoints) THEN "k_len" ELSE pc
  <2>1. PointRead(KeyPoints[k], after) /\ pc = "key points"
    BY <1>4 DEF KeyPoint
  <2>2. Len(counts) = 0 /\ Len(KeyPoints) = 6
    BY <1>3, <2>1 DEF PhaseAt, KeyPoints
  <2>3. after # "done" /\ PhaseAt(after, k, Len(counts))
    BY <2>1, <2>2 DEF PhaseAt
  <2> HIDE DEF after
  <2> QED BY <2>1, <2>3, PhasePoint
<1>5. CASE KeyLen
  <2>1. PhaseAt("ic", Len(read), Len(counts) + 1)
    BY <1>3, <1>5 DEF PhaseAt, KeyLen
  <2> QED BY <1>5, <2>1, PhaseCount DEF KeyLen
<1>6. CASE KeyIc
  <2>1. PhaseAt("ic", Len(read) + 1, Len(counts))
    BY <1>3, <1>6 DEF PhaseAt, KeyIc
  <2> QED BY <1>6, <2>1, PhasePoint DEF KeyIc
<1>7. CASE KeyOuter
  <2>1. PhaseAt("inner", Len(read), Len(counts) + 1)
    BY <1>1 DEF PhaseAt
  <2> QED BY <1>7, <2>1, PhaseCount DEF KeyOuter
<1>8. CASE KeyInner
  <2>1. PhaseAt("inner", Len(read), Len(counts) + 1)
    BY <1>1 DEF PhaseAt
  <2> QED BY <1>8, <2>1, PhaseCount DEF KeyInner
<1>9. CASE KeyCommitmentKeys
  <2>1. PhaseAt("key end", Len(read), Len(counts) + 1)
    BY <1>1 DEF PhaseAt
  <2> QED BY <1>9, <2>1, PhaseCount DEF KeyCommitmentKeys
<1>10. CASE KeyEnd
  <2> DEFINE r == IF finish # Ok THEN Fail(finish) ELSE OnChainKey_new(ParsedKey)
  <2>1. Return(r) /\ pc = "key end"
    BY <1>10 DEF KeyEnd
  <2>2. Len(read) >= 6 /\ Len(counts) >= 1
    BY <1>2, <1>3, <2>1 DEF PhaseAt, ReadInv, ReadsPoints, Reading, FixedCount
  <2>3. ASSUME r.outcome = Ok PROVE Finished
    <3>1. finish = Ok
      BY <2>3 DEF Fail
    <3> QED BY <1>2, <2>2, <3>1, Finish DEF Finished
  <2> HIDE DEF r
  <2> QED BY <2>1, <2>3, PhaseReturn
<1> QED BY <1>4, <1>5, <1>6, <1>7, <1>8, <1>9, <1>10

(* ... and those of parse_proof ... *)
LEMMA ProofPhase ==
    ASSUME BoundInv, ReadInv, Phase,
           ProofPoint \/ ProofCommitments \/ ProofPok \/ ProofEnd
    PROVE  Phase'
<1>1. Len(read) \in Nat /\ Len(counts) \in Nat
  BY Lengths
<1>2. file.kind = "proof"
  <2>1. pc \in Stages["proof"]
    BY StageSets DEF ProofPoint, ProofCommitments, ProofPok, ProofEnd
  <2> QED BY <2>1, KindOf
<1>3. PhaseAt(pc, Len(read), Len(counts))
  BY DEF Phase
<1>4. CASE ProofPoint
  <2> DEFINE k == Len(read) + 1
             after == IF k = Len(ProofPoints) THEN "commitments" ELSE pc
  <2>1. PointRead(ProofPoints[k], after) /\ pc = "proof points"
    BY <1>4 DEF ProofPoint
  <2>2. Len(counts) = 0 /\ Len(ProofPoints) = 3
    BY <1>3, <2>1 DEF PhaseAt, ProofPoints
  <2>3. after # "done" /\ PhaseAt(after, k, Len(counts))
    BY <2>1, <2>2 DEF PhaseAt
  <2> HIDE DEF after
  <2> QED BY <2>1, <2>3, PhasePoint
<1>5. CASE ProofCommitments
  <2>1. PhaseAt("pok", Len(read), Len(counts) + 1)
    BY <1>3, <1>5 DEF PhaseAt, ProofCommitments
  <2> QED BY <1>5, <2>1, PhaseCount DEF ProofCommitments
<1>6. CASE ProofPok
  <2>1. PhaseAt("proof end", Len(read) + 1, Len(counts))
    <3>1. Len(read) = 3 /\ Len(counts) = 1
      BY <1>3, <1>6 DEF PhaseAt, ProofPok
    <3>2. Len(read) + 1 = 4
      BY <3>1
    <3> QED BY <3>1, <3>2 DEF PhaseAt
  <2> QED BY <1>6, <2>1, PhasePoint DEF ProofPok
<1>7. CASE ProofEnd
  <2> DEFINE r == IF finish # Ok THEN Fail(finish)
                  ELSE Done(OnChainProof_new([a |-> read[1], b |-> read[2],
                                              c |-> read[3]]))
  <2>1. Return(r) /\ pc = "proof end"
    BY <1>7 DEF ProofEnd
  <2>2. Len(read) = 4 /\ Len(counts) = 1
    BY <1>3, <2>1 DEF PhaseAt
  <2>3. ASSUME r.outcome = Ok PROVE Finished
    <3>1. finish = Ok
      BY <2>3 DEF Fail
    <3> QED BY <1>2, <2>2, <3>1, Finish DEF Finished
  <2> HIDE DEF r
  <2> QED BY <2>1, <2>3, PhaseReturn
<1> QED BY <1>4, <1>5, <1>6, <1>7

(* ... and parse_public_witness. *)
LEMMA WitnessPhase ==
    ASSUME BoundInv, ReadInv, Phase,
           WitnessPublic \/ WitnessSecret \/ WitnessLen \/ WitnessScalar \/ WitnessEnd
    PROVE  Phase'
<1>1. file.kind = "witness"
  <2>1. pc \in Stages["witness"]
    BY StageSets DEF WitnessPublic, WitnessSecret, WitnessLen, WitnessScalar, WitnessEnd
  <2> QED BY <2>1, KindOf
<1>2. PhaseAt(pc, Len(read), Len(counts))
  BY DEF Phase
<1>3. CASE WitnessPublic
  <2>1. PhaseAt("nb_secret", Len(read), Len(counts) + 1)
    BY <1>2, <1>3 DEF PhaseAt, WitnessPublic
  <2> QED BY <1>3, <2>1, PhaseCount DEF WitnessPublic
<1>4. CASE WitnessSecret
  <2>1. PhaseAt("len", Len(read), Len(counts) + 1)
    BY <1>2, <1>4 DEF PhaseAt, WitnessSecret
  <2> QED BY <1>4, <2>1, PhaseCount DEF WitnessSecret
<1>5. CASE WitnessLen
  <2>1. PhaseAt("scalars", Len(read), Len(counts) + 1)
    BY DEF PhaseAt
  <2> QED BY <1>5, <2>1, PhaseCount DEF WitnessLen
<1>6. CASE WitnessScalar
  <2>1. CASE fr.outcome # Ok
    BY <1>6, <2>1, PhaseReturn DEF WitnessScalar
  <2>2. CASE fr.outcome = Ok
    <3>1. pc' = "scalars"
      BY <1>6, <2>2 DEF WitnessScalar
    <3> QED BY <3>1 DEF Phase, PhaseAt
  <2> QED BY <2>1, <2>2
<1>7. CASE WitnessEnd
  <2> DEFINE r == IF finish # Ok THEN Fail(finish) ELSE Done(read)
  <2>1. Return(r)
    BY <1>7 DEF WitnessEnd
  <2>2. ASSUME r.outcome = Ok PROVE Finished
    <3>1. finish = Ok
      BY <2>2 DEF Fail
    <3> QED BY <1>1, <3>1, Finish DEF Finished
  <2> HIDE DEF r
  <2> QED BY <2>1, <2>2, PhaseReturn
<1> QED BY <1>3, <1>4, <1>5, <1>6, <1>7

(* The tokens grow by one when no earlier one changes. *)
LEMMA TokensGrow ==
    ASSUME NEW kind, NEW rd, NEW ct, NEW rd2, NEW ct2, NEW n \in Nat, NEW t,
           TokenCount(rd, ct) = n, TokenCount(rd2, ct2) = n + 1,
           \A k \in 1..n : TokenAt(kind, rd2, ct2, k) = TokenAt(kind, rd, ct, k),
           TokenAt(kind, rd2, ct2, n + 1) = t
    PROVE  TokenList(kind, rd2, ct2) = Append(TokenList(kind, rd, ct), t)
<1> DEFINE A(k) == TokenAt(kind, rd, ct, k)
           B(k) == TokenAt(kind, rd2, ct2, k)
           S == {A(k) : k \in 1..n} \cup {t}
           s == [k \in 1..n |-> A(k)]
           q == Append(s, t)
<1> HIDE DEF A, B
<1>1. s \in Seq(S) /\ t \in S /\ Len(s) = n /\ \A k \in 1..n : s[k] = A(k)
  OBVIOUS
<1> HIDE DEF s, S
<1>2. /\ q \in Seq(S) /\ Len(q) = n + 1
      /\ q[n + 1] = t /\ \A k \in 1..n : q[k] = s[k]
  BY <1>1
<1> HIDE DEF q
<1>3. q = [k \in 1..n + 1 |-> q[k]]
  BY <1>2
<1>4. ASSUME NEW k \in 1..n + 1 PROVE B(k) = q[k]
  <2>1. CASE k = n + 1
    BY <1>2, <2>1 DEF B
  <2>2. CASE k # n + 1
    <3>1. k \in 1..n
      BY <2>2
    <3> QED BY <1>1, <1>2, <3>1 DEF A, B
  <2> QED BY <2>1, <2>2
<1>5. TokenList(kind, rd2, ct2) = [k \in 1..n + 1 |-> B(k)]
  BY DEF TokenList, B
<1>6. TokenList(kind, rd, ct) = s
  BY DEF TokenList, s, A
<1> QED BY <1>3, <1>4, <1>5, <1>6 DEF q

(* What appending an entry does, and that it does. *)
Grown(s, e, s2) ==
    /\ Len(s) \in Nat /\ Len(s2) = Len(s) + 1 /\ s2[Len(s) + 1] = e
    /\ \A k \in 1..Len(s) : s2[k] = s[k]

(* Append does. *)
LEMMA AppendGrown ==
    ASSUME NEW s, NEW e, IsSequence(s)
    PROVE  Grown(s, e, Append(s, e))
BY AppendCells DEF Grown

(* A point read: the fixed points come before any count, ... *)
LEMMA FixedPointGrows ==
    ASSUME NEW kind \in {"key", "proof"}, NEW rd, NEW ct, NEW p,
           IsSequence(rd), Len(ct) = 0,
           Len(rd) < IF kind = "key" THEN 6 ELSE 3
    PROVE  TokenList(kind, Append(rd, p), ct) =
             Append(TokenList(kind, rd, ct),
                    <<(IF kind = "key" THEN KeyPoints ELSE ProofPoints)[Len(rd) + 1], p>>)
<1> DEFINE m == Len(rd)
           rd2 == Append(rd, p)
           t == <<(IF kind = "key" THEN KeyPoints ELSE ProofPoints)[m + 1], p>>
<1>0. Grown(rd, p, rd2)
  BY AppendGrown
<1> HIDE DEF rd2
<1>1. /\ m \in Nat /\ Len(rd2) = m + 1 /\ rd2[m + 1] = p
      /\ \A k \in 1..m : rd2[k] = rd[k]
  BY <1>0 DEF Grown
<1>2. ASSUME NEW k \in 1..m + 1
      PROVE  TokenAt(kind, rd2, ct, k) =
               <<(IF kind = "key" THEN KeyPoints ELSE ProofPoints)[k], rd2[k]>>
  BY <1>1 DEF TokenAt, KeyToken, ProofToken
<1>3. ASSUME NEW k \in 1..m
      PROVE  TokenAt(kind, rd2, ct, k) = TokenAt(kind, rd, ct, k)
  <2>1. rd2[k] = rd[k] /\ (kind = "key" => k <= 6) /\ (kind = "proof" => k <= 3)
    BY <1>1
  <2> QED BY <2>1 DEF TokenAt, KeyToken, ProofToken
<1>4. TokenAt(kind, rd2, ct, m + 1) = t
  BY <1>1, <1>2
<1>5. m \in Nat /\ TokenCount(rd, ct) = m /\ TokenCount(rd2, ct) = m + 1
  BY <1>1 DEF TokenCount
<1> HIDE DEF m, t
<1>6. TokenList(kind, rd2, ct) = Append(TokenList(kind, rd, ct), t)
  BY <1>3, <1>4, <1>5, TokensGrow
<1> QED BY <1>6 DEF rd2, t, m

(* ... the IC of a key after the first count, ... *)
LEMMA IcGrows ==
    ASSUME NEW rd, NEW ct, NEW p, IsSequence(rd), Len(ct) = 1, Len(rd) >= 6
    PROVE  TokenList("key", Append(rd, p), ct) =
             Append(TokenList("key", rd, ct), <<"G1", p>>)
<1> DEFINE m == Len(rd)
           rd2 == Append(rd, p)
<1>0. Grown(rd, p, rd2)
  BY AppendGrown
<1> HIDE DEF rd2
<1>1. /\ m \in Nat /\ Len(rd2) = m + 1 /\ rd2[m + 1] = p
      /\ \A k \in 1..m : rd2[k] = rd[k]
  BY <1>0 DEF Grown
<1>2. ASSUME NEW k \in 1..m + 1
      PROVE  TokenAt("key", rd2, ct, k) = TokenAt("key", rd, ct, k)
  <2>1. CASE k <= 6
    BY <1>1, <2>1 DEF TokenAt, KeyToken
  <2>2. CASE k = 7
    BY <2>2 DEF TokenAt, KeyToken
  <2>3. CASE ~(k <= 6) /\ k # 7
    <3>1. k - 1 \in 1..m /\ k <= m + 1 /\ k <= (m + 1) + 1
      BY <1>1, <2>3
    <3> QED BY <1>1, <2>3, <3>1 DEF TokenAt, KeyToken
  <2> QED BY <2>1, <2>2, <2>3
<1>3. TokenAt("key", rd2, ct, m + 2) = <<"G1", p>>
  <2>1. ~(m + 2 <= 6) /\ m + 2 # 7 /\ m + 2 <= (m + 1) + 1 /\ (m + 2) - 1 = m + 1
    BY <1>1
  <2> QED BY <1>1, <2>1 DEF TokenAt, KeyToken
<1> DEFINE n == m + 1
<1>4. n \in Nat /\ TokenCount(rd, ct) = n /\ TokenCount(rd2, ct) = n + 1 /\ n + 1 = m + 2
  BY <1>1 DEF TokenCount
<1>5. /\ \A k \in 1..n : TokenAt("key", rd2, ct, k) = TokenAt("key", rd, ct, k)
      /\ TokenAt("key", rd2, ct, n + 1) = <<"G1", p>>
  BY <1>2, <1>3, <1>4
<1> DEFINE t == <<"G1", p>>
<1> HIDE DEF m, n, t
<1>6. TokenList("key", rd2, ct) = Append(TokenList("key", rd, ct), t)
  <2>1. TokenAt("key", rd2, ct, n + 1) = t
    BY <1>5 DEF t
  <2>2. \A k \in 1..n : TokenAt("key", rd2, ct, k) = TokenAt("key", rd, ct, k)
    BY <1>5
  <2> QED BY <1>4, <2>1, <2>2, TokensGrow
<1> QED BY <1>6 DEF rd2, t

(* ... and that of a proof's commitments last. *)
LEMMA PokGrows ==
    ASSUME NEW rd, NEW ct, NEW p, IsSequence(rd), Len(ct) = 1, Len(rd) = 3
    PROVE  TokenList("proof", Append(rd, p), ct) =
             Append(TokenList("proof", rd, ct), <<"G1", p>>)
<1> DEFINE m == Len(rd)
           n == m + Len(ct)
           rd2 == Append(rd, p)
           t == <<"G1", p>>
<1>0. Grown(rd, p, rd2)
  BY AppendGrown
<1> HIDE DEF rd2
<1>1. /\ m \in Nat /\ Len(rd2) = m + 1 /\ rd2[m + 1] = p
      /\ \A k \in 1..m : rd2[k] = rd[k]
  BY <1>0 DEF Grown
<1>2. m = 3 /\ n = 4 /\ n + 1 = 5 /\ m + 1 = 4
  OBVIOUS
<1>3. ASSUME NEW k \in 1..n
      PROVE  TokenAt("proof", rd2, ct, k) = TokenAt("proof", rd, ct, k)
  BY <1>1, <1>2 DEF TokenAt, ProofToken
<1>4. TokenAt("proof", rd2, ct, n + 1) = t
  BY <1>1, <1>2 DEF TokenAt, ProofToken
<1>5. n \in Nat /\ TokenCount(rd, ct) = n /\ TokenCount(rd2, ct) = n + 1
  BY <1>1, <1>2 DEF TokenCount
<1> HIDE DEF m, n, t
<1>6. TokenList("proof", rd2, ct) = Append(TokenList("proof", rd, ct), t)
  BY <1>3, <1>4, <1>5, TokensGrow
<1> QED BY <1>6 DEF rd2, t

(* A count read. *)
LEMMA CountGrows ==
    ASSUME NEW kind \in {"key", "proof", "witness"}, NEW rd, NEW ct, NEW v,
           IsSequence(rd), IsSequence(ct),
           kind = "key" => \/ Len(rd) = 6 /\ Len(ct) = 0
                           \/ Len(rd) >= 6 /\ Len(ct) >= 1,
           kind = "proof" => Len(rd) = 3 /\ Len(ct) = 0,
           kind = "witness" => Len(rd) = 0
    PROVE  TokenList(kind, rd, Append(ct, v)) =
             Append(TokenList(kind, rd, ct), <<"u32", v>>)
<1> DEFINE m == Len(rd)
           c == Len(ct)
           n == m + c
           ct2 == Append(ct, v)
           t == <<"u32", v>>
<1>0. Grown(ct, v, ct2) /\ Grown(rd, v, Append(rd, v))
  BY AppendGrown
<1> HIDE DEF ct2
<1>1. /\ m \in Nat /\ c \in Nat /\ Len(ct2) = c + 1 /\ ct2[c + 1] = v
      /\ \A k \in 1..c : ct2[k] = ct[k]
  BY <1>0 DEF Grown
<1>2. ASSUME NEW k \in 1..n
      PROVE  TokenAt(kind, rd, ct2, k) = TokenAt(kind, rd, ct, k)
  <2>1. CASE kind = "key"
    <3>1. CASE m = 6 /\ c = 0
      <4>1. k <= 6
        BY <3>1
      <4> QED BY <2>1, <4>1 DEF TokenAt, KeyToken
    <3>2. CASE m >= 6 /\ c >= 1
      <4>1. 1 \in 1..c /\ (~(k <= m + 1) => k - m \in 1..c)
        BY <1>1, <3>2
      <4> QED BY <1>1, <2>1, <4>1 DEF TokenAt, KeyToken
    <3> QED BY <2>1, <3>1, <3>2
  <2>2. CASE kind = "proof"
    <3>1. k <= 3
      BY <1>1, <2>2
    <3> QED BY <2>2, <3>1 DEF TokenAt, ProofToken
  <2>3. CASE kind = "witness"
    <3>1. k \in 1..c /\ k <= c /\ k <= c + 1
      BY <1>1, <2>3
    <3> QED BY <1>1, <2>3, <3>1 DEF TokenAt, WitnessToken
  <2> QED BY <2>1, <2>2, <2>3
<1>3. TokenAt(kind, rd, ct2, n + 1) = t
  <2>1. CASE kind = "key" /\ m = 6 /\ c = 0
    <3>1. n + 1 = 7 /\ c + 1 = 1
      BY <2>1
    <3> QED BY <1>1, <2>1, <3>1 DEF TokenAt, KeyToken
  <2>2. CASE kind = "key" /\ m >= 6 /\ c >= 1
    <3>1. ~(n + 1 <= 6) /\ n + 1 # 7 /\ ~(n + 1 <= m + 1) /\ (n + 1) - m = c + 1
      BY <1>1, <2>2
    <3> QED BY <1>1, <2>2, <3>1 DEF TokenAt, KeyToken
  <2>3. CASE kind = "proof"
    <3>1. m = 3 /\ c = 0
      BY <2>3
    <3>2. n + 1 = 4 /\ c + 1 = 1
      BY <3>1
    <3> QED BY <1>1, <2>3, <3>2 DEF TokenAt, ProofToken
  <2>4. CASE kind = "witness"
    <3>1. n + 1 = c + 1
      BY <1>1, <2>4
    <3> QED BY <1>1, <2>4, <3>1 DEF TokenAt, WitnessToken
  <2> QED BY <2>1, <2>2, <2>3, <2>4
<1>4. n \in Nat /\ TokenCount(rd, ct) = n /\ TokenCount(rd, ct2) = n + 1
  BY <1>1 DEF TokenCount
<1> HIDE DEF m, c, n, t
<1>5. TokenList(kind, rd, ct2) = Append(TokenList(kind, rd, ct), t)
  BY <1>2, <1>3, <1>4, TokensGrow
<1> QED BY <1>5 DEF ct2, t

(* A scalar read after the counts. *)
LEMMA ScalarGrows ==
    ASSUME NEW rd, NEW ct, NEW v, IsSequence(rd), IsSequence(ct)
    PROVE  TokenList("witness", Append(rd, v), ct) =
             Append(TokenList("witness", rd, ct), <<"Fr", v>>)
<1> DEFINE m == Len(rd)
           c == Len(ct)
           n == m + c
           rd2 == Append(rd, v)
           t == <<"Fr", v>>
<1>0. Grown(rd, v, rd2) /\ Grown(ct, v, Append(ct, v))
  BY AppendGrown
<1> HIDE DEF rd2
<1>1. /\ m \in Nat /\ c \in Nat /\ Len(rd2) = m + 1 /\ rd2[m + 1] = v
      /\ \A k \in 1..m : rd2[k] = rd[k]
  BY <1>0 DEF Grown
<1>2. ASSUME NEW k \in 1..n
      PROVE  TokenAt("witness", rd2, ct, k) = TokenAt("witness", rd, ct, k)
  <2>1. ~(k <= c) => k - c \in 1..m
    BY <1>1
  <2> QED BY <1>1, <2>1 DEF TokenAt, WitnessToken
<1>3. TokenAt("witness", rd2, ct, n + 1) = t
  <2>1. ~(n + 1 <= c) /\ (n + 1) - c = m + 1
    BY <1>1
  <2> QED BY <1>1, <2>1 DEF TokenAt, WitnessToken
<1>4. n \in Nat /\ TokenCount(rd, ct) = n /\ TokenCount(rd2, ct) = n + 1
  BY <1>1 DEF TokenCount
<1> HIDE DEF m, c, n, t
<1>5. TokenList("witness", rd2, ct) = Append(TokenList("witness", rd, ct), t)
  BY <1>2, <1>3, <1>4, TokensGrow
<1> QED BY <1>5 DEF rd2, t

(* A token whose spelling is the next size cells of the file. *)
LEMMA TokenTaken ==
    ASSUME BoundInv, SpelledSoFar, NEW size \in Nat, size <= Remaining,
           NEW t, NEW b \in BOOLEAN, b => t[1] \in Group,
           WriteToken(t, b) = Slice(file.bytes, pos, size),
           file' = file, pos' = pos + size, TokensSoFar' = Append(TokensSoFar, t)
    PROVE  SpelledSoFar'
<1> DEFINE s == file.bytes
           piece == Slice(s, pos, size)
           before == SubSeq(s, 1, pos)
<1>1. s \in Seq(Byte)
  BY FileTyped DEF Byte
<1>2. pos \in Nat /\ pos + size \in Nat /\ pos + size <= Len(s) /\ pos <= pos + size
  BY FileTyped DEF BoundInv, Remaining
<1>3. piece \in Seq(Byte)
  BY <1>1, <1>2, SliceCells
<1>4. before \o piece = SubSeq(s, 1, pos + size)
  <2> DEFINE e == pos + size
             zero == 0
  <2>1. /\ zero \in Nat /\ e \in Nat /\ zero <= pos /\ pos <= e /\ e <= Len(s)
        /\ zero + 1 = 1
    BY <1>2
  <2> HIDE DEF s, e, zero
  <2>2. SubSeq(s, zero + 1, pos) \o SubSeq(s, pos + 1, e) = SubSeq(s, zero + 1, e)
    BY <1>1, <1>2, <2>1, Rejoined
  <2> QED BY <2>1, <2>2 DEF Slice, e
<1>5. PICK raw : Spelled(TokensSoFar, raw, before)
  BY DEF SpelledSoFar
<1> HIDE DEF piece, before
<1>6. WriteToken(t, b) = piece
  BY DEF piece
<1>7. \E more : Spelled(Append(TokensSoFar, t), more, before \o piece)
  BY <1>3, <1>5, <1>6, SpelledAppend
<1>8. SubSeq(file.bytes, 1, pos)' = before \o piece
  BY <1>4
<1> QED BY <1>7, <1>8 DEF SpelledSoFar

(* The call only returns: no token. *)
LEMMA NoToken ==
    ASSUME SpelledSoFar, UNCHANGED <<file, pos, read, counts>>
    PROVE  SpelledSoFar'
<1>1. TokensSoFar' = TokensSoFar
  BY DEF TokensSoFar
<1> QED BY <1>1 DEF SpelledSoFar

(* A point that was read, raw or compressed, is spelled by its cells ... *)
LEMMA PointTaken ==
    ASSUME BoundInv, SpelledSoFar, NEW g \in Group, ReadPoint(g).outcome = Ok,
           file' = file, pos' = pos + SizeOf(g),
           TokensSoFar' = Append(TokensSoFar, <<g, ReadPoint(g).value>>)
    PROVE  SpelledSoFar'
<1> DEFINE size == SizeOf(g)
           raw == Slice(file.bytes, pos, size)
           flag == Flag(peek)
           p == ReadPoint(g).value
<1>1. size \in Nat /\ size >= 1 /\ size <= Remaining
  BY PointSizes, PointFits
<1>2. take(size) = Done(raw)
  <2>1. ~(size > Remaining)
    BY <1>1, FileTyped
  <2> QED BY <2>1 DEF take
<1>3. ReadPoint(g) = Decoded(g, flag, raw)
  <2>1. Remaining # 0 /\ Done(raw).outcome = Ok /\ Done(raw).value = raw
    BY <1>1, FileTyped DEF Done
  <2> QED BY <1>2, <2>1 DEF ReadPoint
<1>4. /\ file.bytes \in Seq(Byte) /\ pos \in Nat /\ pos + size <= Len(file.bytes)
  BY <1>1, FileTyped DEF BoundInv, Remaining, Byte
<1> HIDE DEF size
<1>5. /\ raw \in Seq(Byte) /\ Len(raw) = size
      /\ \A i \in 1..size : raw[i] = file.bytes[pos + i]
  BY <1>1, <1>4, SliceCells
<1>6. raw[1] = peek
  BY <1>1, <1>5 DEF peek
<1>7. Len(raw) = IF flag = FLAG_UNCOMPRESSED THEN PointSize(g) ELSE PointSize(g) \div 2
  BY <1>5 DEF SizeOf, size
<1>8. flag = Flag(raw[1]) /\ Decoded(g, flag, raw).outcome = Ok
  BY <1>3, <1>6
<1> HIDE DEF raw, flag
<1>9. PICK b \in BOOLEAN : WriteToken(<<g, Decoded(g, flag, raw).value>>, b) = raw
  BY <1>5, <1>7, <1>8, PointSpelled
<1>10. WriteToken(<<g, p>>, b) = Slice(file.bytes, pos, size)
  BY <1>3, <1>9 DEF raw
<1> DEFINE t == <<g, p>>
<1>11. t[1] = g /\ pos' = pos + size /\ TokensSoFar' = Append(TokensSoFar, t)
  BY DEF size
<1> HIDE DEF p, t
<1> QED BY <1>1, <1>10, <1>11, TokenTaken DEF t

(* ... and so is a count ... *)
LEMMA CountTaken ==
    ASSUME BoundInv, SpelledSoFar, u32.outcome = Ok,
           file' = file, pos' = pos + U32_SIZE,
           TokensSoFar' = Append(TokensSoFar, <<"u32", N>>)
    PROVE  SpelledSoFar'
<1> DEFINE piece == Slice(file.bytes, pos, U32_SIZE)
           t == <<"u32", N>>
<1>1. Remaining >= 1 /\ U32_SIZE = 1 /\ U32_SIZE \in Nat /\ U32_SIZE <= Remaining
  BY CountFits, FileTyped DEF U32_SIZE
<1>2. N = piece[1]
  <2>1. ~(U32_SIZE > Remaining)
    BY <1>1, FileTyped
  <2> QED BY <2>1 DEF N, u32, take, Done
<1>3. /\ file.bytes \in Seq(Byte) /\ pos \in Nat /\ pos + U32_SIZE <= Len(file.bytes)
  BY <1>1, FileTyped DEF BoundInv, Remaining, Byte
<1>4. piece \in Seq(Byte) /\ Len(piece) = U32_SIZE
  <2> DEFINE bytes == file.bytes
             size == U32_SIZE
  <2>1. bytes \in Seq(Byte) /\ pos \in Nat /\ size \in Nat /\ pos + size <= Len(bytes)
    BY <1>1, <1>3
  <2> HIDE DEF bytes, size
  <2>2. Slice(bytes, pos, size) \in Seq(Byte) /\ Len(Slice(bytes, pos, size)) = size
    BY <2>1, SliceCells
  <2> QED BY <2>2 DEF bytes, size
<1> HIDE DEF piece
<1>5. piece = <<piece[1]>>
  BY <1>1, <1>4
<1>6. WriteToken(t, FALSE) = <<N>>
  <2>1. \A v : WriteToken(<<"u32", v>>, FALSE) = <<v>>
    BY DEF WriteToken, Group
  <2> QED BY <2>1
<1>7. WriteToken(t, FALSE) = Slice(file.bytes, pos, U32_SIZE)
  BY <1>2, <1>5, <1>6 DEF piece
<1> HIDE DEF t
<1>8. TokensSoFar' = Append(TokensSoFar, t)
  BY DEF t
<1> QED BY <1>1, <1>7, <1>8, TokenTaken

(* ... and a scalar. *)
LEMMA ScalarTaken ==
    ASSUME BoundInv, SpelledSoFar, fr.outcome = Ok,
           file' = file, pos' = pos + FR_SIZE,
           TokensSoFar' = Append(TokensSoFar, <<"Fr", fr.value>>)
    PROVE  SpelledSoFar'
<1> DEFINE raw == take(FR_SIZE)
           piece == Slice(file.bytes, pos, FR_SIZE)
           t == <<"Fr", fr.value>>
<1>1. raw.outcome = Ok /\ fr = fr_from_bytes(raw.value)
  BY DEF fr
<1>2. ~(FR_SIZE > Remaining)
  BY <1>1 DEF take, Fail, Ok
<1>3. FR_SIZE \in Nat /\ FR_SIZE <= Remaining
  BY <1>2, FileTyped DEF FR_SIZE
<1>4. raw.value = piece
  BY <1>2 DEF take, Done
<1> HIDE DEF piece
<1>5. fr_to_bytes(fr.value) = piece
  BY <1>1, <1>4 DEF fr_from_bytes, Fail, Done, Ok
<1>6. WriteToken(t, FALSE) = fr_to_bytes(fr.value)
  <2>1. \A v : WriteToken(<<"Fr", v>>, FALSE) = fr_to_bytes(v)
    BY DEF WriteToken, Group
  <2> QED BY <2>1
<1>7. WriteToken(t, FALSE) = Slice(file.bytes, pos, FR_SIZE)
  BY <1>5, <1>6 DEF piece
<1> HIDE DEF t
<1>8. TokensSoFar' = Append(TokensSoFar, t)
  BY DEF t
<1> QED BY <1>3, <1>7, <1>8, TokenTaken

(* PointRead keeps the spelling where the point is the next token. *)
LEMMA PointStep ==
    ASSUME BoundInv, SpelledSoFar, NEW g \in Group, NEW next, PointRead(g, next),
           \A p : TokenList(file.kind, Append(read, p), counts)
                    = Append(TokenList(file.kind, read, counts), <<g, p>>)
    PROVE  SpelledSoFar'
<1>1. CASE ReadPoint(g).outcome # Ok
  <2>1. UNCHANGED <<file, pos, read, counts>>
    BY <1>1 DEF PointRead, Return
  <2> QED BY <2>1, NoToken
<1>2. CASE ReadPoint(g).outcome = Ok
  <2> DEFINE p == ReadPoint(g).value
  <2>1. /\ read' = Append(read, p) /\ pos' = pos + SizeOf(g)
        /\ UNCHANGED <<file, counts>>
    BY <1>2 DEF PointRead
  <2> HIDE DEF p
  <2>2. TokensSoFar' = Append(TokensSoFar, <<g, p>>)
    BY <2>1 DEF TokensSoFar
  <2> QED BY <1>2, <2>1, <2>2, PointTaken DEF p
<1> QED BY <1>1, <1>2

(* CountRead, likewise. *)
LEMMA CountStep ==
    ASSUME BoundInv, SpelledSoFar, NEW checks, NEW next, NEW loop, NEW room,
           CountRead(checks, next, loop, room),
           \A v : TokenList(file.kind, read, Append(counts, v))
                    = Append(TokenList(file.kind, read, counts), <<"u32", v>>)
    PROVE  SpelledSoFar'
<1>1. CASE (u32.outcome ?? checks) # Ok
  <2>1. UNCHANGED <<file, pos, read, counts>>
    BY <1>1 DEF CountRead, Return
  <2> QED BY <2>1, NoToken
<1>2. CASE (u32.outcome ?? checks) = Ok
  <2>1. u32.outcome = Ok
    BY <1>2 DEF ??
  <2>2. /\ counts' = Append(counts, N) /\ pos' = pos + U32_SIZE
        /\ UNCHANGED <<file, read>>
    BY <1>2 DEF CountRead
  <2>3. TokensSoFar' = Append(TokensSoFar, <<"u32", N>>)
    BY <2>2 DEF TokensSoFar
  <2> QED BY <2>1, <2>2, <2>3, CountTaken
<1> QED BY <1>1, <1>2

(* A count that is the next token. *)
LEMMA NextCount ==
    ASSUME BoundInv, file.kind \in {"key", "proof", "witness"},
           file.kind = "key" => \/ Len(read) = 6 /\ Len(counts) = 0
                                \/ Len(read) >= 6 /\ Len(counts) >= 1,
           file.kind = "proof" => Len(read) = 3 /\ Len(counts) = 0,
           file.kind = "witness" => Len(read) = 0
    PROVE  \A v : TokenList(file.kind, read, Append(counts, v))
                    = Append(TokenList(file.kind, read, counts), <<"u32", v>>)
BY CountGrows DEF BoundInv

(* The steps of parse_verifying_key read what gnark writes. *)
LEMMA KeySpelled ==
    ASSUME BoundInv, ReadInv, Phase, SpelledSoFar,
           KeyPoint \/ KeyLen \/ KeyIc \/ KeyOuter \/ KeyInner
             \/ KeyCommitmentKeys \/ KeyEnd
    PROVE  SpelledSoFar'
<1>1. Len(read) \in Nat /\ Len(counts) \in Nat /\ IsSequence(read) /\ IsSequence(counts)
  BY Lengths DEF BoundInv
<1>2. file.kind = "key"
  <2>1. pc \in Stages["key"]
    BY StageSets
       DEF KeyPoint, KeyLen, KeyIc, KeyOuter, KeyInner, KeyCommitmentKeys, KeyEnd
  <2> QED BY <2>1, KindOf
<1>3. PhaseAt(pc, Len(read), Len(counts))
  BY DEF Phase
<1>4. /\ pc = "key points" => Len(read) < 6
      /\ pc \in {"ic", "inner"} => Len(read) >= 6
  BY <1>2 DEF ReadInv, ReadsPoints, Reading, FixedCount
<1>5. CASE KeyPoint
  <2> DEFINE k == Len(read) + 1
             after == IF k = Len(KeyPoints) THEN "k_len" ELSE pc
  <2>1. PointRead(KeyPoints[k], after) /\ pc = "key points"
    BY <1>5 DEF KeyPoint
  <2>2. Len(counts) = 0 /\ k \in 1..6
    <3>1. Len(counts) = 0
      BY <1>3, <2>1 DEF PhaseAt
    <3>2. Len(read) \in Nat /\ Len(read) < 6
      BY <1>1, <1>4, <2>1
    <3>3. k \in 1..6
      BY <3>2
    <3> QED BY <3>1, <3>3
  <2>3. KeyPoints[k] \in Group
    BY <2>2 DEF KeyPoints, Group
  <2>4. \A p : TokenList(file.kind, Append(read, p), counts)
                 = Append(TokenList(file.kind, read, counts), <<KeyPoints[k], p>>)
    <3> DEFINE kind == file.kind
               types == IF kind = "key" THEN KeyPoints ELSE ProofPoints
    <3>1. /\ kind \in {"key", "proof"} /\ Len(read) < IF kind = "key" THEN 6 ELSE 3
          /\ types = KeyPoints
      BY <1>2, <1>4, <2>1
    <3> HIDE DEF kind
    <3>2. \A p : TokenList(kind, Append(read, p), counts)
                   = Append(TokenList(kind, read, counts), <<types[Len(read) + 1], p>>)
      BY <1>1, <2>2, <3>1, FixedPointGrows
    <3> QED BY <3>1, <3>2 DEF kind
  <2> HIDE DEF after, k
  <2> QED BY <2>1, <2>3, <2>4, PointStep
<1>6. CASE KeyIc
  <2>1. PointRead("G1", pc) /\ pc = "ic" /\ "G1" \in Group
    BY <1>6 DEF KeyIc, Group
  <2>2. Len(counts) = 1
    BY <1>3, <2>1 DEF PhaseAt
  <2>3. \A p : TokenList(file.kind, Append(read, p), counts)
                 = Append(TokenList(file.kind, read, counts), <<"G1", p>>)
    BY <1>1, <1>2, <1>4, <2>1, <2>2, IcGrows
  <2> QED BY <2>1, <2>3, PointStep
<1>7. CASE KeyLen \/ KeyOuter \/ KeyInner \/ KeyCommitmentKeys
  <2>1. \/ Len(read) = 6 /\ Len(counts) = 0
        \/ Len(read) >= 6 /\ Len(counts) >= 1
    <3>1. pc \in {"k_len", "ic", "inner"}
      BY <1>7 DEF KeyLen, KeyOuter, KeyInner, KeyCommitmentKeys
    <3>2. /\ pc = "k_len" => Len(read) = 6 /\ Len(counts) = 0
          /\ pc = "ic" => Len(counts) = 1
          /\ pc = "inner" => Len(counts) >= 1
      BY <1>3 DEF PhaseAt
    <3>3. Len(counts) = 1 => Len(counts) >= 1
      OBVIOUS
    <3> QED BY <1>4, <3>1, <3>2, <3>3
  <2>2. \A v : TokenList(file.kind, read, Append(counts, v))
                 = Append(TokenList(file.kind, read, counts), <<"u32", v>>)
    BY <1>2, <2>1, NextCount
  <2>3. PICK checks, next, loop, room : CountRead(checks, next, loop, room)
    BY <1>7 DEF KeyLen, KeyOuter, KeyInner, KeyCommitmentKeys
  <2> QED BY <2>2, <2>3, CountStep
<1>8. CASE KeyEnd
  <2>1. UNCHANGED <<file, pos, read, counts>>
    BY <1>8 DEF KeyEnd, Return
  <2> QED BY <2>1, NoToken
<1> QED BY <1>5, <1>6, <1>7, <1>8

(* ... and those of parse_proof ... *)
LEMMA ProofSpelled ==
    ASSUME BoundInv, ReadInv, Phase, SpelledSoFar,
           ProofPoint \/ ProofCommitments \/ ProofPok \/ ProofEnd
    PROVE  SpelledSoFar'
<1>1. Len(read) \in Nat /\ Len(counts) \in Nat /\ IsSequence(read) /\ IsSequence(counts)
  BY Lengths DEF BoundInv
<1>2. file.kind = "proof"
  <2>1. pc \in Stages["proof"]
    BY StageSets DEF ProofPoint, ProofCommitments, ProofPok, ProofEnd
  <2> QED BY <2>1, KindOf
<1>3. PhaseAt(pc, Len(read), Len(counts))
  BY DEF Phase
<1>4. pc = "proof points" => Len(read) < 3
  BY <1>2 DEF ReadInv, ReadsPoints, Reading, FixedCount
<1>5. CASE ProofPoint
  <2> DEFINE k == Len(read) + 1
             after == IF k = Len(ProofPoints) THEN "commitments" ELSE pc
  <2>1. PointRead(ProofPoints[k], after) /\ pc = "proof points"
    BY <1>5 DEF ProofPoint
  <2>2. Len(counts) = 0 /\ k \in 1..3
    <3>1. Len(counts) = 0
      BY <1>3, <2>1 DEF PhaseAt
    <3>2. Len(read) \in Nat /\ Len(read) < 3
      BY <1>1, <1>4, <2>1
    <3>3. k \in 1..3
      BY <3>2
    <3> QED BY <3>1, <3>3
  <2>3. ProofPoints[k] \in Group
    BY <2>2 DEF ProofPoints, Group
  <2>4. \A p : TokenList(file.kind, Append(read, p), counts)
                 = Append(TokenList(file.kind, read, counts), <<ProofPoints[k], p>>)
    <3> DEFINE kind == file.kind
               types == IF kind = "key" THEN KeyPoints ELSE ProofPoints
    <3>1. /\ kind \in {"key", "proof"} /\ Len(read) < IF kind = "key" THEN 6 ELSE 3
          /\ types = ProofPoints
      BY <1>2, <1>4, <2>1
    <3> HIDE DEF kind
    <3>2. \A p : TokenList(kind, Append(read, p), counts)
                   = Append(TokenList(kind, read, counts), <<types[Len(read) + 1], p>>)
      BY <1>1, <2>2, <3>1, FixedPointGrows
    <3> QED BY <3>1, <3>2 DEF kind
  <2> HIDE DEF after, k
  <2> QED BY <2>1, <2>3, <2>4, PointStep
<1>6. CASE ProofPok
  <2>1. PointRead("G1", "proof end") /\ pc = "pok" /\ "G1" \in Group
    BY <1>6 DEF ProofPok, Group
  <2>2. Len(counts) = 1 /\ Len(read) = 3
    BY <1>3, <2>1 DEF PhaseAt
  <2>3. \A p : TokenList(file.kind, Append(read, p), counts)
                 = Append(TokenList(file.kind, read, counts), <<"G1", p>>)
    BY <1>1, <1>2, <2>2, PokGrows
  <2> QED BY <2>1, <2>3, PointStep
<1>7. CASE ProofCommitments
  <2>1. Len(read) = 3 /\ Len(counts) = 0
    BY <1>3, <1>7 DEF PhaseAt, ProofCommitments
  <2>2. \A v : TokenList(file.kind, read, Append(counts, v))
                 = Append(TokenList(file.kind, read, counts), <<"u32", v>>)
    BY <1>2, <2>1, NextCount
  <2>3. PICK checks, next, loop, room : CountRead(checks, next, loop, room)
    BY <1>7 DEF ProofCommitments
  <2> QED BY <2>2, <2>3, CountStep
<1>8. CASE ProofEnd
  <2>1. UNCHANGED <<file, pos, read, counts>>
    BY <1>8 DEF ProofEnd, Return
  <2> QED BY <2>1, NoToken
<1> QED BY <1>5, <1>6, <1>7, <1>8

(* ... and parse_public_witness. *)
LEMMA WitnessSpelled ==
    ASSUME BoundInv, ReadInv, Phase, SpelledSoFar,
           WitnessPublic \/ WitnessSecret \/ WitnessLen \/ WitnessScalar \/ WitnessEnd
    PROVE  SpelledSoFar'
<1>1. IsSequence(read) /\ IsSequence(counts)
  BY DEF BoundInv
<1>2. file.kind = "witness"
  <2>1. pc \in Stages["witness"]
    BY StageSets DEF WitnessPublic, WitnessSecret, WitnessLen, WitnessScalar, WitnessEnd
  <2> QED BY <2>1, KindOf
<1>3. CASE WitnessPublic \/ WitnessSecret \/ WitnessLen
  <2>1. Len(read) = 0
    BY <1>3 DEF Phase, PhaseAt, WitnessPublic, WitnessSecret, WitnessLen
  <2>2. \A v : TokenList(file.kind, read, Append(counts, v))
                 = Append(TokenList(file.kind, read, counts), <<"u32", v>>)
    BY <1>2, <2>1, NextCount
  <2>3. PICK checks, next, loop, room : CountRead(checks, next, loop, room)
    BY <1>3 DEF WitnessPublic, WitnessSecret, WitnessLen
  <2> QED BY <2>2, <2>3, CountStep
<1>4. CASE WitnessScalar
  <2>1. CASE fr.outcome # Ok
    <3>1. UNCHANGED <<file, pos, read, counts>>
      BY <1>4, <2>1 DEF WitnessScalar, Return
    <3> QED BY <3>1, NoToken
  <2>2. CASE fr.outcome = Ok
    <3>1. /\ read' = Append(read, fr.value) /\ pos' = pos + FR_SIZE
          /\ UNCHANGED <<file, counts>>
      BY <1>4, <2>2 DEF WitnessScalar
    <3>2. TokensSoFar' = Append(TokensSoFar, <<"Fr", fr.value>>)
      BY <1>1, <1>2, <3>1, ScalarGrows DEF TokensSoFar
    <3> QED BY <2>2, <3>1, <3>2, ScalarTaken
  <2> QED BY <2>1, <2>2
<1>5. CASE WitnessEnd
  <2>1. UNCHANGED <<file, pos, read, counts>>
    BY <1>5 DEF WitnessEnd, Return
  <2> QED BY <2>1, NoToken
<1> QED BY <1>3, <1>4, <1>5

(* At every step, the cells consumed are what gnark writes for what was read. *)
LEMMA SpellingInvariant == Spec => [](Phase /\ SpelledSoFar)
<1>1. Init => Phase /\ SpelledSoFar
  <2> SUFFICES ASSUME Init PROVE Phase /\ SpelledSoFar
    OBVIOUS
  <2>1. file.kind \in {"key", "proof", "witness", "body"} /\ file.bytes \in Seq(Byte)
    BY FileAssumption DEF Init, Byte
  <2>2. /\ pc = Entry[file.kind] /\ read = <<>> /\ counts = <<>>
        /\ Len(read) = 0 /\ Len(counts) = 0 /\ pos = 0
    BY DEF Init
  <2>3. /\ Entry["key"] = "key points" /\ Entry["proof"] = "proof points"
        /\ Entry["body"] = "body" /\ Entry["witness"] = "nb_public"
    BY DEF Entry
  <2>4. Phase
    BY <2>1, <2>2, <2>3 DEF Phase, PhaseAt
  <2>5. TokensSoFar = <<>> /\ SubSeq(file.bytes, 1, pos) = <<>>
    BY <2>1, <2>2 DEF TokensSoFar, TokenList, TokenCount
  <2> QED BY <2>4, <2>5, SpelledNone DEF SpelledSoFar
<1>2. BoundInv /\ ReadInv /\ Phase /\ SpelledSoFar /\ [Next]_vars
        => (Phase /\ SpelledSoFar)'
  <2> SUFFICES ASSUME BoundInv, ReadInv, Phase, SpelledSoFar, [Next]_vars
               PROVE  Phase' /\ SpelledSoFar'
    OBVIOUS
  <2>1. CASE FromBody
    <3>1. file.kind = "body"
      BY <2>1, KindOf, StageSets DEF FromBody
    <3>2. Phase'
      BY <2>1, <3>1, PhaseReturn DEF FromBody, Finished
    <3>3. UNCHANGED <<file, pos, read, counts>>
      BY <2>1 DEF FromBody, Return
    <3> QED BY <3>2, <3>3, NoToken
  <2>2. CASE UNCHANGED vars
    <3>1. UNCHANGED <<file, pos, read, counts>> /\ UNCHANGED <<pc, result>>
      BY <2>2 DEF vars
    <3>2. Phase'
      BY <3>1 DEF Phase, Finished
    <3> QED BY <3>1, <3>2, NoToken
  <2>3. CASE KeyPoint \/ KeyLen \/ KeyIc \/ KeyOuter \/ KeyInner
               \/ KeyCommitmentKeys \/ KeyEnd
    BY <2>3, KeyPhase, KeySpelled
  <2>4. CASE ProofPoint \/ ProofCommitments \/ ProofPok \/ ProofEnd
    BY <2>4, ProofPhase, ProofSpelled
  <2>5. CASE WitnessPublic \/ WitnessSecret \/ WitnessLen \/ WitnessScalar \/ WitnessEnd
    BY <2>5, WitnessPhase, WitnessSpelled
  <2> QED BY <2>1, <2>2, <2>3, <2>4, <2>5 DEF Next, Returned
<1> QED BY <1>1, <1>2, BoundInvariant, ReadInvariant, PTL DEF Spec

(* The tokens of a list, as a sequence. *)
LEMMA TokensListed ==
    ASSUME NEW kind, NEW rd, NEW ct, NEW n \in Nat, TokenCount(rd, ct) = n
    PROVE  /\ IsSequence(TokenList(kind, rd, ct)) /\ Len(TokenList(kind, rd, ct)) = n
           /\ \A k \in 1..n : TokenList(kind, rd, ct)[k] = TokenAt(kind, rd, ct, k)
<1> DEFINE A(k) == TokenAt(kind, rd, ct, k)
           S == {A(k) : k \in 1..n}
           s == [k \in 1..n |-> A(k)]
<1> HIDE DEF A
<1>1. s \in Seq(S) /\ Len(s) = n /\ \A k \in 1..n : s[k] = A(k)
  OBVIOUS
<1>2. TokenList(kind, rd, ct) = s
  BY DEF TokenList, A
<1> HIDE DEF s, S
<1> QED BY <1>1, <1>2 DEF IsSequence, A

(* What AcceptsOnlyGnark takes to have been read is what was read, in order. *)
LEMMA KeyTokensRead ==
    ASSUME NEW rd, NEW ct, IsSequence(rd), IsSequence(ct), Len(rd) >= 6, Len(ct) >= 1
    PROVE  KeyTokens(SubSeq(rd, 1, 6), SubSeq(rd, 7, Len(rd)), ct)
             = TokenList("key", rd, ct)
<1> DEFINE m == Len(rd)
           c == Len(ct)
           n == m + c
           e == m + 1
           fixed == SubSeq(rd, 1, 6)
           ic == SubSeq(rd, 7, m)
           T == TokenList("key", rd, ct)
           a == Typed(KeyPoints, fixed)
           u == <<<<"u32", Head(ct)>>>>
           i == Tokens("G1", ic)
           l == Tokens("u32", Tail(ct))
<1>1. m \in Nat /\ c \in Nat /\ n \in Nat /\ e \in Nat /\ TokenCount(rd, ct) = n
  BY AppendGrows DEF TokenCount
<1>2. /\ 0 \in Nat /\ 6 \in Nat /\ 7 \in Nat /\ 0 <= 6 /\ 6 <= 7
      /\ 7 <= e /\ e <= n /\ 7 <= n /\ 6 <= m
  BY <1>1
<1>3. PICK S : T \in Seq(S)
  BY <1>1, TokensListed DEF IsSequence
<1>4. Len(T) = n /\ \A k \in 1..n : T[k] = KeyToken(rd, ct, k)
  BY <1>1, TokensListed DEF TokenAt
<1> HIDE DEF T
<1>5. /\ DOMAIN fixed = 1..6 /\ \A k \in 1..6 : fixed[k] = rd[k]
  <2> DEFINE zero == 0
             six == 6
  <2>1. zero \in Nat /\ six \in Nat /\ zero <= six /\ six <= Len(rd) /\ zero + 1 = 1
    OBVIOUS
  <2> HIDE DEF zero, six
  <2>2. /\ DOMAIN SubSeq(rd, zero + 1, six) = 1..six - zero
        /\ \A k \in 1..six - zero : SubSeq(rd, zero + 1, six)[k] = rd[zero + k]
    BY <2>1, StretchCells
  <2> QED BY <2>2 DEF zero, six
<1>6. /\ DOMAIN ic = 1..m - 6 /\ \A k \in 1..m - 6 : ic[k] = rd[6 + k]
  <2> DEFINE six == 6
  <2>1. six \in Nat /\ m \in Nat /\ six <= m /\ m <= Len(rd)
    BY <1>1
  <2> HIDE DEF six, m
  <2>2. /\ DOMAIN SubSeq(rd, six + 1, m) = 1..m - six
        /\ \A k \in 1..m - six : SubSeq(rd, six + 1, m)[k] = rd[six + k]
    BY <2>1, StretchCells
  <2>3. six + 1 = 7
    BY DEF six
  <2> QED BY <2>2, <2>3 DEF six
<1>7. /\ Head(ct) = ct[1] /\ DOMAIN Tail(ct) = 1..c - 1
      /\ \A k \in 1..c - 1 : Tail(ct)[k] = ct[k + 1]
  BY TailCells
<1> HIDE DEF fixed, ic
<1>8. a = SubSeq(T, 0 + 1, 6)
  <2>1. DOMAIN KeyPoints = 1..6
    BY DEF KeyPoints
  <2>2. a = [k \in 1..6 |-> <<KeyPoints[k], rd[k]>>]
    BY <1>5, <2>1 DEF Typed
  <2>3. \A k \in 1..6 : k \in 1..n /\ T[k] = <<KeyPoints[k], rd[k]>>
    BY <1>1, <1>2, <1>4 DEF KeyToken
  <2> HIDE DEF a
  <2>4. a = [k \in 1..6 - 0 |-> a[k]] /\ \A k \in 1..6 - 0 : a[k] = T[0 + k]
    BY <2>2, <2>3
  <2> QED BY <1>2, <1>3, <1>4, <2>4, Stretch
<1>9. u = SubSeq(T, 6 + 1, 7)
  <2>1. 7 \in 1..n /\ T[7] = <<"u32", ct[1]>>
    BY <1>1, <1>2, <1>4 DEF KeyToken
  <2> DEFINE w == <<"u32", ct[1]>>
  <2>2. u = <<w>>
    BY <1>7
  <2> HIDE DEF u, w
  <2>3. u = [k \in 1..7 - 6 |-> u[k]] /\ \A k \in 1..7 - 6 : u[k] = T[6 + k]
    BY <2>1, <2>2 DEF w
  <2> QED BY <1>2, <1>3, <1>4, <2>3, Stretch
<1>10. i = SubSeq(T, 7 + 1, e)
  <2>1. i = [k \in 1..m - 6 |-> <<"G1", rd[6 + k]>>]
    BY <1>6 DEF Tokens
  <2>2. ASSUME NEW k \in 1..m - 6 PROVE T[7 + k] = <<"G1", rd[6 + k]>>
    <3>1. 7 + k \in 1..n /\ ~(7 + k <= 6) /\ 7 + k # 7 /\ 7 + k <= m + 1
          /\ (7 + k) - 1 = 6 + k
      BY <1>1, <1>2
    <3> QED BY <1>4, <3>1 DEF KeyToken
  <2>3. e - 7 = m - 6
    BY <1>1
  <2> HIDE DEF i, e
  <2>4. i = [k \in 1..e - 7 |-> i[k]] /\ \A k \in 1..e - 7 : i[k] = T[7 + k]
    BY <2>1, <2>2, <2>3
  <2> DEFINE seven == 7
  <2>5. seven \in Nat /\ e \in Nat /\ seven <= e /\ e <= Len(T)
    BY <1>1, <1>2, <1>4
  <2>6. /\ i = [k \in 1..e - seven |-> i[k]]
        /\ \A k \in 1..e - seven : i[k] = T[seven + k]
    BY <2>4
  <2> HIDE DEF seven
  <2>7. i = SubSeq(T, seven + 1, e)
    BY <1>3, <2>5, <2>6, Stretch
  <2> QED BY <2>7 DEF seven
<1>11. l = SubSeq(T, e + 1, n)
  <2>1. l = [k \in 1..c - 1 |-> <<"u32", ct[k + 1]>>]
    BY <1>7 DEF Tokens
  <2>2. ASSUME NEW k \in 1..c - 1 PROVE T[e + k] = <<"u32", ct[k + 1]>>
    <3>1. e + k \in 1..n /\ ~(e + k <= 6) /\ e + k # 7 /\ ~(e + k <= m + 1)
          /\ (e + k) - m = k + 1
      BY <1>1, <1>2
    <3> QED BY <1>4, <3>1 DEF KeyToken
  <2>3. n - e = c - 1
    BY <1>1
  <2> HIDE DEF l, e, n
  <2>4. l = [k \in 1..n - e |-> l[k]] /\ \A k \in 1..n - e : l[k] = T[e + k]
    BY <2>1, <2>2, <2>3
  <2>5. e \in Nat /\ n \in Nat /\ e <= n /\ n <= Len(T)
    BY <1>1, <1>2, <1>4
  <2> QED BY <1>3, <2>4, <2>5, Stretch
<1>12. ((SubSeq(T, 0 + 1, 6) \o SubSeq(T, 6 + 1, 7)) \o SubSeq(T, 7 + 1, e))
         \o SubSeq(T, e + 1, n) = T
  <2> DEFINE zero == 0
             six == 6
             seven == 7
  <2>1. /\ six \in Nat /\ seven \in Nat /\ e \in Nat /\ zero = 0
        /\ six <= seven /\ seven <= e /\ e <= Len(T)
    BY <1>1, <1>2, <1>4
  <2> HIDE DEF zero, six, seven, e
  <2>2. ((SubSeq(T, zero + 1, six) \o SubSeq(T, six + 1, seven))
          \o SubSeq(T, seven + 1, e)) \o SubSeq(T, e + 1, Len(T)) = T
    BY <1>3, <2>1, FourStretches, ZenonT(60)
  <2> QED BY <1>4, <2>2 DEF zero, six, seven
<1>13. KeyTokens(fixed, ic, ct) = ((a \o u) \o i) \o l
  BY DEF KeyTokens
<1> HIDE DEF a, u, i, l, e, n
<1> QED BY <1>8, <1>9, <1>10, <1>11, <1>12, <1>13 DEF fixed, ic, T

(* The same for a proof ... *)
LEMMA ProofTokensRead ==
    ASSUME NEW rd, NEW ct, IsSequence(rd), Len(rd) = 4, Len(ct) = 1
    PROVE  ProofTokens(SubSeq(rd, 1, 3), ct[1], rd[4]) = TokenList("proof", rd, ct)
<1> DEFINE T == TokenList("proof", rd, ct)
           zero == 0
           three == 3
           five == 5
           fixed == SubSeq(rd, 1, 3)
           a == Typed(ProofPoints, fixed)
           b == <<<<"u32", ct[1]>>, <<"G1", rd[4]>>>>
<1>1. five \in Nat /\ TokenCount(rd, ct) = five
  BY DEF TokenCount
<1> HIDE DEF five
<1>2. PICK S : T \in Seq(S)
  BY <1>1, TokensListed DEF IsSequence
<1>3. Len(T) = 5 /\ \A k \in 1..5 : T[k] = ProofToken(rd, ct, k)
  <2>1. Len(T) = five /\ \A k \in 1..five : T[k] = ProofToken(rd, ct, k)
    BY <1>1, TokensListed DEF TokenAt
  <2> QED BY <2>1 DEF five
<1> HIDE DEF T
<1>4. zero \in Nat /\ three \in Nat /\ zero = 0 /\ zero <= three /\ three <= Len(T)
      /\ three <= Len(rd) /\ Len(T) \in Nat /\ Len(T) <= Len(T)
  BY <1>3
<1>5. DOMAIN fixed = 1..3 /\ \A k \in 1..3 : fixed[k] = rd[k]
  <2> HIDE DEF zero, three
  <2>1. /\ DOMAIN SubSeq(rd, zero + 1, three) = 1..three - zero
        /\ \A k \in 1..three - zero : SubSeq(rd, zero + 1, three)[k] = rd[zero + k]
    BY <1>4, StretchCells
  <2> QED BY <2>1 DEF zero, three
<1> HIDE DEF fixed
<1>6. a = SubSeq(T, zero + 1, three)
  <2>1. DOMAIN ProofPoints = 1..3
    BY DEF ProofPoints
  <2>2. a = [k \in 1..3 |-> <<ProofPoints[k], rd[k]>>]
    BY <1>5, <2>1 DEF Typed
  <2>3. \A k \in 1..3 : T[k] = <<ProofPoints[k], rd[k]>>
    BY <1>3 DEF ProofToken
  <2> HIDE DEF a
  <2>4. /\ a = [k \in 1..three - zero |-> a[k]]
        /\ \A k \in 1..three - zero : a[k] = T[zero + k]
    BY <2>2, <2>3
  <2> HIDE DEF zero, three
  <2> QED BY <1>2, <1>4, <2>4, Stretch, SMTT(30)
<1>7. b = SubSeq(T, three + 1, Len(T))
  <2> DEFINE v == <<"u32", ct[1]>>
             w == <<"G1", rd[4]>>
  <2>1. T[4] = v /\ T[5] = w
    BY <1>3 DEF ProofToken
  <2>2. b = <<v, w>>
    OBVIOUS
  <2> HIDE DEF b, v, w
  <2>3. b = [k \in 1..2 |-> b[k]] /\ b[1] = T[4] /\ b[2] = T[5]
    BY <2>1, <2>2
  <2>4. /\ b = [k \in 1..Len(T) - three |-> b[k]]
        /\ \A k \in 1..Len(T) - three : b[k] = T[three + k]
    <3>1. Len(T) - three = 2
      BY <1>3
    <3>2. ASSUME NEW k \in 1..2 PROVE b[k] = T[three + k]
      <4>1. CASE k = 1
        BY <2>3, <4>1
      <4>2. CASE k = 2
        BY <2>3, <4>2
      <4> QED BY <4>1, <4>2
    <3> HIDE DEF three
    <3> QED BY <2>3, <3>1, <3>2
  <2> DEFINE e == Len(T)
  <2>5. e \in Nat /\ three <= e /\ e <= Len(T)
    BY <1>4
  <2> HIDE DEF three
  <2> QED BY <1>2, <1>4, <2>4, <2>5, Stretch
<1>8. ProofTokens(fixed, ct[1], rd[4]) = a \o b
  BY DEF ProofTokens
<1> HIDE DEF a, b, zero, three
<1>9. SubSeq(T, zero + 1, three) \o SubSeq(T, three + 1, Len(T)) = T
  BY <1>2, <1>4, TwoStretches
<1> QED BY <1>6, <1>7, <1>8, <1>9 DEF fixed, T

(* ... and for a witness. *)
LEMMA WitnessTokensRead ==
    ASSUME NEW rd, NEW ct, IsSequence(rd), IsSequence(ct)
    PROVE  WitnessTokens(ct, rd) = TokenList("witness", rd, ct)
<1> DEFINE T == TokenList("witness", rd, ct)
           m == Len(rd)
           c == Len(ct)
           n == m + c
           zero == 0
           a == Tokens("u32", ct)
           b == Tokens("Fr", rd)
<1>1. m \in Nat /\ c \in Nat /\ n \in Nat /\ TokenCount(rd, ct) = n
  BY AppendGrows DEF TokenCount
<1>2. DOMAIN rd = 1..m /\ DOMAIN ct = 1..c
  BY DEF IsSequence
<1> HIDE DEF n
<1>3. PICK S : T \in Seq(S)
  BY <1>1, TokensListed DEF IsSequence
<1>4. Len(T) = n /\ \A k \in 1..n : T[k] = WitnessToken(rd, ct, k)
  BY <1>1, TokensListed DEF TokenAt
<1> HIDE DEF T
<1>5. zero \in Nat /\ zero = 0 /\ zero <= c /\ c <= Len(T) /\ Len(T) <= Len(T)
      /\ Len(T) \in Nat
  BY <1>1, <1>4 DEF n
<1>6. a = SubSeq(T, zero + 1, c)
  <2>1. a = [k \in 1..c |-> <<"u32", ct[k]>>]
    BY <1>2 DEF Tokens
  <2>2. ASSUME NEW k \in 1..c PROVE T[k] = <<"u32", ct[k]>>
    <3>1. k \in 1..n /\ k <= c
      BY <1>1 DEF n
    <3> QED BY <1>4, <3>1 DEF WitnessToken
  <2> HIDE DEF a
  <2>3. /\ a = [k \in 1..c - zero |-> a[k]] /\ \A k \in 1..c - zero : a[k] = T[zero + k]
    <3>1. c - zero = c /\ \A k \in 1..c : zero + k = k
      BY <1>1
    <3> QED BY <2>1, <2>2, <3>1
  <2> HIDE DEF zero, c
  <2> QED BY <1>1, <1>3, <1>5, <2>3, Stretch
<1>7. b = SubSeq(T, c + 1, n)
  <2>1. b = [k \in 1..m |-> <<"Fr", rd[k]>>]
    BY <1>2 DEF Tokens
  <2>2. ASSUME NEW k \in 1..m PROVE T[c + k] = <<"Fr", rd[k]>>
    <3>1. c + k \in 1..n /\ ~(c + k <= c) /\ (c + k) - c = k
      BY <1>1 DEF n
    <3> QED BY <1>4, <3>1 DEF WitnessToken
  <2>3. n - c = m
    BY <1>1 DEF n
  <2> HIDE DEF b
  <2>4. b = [k \in 1..n - c |-> b[k]] /\ \A k \in 1..n - c : b[k] = T[c + k]
    BY <2>1, <2>2, <2>3
  <2>5. n <= Len(T) /\ c <= n
    BY <1>1, <1>4 DEF n
  <2> HIDE DEF c
  <2> QED BY <1>1, <1>3, <2>4, <2>5, Stretch
<1>8. WitnessTokens(ct, rd) = a \o b
  BY DEF WitnessTokens
<1> HIDE DEF a, b, zero, c
<1>9. SubSeq(T, zero + 1, c) \o SubSeq(T, c + 1, Len(T)) = T
  BY <1>1, <1>3, <1>5, TwoStretches
<1> QED BY <1>4, <1>6, <1>7, <1>8, <1>9 DEF T

(* The parsers take no second spelling, for every curve, modulus and file: what
   is accepted is byte for byte what gnark writes for the elements read. *)
THEOREM OneSpelling == Spec => []AcceptsOnlyGnark
<1>1. BoundInv /\ Phase /\ SpelledSoFar => AcceptsOnlyGnark
  <2> SUFFICES ASSUME BoundInv, Phase, SpelledSoFar, pc = "done", result.outcome = Ok,
                      file.kind # "body"
               PROVE  \E raw \in SUBSET {k \in DOMAIN TokensRead :
                                           TokensRead[k][1] \in Group} :
                        Write(TokensRead, raw) = file.bytes
    BY DEF AcceptsOnlyGnark, done
  <2>1. Finished
    BY DEF Phase
  <2>2. file.kind \in {"key", "proof", "witness"}
    BY FileAssumption DEF BoundInv
  <2>3. IsSequence(read) /\ IsSequence(counts)
    BY DEF BoundInv
  <2>4. TokensRead = TokensSoFar
    <3>1. CASE file.kind = "key"
      <4>1. TokensRead
              = KeyTokens(SubSeq(read, 1, 6), SubSeq(read, 7, Len(read)), counts)
        BY <3>1 DEF TokensRead
      <4> QED BY <2>1, <2>3, <3>1, <4>1, KeyTokensRead DEF Finished, TokensSoFar
    <3>2. CASE file.kind = "proof"
      <4>1. TokensRead = ProofTokens(SubSeq(read, 1, 3), counts[1], read[4])
        BY <3>2 DEF TokensRead
      <4> QED BY <2>1, <2>3, <3>2, <4>1, ProofTokensRead DEF Finished, TokensSoFar
    <3>3. CASE file.kind = "witness"
      <4>1. TokensRead = WitnessTokens(counts, read)
        BY <3>3 DEF TokensRead
      <4> QED BY <2>3, <3>3, <4>1, WitnessTokensRead DEF TokensSoFar
    <3> QED BY <2>2, <3>1, <3>2, <3>3
  <2>5. SubSeq(file.bytes, 1, pos) = file.bytes
    <3>1. pos = Len(file.bytes) /\ file.bytes \in Seq(0..Radix - 1)
      BY <2>1, FileTyped DEF Finished
    <3> QED BY <3>1
  <2>6. PICK raw : Spelled(TokensSoFar, raw, file.bytes)
    BY <2>5 DEF SpelledSoFar
  <2>7. /\ raw \subseteq {k \in DOMAIN TokensSoFar : TokensSoFar[k][1] \in Group}
        /\ Write(TokensSoFar, raw) = file.bytes
    BY <2>6 DEF Spelled
  <2> QED BY <2>4, <2>7
<1> QED BY <1>1, BoundInvariant, SpellingInvariant, PTL

-----------------------------------------------------------------------------
(* Faithful conversion and the errors of length: where each element of what gnark
   held lies in the file, and what the parsers make of a file that was written
   from it, whole, cut or extended. *)

(* The first m of many sequences, one after another. *)
Upto(ss, m) == FlattenSeq(SubSeq(ss, 1, m))

(* One more: it comes behind the others. *)
LEMMA UptoNext ==
    ASSUME NEW S, NEW ss \in Seq(Seq(S)), NEW m \in Nat, m < Len(ss),
           Upto(ss, m) \in Seq(S)
    PROVE  /\ Upto(ss, m + 1) = Upto(ss, m) \o ss[m + 1]
           /\ Upto(ss, m + 1) \in Seq(S)
<1> DEFINE a == SubSeq(ss, 1, m)
           b == SubSeq(ss, 1, m + 1)
           T == Seq(S)
           c == Append(a, ss[m + 1])
<1> HIDE DEF T
<1>1. Len(ss) \in Nat /\ ss \in Seq(T) /\ m + 1 \in 1..Len(ss)
  BY DEF T
<1>2. /\ a \in Seq(T) /\ Len(a) = m /\ \A k \in 1..m : a[k] = ss[k]
      /\ b \in Seq(T) /\ Len(b) = m + 1 /\ \A k \in 1..m + 1 : b[k] = ss[k]
  BY <1>1, SMTT(30)
<1>3. ss[m + 1] \in T
  BY <1>1
<1> HIDE DEF a, b
<1>4. /\ c \in Seq(T) /\ Len(c) = m + 1 /\ c[m + 1] = ss[m + 1]
      /\ \A k \in 1..m : c[k] = a[k]
  BY <1>2, <1>3
<1> HIDE DEF c
<1>5. b = c
  <2>1. \A k \in 1..m + 1 : b[k] = c[k]
    <3>1. \A k \in 1..m + 1 : k = m + 1 \/ k \in 1..m
      OBVIOUS
    <3> QED BY <1>2, <1>4, <3>1
  <2> QED BY <1>2, <1>4, <2>1, SeqEqual
<1>6. a \in Seq(Seq(S)) /\ ss[m + 1] \in Seq(S) /\ FlattenSeq(a) \in Seq(S)
  BY <1>2, <1>3 DEF T, Upto, a
<1> QED BY <1>5, <1>6, FlattenAppend DEF Upto, a, b, c

(* All of these are sequences ... *)
LEMMA UptoTyped ==
    ASSUME NEW S, NEW ss \in Seq(Seq(S))
    PROVE  /\ Upto(ss, 0) = <<>>
           /\ \A m \in 0..Len(ss) : Upto(ss, m) \in Seq(S)
           /\ Upto(ss, Len(ss)) = FlattenSeq(ss)
<1> DEFINE A == {m \in Nat : m <= Len(ss) => Upto(ss, m) \in Seq(S)}
<1>1. Len(ss) \in Nat
  OBVIOUS
<1>2. Upto(ss, 0) = <<>>
  <2>1. SubSeq(ss, 1, 0) = <<>>
    OBVIOUS
  <2> QED BY <2>1 DEF Upto, FlattenSeq
<1>3. 0 \in A
  BY <1>2, EmptySeq
<1>4. ASSUME NEW m \in Nat, m \in A PROVE m + 1 \in A
  <2>1. CASE m + 1 <= Len(ss)
    <3>1. m < Len(ss) /\ Upto(ss, m) \in Seq(S)
      BY <1>1, <1>4, <2>1
    <3> QED BY <3>1, UptoNext
  <2>2. CASE ~(m + 1 <= Len(ss))
    BY <2>2
  <2> QED BY <2>1, <2>2
<1> HIDE DEF A
<1>5. \A m \in Nat : m \in A
  BY <1>3, <1>4, InductionBySet
<1>6. \A m \in 0..Len(ss) : Upto(ss, m) \in Seq(S)
  BY <1>1, <1>5 DEF A
<1>7. SubSeq(ss, 1, Len(ss)) = ss
  OBVIOUS
<1> QED BY <1>2, <1>6, <1>7 DEF Upto

(* ... of which each begins with those before it, and grows by two cells wherever
   the parts have two. *)
LEMMA UptoGrows ==
    ASSUME NEW S, NEW ss \in Seq(Seq(S)), NEW m \in 0..Len(ss), NEW n \in m..Len(ss)
    PROVE  /\ Len(Upto(ss, m)) \in Nat /\ Len(Upto(ss, n)) \in Nat
           /\ Len(Upto(ss, m)) <= Len(Upto(ss, n))
           /\ \A i \in 1..Len(Upto(ss, m)) : Upto(ss, n)[i] = Upto(ss, m)[i]
           /\ (\A k \in m + 1..n : Len(ss[k]) >= 2) =>
                Len(Upto(ss, n)) >= Len(Upto(ss, m)) + 2 * (n - m)
<1> DEFINE U(k) == Upto(ss, k)
           Wide(k) == \A i \in m + 1..k : Len(ss[i]) >= 2
           Grows(k) == /\ Len(U(m)) <= Len(U(k))
                       /\ \A i \in 1..Len(U(m)) : U(k)[i] = U(m)[i]
                       /\ Wide(k) => Len(U(k)) >= Len(U(m)) + 2 * (k - m)
           A == {d \in Nat : m + d <= Len(ss) => Grows(m + d)}
<1>1. Len(ss) \in Nat /\ m \in Nat /\ n \in Nat
  OBVIOUS
<1>2. \A k \in 0..Len(ss) : U(k) \in Seq(S) /\ Len(U(k)) \in Nat
  BY UptoTyped
<1>3. \A k \in Nat : k < Len(ss) => U(k + 1) = U(k) \o ss[k + 1]
  BY <1>1, <1>2, UptoNext, SMTT(30)
<1> HIDE DEF U
<1>4. 0 \in A
  <2>1. m + 0 = m /\ m - m = 0 /\ m \in 0..Len(ss)
    BY <1>1
  <2>2. Len(U(m)) \in Nat
    BY <1>2, <2>1
  <2>3. Len(U(m)) <= Len(U(m)) /\ Len(U(m)) >= Len(U(m)) + 2 * (m - m)
    BY <2>1, <2>2
  <2>4. Grows(m)
    <3> HIDE DEF Wide
    <3> QED BY <2>3
  <2> HIDE DEF Grows
  <2> QED BY <2>1, <2>4
<1>5. ASSUME NEW d \in Nat, d \in A PROVE d + 1 \in A
  <2>1. SUFFICES ASSUME m + (d + 1) <= Len(ss) PROVE Grows(m + (d + 1))
    OBVIOUS
  <2> DEFINE k == m + d
  <2>2. k \in Nat /\ k < Len(ss) /\ k \in 0..Len(ss) /\ k + 1 \in 1..Len(ss)
        /\ m + (d + 1) = k + 1 /\ (k + 1) - m = (k - m) + 1 /\ k - m \in Nat
    BY <1>1, <2>1
  <2>3. Grows(k)
    BY <1>5, <2>2
  <2> HIDE DEF k
  <2>4. /\ U(k) \in Seq(S) /\ Len(U(k)) \in Nat /\ Len(U(m)) \in Nat
        /\ ss[k + 1] \in Seq(S) /\ Len(ss[k + 1]) \in Nat /\ U(k + 1) = U(k) \o ss[k + 1]
    BY <1>1, <1>2, <1>3, <2>2, SMTT(30)
  <2>5. /\ Len(U(k + 1)) = Len(U(k)) + Len(ss[k + 1])
        /\ \A i \in 1..Len(U(k)) : U(k + 1)[i] = U(k)[i]
    BY <2>4, TwoParts
  <2>6. Len(U(m)) <= Len(U(k + 1))
    BY <2>3, <2>4, <2>5
  <2>7. \A i \in 1..Len(U(m)) : U(k + 1)[i] = U(m)[i]
    BY <2>3, <2>4, <2>5
  <2>8. Wide(k + 1) => Wide(k) /\ Len(ss[k + 1]) >= 2
    BY <1>1, <2>2
  <2>9. Wide(k + 1) => Len(U(k + 1)) >= Len(U(m)) + 2 * ((k + 1) - m)
    <3> HIDE DEF Wide
    <3> QED BY <2>2, <2>3, <2>4, <2>5, <2>8, SMTT(30)
  <2>10. Grows(k + 1)
    BY <2>6, <2>7, <2>9
  <2> QED BY <2>2, <2>10
<1> HIDE DEF A
<1>6. \A d \in Nat : d \in A
  BY <1>4, <1>5, InductionBySet
<1>7. n - m \in Nat /\ m + (n - m) = n
  BY <1>1
<1>8. Grows(n)
  <2> HIDE DEF Grows
  <2>1. n - m \in A /\ m + (n - m) <= Len(ss)
    BY <1>1, <1>6, <1>7
  <2>2. Grows(m + (n - m))
    BY <2>1 DEF A
  <2> QED BY <1>7, <2>2
<1>9. m \in 0..Len(ss) /\ n \in 0..Len(ss)
  BY <1>1
<1> QED BY <1>2, <1>8, <1>9 DEF U

(* Where the part after the first m lies. *)
LEMMA PartAt ==
    ASSUME NEW S, NEW ss \in Seq(Seq(S)), NEW m \in Nat, m < Len(ss)
    PROVE  LET w == FlattenSeq(ss)
               part == ss[m + 1]
               at == Len(Upto(ss, m))
           IN  /\ w \in Seq(S) /\ part \in Seq(S) /\ at \in Nat
               /\ Len(Upto(ss, m + 1)) = at + Len(part)
               /\ at + Len(part) <= Len(w)
               /\ \A j \in 1..Len(part) : w[at + j] = part[j]
<1> DEFINE w == FlattenSeq(ss)
           part == ss[m + 1]
           u == Upto(ss, m)
           v == Upto(ss, m + 1)
           e == Len(ss)
<1>1. e \in Nat /\ m + 1 \in 0..e /\ m \in 0..e /\ e \in m + 1..e /\ m + 1 \in 1..e
  OBVIOUS
<1>2. w = Upto(ss, e) /\ w \in Seq(S) /\ u \in Seq(S) /\ part \in Seq(S)
  BY <1>1, UptoTyped
<1>3. v = u \o part
  BY <1>2, UptoNext
<1>4. Len(v) <= Len(w) /\ \A i \in 1..Len(v) : w[i] = v[i]
  BY <1>1, <1>2, UptoGrows
<1> HIDE DEF w, part, u, v, e
<1>5. /\ Len(u) \in Nat /\ Len(part) \in Nat /\ Len(v) = Len(u) + Len(part)
      /\ \A j \in 1..Len(part) : v[Len(u) + j] = part[j]
  BY <1>2, <1>3, TwoParts
<1>6. \A j \in 1..Len(part) : Len(u) + j \in 1..Len(v)
  BY <1>5
<1> QED BY <1>2, <1>4, <1>5, <1>6 DEF w, part, u, v

(* The top two bits of a field element's first cell are clear. *)
LEMMA TopClear ==
    ASSUME NEW g \in Group, NEW x \in Field(g)
    PROVE  FieldBytes(g, x)[1] \in 0..Radix \div 4 - 1
<1> DEFINE q == Radix \div 4
<1>1. q \in Nat /\ q > 0 /\ Radix = 4 * q
  BY WireAssumption
<1>2. ASSUME NEW v \in Fq
      PROVE  v \div Radix \in 0..q - 1
  <2>1. v \in Nat /\ 4 * v < Radix * Radix /\ Radix \in Nat /\ Radix > 0
    BY WireAssumption DEF Fq
  <2>2. 4 * v < 4 * (q * Radix) /\ q * Radix \in Nat
    <3>1. (4 * q) * Radix = 4 * (q * Radix) /\ q * Radix \in Nat
      BY <1>1, <2>1
    <3>2. Radix * Radix = (4 * q) * Radix
      BY <1>1
    <3> QED BY <2>1, <3>1, <3>2
  <2> DEFINE d == v \div Radix
             r == v % Radix
             room == q * Radix
  <2>3. d \in Nat /\ r \in Nat /\ v = d * Radix + r
    BY <2>1
  <2> HIDE DEF d, r, room, q
  <2>4. v < room /\ room \in Nat
    BY <2>1, <2>2 DEF room
  <2>5. d < q
    <3>1. SUFFICES ASSUME q <= d PROVE FALSE
      BY <1>1, <2>3
    <3>2. q * Radix <= d * Radix
      BY <1>1, <2>1, <2>3, <3>1
    <3>3. d * Radix \in Nat
      BY <2>1, <2>3
    <3> QED BY <2>3, <2>4, <3>2, <3>3 DEF room
  <2> QED BY <1>1, <2>3, <2>5 DEF d
<1> HIDE DEF q
<1>3. CASE g = "G1"
  <2>1. FieldBytes(g, x)[1] = x \div Radix /\ x \in Fq
    BY <1>3 DEF Field, FieldBytes, fq_to_bytes
  <2> QED BY <1>2, <2>1 DEF q
<1>4. CASE g = "G2"
  <2> DEFINE a == fq_to_bytes(x.c1)
             b == fq_to_bytes(x.c0)
  <2>1. x.c0 \in Fq /\ x.c1 \in Fq
    BY <1>4 DEF Field, Fq2
  <2>2. a \in Seq(Byte) /\ b \in Seq(Byte) /\ Len(a) = 2 /\ a[1] = x.c1 \div Radix
    BY <2>1, FqEncoded DEF fq_to_bytes
  <2>3. FieldBytes(g, x) = a \o b
    BY <1>4 DEF FieldBytes, fq2_to_bytes
  <2> HIDE DEF a, b
  <2>4. (a \o b)[1] = a[1]
    <3>1. 1 \in 1..Len(a)
      BY <2>2
    <3> QED BY <2>2, <3>1, TwoParts, SMTT(30)
  <2> QED BY <1>2, <2>1, <2>2, <2>3, <2>4 DEF q
<1> QED BY <1>3, <1>4 DEF Group

(* A flag is set and read back. *)
LEMMA FlagSet ==
    ASSUME NEW u \in Seq(Byte), Len(u) >= 1, u[1] \in 0..Radix \div 4 - 1,
           NEW f \in 0..3
    PROVE  LET v == WithFlag(f, u) IN
           /\ v \in Seq(Byte) /\ Len(v) = Len(u)
           /\ Flag(v[1]) = f /\ Unflagged(v) = u
<1> DEFINE q == Radix \div 4
           c == u[1] + f * q
           v == WithFlag(f, u)
<1>1. q \in Nat /\ q > 0 /\ Radix = 4 * q
  BY WireAssumption
<1>2. 1 \in 1..Len(u) /\ Len(u) \in Nat /\ DOMAIN u = 1..Len(u)
  OBVIOUS
<1>3. u[1] \in Nat /\ u[1] < q
  BY <1>1
<1> HIDE DEF q
<1>4. f \in {0, 1, 2, 3}
  OBVIOUS
<1>5. c \in Nat /\ c < 4 * q /\ c \div q = f /\ c % q = u[1]
  <2> DEFINE e == u[1]
  <2>1. e \in Nat /\ e < q
    BY <1>3
  <2> HIDE DEF e
  <2>2. /\ e + 0 * q \in Nat /\ e + 0 * q < 4 * q
        /\ (e + 0 * q) \div q = 0 /\ (e + 0 * q) % q = e
    BY <1>1, <2>1
  <2>3. /\ e + 1 * q \in Nat /\ e + 1 * q < 4 * q
        /\ (e + 1 * q) \div q = 1 /\ (e + 1 * q) % q = e
    BY <1>1, <2>1
  <2>4. /\ e + 2 * q \in Nat /\ e + 2 * q < 4 * q
        /\ (e + 2 * q) \div q = 2 /\ (e + 2 * q) % q = e
    BY <1>1, <2>1
  <2>5. /\ e + 3 * q \in Nat /\ e + 3 * q < 4 * q
        /\ (e + 3 * q) \div q = 3 /\ (e + 3 * q) % q = e
    BY <1>1, <2>1
  <2> QED BY <1>4, <2>2, <2>3, <2>4, <2>5 DEF e
<1>6. v = [u EXCEPT ![1] = c]
  BY DEF WithFlag, q
<1>7. c \in Byte
  BY <1>1, <1>5 DEF Byte
<1> HIDE DEF c, v
<1>8. /\ v \in Seq(Byte) /\ Len(v) = Len(u) /\ v[1] = c /\ DOMAIN v = DOMAIN u
      /\ \A k \in DOMAIN u : k # 1 => v[k] = u[k]
  BY <1>2, <1>6, <1>7
<1>9. Unflagged(v) = [v EXCEPT ![1] = c % q]
  BY <1>8 DEF Unflagged, q
<1>10. [v EXCEPT ![1] = u[1]] = u
  BY <1>2, <1>8
<1>11. Flag(v[1]) = f
  BY <1>5, <1>8 DEF Flag, q
<1> QED BY <1>5, <1>8, <1>9, <1>10, <1>11 DEF v

(* The flag is one of two. *)
LEMMA LargestBoolean ==
    ASSUME NEW g \in Group, NEW y \in Field(g)
    PROVE  IsLargest(g, y) \in BOOLEAN
<1> DEFINE half == (Q_MODULUS - 1) \div 2
<1>1. half \in Int
  BY WireFacts
<1>2. CASE g = "G1"
  <2>1. IsLargest(g, y) = (y > half)
    BY <1>2 DEF IsLargest
  <2>2. y \in Int
    BY <1>2, WireFacts DEF Field, Fq
  <2> HIDE DEF half
  <2>3. (y > half) \in BOOLEAN
    BY <1>1, <2>2
  <2> QED BY <2>1, <2>3
<1>3. CASE g = "G2"
  <2>1. IsLargest(g, y) = IF y.c1 = 0 THEN y.c0 > half ELSE y.c1 > half
    BY <1>3 DEF IsLargest
  <2>2. y.c0 \in Int /\ y.c1 \in Int
    BY <1>3, WireFacts DEF Field, Fq2, Fq
  <2> HIDE DEF half
  <2>3. (y.c0 > half) \in BOOLEAN /\ (y.c1 > half) \in BOOLEAN
    BY <1>1, <2>2
  <2> QED BY <2>1, <2>3
<1> QED BY <1>2, <1>3 DEF Group

(* The root with the flag of p is p. *)
LEMMA RootFound ==
    ASSUME NEW g \in Group, NEW p \in InSubgroup(g)
    PROVE  get_point_from_x_unchecked(g, p[1], IsLargest(g, p[2])) = Done(p)
<1> DEFINE largest == IsLargest(g, p[2])
           r == get_point_from_x_unchecked(g, p[1], largest)
           q == r.value
           roots == {s \in OnCurve(g) : s[1] = p[1]}
<1>1. largest \in BOOLEAN
  <2>1. PICK x \in Field(g), y \in Field(g) : p = <<x, y>>
    BY WireAssumption
  <2>2. p[2] = y
    BY <2>1
  <2> QED BY <2>2, LargestBoolean
<1>2. p \in OnCurve(g) /\ neg(g, p) # p /\ neg(g, p) \in InSubgroup(g)
  BY WireAssumption
<1>3. roots # {}
  BY <1>2
<1>4. r.outcome = Ok /\ r = Done(q)
  <2> DEFINE Picked(s) == IF largest THEN ~Less(g, s[2], neg_y(g, s[2]))
                          ELSE ~Less(g, neg_y(g, s[2]), s[2])
             chosen == CHOOSE s \in roots : Picked(s)
  <2>1. r = IF roots = {} THEN Fail("InvalidPoint") ELSE Done(chosen)
    BY DEF get_point_from_x_unchecked
  <2> HIDE DEF chosen, roots
  <2>2. r = Done(chosen)
    BY <1>3, <2>1
  <2> HIDE DEF r
  <2> QED BY <2>2 DEF Done
<1> HIDE DEF largest, r
<1>5. /\ q \in OnCurve(g) /\ q[1] = p[1]
      /\ largest => ~Less(g, q[2], neg_y(g, q[2]))
      /\ ~largest => ~Less(g, neg_y(g, q[2]), q[2])
  BY <1>1, <1>4, RootPicked DEF r
<1>6. q \in {p, neg(g, p)}
  BY <1>2, <1>5, WireAssumption
<1>7. q # neg(g, p)
  <2> SUFFICES ASSUME q = neg(g, p) PROVE FALSE
    OBVIOUS
  <2>1. PICK x \in Field(g), y \in Field(g) : p = <<x, y>>
    BY <1>2, WireAssumption
  <2>2. p # Identity /\ p[2] = y
    BY <2>1 DEF Identity
  <2>3. q[2] = neg_y(g, y)
    BY <2>2 DEF neg
  <2>4. neg(g, neg(g, p)) = p
    <3>1. p \in Point(g)
      BY DEF Point
    <3> QED BY <3>1, NegPoint
  <2>5. neg_y(g, q[2]) = y
    <3>1. q = <<x, neg_y(g, y)>>
      BY <2>1, <2>2 DEF neg
    <3>2. q # Identity
      BY <3>1 DEF Identity
    <3>3. neg(g, q) = <<q[1], neg_y(g, q[2])>>
      BY <3>2 DEF neg
    <3> HIDE DEF q
    <3>4. <<q[1], neg_y(g, q[2])>> = <<x, y>>
      BY <2>1, <2>4, <3>3
    <3> QED BY <3>4
  <2>6. /\ ~Less(g, y, neg_y(g, y)) => IsLargest(g, y)
        /\ ~Less(g, neg_y(g, y), y) => ~IsLargest(g, y)
    BY <2>2, LargestAgrees
  <2>7. largest <=> IsLargest(g, y)
    BY <2>2 DEF largest
  <2> QED BY <1>5, <2>3, <2>5, <2>6, <2>7
<1> QED BY <1>4, <1>6, <1>7 DEF r, largest

(* A point is decoded from what gnark writes for it, raw or compressed, and its
   first cell tells how many cells that is. *)
LEMMA PointWritten ==
    ASSUME NEW g \in Group, NEW p \in Point(g), NEW b \in BOOLEAN
    PROVE  LET piece == WriteToken(<<g, p>>, b)
               flag == Flag(piece[1])
           IN  /\ piece \in Seq(Byte)
               /\ Len(piece) = IF flag = FLAG_UNCOMPRESSED THEN PointSize(g)
                               ELSE PointSize(g) \div 2
               /\ Len(piece) >= 2
               /\ Decoded(g, flag, piece) = Done(p)
<1> DEFINE piece == WriteToken(<<g, p>>, b)
           flag == Flag(piece[1])
           half == PointSize(g) \div 2
<1>1. piece = IF b THEN to_bytes(g, p) ELSE gnark_compress(g, p)
  BY DEF WriteToken, Group
<1>2. PointSize(g) >= 4 /\ half >= 2 /\ half \in Nat
  BY WireFacts DEF Group
<1> HIDE DEF piece, half
<1>3. Radix \div 4 \in Nat /\ Radix \div 4 > 0
  BY WireAssumption
<1>4. 0 \div (Radix \div 4) = 0 /\ 0 \in 0..Radix \div 4 - 1
  BY <1>3
<1>5. CASE b
  <2>1. /\ piece \in Seq(Byte) /\ Len(piece) = PointSize(g)
        /\ from_bytes(g, piece) = Done(p)
    BY <1>1, <1>5, PointEncoded
  <2>2. flag = FLAG_UNCOMPRESSED
    <3>1. CASE p = Identity
      <4>1. AllZero(piece)
        BY <1>1, <1>5, <3>1, IdentityEncoded
      <4>2. 1 \in DOMAIN piece
        BY <1>2, <2>1
      <4>3. piece[1] = 0
        BY <4>1, <4>2 DEF AllZero
      <4> QED BY <1>4, <4>3 DEF Flag, FLAG_UNCOMPRESSED
    <3>2. CASE p # Identity
      <4>1. p \in InSubgroup(g)
        BY <3>2 DEF Point
      <4>2. PICK x \in Field(g), y \in Field(g) : p = <<x, y>>
        BY <4>1, WireAssumption
      <4>3. piece = FieldBytes(g, x) \o FieldBytes(g, y)
        BY <1>1, <1>5, <3>2, <4>2 DEF to_bytes
      <4>4. /\ FieldBytes(g, x) \in Seq(Byte) /\ FieldBytes(g, y) \in Seq(Byte)
            /\ Len(FieldBytes(g, x)) = half
        BY FieldEncoded DEF half
      <4>5. 1 \in 1..Len(FieldBytes(g, x))
        BY <1>2, <4>4
      <4>6. piece[1] = FieldBytes(g, x)[1]
        BY <4>3, <4>4, <4>5, TwoParts
      <4>7. piece[1] \in 0..Radix \div 4 - 1
        BY <4>6, TopClear
      <4>8. piece[1] \div (Radix \div 4) = 0
        BY <1>3, <4>7
      <4> QED BY <4>8 DEF Flag, FLAG_UNCOMPRESSED
    <3> QED BY <3>1, <3>2
  <2> HIDE DEF flag
  <2>3. Decoded(g, flag, piece) = Done(p)
    BY <2>1, <2>2 DEF Decoded
  <2> QED BY <1>2, <2>1, <2>2, <2>3 DEF piece, flag
<1>6. CASE ~b /\ p = Identity
  <2> DEFINE zeros == [k \in 1..half |-> 0]
  <2>1. piece = WithFlag(FLAG_COMPRESSED_INFINITY, zeros)
    BY <1>1, <1>6 DEF gnark_compress, half
  <2>2. zeros \in Seq(Byte) /\ Len(zeros) = half /\ zeros[1] = 0 /\ AllZero(zeros)
    BY <1>2, WireFacts DEF Byte, AllZero
  <2> HIDE DEF zeros
  <2>3. /\ piece \in Seq(Byte) /\ Len(piece) = half
        /\ flag = FLAG_COMPRESSED_INFINITY /\ Unflagged(piece) = zeros
    BY <1>2, <1>4, <2>1, <2>2, FlagSet DEF FLAG_COMPRESSED_INFINITY
  <2> HIDE DEF flag
  <2>4. Decoded(g, flag, piece) = Done(p)
    BY <1>6, <2>2, <2>3
       DEF Decoded, expect_zero_after_flag, FLAG_COMPRESSED_INFINITY, FLAG_UNCOMPRESSED
  <2> QED BY <1>2, <2>3, <2>4
          DEF piece, flag, half, FLAG_COMPRESSED_INFINITY, FLAG_UNCOMPRESSED
<1>7. CASE ~b /\ p # Identity
  <2>1. p \in InSubgroup(g)
    BY <1>7 DEF Point
  <2>2. PICK x \in Field(g), y \in Field(g) : p = <<x, y>>
    BY <2>1, WireAssumption
  <2> DEFINE largest == IsLargest(g, y)
             f == IF largest THEN FLAG_COMPRESSED_LARGEST ELSE FLAG_COMPRESSED_SMALLEST
             u == FieldBytes(g, x)
  <2>3. p[1] = x /\ p[2] = y
    BY <2>2
  <2>4. piece = WithFlag(f, u)
    BY <1>1, <1>7, <2>3 DEF gnark_compress
  <2>5. u \in Seq(Byte) /\ Len(u) = half /\ FieldFrom(g, u) = Done(x)
    BY FieldEncoded DEF half
  <2>6. u[1] \in 0..Radix \div 4 - 1
    BY TopClear
  <2>7. f \in 0..3
    BY DEF FLAG_COMPRESSED_LARGEST, FLAG_COMPRESSED_SMALLEST
  <2>8. /\ f # FLAG_UNCOMPRESSED /\ f # FLAG_COMPRESSED_INFINITY
        /\ (f = FLAG_COMPRESSED_LARGEST) = largest
    <3>1. IsLargest(g, y) \in BOOLEAN
      BY LargestBoolean
    <3> QED BY <3>1 DEF FLAG_COMPRESSED_LARGEST, FLAG_COMPRESSED_SMALLEST,
                        FLAG_UNCOMPRESSED, FLAG_COMPRESSED_INFINITY
  <2> HIDE DEF f, u, largest
  <2>9. /\ piece \in Seq(Byte) /\ Len(piece) = half /\ flag = f /\ Unflagged(piece) = u
    BY <1>2, <2>4, <2>5, <2>6, <2>7, FlagSet
  <2>10. get_point_from_x_unchecked(g, x, largest) = Done(p)
    BY <2>1, <2>3, RootFound DEF largest
  <2>11. decompress(g, x, largest) = Done(p)
    <3>1. checked_affine(g, p) = Done(p)
      BY <2>1, WireAssumption DEF checked_affine
    <3>2. Done(p).outcome = Ok /\ Done(p).value = p
      BY DEF Done
    <3> QED BY <1>7, <2>10, <3>1, <3>2 DEF decompress
  <2> HIDE DEF flag
  <2>12. Decoded(g, flag, piece) = decompress(g, x, flag = FLAG_COMPRESSED_LARGEST)
    <3>1. Done(x).outcome = Ok /\ Done(x).value = x
      BY DEF Done
    <3> QED BY <2>5, <2>8, <2>9, <3>1 DEF Decoded
  <2>13. Decoded(g, flag, piece) = Done(p)
    BY <2>8, <2>9, <2>11, <2>12
  <2> QED BY <1>2, <2>8, <2>9, <2>13 DEF piece, flag, half
<1> QED BY <1>5, <1>6, <1>7

(* A scalar, too, is decoded from its cells. *)
LEMMA ScalarWritten ==
    ASSUME NEW s \in 0..R_MODULUS - 1
    PROVE  /\ fr_to_bytes(s) \in Seq(Byte) /\ Len(fr_to_bytes(s)) = 2
           /\ fr_from_bytes(fr_to_bytes(s)) = Done(s)
<1>1. R_MODULUS \in Nat /\ R_MODULUS > 0 /\ R_MODULUS <= Radix * Radix
      /\ Radix \in Nat /\ Radix > 0 /\ Radix * Radix \in Nat
  BY WireAssumption
<1>2. s \in Nat /\ s < Radix * Radix
  BY <1>1
<1>3. /\ s \div Radix \in Byte /\ s % Radix \in Byte
      /\ (s \div Radix) * Radix + (s % Radix) = s
  BY <1>1, <1>2, Digits DEF Byte
<1>4. s % R_MODULUS = s
  BY <1>1, Small
<1>5. /\ fr_to_bytes(s)[1] = s \div Radix /\ fr_to_bytes(s)[2] = s % Radix
      /\ fr_to_bytes(s) \in Seq(Byte) /\ Len(fr_to_bytes(s)) = 2
  BY <1>3 DEF fr_to_bytes
<1>6. fr_from_bytes(fr_to_bytes(s)) = Done(s)
  BY <1>3, <1>4, <1>5 DEF fr_from_bytes
<1> QED BY <1>5, <1>6

-----------------------------------------------------------------------------
(* The elements and the counts of an artifact, in the order of its file. *)
ReadsOf(a) ==
    CASE a.kind = "key" -> a.points \o a.ic
      [] a.kind = "proof" -> a.points \o <<Identity>>
      [] a.kind = "witness" -> a.scalars
CountsOf(a) ==
    CASE a.kind = "key" -> <<Len(a.ic), a.commitments>>
                             \o [k \in 1..2 * a.commitments |-> 1] \o <<a.commitments>>
      [] a.kind = "proof" -> <<a.commitments>>
      [] a.kind = "witness" ->
             <<Len(a.scalars), a.secrets, Len(a.scalars) + a.secrets>>

(* The points of an artifact are a sequence. *)
LEMMA PointsListed ==
    ASSUME NEW n \in Nat, NEW types, DOMAIN types = 1..n, NEW points,
           PointsOfTypes(points, types)
    PROVE  /\ IsSequence(points) /\ Len(points) = n
           /\ \A k \in 1..n : points[k] \in Point(types[k])
<1> DEFINE S == {points[k] : k \in 1..n}
           s == [k \in 1..n |-> points[k]]
<1>1. points = s /\ \A k \in 1..n : points[k] \in Point(types[k])
  BY DEF PointsOfTypes
<1>2. s \in Seq(S) /\ Len(s) = n
  OBVIOUS
<1> HIDE DEF s, S
<1> QED BY <1>1, <1>2 DEF IsSequence

(* Two lists, one after the other. *)
LEMMA Joint ==
    ASSUME NEW a, NEW b, IsSequence(a), IsSequence(b)
    PROVE  LET w == a \o b IN
           /\ IsSequence(w) /\ Len(a) \in Nat /\ Len(b) \in Nat
           /\ Len(w) = Len(a) + Len(b)
           /\ \A i \in 1..Len(a) : w[i] = a[i]
           /\ \A i \in 1..Len(b) : w[Len(a) + i] = b[i]
           /\ SubSeq(w, 1, Len(a)) = a /\ SubSeq(w, Len(a) + 1, Len(w)) = b
<1>1. PICK S, T : a \in Seq(S) /\ b \in Seq(T)
  BY DEF IsSequence
<1> DEFINE U == S \cup T
<1>2. a \in Seq(U) /\ b \in Seq(U) /\ Len(a) \in Nat /\ Len(b) \in Nat
  BY <1>1
<1> HIDE DEF U
<1> QED BY <1>2, Concatenated, Divided DEF IsSequence

(* The same, as a relation of lists and their lengths. *)
Joins(w, a, b, m, n) ==
    /\ IsSequence(w) /\ Len(w) = m + n
    /\ \A k \in 1..m : w[k] = a[k]
    /\ \A k \in 1..n : w[m + k] = b[k]
    /\ SubSeq(w, 1, m) = a /\ SubSeq(w, m + 1, Len(w)) = b

LEMMA JointJoins ==
    ASSUME NEW a, NEW b, IsSequence(a), IsSequence(b)
    PROVE  Joins(a \o b, a, b, Len(a), Len(b))
BY Joint DEF Joins

(* What gnark writes first, and how it goes on. *)
LEMMA KeyListed ==
    ASSUME NEW a, IsArtifact(a), a.kind = "key"
    PROVE  LET rd == ReadsOf(a)
               ct == CountsOf(a)
           IN  /\ IsSequence(rd) /\ IsSequence(ct)
               /\ Len(rd) = 6 + Len(a.ic) /\ Len(a.ic) \in Nat
               /\ \A k \in 1..Len(rd) :
                    rd[k] \in Point(IF k <= 6 THEN KeyPoints[k] ELSE "G1")
               /\ \A k \in 1..6 : rd[k] = a.points[k]
               /\ SubSeq(rd, 7, Len(rd)) = a.ic
               /\ Len(ct) >= 3 /\ ct[1] = Len(a.ic) /\ ct[2] = a.commitments
               /\ a.commitments = 0 => Len(ct) = 3 /\ ct[3] = 0
               /\ a.commitments # 0 => ct[3] = 1
               /\ \A k \in 1..Len(ct) : ct[k] \in Byte
               /\ TokensOf(a) = TokenList("key", rd, ct)
<1> DEFINE points == a.points
           ic == a.ic
           c == a.commitments
           rd == points \o ic
           head == <<Len(ic), c>>
           body == [k \in 1..2 * c |-> 1]
           tail == <<c>>
           front == head \o body
           ct == front \o tail
<1>1. /\ PointsOfTypes(points, KeyPoints) /\ ic \in Seq(Point("G1"))
      /\ Len(ic) \in Byte /\ c \in Byte
  BY DEF IsArtifact, Byte
<1>2. ReadsOf(a) = rd /\ CountsOf(a) = ct
  BY DEF ReadsOf, CountsOf
<1>3. DOMAIN KeyPoints = 1..6 /\ 6 \in Nat
  BY DEF KeyPoints
<1> HIDE DEF points, ic, c
<1>4. /\ IsSequence(points) /\ Len(points) = 6
      /\ \A k \in 1..6 : points[k] \in Point(KeyPoints[k])
  BY <1>1, <1>3, PointsListed
<1>5. /\ IsSequence(ic) /\ Len(ic) \in Nat
      /\ \A k \in 1..Len(ic) : ic[k] \in Point("G1")
  BY <1>1 DEF IsSequence
<1>6. /\ IsSequence(rd) /\ Len(rd) = 6 + Len(ic)
      /\ \A k \in 1..6 : rd[k] = points[k]
      /\ \A k \in 1..Len(ic) : rd[6 + k] = ic[k]
      /\ SubSeq(rd, 1, 6) = points /\ SubSeq(rd, 6 + 1, Len(rd)) = ic
  <2> DEFINE six == 6
             m == Len(ic)
  <2>1. Len(points) = six /\ Len(ic) = m /\ six \in Nat /\ m \in Nat
    BY <1>4
  <2> HIDE DEF six, m
  <2>2. /\ IsSequence(rd) /\ Len(rd) = six + m
        /\ \A k \in 1..six : rd[k] = points[k]
        /\ \A k \in 1..m : rd[six + k] = ic[k]
        /\ SubSeq(rd, 1, six) = points /\ SubSeq(rd, six + 1, Len(rd)) = ic
    <3>1. Joins(rd, points, ic, Len(points), Len(ic))
      BY <1>4, <1>5, JointJoins
    <3> HIDE DEF rd
    <3>2. Joins(rd, points, ic, six, m)
      BY <2>1, <3>1
    <3> QED BY <3>2 DEF Joins
  <2> QED BY <2>2 DEF six, m
<1> HIDE DEF rd
<1>7. \A k \in 1..Len(rd) : rd[k] \in Point(IF k <= 6 THEN KeyPoints[k] ELSE "G1")
  <2> SUFFICES ASSUME NEW k \in 1..Len(rd)
               PROVE  rd[k] \in Point(IF k <= 6 THEN KeyPoints[k] ELSE "G1")
    OBVIOUS
  <2>1. CASE k <= 6
    <3>1. k \in 1..6
      BY <1>5, <1>6, <2>1
    <3> QED BY <1>4, <1>6, <2>1, <3>1
  <2>2. CASE ~(k <= 6)
    <3>1. k - 6 \in 1..Len(ic) /\ 6 + (k - 6) = k
      BY <1>5, <1>6, <2>2
    <3>2. rd[k] = ic[k - 6]
      BY <1>6, <3>1
    <3> QED BY <1>5, <2>2, <3>1, <3>2
  <2> QED BY <2>1, <2>2
<1>8. c \in Nat /\ 1 \in Byte /\ 2 * c \in Nat
  BY <1>1, WireAssumption DEF Byte
<1>9. /\ head \in Seq(Byte) /\ Len(head) = 2 /\ head[1] = Len(ic) /\ head[2] = c
      /\ body \in Seq(Byte) /\ Len(body) = 2 * c /\ \A k \in 1..2 * c : body[k] = 1
      /\ tail \in Seq(Byte) /\ Len(tail) = 1 /\ tail[1] = c
  BY <1>1, <1>8
<1> HIDE DEF head, body, tail
<1>10. /\ front \in Seq(Byte) /\ Len(front) = 2 + 2 * c
       /\ \A i \in 1..2 : front[i] = head[i]
       /\ \A i \in 1..2 * c : front[2 + i] = body[i]
  <2>1. IsSequence(head) /\ IsSequence(body) /\ head \o body \in Seq(Byte)
    BY <1>9, Concatenated DEF IsSequence
  <2> DEFINE two == 2
             more == 2 * c
  <2>2. Len(head) = two /\ Len(body) = more
    BY <1>9
  <2> HIDE DEF two, more
  <2>3. /\ Len(head \o body) = two + more
        /\ \A i \in 1..two : (head \o body)[i] = head[i]
        /\ \A i \in 1..more : (head \o body)[two + i] = body[i]
    BY <2>1, <2>2, Joint
  <2> QED BY <2>1, <2>3 DEF two, more
<1> HIDE DEF front
<1>11. /\ ct \in Seq(Byte) /\ Len(ct) = (2 + 2 * c) + 1
       /\ \A i \in 1..2 + 2 * c : ct[i] = front[i]
       /\ ct[(2 + 2 * c) + 1] = tail[1]
  <2>1. IsSequence(front) /\ IsSequence(tail) /\ front \o tail \in Seq(Byte) 
    BY <1>9, <1>10, Concatenated DEF IsSequence
  <2> DEFINE m == 2 + 2 * c
             one == 1
  <2>2. Len(front) = m /\ Len(tail) = one /\ one \in 1..one
    BY <1>9, <1>10
  <2> HIDE DEF m, one
  <2>3. /\ Len(front \o tail) = m + one
        /\ \A i \in 1..m : (front \o tail)[i] = front[i]
        /\ (front \o tail)[m + one] = tail[one]
    BY <2>1, <2>2, Joint, ZenonT(60)
  <2> QED BY <2>1, <2>3 DEF m, one
<1> HIDE DEF ct
<1>12. Len(ct) >= 3 /\ ct[1] = Len(ic) /\ ct[2] = c
  <2>1. 1 \in 1..2 + 2 * c /\ 2 \in 1..2 + 2 * c /\ 1 \in 1..2 /\ 2 \in 1..2
    BY <1>8
  <2> QED BY <1>8, <1>9, <1>10, <1>11, <2>1
<1>13. c = 0 => Len(ct) = 3 /\ ct[3] = 0
  BY <1>9, <1>11
<1>14. c # 0 => ct[3] = 1
  <2> SUFFICES ASSUME c # 0 PROVE ct[3] = 1
    OBVIOUS
  <2>1. 3 \in 1..2 + 2 * c /\ 1 \in 1..2 * c /\ 2 + 1 = 3
    BY <1>8
  <2> QED BY <1>9, <1>10, <1>11, <2>1
<1>15. IsSequence(ct) /\ \A k \in 1..Len(ct) : ct[k] \in Byte
  BY <1>11 DEF IsSequence
<1>16. TokensOf(a) = TokenList("key", rd, ct)
  <2>1. TokensOf(a) = KeyTokens(points, ic, ct)
    BY DEF TokensOf, ct, front, head, body, tail, points, ic, c
  <2>2. Len(rd) >= 6 /\ Len(ct) >= 1 /\ 6 + 1 = 7
    BY <1>5, <1>6, <1>12
  <2>3. KeyTokens(SubSeq(rd, 1, 6), SubSeq(rd, 7, Len(rd)), ct) = TokenList("key", rd, ct)
    BY <1>6, <1>15, <2>2, KeyTokensRead
  <2> QED BY <1>6, <2>1, <2>2, <2>3
<1> QED BY <1>2, <1>5, <1>6, <1>7, <1>12, <1>13, <1>14, <1>15, <1>16 DEF points, ic, c

(* The same lists of a proof ... *)
LEMMA ProofListed ==
    ASSUME NEW a, IsArtifact(a), a.kind = "proof"
    PROVE  LET rd == ReadsOf(a)
               ct == CountsOf(a)
           IN  /\ IsSequence(rd) /\ IsSequence(ct) /\ Len(rd) = 4 /\ Len(ct) = 1
               /\ \A k \in 1..4 :
                    rd[k] \in Point(IF k <= 3 THEN ProofPoints[k] ELSE "G1")
               /\ \A k \in 1..3 : rd[k] = a.points[k]
               /\ ct[1] = a.commitments /\ ct[1] \in Byte
               /\ TokensOf(a) = TokenList("proof", rd, ct)
<1> DEFINE points == a.points
           c == a.commitments
           last == <<Identity>>
           rd == points \o last
           ct == <<c>>
<1>1. PointsOfTypes(points, ProofPoints) /\ c \in Byte
  BY DEF IsArtifact, Byte
<1>2. ReadsOf(a) = rd /\ CountsOf(a) = ct
  BY DEF ReadsOf, CountsOf
<1>3. DOMAIN ProofPoints = 1..3 /\ 3 \in Nat
  BY DEF ProofPoints
<1>4. TokensOf(a) = ProofTokens(points, c, Identity)
  BY DEF TokensOf
<1> HIDE DEF points, c
<1>5. /\ IsSequence(points) /\ Len(points) = 3
      /\ \A k \in 1..3 : points[k] \in Point(ProofPoints[k])
  BY <1>1, <1>3, PointsListed
<1>6. last \in Seq({Identity}) /\ Len(last) = 1 /\ last[1] = Identity /\ 1 \in 1..1
  OBVIOUS
<1>7. IsSequence(last)
  BY <1>6 DEF IsSequence
<1> HIDE DEF last
<1>8. /\ IsSequence(rd) /\ Len(rd) = 4
      /\ \A k \in 1..3 : rd[k] = points[k]
      /\ rd[3 + 1] = Identity /\ SubSeq(rd, 1, 3) = points
  <2> DEFINE three == 3
             one == 1
  <2>1. Len(points) = three /\ Len(last) = one /\ last[one] = Identity /\ one \in 1..one
    BY <1>5, <1>6
  <2>2. three + one = 4
    OBVIOUS
  <2> HIDE DEF three, one
  <2>3. /\ IsSequence(rd) /\ Len(rd) = three + one
        /\ \A k \in 1..three : rd[k] = points[k]
        /\ rd[three + one] = Identity /\ SubSeq(rd, 1, three) = points
    BY <1>5, <1>7, <2>1, Joint
  <2> QED BY <2>2, <2>3 DEF three, one
<1>9. Identity \in Point("G1") /\ 3 + 1 = 4
  BY DEF Point
<1> HIDE DEF rd
<1>10. \A k \in 1..4 : rd[k] \in Point(IF k <= 3 THEN ProofPoints[k] ELSE "G1")
  <2> SUFFICES ASSUME NEW k \in 1..4
               PROVE  rd[k] \in Point(IF k <= 3 THEN ProofPoints[k] ELSE "G1")
    OBVIOUS
  <2>1. CASE k <= 3
    <3>1. k \in 1..3
      BY <2>1
    <3> QED BY <1>5, <1>8, <2>1, <3>1
  <2>2. CASE ~(k <= 3)
    <3>1. k = 4
      BY <2>2
    <3> QED BY <1>8, <1>9, <2>2, <3>1
  <2> QED BY <2>1, <2>2
<1>11. ct \in Seq(Byte) /\ Len(ct) = 1 /\ ct[1] = c
  BY <1>1
<1>12. IsSequence(ct)
  BY <1>11 DEF IsSequence
<1> HIDE DEF ct
<1>13. TokensOf(a) = TokenList("proof", rd, ct)
  <2>1. ProofTokens(SubSeq(rd, 1, 3), ct[1], rd[4]) = TokenList("proof", rd, ct)
    BY <1>8, <1>11, <1>12, ProofTokensRead
  <2> QED BY <1>4, <1>8, <1>9, <1>11, <2>1
<1> QED BY <1>1, <1>2, <1>8, <1>10, <1>11, <1>12, <1>13 DEF points, c

(* ... and of a witness. *)
LEMMA WitnessListed ==
    ASSUME NEW a, IsArtifact(a), a.kind = "witness"
    PROVE  LET rd == ReadsOf(a)
               ct == CountsOf(a)
           IN  /\ IsSequence(rd) /\ IsSequence(ct) /\ rd = a.scalars /\ Len(ct) = 3
               /\ Len(rd) \in Nat /\ \A k \in 1..Len(rd) : rd[k] \in 0..R_MODULUS - 1
               /\ ct[1] = Len(rd) /\ ct[2] = a.secrets /\ ct[3] = Len(rd) + a.secrets
               /\ a.secrets \in Nat /\ \A k \in 1..3 : ct[k] \in Byte
               /\ TokensOf(a) = TokenList("witness", rd, ct)
<1> DEFINE rd == a.scalars
           s == a.secrets
           ct == <<Len(rd), s, Len(rd) + s>>
<1>1. rd \in Seq(0..R_MODULUS - 1) /\ s \in Nat /\ Len(rd) + s \in Byte
  BY DEF IsArtifact, Byte
<1>2. ReadsOf(a) = rd /\ CountsOf(a) = ct /\ TokensOf(a) = WitnessTokens(ct, rd)
  BY DEF ReadsOf, CountsOf, TokensOf
<1> HIDE DEF rd, s
<1>3. Len(rd) \in Nat /\ \A k \in 1..Len(rd) : rd[k] \in 0..R_MODULUS - 1
  <2> DEFINE S == 0..R_MODULUS - 1
  <2>1. rd \in Seq(S)
    BY <1>1
  <2> HIDE DEF S
  <2>2. Len(rd) \in Nat /\ \A k \in 1..Len(rd) : rd[k] \in S
    BY <2>1
  <2> QED BY <2>2 DEF S
<1>4. Len(rd) \in Byte /\ s \in Byte
  BY <1>1, <1>3, WireFacts DEF Byte
<1>5. /\ ct \in Seq(Byte) /\ Len(ct) = 3
      /\ ct[1] = Len(rd) /\ ct[2] = s /\ ct[3] = Len(rd) + s
  BY <1>1, <1>4
<1> HIDE DEF ct
<1>6. IsSequence(rd) /\ IsSequence(ct) /\ \A k \in 1..3 : ct[k] \in Byte
  <2>1. IsSequence(rd)
    BY <1>1 DEF IsSequence
  <2>2. IsSequence(ct)
    BY <1>5 DEF IsSequence
  <2>3. ct[1] \in Byte /\ ct[2] \in Byte /\ ct[3] \in Byte
    <3>1. \A T : \A t \in Seq(T) : \A k \in 1..Len(t) : t[k] \in T
      OBVIOUS
    <3>2. 1 \in 1..Len(ct) /\ 2 \in 1..Len(ct) /\ 3 \in 1..Len(ct)
      BY <1>5
    <3> HIDE DEF Byte
    <3> QED BY <1>5, <3>1, <3>2, Zenon
  <2>4. \A k \in 1..3 : k \in {1, 2, 3}
    OBVIOUS
  <2> QED BY <2>1, <2>2, <2>3, <2>4
<1>7. WitnessTokens(ct, rd) = TokenList("witness", rd, ct)
  BY <1>6, WitnessTokensRead
<1> QED BY <1>1, <1>2, <1>3, <1>5, <1>6, <1>7 DEF rd, s

-----------------------------------------------------------------------------
(* The tokens that gnark writes. *)
GoodToken(t) ==
    \/ \E g \in Group : \E p \in Point(g) : t = <<g, p>>
    \/ \E v \in Byte : t = <<"u32", v>>
    \/ \E s \in 0..R_MODULUS - 1 : t = <<"Fr", s>>

(* A token is written in cells, a point or a scalar in two or more. *)
LEMMA TokenWritten ==
    ASSUME NEW t, GoodToken(t), NEW b \in BOOLEAN
    PROVE  /\ WriteToken(t, b) \in Seq(Byte)
           /\ t[1] # "u32" => Len(WriteToken(t, b)) >= 2
           /\ t[1] = "u32" => WriteToken(t, b) = <<t[2]>> /\ t[2] \in Byte
<1>1. CASE \E g \in Group : \E p \in Point(g) : t = <<g, p>>
  <2>1. PICK g \in Group : \E p \in Point(g) : t = <<g, p>>
    BY <1>1
  <2>2. PICK p \in Point(g) : t = <<g, p>>
    BY <2>1
  <2>3. WriteToken(<<g, p>>, b) \in Seq(Byte) /\ Len(WriteToken(<<g, p>>, b)) >= 2
    BY PointWritten
  <2>4. t[1] = g /\ g # "u32"
    BY <2>2 DEF Group
  <2> QED BY <2>2, <2>3, <2>4
<1>2. CASE \E v \in Byte : t = <<"u32", v>>
  <2>1. PICK v \in Byte : t = <<"u32", v>>
    BY <1>2
  <2>2. t[1] = "u32" /\ t[2] = v /\ WriteToken(t, b) = <<t[2]>>
    <3>1. \A w : WriteToken(<<"u32", w>>, b) = <<w>>
      BY DEF WriteToken, Group
    <3> QED BY <2>1, <3>1
  <2>3. <<v>> \in Seq(Byte)
    OBVIOUS
  <2> QED BY <2>2, <2>3
<1>3. CASE \E s \in 0..R_MODULUS - 1 : t = <<"Fr", s>>
  <2>1. PICK s \in 0..R_MODULUS - 1 : t = <<"Fr", s>>
    BY <1>3
  <2>2. t[1] = "Fr" /\ t[2] = s /\ WriteToken(t, b) = fr_to_bytes(t[2])
    <3>1. \A w : WriteToken(<<"Fr", w>>, b) = fr_to_bytes(w)
      BY DEF WriteToken, Group
    <3> QED BY <2>1, <3>1
  <2>3. fr_to_bytes(s) \in Seq(Byte) /\ Len(fr_to_bytes(s)) = 2
    BY ScalarWritten
  <2> QED BY <2>2, <2>3
<1> QED BY <1>1, <1>2, <1>3 DEF GoodToken

(* How many tokens an artifact has. *)
SizeOfArtifact(a) == Len(ReadsOf(a)) + Len(CountsOf(a))

(* All tokens of an artifact are of that kind. *)
LEMMA KeyTokensGood ==
    ASSUME NEW a, IsArtifact(a), a.kind = "key"
    PROVE  \A k \in 1..SizeOfArtifact(a) :
             GoodToken(TokenAt("key", ReadsOf(a), CountsOf(a), k))
<1> DEFINE rd == ReadsOf(a)
           ct == CountsOf(a)
           m == Len(rd)
           c == Len(ct)
<1>1. /\ m \in Nat /\ m >= 6 /\ c \in Nat /\ c >= 3
      /\ \A k \in 1..m : rd[k] \in Point(IF k <= 6 THEN KeyPoints[k] ELSE "G1")
      /\ \A k \in 1..c : ct[k] \in Byte
  <2>1. /\ IsSequence(ct) /\ m = 6 + Len(a.ic) /\ Len(a.ic) \in Nat /\ c >= 3
        /\ \A k \in 1..m : rd[k] \in Point(IF k <= 6 THEN KeyPoints[k] ELSE "G1")
        /\ \A k \in 1..c : ct[k] \in Byte
    BY KeyListed
  <2>2. c \in Nat
    BY <2>1, AppendGrows
  <2> QED BY <2>1, <2>2
<1>2. \A k \in 1..6 : KeyPoints[k] \in Group
  BY DEF KeyPoints, Group
<1> SUFFICES ASSUME NEW k \in 1..m + c
             PROVE  GoodToken(KeyToken(rd, ct, k))
  BY DEF SizeOfArtifact, TokenAt
<1> HIDE DEF rd, ct, m, c
<1>3. CASE k <= 6
  <2>1. k \in 1..6 /\ k \in 1..m
    BY <1>1, <1>3
  <2>2. KeyPoints[k] \in Group /\ rd[k] \in Point(KeyPoints[k])
    BY <1>1, <1>2, <1>3, <2>1
  <2>3. KeyToken(rd, ct, k) = <<KeyPoints[k], rd[k]>>
    BY <1>3 DEF KeyToken
  <2> QED BY <2>2, <2>3 DEF GoodToken
<1>4. CASE k = 7
  <2>1. KeyToken(rd, ct, k) = <<"u32", ct[1]>> /\ 1 \in 1..c
    BY <1>1, <1>4 DEF KeyToken
  <2> QED BY <1>1, <2>1 DEF GoodToken
<1>5. CASE k > 7 /\ k <= m + 1
  <2>1. k - 1 \in 1..m /\ ~(k - 1 <= 6)
    BY <1>1, <1>5
  <2>2. rd[k - 1] \in Point("G1") /\ "G1" \in Group
    BY <1>1, <2>1 DEF Group
  <2>3. KeyToken(rd, ct, k) = <<"G1", rd[k - 1]>>
    BY <1>1, <1>5 DEF KeyToken, m
  <2> QED BY <2>2, <2>3 DEF GoodToken
<1>6. CASE k > m + 1
  <2>1. k - m \in 1..c
    BY <1>1, <1>6
  <2>2. KeyToken(rd, ct, k) = <<"u32", ct[k - m]>>
    BY <1>1, <1>6 DEF KeyToken, m
  <2> QED BY <1>1, <2>1, <2>2 DEF GoodToken
<1> QED BY <1>1, <1>3, <1>4, <1>5, <1>6

(* So are those of a proof ... *)
LEMMA ProofTokensGood ==
    ASSUME NEW a, IsArtifact(a), a.kind = "proof"
    PROVE  \A k \in 1..SizeOfArtifact(a) :
             GoodToken(TokenAt("proof", ReadsOf(a), CountsOf(a), k))
<1> DEFINE rd == ReadsOf(a)
           ct == CountsOf(a)
<1>1. /\ Len(rd) = 4 /\ Len(ct) = 1 /\ ct[1] \in Byte
      /\ \A k \in 1..4 : rd[k] \in Point(IF k <= 3 THEN ProofPoints[k] ELSE "G1")
  BY ProofListed
<1>2. \A k \in 1..3 : ProofPoints[k] \in Group
  BY DEF ProofPoints, Group
<1>3. SizeOfArtifact(a) = 5
  BY <1>1 DEF SizeOfArtifact
<1> SUFFICES ASSUME NEW k \in 1..5
             PROVE  GoodToken(ProofToken(rd, ct, k))
  BY <1>3 DEF TokenAt
<1> HIDE DEF rd, ct
<1>4. CASE k <= 3
  <2>1. k \in 1..3 /\ k \in 1..4
    BY <1>4
  <2>2. ProofPoints[k] \in Group /\ rd[k] \in Point(ProofPoints[k])
    BY <1>1, <1>2, <1>4, <2>1
  <2>3. ProofToken(rd, ct, k) = <<ProofPoints[k], rd[k]>>
    BY <1>4 DEF ProofToken
  <2> QED BY <2>2, <2>3 DEF GoodToken
<1>5. CASE k = 4
  BY <1>1, <1>5 DEF ProofToken, GoodToken
<1>6. CASE k = 5
  <2>1. ProofToken(rd, ct, k) = <<"G1", rd[4]>>
    BY <1>6 DEF ProofToken
  <2>2. rd[4] \in Point("G1") /\ "G1" \in Group
    BY <1>1 DEF Group
  <2> QED BY <2>1, <2>2 DEF GoodToken
<1> QED BY <1>4, <1>5, <1>6

(* ... and of a witness. *)
LEMMA WitnessTokensGood ==
    ASSUME NEW a, IsArtifact(a), a.kind = "witness"
    PROVE  \A k \in 1..SizeOfArtifact(a) :
             GoodToken(TokenAt("witness", ReadsOf(a), CountsOf(a), k))
<1> DEFINE rd == ReadsOf(a)
           ct == CountsOf(a)
           m == Len(rd)
<1>1. /\ m \in Nat /\ Len(ct) = 3 /\ \A k \in 1..3 : ct[k] \in Byte
      /\ \A k \in 1..m : rd[k] \in 0..R_MODULUS - 1
  BY WitnessListed
<1> SUFFICES ASSUME NEW k \in 1..m + 3
             PROVE  GoodToken(WitnessToken(rd, ct, k))
  <2>1. SizeOfArtifact(a) = m + 3
    BY <1>1 DEF SizeOfArtifact
  <2> QED BY <2>1 DEF TokenAt
<1> HIDE DEF rd, ct, m
<1>2. CASE k <= 3
  <2>1. k \in 1..3 /\ WitnessToken(rd, ct, k) = <<"u32", ct[k]>>
    BY <1>1, <1>2 DEF WitnessToken
  <2> QED BY <1>1, <2>1 DEF GoodToken
<1>3. CASE k > 3
  <2>1. k - 3 \in 1..m /\ WitnessToken(rd, ct, k) = <<"Fr", rd[k - 3]>>
    BY <1>1, <1>3 DEF WitnessToken
  <2> QED BY <1>1, <2>1 DEF GoodToken
<1> QED BY <1>2, <1>3

(* The tokens of an artifact in order, and the cells that each is written in. *)
LEMMA ArtifactPieces ==
    ASSUME NEW a, IsArtifact(a), NEW raw
    PROVE  LET n == SizeOfArtifact(a)
               t(k) == TokenAt(a.kind, ReadsOf(a), CountsOf(a), k)
               ss == Pieces(TokensOf(a), raw)
           IN  /\ n \in Nat /\ \A k \in 1..n : GoodToken(t(k))
               /\ ss \in Seq(Seq(Byte)) /\ Len(ss) = n
               /\ \A k \in 1..n : ss[k] = WriteToken(t(k), k \in raw)
               /\ Write(TokensOf(a), raw) = FlattenSeq(ss)
<1> DEFINE n == SizeOfArtifact(a)
           t(k) == TokenAt(a.kind, ReadsOf(a), CountsOf(a), k)
           T == TokensOf(a)
           ss == Pieces(T, raw)
           list == TokenList(a.kind, ReadsOf(a), CountsOf(a))
<1>1. a.kind \in {"key", "proof", "witness"}
  BY DEF IsArtifact
<1>2. n \in Nat /\ T = list
  <2>1. CASE a.kind = "key"
    <3>1. IsSequence(ReadsOf(a)) /\ IsSequence(CountsOf(a)) /\ T = list
      BY <2>1, KeyListed
    <3> QED BY <3>1, AppendGrows DEF SizeOfArtifact
  <2>2. CASE a.kind = "proof"
    <3>1. Len(ReadsOf(a)) = 4 /\ Len(CountsOf(a)) = 1 /\ T = list
      BY <2>2, ProofListed
    <3> QED BY <3>1 DEF SizeOfArtifact
  <2>3. CASE a.kind = "witness"
    <3>1. Len(ReadsOf(a)) \in Nat /\ Len(CountsOf(a)) = 3 /\ T = list
      BY <2>3, WitnessListed
    <3> QED BY <3>1 DEF SizeOfArtifact
  <2> QED BY <1>1, <2>1, <2>2, <2>3
<1>3. \A k \in 1..n : GoodToken(t(k))
  BY <1>1, KeyTokensGood, ProofTokensGood, WitnessTokensGood
<1>4. Write(T, raw) = FlattenSeq(ss)
  BY DEF Write, Pieces
<1>5. DOMAIN T = 1..n /\ \A k \in 1..n : T[k] = t(k)
  BY <1>2 DEF TokenList, TokenCount, SizeOfArtifact
<1> HIDE DEF n, t, T, list
<1> DEFINE W(k) == WriteToken(t(k), k \in raw)
           S == Seq(Byte)
           s == [k \in 1..n |-> W(k)]
<1>6. ss = s
  BY <1>5 DEF Pieces
<1>7. \A k \in 1..n : W(k) \in S
  <2> SUFFICES ASSUME NEW k \in 1..n PROVE W(k) \in S
    OBVIOUS
  <2> DEFINE b == k \in raw
  <2>1. GoodToken(t(k)) /\ b \in BOOLEAN
    BY <1>3
  <2> HIDE DEF b
  <2>2. WriteToken(t(k), b) \in Seq(Byte)
    BY <2>1, TokenWritten
  <2> QED BY <2>2 DEF b
<1> HIDE DEF W, S
<1>8. s \in Seq(S) /\ Len(s) = n /\ \A k \in 1..n : s[k] = W(k)
  BY <1>2, <1>7
<1> HIDE DEF s, ss
<1> QED BY <1>2, <1>3, <1>4, <1>6, <1>8 DEF n, t, T, ss, W, S

-----------------------------------------------------------------------------
(* The file that is parsed, when nothing in it was changed: the elements and counts
   of its artifact, its tokens and their cells, and where these end. *)
Tracked == file.kind # "body" /\ file.damage \in {"none", "cut", "tail"}

AllReads == ReadsOf(file.artifact)
AllCounts == CountsOf(file.artifact)
Total == SizeOfArtifact(file.artifact)
TokenNo(k) == TokenAt(file.kind, AllReads, AllCounts, k)
Cells == Pieces(TokensOf(file.artifact), file.raw)
Offset(m) == Len(Upto(Cells, m))

(* A read that failed because the file was cut. *)
EndsEarly(r) == r.outcome = "UnexpectedEof" /\ file.damage = "cut"

(* The file is the cells of its tokens, one after another. *)
LEMMA FileLaid ==
    ASSUME BoundInv, Tracked
    PROVE  /\ file.kind = file.artifact.kind /\ IsArtifact(file.artifact)
           /\ Total \in Nat /\ Cells \in Seq(Seq(Byte)) /\ Len(Cells) = Total
           /\ \A k \in 1..Total : GoodToken(TokenNo(k))
           /\ \A k \in 1..Total : Cells[k] = WriteToken(TokenNo(k), k \in file.raw)
           /\ Offset(0) = 0 /\ \A m \in 0..Total : Offset(m) \in Nat
           /\ Undamaged(file) = FlattenSeq(Cells)
<1> DEFINE a == file.artifact
           raw == file.raw
<1>1. file \in File /\ file.kind # "body"
  BY DEF BoundInv, Tracked
<1>2. IsArtifact(a) /\ file.kind = a.kind
  BY <1>1, HistoryAssumption
<1>3. Undamaged(file) = Write(TokensOf(a), raw)
  BY <1>1 DEF Undamaged
<1>4. /\ SizeOfArtifact(a) \in Nat
      /\ \A k \in 1..SizeOfArtifact(a) :
           GoodToken(TokenAt(a.kind, ReadsOf(a), CountsOf(a), k))
      /\ Pieces(TokensOf(a), raw) \in Seq(Seq(Byte))
      /\ Len(Pieces(TokensOf(a), raw)) = SizeOfArtifact(a)
      /\ \A k \in 1..SizeOfArtifact(a) :
           Pieces(TokensOf(a), raw)[k]
             = WriteToken(TokenAt(a.kind, ReadsOf(a), CountsOf(a), k), k \in raw)
      /\ Write(TokensOf(a), raw) = FlattenSeq(Pieces(TokensOf(a), raw))
  <2> HIDE DEF a, raw
  <2> QED BY <1>2, ArtifactPieces
<1>5. /\ Total \in Nat /\ Cells \in Seq(Seq(Byte)) /\ Len(Cells) = Total
      /\ \A k \in 1..Total : GoodToken(TokenNo(k))
      /\ \A k \in 1..Total : Cells[k] = WriteToken(TokenNo(k), k \in file.raw)
      /\ Undamaged(file) = FlattenSeq(Cells)
  BY <1>2, <1>3, <1>4 DEF Total, Cells, TokenNo, AllReads, AllCounts
<1>6. Upto(Cells, 0) = <<>> /\ \A m \in 0..Len(Cells) : Upto(Cells, m) \in Seq(Byte)
  BY <1>5, UptoTyped
<1>7. Offset(0) = 0
  BY <1>6 DEF Offset
<1>8. \A m \in 0..Total : Offset(m) \in Nat
  BY <1>5, <1>6 DEF Offset
<1> QED BY <1>2, <1>5, <1>7, <1>8

(* A sequence that goes on where another one ends. *)
LEMMA StrictPrefix ==
    ASSUME NEW S, NEW w \in Seq(S), NEW v \in Seq(S), IsStrictPrefix(w, v)
    PROVE  /\ Len(w) < Len(v) /\ w = SubSeq(v, 1, Len(w))
           /\ \A i \in 1..Len(w) : v[i] = w[i]
<1>1. /\ Len(w) \in Nat /\ Len(v) \in Nat /\ Len(w) <= Len(v) /\ w # v
      /\ SubSeq(w, 1, Len(w)) = SubSeq(v, 1, Len(w))
  BY DEF IsStrictPrefix, IsPrefix
<1>2. SubSeq(w, 1, Len(w)) = w /\ SubSeq(v, 1, Len(v)) = v
  <2>1. ASSUME NEW t \in Seq(S)
        PROVE  SubSeq(t, 1, Len(t)) = t
    <3> DEFINE r == SubSeq(t, 1, Len(t))
    <3>1. r \in Seq(S) /\ Len(r) = Len(t) /\ Len(t) \in Nat
      OBVIOUS
    <3>2. \A i \in 1..Len(t) : r[i] = t[i]
      OBVIOUS
    <3> HIDE DEF r
    <3>3. r = t
      BY <3>1, <3>2, SeqEqual
    <3> QED BY <3>3 DEF r
  <2> QED BY <2>1
<1>3. w = SubSeq(v, 1, Len(w)) /\ Len(w) # Len(v)
  BY <1>1, <1>2, Zenon
<1>4. \A i \in 1..Len(w) : SubSeq(v, 1, Len(w))[i] = v[i]
  BY <1>1
<1> QED BY <1>1, <1>3, <1>4

(* What is left of what gnark wrote. *)
LEMMA FileKept ==
    ASSUME BoundInv, Tracked, NEW w, w = FlattenSeq(Cells)
    PROVE  /\ w \in Seq(Byte) /\ Len(w) = Offset(Total) /\ Len(w) \in Nat
           /\ file.damage = "none" => Len(file.bytes) = Len(w)
           /\ file.damage = "cut" => Len(file.bytes) < Len(w)
           /\ file.damage = "tail" => Len(file.bytes) > Len(w)
           /\ \A i \in 1..Len(w) : i <= Len(file.bytes) => file.bytes[i] = w[i]
<1>1. file \in File /\ Undamaged(file) = w
  BY FileLaid DEF BoundInv
<1>2. w \in Seq(Byte) /\ Len(w) = Offset(Total)
  <2>1. Cells \in Seq(Seq(Byte)) /\ Len(Cells) = Total /\ Total \in Nat
    BY FileLaid
  <2>2. Upto(Cells, Len(Cells)) = w /\ Len(Cells) \in 0..Len(Cells)
    BY <2>1, UptoTyped
  <2>3. Upto(Cells, Len(Cells)) \in Seq(Byte)
    BY <2>1, <2>2, UptoTyped
  <2> QED BY <2>1, <2>2, <2>3 DEF Offset
<1> DEFINE e == Len(w)
<1>3. e \in Nat
  BY <1>2
<1> DEFINE Kept == \A i \in 1..Len(w) : i <= Len(file.bytes) => file.bytes[i] = w[i]
<1>4. file.damage = "none" => Len(file.bytes) = Len(w) /\ Kept
  <2> SUFFICES ASSUME file.damage = "none" PROVE file.bytes = w
    OBVIOUS
  <2> QED BY <1>1, HistoryAssumption
<1>5. file.damage = "cut" => Len(file.bytes) < Len(w) /\ Kept
  <2> SUFFICES ASSUME file.damage = "cut" PROVE Len(file.bytes) < Len(w) /\ Kept
    OBVIOUS
  <2>1. PICK k \in 0..e - 1 : file.bytes = SubSeq(w, 1, k)
    BY <1>1, HistoryAssumption
  <2>2. k \in Nat /\ k <= e
    BY <1>3, <2>1
  <2>3. /\ Len(SubSeq(w, 1, k)) = k
        /\ \A i \in 1..k : SubSeq(w, 1, k)[i] = w[i]
    BY <1>2, <2>2
  <2>4. Len(file.bytes) = k /\ k < Len(w)
    BY <1>3, <2>1, <2>3
  <2>5. Kept
    <3> SUFFICES ASSUME NEW i \in 1..Len(w), i <= Len(file.bytes)
                 PROVE  file.bytes[i] = w[i]
      OBVIOUS
    <3>1. i \in 1..k
      BY <2>2, <2>4
    <3> QED BY <2>1, <2>3, <3>1
  <2> QED BY <2>4, <2>5
<1>6. file.damage = "tail" => Len(file.bytes) > Len(w) /\ Kept
  <2> SUFFICES ASSUME file.damage = "tail" PROVE Len(file.bytes) > Len(w) /\ Kept
    OBVIOUS
  <2>1. IsStrictPrefix(w, file.bytes)
    BY <1>1, HistoryAssumption
  <2>2. file.bytes \in Seq(Byte)
    BY FileTyped DEF Byte
  <2>3. Len(w) < Len(file.bytes) /\ \A i \in 1..Len(w) : file.bytes[i] = w[i]
    BY <1>2, <2>1, <2>2, StrictPrefix
  <2> QED BY <1>3, <2>2, <2>3
<1>7. \A i \in 1..Len(w) : i <= Len(file.bytes) => file.bytes[i] = w[i]
  BY <1>4, <1>5, <1>6 DEF Tracked
<1>8. /\ file.damage = "none" => Len(file.bytes) = Len(w)
      /\ file.damage = "cut" => Len(file.bytes) < Len(w)
      /\ file.damage = "tail" => Len(file.bytes) > Len(w)
  BY <1>4, <1>5, <1>6
<1> QED BY <1>2, <1>3, <1>7, <1>8

(* The cells of the next token are next in the file, unless they were cut off. *)
LEMMA NextCells ==
    ASSUME BoundInv, Tracked, NEW m \in Nat, m < Total, pos = Offset(m),
           NEW part, part = WriteToken(TokenNo(m + 1), (m + 1) \in file.raw)
    PROVE  /\ part \in Seq(Byte) /\ Len(part) \in Nat
           /\ Offset(m + 1) = pos + Len(part)
           /\ Len(part) <= Remaining => Slice(file.bytes, pos, Len(part)) = part
           /\ Remaining >= 1 /\ Len(part) >= 1 => peek = part[1]
           /\ ~(Len(part) <= Remaining) => file.damage = "cut"
<1> DEFINE w == FlattenSeq(Cells)
           bytes == file.bytes
           size == Len(part)
<1>1. /\ Total \in Nat /\ Cells \in Seq(Seq(Byte)) /\ Len(Cells) = Total
      /\ m + 1 \in 1..Total /\ Cells[m + 1] = part
  BY FileLaid
<1>2. /\ w \in Seq(Byte) /\ part \in Seq(Byte) /\ pos \in Nat
      /\ Offset(m + 1) = pos + size /\ pos + size <= Len(w)
      /\ \A j \in 1..size : w[pos + j] = part[j]
  BY <1>1, PartAt, SMTT(30) DEF Offset
<1>3. /\ file.damage = "none" => Len(bytes) = Len(w)
      /\ file.damage = "tail" => Len(bytes) > Len(w)
      /\ \A i \in 1..Len(w) : i <= Len(bytes) => bytes[i] = w[i]
  BY FileKept
<1>4. bytes \in Seq(Byte) /\ Len(bytes) \in Nat /\ Remaining = Len(bytes) - pos
  BY FileTyped DEF Remaining, Byte
<1>5. size \in Nat /\ Len(w) \in Nat
  BY <1>2
<1> HIDE DEF w, bytes, size
<1>6. ~(size <= Remaining) => file.damage = "cut"
  BY <1>2, <1>3, <1>4, <1>5 DEF Tracked
<1>7. \A j \in 1..size : j <= Remaining => bytes[pos + j] = part[j]
  <2> SUFFICES ASSUME NEW j \in 1..size, j <= Remaining PROVE bytes[pos + j] = part[j]
    OBVIOUS
  <2> DEFINE i == pos + j
  <2>1. i \in 1..Len(w) /\ i <= Len(bytes)
    BY <1>2, <1>4, <1>5
  <2>2. w[i] = part[j]
    BY <1>2
  <2> HIDE DEF i
  <2>3. bytes[i] = w[i]
    BY <1>3, <2>1
  <2> QED BY <2>2, <2>3 DEF i
<1>8. Remaining >= 1 /\ size >= 1 => peek = part[1]
  BY <1>4, <1>5, <1>7 DEF peek, bytes
<1>9. size <= Remaining => Slice(bytes, pos, size) = part
  <2> SUFFICES ASSUME size <= Remaining PROVE Slice(bytes, pos, size) = part
    OBVIOUS
  <2> DEFINE s == Slice(bytes, pos, size)
  <2>1. /\ s \in Seq(Byte) /\ Len(s) = size
        /\ \A i \in 1..size : s[i] = bytes[pos + i]
    <3>1. /\ bytes \in Seq(Byte) /\ pos \in Nat /\ size \in Nat
          /\ pos + size <= Len(bytes)
      BY <1>2, <1>4, <1>5
    <3> QED BY ONLY <3>1, SliceCells
  <2> HIDE DEF s
  <2>2. \A i \in 1..size : s[i] = part[i]
    BY <1>4, <1>5, <1>7, <2>1
  <2>3. Len(part) = size
    BY DEF size
  <2>4. s = part
    BY <1>2, <2>1, <2>2, <2>3, SeqEqual
  <2> QED BY <2>4 DEF s
<1> QED BY <1>2, <1>5, <1>6, <1>8, <1>9 DEF size, bytes

(* So the next point is read from them ... *)
LEMMA PointNext ==
    ASSUME BoundInv, Tracked, NEW m \in Nat, m < Total, pos = Offset(m),
           NEW g \in Group, NEW p \in Point(g), TokenNo(m + 1) = <<g, p>>
    PROVE  \/ /\ ReadPoint(g).outcome = Ok /\ ReadPoint(g).value = p
              /\ pos + SizeOf(g) = Offset(m + 1)
           \/ EndsEarly(ReadPoint(g))
<1> DEFINE b == (m + 1) \in file.raw
           part == WriteToken(<<g, p>>, b)
           flag == Flag(part[1])
           size == Len(part)
<1>1. /\ size >= 2 /\ Decoded(g, flag, part) = Done(p)
      /\ size = IF flag = FLAG_UNCOMPRESSED THEN PointSize(g) ELSE PointSize(g) \div 2
  <2>1. b \in BOOLEAN
    OBVIOUS
  <2> HIDE DEF b
  <2> QED BY <2>1, PointWritten
<1>2. /\ size \in Nat /\ Offset(m + 1) = pos + size
      /\ size <= Remaining => Slice(file.bytes, pos, size) = part
      /\ Remaining >= 1 /\ size >= 1 => peek = part[1]
      /\ ~(size <= Remaining) => file.damage = "cut"
  BY NextCells
<1>3. Remaining \in Nat
  BY FileTyped
<1> HIDE DEF part, size
<1>4. CASE Remaining = 0
  <2>1. ReadPoint(g).outcome = "UnexpectedEof"
    BY <1>4 DEF ReadPoint, Fail
  <2> QED BY <1>1, <1>2, <1>4, <2>1 DEF EndsEarly
<1>5. CASE Remaining # 0
  <2>1. peek = part[1]
    BY <1>1, <1>2, <1>3, <1>5
  <2>2. SizeOf(g) = size /\ Flag(peek) = flag
    BY <1>1, <2>1 DEF SizeOf
  <2> HIDE DEF flag
  <2>3. CASE size <= Remaining
    <3>1. take(size) = Done(part)
      <4>1. ~(size > Remaining)
        BY <1>2, <1>3, <2>3
      <4> QED BY <1>2, <2>3, <4>1 DEF take
    <3>2. ReadPoint(g) = Done(p)
      <4>1. Done(part).outcome = Ok /\ Done(part).value = part
        BY DEF Done
      <4> QED BY <1>1, <1>5, <2>2, <3>1, <4>1 DEF ReadPoint
    <3> QED BY <1>2, <2>2, <3>2 DEF Done
  <2>4. CASE ~(size <= Remaining)
    <3>1. take(size) = Fail("UnexpectedEof")
      <4>1. size > Remaining
        BY <1>2, <1>3, <2>4
      <4> QED BY <4>1 DEF take
    <3>2. ReadPoint(g) = Fail("UnexpectedEof")
      <4>1. Fail("UnexpectedEof").outcome # Ok
        BY DEF Fail, Ok
      <4> QED BY <1>5, <2>2, <3>1, <4>1 DEF ReadPoint
    <3> QED BY <1>2, <2>4, <3>2 DEF EndsEarly, Fail
  <2> QED BY <2>3, <2>4
<1> QED BY <1>4, <1>5

(* ... the next count ... *)
LEMMA CountNext ==
    ASSUME BoundInv, Tracked, NEW m \in Nat, m < Total, pos = Offset(m),
           NEW v, TokenNo(m + 1) = <<"u32", v>>
    PROVE  \/ /\ u32.outcome = Ok /\ N = v /\ v \in Byte
              /\ pos + U32_SIZE = Offset(m + 1) /\ U32_SIZE <= Remaining
           \/ EndsEarly(u32)
<1> DEFINE b == (m + 1) \in file.raw
           part == WriteToken(TokenNo(m + 1), b)
<1>1. part = <<v>> /\ v \in Byte
  <2>1. m + 1 \in 1..Total
    BY FileLaid
  <2>2. GoodToken(TokenNo(m + 1)) /\ b \in BOOLEAN
    BY <2>1, FileLaid
  <2> HIDE DEF b
  <2>3. TokenNo(m + 1)[1] = "u32" /\ TokenNo(m + 1)[2] = v
    OBVIOUS
  <2> QED BY <2>2, <2>3, TokenWritten
<1>2. /\ Len(part) \in Nat /\ Offset(m + 1) = pos + Len(part)
      /\ Len(part) <= Remaining => Slice(file.bytes, pos, Len(part)) = part
      /\ ~(Len(part) <= Remaining) => file.damage = "cut"
  BY NextCells
<1>3. Len(part) = U32_SIZE /\ part[1] = v
  BY <1>1 DEF U32_SIZE
<1>4. Remaining \in Nat /\ U32_SIZE \in Nat
  BY FileTyped DEF U32_SIZE
<1> HIDE DEF part
<1>5. CASE U32_SIZE <= Remaining
  <2>1. ~(U32_SIZE > Remaining)
    BY <1>4, <1>5
  <2>2. u32 = Done(part)
    BY <1>2, <1>3, <1>5, <2>1 DEF u32, take
  <2>3. u32.outcome = Ok /\ N = v
    BY <1>3, <2>2 DEF Done, N
  <2> QED BY <1>1, <1>2, <1>3, <1>5, <2>3
<1>6. CASE ~(U32_SIZE <= Remaining)
  <2>1. U32_SIZE > Remaining
    BY <1>4, <1>6
  <2>2. u32 = Fail("UnexpectedEof")
    BY <2>1 DEF u32, take
  <2> QED BY <1>2, <1>3, <1>6, <2>2 DEF EndsEarly, Fail
<1> QED BY <1>5, <1>6

(* ... and the next scalar. *)
LEMMA ScalarNext ==
    ASSUME BoundInv, Tracked, NEW m \in Nat, m < Total, pos = Offset(m),
           NEW s \in 0..R_MODULUS - 1, TokenNo(m + 1) = <<"Fr", s>>
    PROVE  \/ fr.outcome = Ok /\ fr.value = s /\ pos + FR_SIZE = Offset(m + 1)
           \/ EndsEarly(fr)
<1> DEFINE b == (m + 1) \in file.raw
           part == WriteToken(TokenNo(m + 1), b)
<1>1. part = fr_to_bytes(s)
  <2>1. \A w : WriteToken(<<"Fr", w>>, b) = fr_to_bytes(w)
    BY DEF WriteToken, Group
  <2> QED BY <2>1
<1>2. /\ Len(part) \in Nat /\ Offset(m + 1) = pos + Len(part)
      /\ Len(part) <= Remaining => Slice(file.bytes, pos, Len(part)) = part
      /\ ~(Len(part) <= Remaining) => file.damage = "cut"
  BY NextCells
<1>3. Len(part) = FR_SIZE /\ fr_from_bytes(part) = Done(s)
  BY <1>1, ScalarWritten DEF FR_SIZE
<1>4. Remaining \in Nat /\ FR_SIZE \in Nat
  BY FileTyped DEF FR_SIZE
<1> HIDE DEF part
<1>5. CASE FR_SIZE <= Remaining
  <2>1. ~(FR_SIZE > Remaining)
    BY <1>4, <1>5
  <2>2. take(FR_SIZE) = Done(part)
    BY <1>2, <1>3, <1>5, <2>1 DEF take
  <2>3. fr = Done(s)
    <3>1. Done(part).outcome = Ok /\ Done(part).value = part
      BY DEF Done
    <3> QED BY <1>3, <2>2, <3>1 DEF fr
  <2> QED BY <1>2, <1>3, <2>3 DEF Done
<1>6. CASE ~(FR_SIZE <= Remaining)
  <2>1. FR_SIZE > Remaining
    BY <1>4, <1>6
  <2>2. take(FR_SIZE) = Fail("UnexpectedEof")
    BY <2>1 DEF take
  <2>3. fr = Fail("UnexpectedEof")
    <3>1. Fail("UnexpectedEof").outcome # Ok
      BY DEF Fail, Ok
    <3> QED BY <2>2, <3>1 DEF fr
  <2> QED BY <1>2, <1>3, <1>6, <2>3 DEF EndsEarly, Fail
<1> QED BY <1>5, <1>6

(* Behind a count there is room for as many elements as follow it. *)
LEMMA RoomAhead ==
    ASSUME BoundInv, Tracked, NEW m \in Nat, NEW n \in Nat, m + 1 + n <= Total,
           pos + U32_SIZE = Offset(m + 1), file.damage # "cut",
           \A k \in m + 2..m + 1 + n : TokenNo(k)[1] # "u32"
    PROVE  n * 2 <= Remaining - U32_SIZE
<1> DEFINE e == m + 1
           t == m + 1 + n
           w == FlattenSeq(Cells)
<1>1. /\ Total \in Nat /\ Cells \in Seq(Seq(Byte)) /\ Len(Cells) = Total
      /\ e \in 0..Total /\ t \in e..Total /\ t \in 0..Total /\ Total \in t..Total
      /\ t - e = n
  BY FileLaid
<1>2. \A k \in e + 1..t : Len(Cells[k]) >= 2
  <2> SUFFICES ASSUME NEW k \in e + 1..t PROVE Len(Cells[k]) >= 2
    OBVIOUS
  <2> DEFINE b == k \in file.raw
  <2>1. k \in 1..Total /\ k \in m + 2..m + 1 + n
    BY <1>1
  <2>2. GoodToken(TokenNo(k)) /\ TokenNo(k)[1] # "u32" /\ b \in BOOLEAN
        /\ Cells[k] = WriteToken(TokenNo(k), b)
    BY <2>1, FileLaid
  <2> HIDE DEF b
  <2> QED BY <2>2, TokenWritten
<1> HIDE DEF e, t
<1>3. Offset(e) \in Nat /\ Offset(t) \in Nat /\ Offset(t) >= Offset(e) + 2 * n
  BY <1>1, <1>2, UptoGrows DEF Offset
<1>4. Offset(t) <= Offset(Total) /\ Offset(Total) \in Nat
  BY <1>1, UptoGrows DEF Offset
<1>5. Len(w) = Offset(Total) /\ Len(file.bytes) >= Len(w) /\ Len(file.bytes) \in Nat
  <2>1. /\ Len(w) = Offset(Total)
        /\ file.damage = "none" => Len(file.bytes) = Len(w)
        /\ file.damage = "tail" => Len(file.bytes) > Len(w)
    BY FileKept
  <2> QED BY <1>4, <2>1, FileTyped DEF Tracked
<1>6. pos + U32_SIZE = Offset(e) /\ pos \in Nat /\ U32_SIZE \in Nat
  BY FileTyped DEF e, BoundInv, U32_SIZE
<1> HIDE DEF w
<1> QED BY <1>3, <1>4, <1>5, <1>6 DEF Remaining

-----------------------------------------------------------------------------
(* Where a parser stands in such a file: what it has read is the beginning of what
   the artifact holds, and what it has consumed are the cells of that ... *)
Common ==
    /\ Len(read) <= Len(AllReads) /\ \A k \in 1..Len(read) : read[k] = AllReads[k]
    /\ Len(counts) <= Len(AllCounts)
    /\ \A k \in 1..Len(counts) : counts[k] = AllCounts[k]
    /\ pos = Offset(Len(read) + Len(counts))

(* ... a loop runs once for every element still to come, and no parser is past a
   count that it refuses. *)
Ahead ==
    /\ pc \in {"ic", "scalars"} => left = Len(AllReads) - Len(read)
    /\ pc \in {"inner", "key end"} => Len(read) = Len(AllReads)
    /\ pc = "inner" => Len(counts) = 2 /\ left = file.artifact.commitments
    /\ pc = "key end" => Len(counts) = 3
    /\ pc \in {"key end", "pok", "proof end"} => file.artifact.commitments = 0
    /\ pc = "nb_public" => Len(counts) = 0
    /\ pc = "nb_secret" => Len(counts) = 1
    /\ pc = "len" => Len(counts) = 2
    /\ pc = "scalars" => Len(counts) = 3
    /\ pc \in {"len", "scalars"} => file.artifact.secrets = 0

(* The body, proof or scalars of an artifact without commitments or secrets. *)
Plain(a) == IF a.kind = "witness" THEN a.secrets = 0 ELSE a.commitments = 0
Converted(a) ==
    CASE a.kind = "key" -> OnChainKey_new(KeyOf(a))
      [] a.kind = "proof" -> Done(OnChainProof_new(ProofOf(a)))
      [] a.kind = "witness" -> Done(a.scalars)

(* What a parser may return. *)
Refused(r) ==
    r.outcome \in {"Unsupported", "TooManyPublicInputs"} /\ ~Convertible(file.artifact)
Verdict(r) ==
    \/ EndsEarly(r)
    \/ Refused(r)
    \/ file.damage = "none" /\ Plain(file.artifact) /\ r = Converted(file.artifact)
    \/ file.damage = "tail" /\ r.outcome = "TrailingBytes"

OnTrack == Tracked => IF pc = "done" THEN Verdict(result) ELSE Common /\ Ahead

(* The lists of the file. *)
LEMMA ListsTyped ==
    ASSUME BoundInv, Tracked
    PROVE  /\ IsSequence(AllReads) /\ IsSequence(AllCounts)
           /\ Len(AllReads) \in Nat /\ Len(AllCounts) \in Nat
           /\ Total = Len(AllReads) + Len(AllCounts)
<1> DEFINE a == file.artifact
<1>1. IsArtifact(a)
  BY FileLaid
<1>2. a.kind \in {"key", "proof", "witness"}
  BY <1>1 DEF IsArtifact
<1>3. IsSequence(ReadsOf(a)) /\ IsSequence(CountsOf(a))
  <2> HIDE DEF a
  <2>1. a.kind = "key" => IsSequence(ReadsOf(a)) /\ IsSequence(CountsOf(a))
    BY <1>1, KeyListed
  <2>2. a.kind = "proof" => IsSequence(ReadsOf(a)) /\ IsSequence(CountsOf(a))
    BY <1>1, ProofListed
  <2>3. a.kind = "witness" => IsSequence(ReadsOf(a)) /\ IsSequence(CountsOf(a))
    BY <1>1, WitnessListed
  <2> QED BY <1>2, <2>1, <2>2, <2>3
<1>4. IsSequence(AllReads) /\ IsSequence(AllCounts)
  BY <1>3 DEF AllReads, AllCounts
<1>5. Total = Len(AllReads) + Len(AllCounts)
  BY DEF Total, SizeOfArtifact, AllReads, AllCounts
<1> QED BY <1>4, <1>5, AppendGrows

(* The beginning of a list, longer by the next entry. *)
LEMMA PrefixGrows ==
    ASSUME NEW s, IsSequence(s), NEW t, Len(t) \in Nat, Len(s) < Len(t),
           \A k \in 1..Len(s) : s[k] = t[k],
           NEW s2, s2 = Append(s, t[Len(s) + 1])
    PROVE  /\ Len(s) \in Nat /\ Len(s2) = Len(s) + 1 /\ Len(s2) <= Len(t)
           /\ \A k \in 1..Len(s2) : s2[k] = t[k]
<1> DEFINE n == Len(s)
           e == t[n + 1]
<1>1. /\ n \in Nat /\ Len(Append(s, e)) = n + 1 /\ Append(s, e)[n + 1] = e
      /\ \A k \in 1..n : Append(s, e)[k] = s[k]
  BY AppendCells
<1>2. s2 = Append(s, e)
  OBVIOUS
<1> HIDE DEF n
<1>3. ASSUME NEW k \in 1..n + 1 PROVE s2[k] = t[k]
  <2>1. CASE k = n + 1
    BY <1>1, <1>2, <2>1
  <2>2. CASE k # n + 1
    <3>1. k \in 1..n
      BY <1>1, <2>2
    <3> QED BY <1>1, <1>2, <3>1 DEF n
  <2> QED BY <2>1, <2>2
<1>4. n < Len(t)
  BY DEF n
<1> HIDE DEF e
<1> QED BY <1>1, <1>2, <1>3, <1>4 DEF n

(* What the file alone decides stays. *)
LEMMA FileStays ==
    ASSUME file' = file
    PROVE  /\ Tracked' = Tracked
           /\ AllReads' = AllReads /\ AllCounts' = AllCounts /\ Cells' = Cells
BY DEF Tracked, AllReads, AllCounts, Cells

(* A call that returns is done with. *)
LEMMA ReturnTracked ==
    ASSUME NEW r, Return(r), Verdict(r)
    PROVE  OnTrack'
<1>1. file' = file /\ result' = r /\ pc' = "done"
  BY DEF Return
<1>2. Verdict(result)'
  BY <1>1 DEF Verdict, EndsEarly, Refused
<1> QED BY <1>1, <1>2 DEF OnTrack

(* A point read where the file has one: either the file ends, or it is the point
   that comes next. *)
LEMMA PointOnward ==
    ASSUME BoundInv, Tracked, Common, NEW g \in Group, NEW next, PointRead(g, next),
           NEW m, m = Len(read), NEW c, c = Len(counts), m < Len(AllReads),
           TokenNo(m + c + 1) = <<g, AllReads[m + 1]>>, AllReads[m + 1] \in Point(g)
    PROVE  \/ OnTrack'
           \/ /\ file' = file /\ pc' = next /\ Common'
              /\ left' = IF left > 0 THEN left - 1 ELSE 0
              /\ Len(read') = m + 1 /\ counts' = counts
<1> DEFINE r == ReadPoint(g)
           p == AllReads[m + 1]
<1>1. /\ m \in Nat /\ c \in Nat /\ Len(AllReads) \in Nat /\ Len(AllCounts) \in Nat
      /\ m + c \in Nat /\ m + c < Total
  BY Lengths, ListsTyped DEF Common
<1>2. \/ r.outcome = Ok /\ r.value = p /\ pos + SizeOf(g) = Offset((m + c) + 1)
      \/ EndsEarly(r)
  BY <1>1, PointNext DEF Common
<1>3. CASE r.outcome # Ok
  <2>1. EndsEarly(r)
    BY <1>2, <1>3
  <2>2. Return(r)
    BY <1>3 DEF PointRead
  <2> HIDE DEF r
  <2> QED BY <2>1, <2>2, ReturnTracked DEF Verdict
<1>4. CASE r.outcome = Ok
  <2>1. r.value = p /\ pos + SizeOf(g) = Offset((m + c) + 1)
    BY <1>2, <1>4 DEF EndsEarly, Ok
  <2>2. /\ read' = Append(read, p) /\ pos' = pos + SizeOf(g) /\ pc' = next
        /\ left' = IF left > 0 THEN left - 1 ELSE 0
        /\ file' = file /\ counts' = counts
    BY <1>4, <2>1 DEF PointRead
  <2> HIDE DEF r
  <2>3. /\ Len(read') = m + 1 /\ Len(read') <= Len(AllReads)
        /\ \A k \in 1..Len(read') : read'[k] = AllReads[k]
    <3>1. IsSequence(read) /\ \A k \in 1..Len(read) : read[k] = AllReads[k]
      BY DEF BoundInv, Common
    <3> QED BY <1>1, <2>2, <3>1, PrefixGrows
  <2>4. pos' = Offset(Len(read') + Len(counts'))
    <3>1. Len(read') + Len(counts') = (m + c) + 1
      BY <1>1, <2>2, <2>3
    <3> QED BY <2>1, <2>2, <3>1
  <2>5. Common'
    <3>1. Offset(Len(read') + Len(counts')) = (Offset(Len(read) + Len(counts)))'
      BY <2>2, FileStays DEF Offset
    <3> QED BY <2>2, <2>3, <2>4, <3>1, FileStays DEF Common
  <2> QED BY <2>2, <2>3, <2>5
<1> QED BY <1>3, <1>4

(* A count read, likewise; it may be refused. *)
LEMMA CountOnward ==
    ASSUME BoundInv, Tracked, Common,
           NEW checks, NEW next, NEW loop, NEW room, CountRead(checks, next, loop, room),
           NEW m, m = Len(read), NEW c, c = Len(counts), c < Len(AllCounts),
           NEW v, v = AllCounts[c + 1], TokenNo(m + c + 1) = <<"u32", v>>,
           N = v /\ v \in Byte /\ pos + U32_SIZE = Offset(m + c + 1) /\ checks # Ok
             => Verdict(Fail(checks))
    PROVE  \/ OnTrack'
           \/ /\ N = v /\ v \in Byte /\ checks = Ok
              /\ file' = file /\ pc' = next /\ left' = loop /\ Common'
              /\ read' = read /\ Len(counts') = c + 1
<1>1. /\ m \in Nat /\ c \in Nat /\ Len(AllReads) \in Nat /\ Len(AllCounts) \in Nat
      /\ m + c \in Nat /\ m + c < Total
  BY Lengths, ListsTyped DEF Common
<1>2. \/ u32.outcome = Ok /\ N = v /\ v \in Byte /\ pos + U32_SIZE = Offset((m + c) + 1)
      \/ EndsEarly(u32)
  BY <1>1, CountNext DEF Common
<1>3. CASE EndsEarly(u32)
  <2>1. u32.outcome # Ok /\ (u32.outcome ?? checks) = u32.outcome
    BY <1>3 DEF EndsEarly, Ok, ??
  <2>2. Return(Fail(u32.outcome))
    BY <2>1 DEF CountRead
  <2>3. EndsEarly(Fail(u32.outcome))
    BY <1>3 DEF EndsEarly, Fail
  <2> QED BY <2>2, <2>3, ReturnTracked DEF Verdict
<1>4. CASE u32.outcome = Ok /\ N = v /\ v \in Byte /\ pos + U32_SIZE = Offset((m + c) + 1)
  <2>1. (u32.outcome ?? checks) = checks
    BY <1>4 DEF ??
  <2>2. CASE checks # Ok
    <3>1. Return(Fail(checks))
      BY <2>1, <2>2 DEF CountRead
    <3>2. Verdict(Fail(checks))
      BY <1>4, <2>2
    <3> QED BY <3>1, <3>2, ReturnTracked
  <2>3. CASE checks = Ok
    <3>1. /\ counts' = Append(counts, v) /\ pos' = pos + U32_SIZE /\ pc' = next
          /\ left' = loop /\ file' = file /\ read' = read
      BY <1>4, <2>1, <2>3 DEF CountRead
    <3>2. /\ Len(counts') = c + 1 /\ Len(counts') <= Len(AllCounts)
          /\ \A k \in 1..Len(counts') : counts'[k] = AllCounts[k]
      <4>1. IsSequence(counts) /\ \A k \in 1..Len(counts) : counts[k] = AllCounts[k]
        BY DEF BoundInv, Common
      <4> QED BY <1>1, <3>1, <4>1, PrefixGrows
    <3>3. pos' = Offset(Len(read') + Len(counts'))
      <4>1. Len(read') + Len(counts') = (m + c) + 1
        BY <1>1, <3>1, <3>2
      <4> QED BY <1>4, <3>1, <4>1
    <3>4. Common'
      <4>1. Offset(Len(read') + Len(counts')) = (Offset(Len(read) + Len(counts)))'
        BY <3>1, FileStays DEF Offset
      <4>2. (\A k \in 1..Len(read) : read[k] = AllReads[k])'
            /\ (Len(read) <= Len(AllReads))'
        BY <3>1, FileStays DEF Common
      <4> QED BY <3>1, <3>2, <3>3, <4>1, <4>2, FileStays DEF Common
    <3> QED BY <1>4, <2>3, <3>1, <3>2, <3>4
  <2> QED BY <2>2, <2>3
<1> QED BY <1>2, <1>3, <1>4

(* The next statement is reached where it should be. *)
LEMMA StageReached ==
    ASSUME file' = file, pc' # "done", Common', Ahead'
    PROVE  OnTrack'
BY DEF OnTrack

(* The end of a file, where all of it was consumed. *)
LEMMA AtEnd ==
    ASSUME BoundInv, Tracked, pos = Offset(Total), Plain(file.artifact),
           NEW r, r = IF finish # Ok THEN Fail(finish) ELSE Converted(file.artifact)
    PROVE  Verdict(r)
<1> DEFINE w == FlattenSeq(Cells)
<1>1. /\ Len(w) = pos
      /\ file.damage = "none" => Len(file.bytes) = pos
      /\ file.damage = "cut" => Len(file.bytes) < pos
      /\ file.damage = "tail" => Len(file.bytes) > pos
  BY FileKept
<1>2. pos \in Nat /\ Len(file.bytes) \in Nat /\ pos <= Len(file.bytes)
  BY FileTyped DEF BoundInv
<1>3. CASE file.damage = "none"
  <2>1. finish = Ok
    BY <1>1, <1>2, <1>3 DEF finish, Ensure, Remaining
  <2> QED BY <1>3, <2>1 DEF Verdict
<1>4. CASE file.damage = "tail"
  <2>1. finish = "TrailingBytes" /\ "TrailingBytes" # Ok
    <3>1. Remaining # 0
      BY <1>1, <1>2, <1>4 DEF Remaining
    <3> QED BY <3>1 DEF finish, Ensure, Ok
  <2>2. r = Fail("TrailingBytes")
    BY <2>1
  <2> QED BY <1>4, <2>2 DEF Verdict, Fail
<1>5. file.damage # "cut"
  BY <1>1, <1>2
<1> QED BY <1>3, <1>4, <1>5 DEF Tracked

(* Two sequences that agree are equal. *)
LEMMA WholeRead ==
    ASSUME BoundInv, Tracked, Common, Len(read) = Len(AllReads)
    PROVE  read = AllReads
<1>1. PICK S : read \in Seq(S)
  BY DEF BoundInv, IsSequence
<1>2. PICK T : AllReads \in Seq(T)
  BY ListsTyped DEF IsSequence
<1> DEFINE U == S \cup T
<1>3. read \in Seq(U) /\ AllReads \in Seq(U)
  BY <1>1, <1>2
<1> HIDE DEF U
<1> QED BY <1>3, SeqEqual DEF Common

(* parse_verifying_key. *)
LEMMA KeyTracked ==
    ASSUME BoundInv, ReadInv, Phase, Tracked, OnTrack,
           KeyPoint \/ KeyLen \/ KeyIc \/ KeyOuter \/ KeyInner
             \/ KeyCommitmentKeys \/ KeyEnd
    PROVE  OnTrack'
<1> DEFINE a == file.artifact
           m == Len(read)
           c == Len(counts)
           rd == AllReads
           ct == AllCounts
           n == Len(a.ic)
<1>1. file.kind = "key"
  <2>1. pc \in Stages["key"]
    BY StageSets
       DEF KeyPoint, KeyLen, KeyIc, KeyOuter, KeyInner, KeyCommitmentKeys, KeyEnd
  <2> QED BY <2>1, KindOf
<1>2. pc # "done"
  BY DEF KeyPoint, KeyLen, KeyIc, KeyOuter, KeyInner, KeyCommitmentKeys, KeyEnd
<1>3. Common /\ Ahead
  BY <1>2 DEF OnTrack
<1>4. /\ m \in Nat /\ c \in Nat /\ PhaseAt(pc, m, c)
  BY Lengths DEF Phase
<1>5. /\ a.kind = "key" /\ IsArtifact(a) /\ \A k : TokenNo(k) = KeyToken(rd, ct, k)
  BY <1>1, FileLaid DEF TokenNo, TokenAt
<1>6. /\ Len(rd) = 6 + n /\ n \in Nat
      /\ \A k \in 1..Len(rd) : rd[k] \in Point(IF k <= 6 THEN KeyPoints[k] ELSE "G1")
      /\ \A k \in 1..6 : rd[k] = a.points[k]
      /\ SubSeq(rd, 7, Len(rd)) = a.ic
      /\ Len(ct) >= 3 /\ ct[1] = n /\ ct[2] = a.commitments
      /\ a.commitments = 0 => Len(ct) = 3 /\ ct[3] = 0
      /\ a.commitments # 0 => ct[3] = 1
  BY <1>5, KeyListed DEF AllReads, AllCounts
<1>7. /\ pc \in Reading => m < 6
      /\ pc \notin Reading => m >= 6
  BY <1>1, <1>2 DEF ReadInv, ReadsPoints, FixedCount
<1>8. Len(ct) \in Nat /\ Total = Len(rd) + Len(ct)
  BY ListsTyped
<1>9. \A e : Convertible(a) <=> a.commitments = 0 /\ n \in 1..MAX_PUBLIC_INPUTS + 1
  BY <1>5 DEF Convertible
<1>10. Plain(a) <=> a.commitments = 0
  BY <1>5 DEF Plain
<1> HIDE DEF a, m, c, rd, ct, n
<1>11. CASE KeyPoint
  <2> DEFINE i == m + 1
             next == IF i = Len(KeyPoints) THEN "k_len" ELSE pc
  <2>1. pc = "key points" /\ PointRead(KeyPoints[i], next)
    BY <1>11 DEF KeyPoint, m
  <2>2. next \in {"key points", "k_len"}
    BY <2>1
  <2> HIDE DEF next
  <2>3. c = 0 /\ m < 6
    BY <1>4, <1>7, <2>1 DEF PhaseAt, Reading
  <2>4. i \in 1..6 /\ i \in 1..Len(rd) /\ m < Len(rd) /\ m + c + 1 = i /\ i <= 6
    BY <1>4, <1>6, <2>3
  <2>5. TokenNo(m + c + 1) = <<KeyPoints[i], rd[i]>>
    BY <1>5, <2>4 DEF KeyToken
  <2>6. KeyPoints[i] \in Group /\ rd[i] \in Point(KeyPoints[i])
    <3>1. \A k \in 1..6 : KeyPoints[k] \in Group
      BY DEF KeyPoints, Group
    <3> HIDE DEF i
    <3> QED BY <1>6, <2>4, <3>1
  <2>7. \/ OnTrack'
        \/ file' = file /\ pc' = next /\ Common'
    BY <1>3, <2>1, <2>4, <2>5, <2>6, PointOnward DEF m, c, rd
  <2> QED BY <2>2, <2>7, StageReached DEF Ahead
<1>12. CASE KeyLen
  <2> DEFINE checks ==    ensure_remaining(N, FQ_SIZE)
                       ?? Ensure(N <= MAX_PUBLIC_INPUTS + 1, "TooManyPublicInputs")
  <2>1. pc = "k_len" /\ CountRead(checks, "ic", N, N) /\ m = 6 /\ c = 0
    BY <1>4, <1>12 DEF KeyLen, PhaseAt
  <2>2. TokenNo(m + c + 1) = <<"u32", n>> /\ ct[c + 1] = n /\ c < Len(ct)
    <3>1. m + c + 1 = 7 /\ c + 1 = 1
      BY <2>1
    <3> QED BY <1>5, <1>6, <1>8, <2>1, <3>1 DEF KeyToken
  <2>3. ASSUME N = n, n \in Byte, pos + U32_SIZE = Offset(m + c + 1), checks # Ok
        PROVE  Verdict(Fail(checks))
    <3>1. CASE file.damage = "cut" /\ ensure_remaining(N, FQ_SIZE) # Ok
      <4>1. checks = "UnexpectedEof"
        BY <3>1 DEF ensure_remaining, Ensure, ??
      <4> QED BY <3>1, <4>1 DEF Verdict, EndsEarly, Fail
    <3>2. CASE ensure_remaining(N, FQ_SIZE) = Ok
      <4>1. checks = "TooManyPublicInputs" /\ ~(n <= MAX_PUBLIC_INPUTS + 1)
        BY <2>3, <3>2 DEF Ensure, ??
      <4>2. ~Convertible(a)
        BY <1>6, <1>9, <4>1, LayoutAssumption
      <4> QED BY <4>1, <4>2 DEF Verdict, Refused, Fail, a
    <3>3. CASE file.damage # "cut"
      <4>1. \A k \in (m + c) + 2..(m + c) + 1 + n : TokenNo(k)[1] # "u32"
        <5> SUFFICES ASSUME NEW k \in (m + c) + 2..(m + c) + 1 + n
                     PROVE  TokenNo(k)[1] # "u32"
          OBVIOUS
        <5>1. ~(k <= 6) /\ k # 7 /\ k <= Len(rd) + 1
          BY <1>6, <2>1
        <5>2. TokenNo(k) = <<"G1", rd[k - 1]>>
          BY <1>5, <5>1 DEF KeyToken
        <5> QED BY <5>2
      <4>2. m + c \in Nat /\ (m + c) + 1 + n <= Total /\ (m + c) + 1 = m + c + 1
        BY <1>4, <1>6, <1>8, <2>1
      <4> DEFINE o == m + c
      <4>3. o \in Nat /\ o + 1 + n <= Total /\ pos + U32_SIZE = Offset(o + 1)
            /\ \A k \in o + 2..o + 1 + n : TokenNo(k)[1] # "u32"
        BY <2>3, <4>1, <4>2
      <4> HIDE DEF o
      <4>4. n * 2 <= Remaining - U32_SIZE
        BY <1>6, <3>3, <4>3, RoomAhead
      <4>5. ensure_remaining(N, FQ_SIZE) = Ok
        BY <2>3, <4>4 DEF ensure_remaining, Ensure, FQ_SIZE
      <4> QED BY <3>2, <4>5
    <3> QED BY <3>1, <3>2, <3>3
  <2> HIDE DEF checks
  <2>4. \/ OnTrack'
        \/ N = n /\ file' = file /\ pc' = "ic" /\ left' = N /\ Common' /\ read' = read
    BY <1>3, <2>1, <2>2, <2>3, CountOnward DEF m, c, ct
  <2>5. (N = n /\ file' = file /\ pc' = "ic" /\ left' = N /\ read' = read) => Ahead'
    <3> SUFFICES ASSUME N = n, file' = file, pc' = "ic", left' = N, read' = read
                 PROVE  Ahead'
      OBVIOUS
    <3>1. left' = Len(AllReads) - Len(read)
      BY <1>6, <2>1 DEF m, rd
    <3> QED BY <3>1, FileStays DEF Ahead
  <2> QED BY <2>4, <2>5, StageReached
<1>13. CASE KeyIc
  <2>1. pc = "ic" /\ left > 0 /\ PointRead("G1", pc) /\ c = 1 /\ left = Len(rd) - m
        /\ m >= 6
    BY <1>3, <1>4, <1>7, <1>13 DEF KeyIc, PhaseAt, Ahead, m, rd, Reading
  <2>2. m + 1 \in 1..Len(rd) /\ m < Len(rd) /\ rd[m + 1] \in Point("G1")
    <3>1. m + 1 \in 1..Len(rd) /\ m < Len(rd) /\ ~(m + 1 <= 6)
      BY <1>4, <1>6, <2>1
    <3> QED BY <1>6, <3>1
  <2>3. TokenNo(m + c + 1) = <<"G1", rd[m + 1]>> /\ "G1" \in Group
    <3> DEFINE k == m + c + 1
    <3>1. ~(k <= 6) /\ k # 7 /\ k <= Len(rd) + 1 /\ k - 1 = m + 1
      BY <1>4, <1>6, <2>1, <2>2
    <3>2. TokenNo(k) = <<"G1", rd[k - 1]>>
      BY <1>5, <3>1 DEF KeyToken
    <3> QED BY <3>1, <3>2 DEF Group
  <2>4. \/ OnTrack'
        \/ /\ file' = file /\ pc' = "ic" /\ Common' /\ Len(read') = m + 1
           /\ left' = IF left > 0 THEN left - 1 ELSE 0
    BY <1>3, <2>1, <2>2, <2>3, PointOnward DEF m, c, rd
  <2>5. (/\ file' = file /\ pc' = "ic" /\ Len(read') = m + 1
         /\ left' = IF left > 0 THEN left - 1 ELSE 0) => Ahead'
    <3> SUFFICES ASSUME file' = file, pc' = "ic", Len(read') = m + 1,
                        left' = IF left > 0 THEN left - 1 ELSE 0
                 PROVE  Ahead'
      OBVIOUS
    <3>1. left' = Len(AllReads) - Len(read')
      BY <1>4, <1>6, <2>1 DEF rd
    <3> QED BY <3>1, FileStays DEF Ahead
  <2> QED BY <2>4, <2>5, StageReached
<1>14. CASE KeyOuter
  <2>1. /\ pc = "ic" /\ left = 0 /\ CountRead(Ok, "inner", N, capacity)
        /\ c = 1 /\ m = Len(rd)
    <3>1. pc = "ic" /\ left = 0 /\ CountRead(Ok, "inner", N, capacity)
      BY <1>14 DEF KeyOuter
    <3>2. c = 1 /\ left = Len(rd) - m
      BY <1>3, <1>4, <3>1 DEF PhaseAt, Ahead, m, rd
    <3> QED BY <1>4, <1>6, <3>1, <3>2
  <2>2. TokenNo(m + c + 1) = <<"u32", ct[c + 1]>> /\ c < Len(ct) /\ c + 1 = 2
    <3> DEFINE k == m + c + 1
    <3>1. ~(k <= 6) /\ k # 7 /\ ~(k <= Len(rd) + 1) /\ k - Len(rd) = c + 1
      BY <1>4, <1>6, <2>1
    <3>2. TokenNo(k) = <<"u32", ct[k - Len(rd)]>>
      BY <1>5, <3>1 DEF KeyToken
    <3> QED BY <1>6, <1>8, <2>1, <3>1, <3>2
  <2>3. \/ OnTrack'
        \/ /\ N = ct[c + 1] /\ file' = file /\ pc' = "inner" /\ left' = N /\ Common'
           /\ read' = read /\ Len(counts') = c + 1
    <3> DEFINE v == ct[c + 1]
    <3>1. v = AllCounts[c + 1] /\ TokenNo(m + c + 1) = <<"u32", v>>
      BY <2>2 DEF ct
    <3> HIDE DEF v
    <3>2. c < Len(AllCounts) /\ m = Len(read) /\ c = Len(counts)
      BY <2>2 DEF ct, m, c
    <3>3. \/ OnTrack'
          \/ /\ N = v /\ file' = file /\ pc' = "inner" /\ left' = N /\ Common'
             /\ read' = read /\ Len(counts') = c + 1
      BY <1>3, <2>1, <3>1, <3>2, CountOnward, ZenonT(60)
    <3> QED BY <3>3 DEF v
  <2>4. (/\ N = ct[c + 1] /\ file' = file /\ pc' = "inner" /\ left' = N
         /\ read' = read /\ Len(counts') = c + 1) => Ahead'
    <3> SUFFICES ASSUME N = ct[c + 1], file' = file, pc' = "inner", left' = N,
                        read' = read, Len(counts') = c + 1
                 PROVE  Ahead'
      OBVIOUS
    <3>1. left' = file.artifact.commitments /\ Len(counts') = 2
      BY <1>6, <2>2 DEF a
    <3>2. Len(read') = Len(AllReads)
      BY <2>1 DEF m, rd
    <3> QED BY <3>1, <3>2, FileStays DEF Ahead
  <2> QED BY <2>3, <2>4, StageReached
<1>15. ASSUME pc = "inner"
       PROVE  /\ m = Len(rd) /\ c = 2 /\ c + 1 = 3 /\ left = a.commitments /\ c < Len(ct)
              /\ TokenNo(m + c + 1) = <<"u32", ct[c + 1]>>
  <2>1. m = Len(rd) /\ c = 2 /\ left = a.commitments
    BY <1>3, <1>15 DEF Ahead, m, c, rd, a
  <2> DEFINE k == m + c + 1
  <2>2. ~(k <= 6) /\ k # 7 /\ ~(k <= Len(rd) + 1) /\ k - Len(rd) = c + 1
    BY <1>4, <1>6, <2>1
  <2>3. TokenNo(k) = <<"u32", ct[k - Len(rd)]>>
    BY <1>5, <2>2 DEF KeyToken
  <2> QED BY <1>6, <1>8, <2>1, <2>2, <2>3
<1>16. CASE KeyInner
  <2> DEFINE checks == Ensure(N = 0, "Unsupported")
  <2>1. pc = "inner" /\ left > 0 /\ CountRead(checks, pc, left - 1, capacity)
    BY <1>16 DEF KeyInner
  <2>2. ct[c + 1] = 1 /\ ~Convertible(a)
    <3>1. a.commitments # 0
      BY <1>15, <2>1
    <3> QED BY <1>6, <1>9, <1>15, <2>1, <3>1
  <2>3. checks # Ok => Verdict(Fail(checks))
    BY <2>2 DEF Ensure, Ok, Verdict, Refused, Fail, a
  <2>4. N = 1 => checks # Ok
    BY DEF Ensure, Ok
  <2> HIDE DEF checks
  <2>5. OnTrack' \/ (N = ct[c + 1] /\ checks = Ok)
    <3> DEFINE v == ct[c + 1]
               loop == left - 1
    <3>1. /\ v = AllCounts[c + 1] /\ TokenNo(m + c + 1) = <<"u32", v>>
          /\ CountRead(checks, pc, loop, capacity)
      BY <1>15, <2>1 DEF ct
    <3> HIDE DEF v, loop
    <3>2. c < Len(AllCounts) /\ m = Len(read) /\ c = Len(counts)
      BY <1>15, <2>1 DEF ct, m, c
    <3>3. OnTrack' \/ (N = v /\ checks = Ok)
      BY <1>3, <2>3, <3>1, <3>2, CountOnward
    <3> QED BY <3>3 DEF v
  <2> QED BY <2>2, <2>4, <2>5
<1>17. CASE KeyCommitmentKeys
  <2> DEFINE checks == Ensure(N = 0, "Unsupported")
  <2>1. pc = "inner" /\ left = 0 /\ CountRead(checks, "key end", 0, capacity)
    BY <1>17 DEF KeyCommitmentKeys
  <2>2. ct[c + 1] = 0 /\ a.commitments = 0
    BY <1>6, <1>15, <2>1
  <2>3. N = 0 => checks = Ok
    BY DEF Ensure, Ok
  <2> HIDE DEF checks
  <2>4. \/ OnTrack'
        \/ /\ file' = file /\ pc' = "key end" /\ Common'
           /\ read' = read /\ Len(counts') = c + 1
    <3> DEFINE v == ct[c + 1]
    <3>1. v = AllCounts[c + 1] /\ TokenNo(m + c + 1) = <<"u32", v>> /\ v = 0
      BY <1>15, <2>1, <2>2 DEF ct
    <3> HIDE DEF v
    <3>2. c < Len(AllCounts) /\ m = Len(read) /\ c = Len(counts)
      BY <1>15, <2>1 DEF ct, m, c
    <3> QED BY <1>3, <2>1, <2>3, <3>1, <3>2, CountOnward
  <2>5. (/\ file' = file /\ pc' = "key end" /\ read' = read
         /\ Len(counts') = c + 1) => Ahead'
    <3> SUFFICES ASSUME file' = file, pc' = "key end", read' = read,
                        Len(counts') = c + 1
                 PROVE  Ahead'
      OBVIOUS
    <3>1. Len(counts') = 3 /\ Len(read') = Len(AllReads) /\ file.artifact.commitments = 0
      BY <1>15, <2>1, <2>2 DEF m, rd, a
    <3> QED BY <3>1, FileStays DEF Ahead
  <2> QED BY <2>4, <2>5, StageReached
<1>18. CASE KeyEnd
  <2>1. /\ pc = "key end"
        /\ Return(IF finish # Ok THEN Fail(finish) ELSE OnChainKey_new(ParsedKey))
    BY <1>18 DEF KeyEnd
  <2>2. m = Len(rd) /\ c = 3 /\ a.commitments = 0 /\ Len(ct) = 3
    BY <1>3, <1>6, <2>1 DEF Ahead, m, c, rd, a
  <2>3. pos = Offset(Total)
    BY <1>3, <1>8, <2>2 DEF Common, m, c, rd
  <2>4. read = AllReads
    BY <1>3, <2>2, WholeRead DEF m, rd
  <2>5. ParsedKey = KeyOf(file.artifact)
    <3>1. /\ read[1] = a.points[1] /\ read[3] = a.points[3] /\ read[4] = a.points[4]
          /\ read[6] = a.points[6]
      BY <1>6, <2>4 DEF rd
    <3>2. SubSeq(read, Len(KeyPoints) + 1, Len(read)) = a.ic
      BY <1>6, <2>4 DEF rd, KeyPoints
    <3> QED BY <3>1, <3>2 DEF ParsedKey, KeyOf, a
  <2>6. Converted(file.artifact) = OnChainKey_new(ParsedKey)
    BY <1>5, <2>5 DEF Converted, a
  <2>7. Plain(file.artifact)
    BY <1>10, <2>2 DEF a
  <2>8. Verdict(IF finish # Ok THEN Fail(finish) ELSE OnChainKey_new(ParsedKey))
    BY <2>3, <2>6, <2>7, AtEnd
  <2> QED BY <2>1, <2>8, ReturnTracked
<1> QED BY <1>11, <1>12, <1>13, <1>14, <1>16, <1>17, <1>18

(* parse_proof. *)
LEMMA ProofTracked ==
    ASSUME BoundInv, ReadInv, Phase, Tracked, OnTrack,
           ProofPoint \/ ProofCommitments \/ ProofPok \/ ProofEnd
    PROVE  OnTrack'
<1> DEFINE a == file.artifact
           m == Len(read)
           c == Len(counts)
           rd == AllReads
           ct == AllCounts
<1>1. file.kind = "proof"
  <2>1. pc \in Stages["proof"]
    BY StageSets DEF ProofPoint, ProofCommitments, ProofPok, ProofEnd
  <2> QED BY <2>1, KindOf
<1>2. pc # "done"
  BY DEF ProofPoint, ProofCommitments, ProofPok, ProofEnd
<1>3. Common /\ Ahead
  BY <1>2 DEF OnTrack
<1>4. /\ m \in Nat /\ c \in Nat /\ PhaseAt(pc, m, c)
  BY Lengths DEF Phase
<1>5. /\ a.kind = "proof" /\ IsArtifact(a) /\ \A k : TokenNo(k) = ProofToken(rd, ct, k)
  BY <1>1, FileLaid DEF TokenNo, TokenAt
<1>6. /\ Len(rd) = 4 /\ Len(ct) = 1
      /\ \A k \in 1..4 : rd[k] \in Point(IF k <= 3 THEN ProofPoints[k] ELSE "G1")
      /\ \A k \in 1..3 : rd[k] = a.points[k]
      /\ ct[1] = a.commitments
  BY <1>5, ProofListed DEF AllReads, AllCounts
<1>7. pc \in Reading => m < 3
  BY <1>1, <1>2 DEF ReadInv, ReadsPoints, FixedCount
<1>8. Total = Len(rd) + Len(ct)
  BY ListsTyped
<1>9. Convertible(a) <=> a.commitments = 0
  BY <1>5 DEF Convertible
<1>10. Plain(a) <=> a.commitments = 0
  BY <1>5 DEF Plain
<1> HIDE DEF a, m, c, rd, ct
<1>11. CASE ProofPoint
  <2> DEFINE i == m + 1
             next == IF i = Len(ProofPoints) THEN "commitments" ELSE pc
  <2>1. pc = "proof points" /\ PointRead(ProofPoints[i], next)
    BY <1>11 DEF ProofPoint, m
  <2>2. next \in {"proof points", "commitments"}
    BY <2>1
  <2> HIDE DEF next
  <2>3. c = 0 /\ m < 3
    BY <1>4, <1>7, <2>1 DEF PhaseAt, Reading
  <2>4. i \in 1..3 /\ i \in 1..4 /\ m < Len(rd) /\ m + c + 1 = i /\ i <= 3
    BY <1>4, <1>6, <2>3
  <2>5. TokenNo(m + c + 1) = <<ProofPoints[i], rd[i]>>
    BY <1>5, <2>4 DEF ProofToken
  <2>6. ProofPoints[i] \in Group /\ rd[i] \in Point(ProofPoints[i])
    <3>1. \A k \in 1..3 : ProofPoints[k] \in Group
      BY DEF ProofPoints, Group
    <3> HIDE DEF i
    <3> QED BY <1>6, <2>4, <3>1
  <2>7. \/ OnTrack'
        \/ file' = file /\ pc' = next /\ Common'
    BY <1>3, <2>1, <2>4, <2>5, <2>6, PointOnward DEF m, c, rd
  <2> QED BY <2>2, <2>7, StageReached DEF Ahead
<1>12. CASE ProofCommitments
  <2> DEFINE checks == Ensure(N = 0, "Unsupported")
             v == a.commitments
  <2>1. pc = "commitments" /\ CountRead(checks, "pok", 0, capacity)
    BY <1>12 DEF ProofCommitments
  <2>2. m = 3 /\ c = 0
    BY <1>4, <2>1 DEF PhaseAt
  <2>3. TokenNo(m + c + 1) = <<"u32", v>> /\ v = AllCounts[c + 1] /\ c < Len(AllCounts)
    <3>1. m + c + 1 = 4 /\ c + 1 = 1
      BY <2>2
    <3> QED BY <1>5, <1>6, <2>2, <3>1 DEF ProofToken, ct
  <2>4. N = v /\ checks # Ok => Verdict(Fail(checks))
    BY <1>9 DEF Ensure, Ok, Verdict, Refused, Fail, a
  <2>5. checks = Ok /\ N = v => v = 0
    BY DEF Ensure, Ok
  <2> HIDE DEF checks, v
  <2>6. m = Len(read) /\ c = Len(counts)
    BY DEF m, c
  <2>7. \/ OnTrack'
        \/ /\ v = 0 /\ file' = file /\ pc' = "pok" /\ Common'
    BY <1>3, <2>1, <2>3, <2>4, <2>5, <2>6, CountOnward
  <2>8. v = 0 /\ file' = file /\ pc' = "pok" => Ahead'
    BY DEF Ahead, v, a
  <2> QED BY <2>7, <2>8, StageReached
<1>13. CASE ProofPok
  <2>1. pc = "pok" /\ PointRead("G1", "proof end")
    BY <1>13 DEF ProofPok
  <2>2. m = 3 /\ c = 1 /\ a.commitments = 0
    BY <1>3, <1>4, <2>1 DEF PhaseAt, Ahead, a
  <2>3. TokenNo(m + c + 1) = <<"G1", rd[m + 1]>> /\ m < Len(rd) /\ rd[m + 1] \in Point("G1")
    <3>1. m + c + 1 = 5 /\ m + 1 = 4
      BY <2>2
    <3>2. rd[4] \in Point("G1")
      BY <1>6
    <3> QED BY <1>5, <1>6, <2>2, <3>1, <3>2 DEF ProofToken
  <2>4. \/ OnTrack'
        \/ file' = file /\ pc' = "proof end" /\ Common'
    <3>1. "G1" \in Group
      BY DEF Group
    <3> QED BY <1>3, <2>1, <2>3, <3>1, PointOnward DEF m, c, rd
  <2>5. file' = file /\ pc' = "proof end" => Ahead'
    BY <2>2 DEF Ahead, a
  <2> QED BY <2>4, <2>5, StageReached
<1>14. CASE ProofEnd
  <2> DEFINE r == Done(OnChainProof_new([a |-> read[1], b |-> read[2], c |-> read[3]]))
  <2>1. pc = "proof end" /\ Return(IF finish # Ok THEN Fail(finish) ELSE r)
    BY <1>14 DEF ProofEnd
  <2>2. m = 4 /\ c = 1 /\ a.commitments = 0
    BY <1>3, <1>4, <2>1 DEF PhaseAt, Ahead, a
  <2>3. pos = Offset(Total)
    BY <1>3, <1>6, <1>8, <2>2 DEF Common, m, c
  <2>4. \A k \in 1..3 : read[k] = a.points[k]
    <3>1. \A k \in 1..3 : k \in 1..m
      BY <2>2
    <3> QED BY <1>3, <1>6, <3>1 DEF Common, m, rd
  <2>5. Converted(file.artifact) = r
    <3>1. read[1] = a.points[1] /\ read[2] = a.points[2] /\ read[3] = a.points[3]
      BY <2>4
    <3>2. ProofOf(a) = [a |-> read[1], b |-> read[2], c |-> read[3]]
      BY <3>1 DEF ProofOf
    <3>3. Converted(a) = Done(OnChainProof_new(ProofOf(a)))
      BY <1>5 DEF Converted
    <3> QED BY <3>2, <3>3 DEF a
  <2> HIDE DEF r
  <2>6. Plain(file.artifact)
    BY <1>10, <2>2 DEF a
  <2>7. Verdict(IF finish # Ok THEN Fail(finish) ELSE r)
    BY <2>3, <2>5, <2>6, AtEnd
  <2> QED BY <2>1, <2>7, ReturnTracked
<1> QED BY <1>11, <1>12, <1>13, <1>14

(* parse_public_witness. *)
LEMMA WitnessTracked ==
    ASSUME BoundInv, ReadInv, Phase, Tracked, OnTrack,
           WitnessPublic \/ WitnessSecret \/ WitnessLen \/ WitnessScalar \/ WitnessEnd
    PROVE  OnTrack'
<1> DEFINE a == file.artifact
           m == Len(read)
           c == Len(counts)
           rd == AllReads
           ct == AllCounts
           n == Len(rd)
<1>1. file.kind = "witness"
  <2>1. pc \in Stages["witness"]
    BY StageSets DEF WitnessPublic, WitnessSecret, WitnessLen, WitnessScalar, WitnessEnd
  <2> QED BY <2>1, KindOf
<1>2. pc # "done"
  BY DEF WitnessPublic, WitnessSecret, WitnessLen, WitnessScalar, WitnessEnd
<1>3. Common /\ Ahead
  BY <1>2 DEF OnTrack
<1>4. /\ m \in Nat /\ c \in Nat /\ PhaseAt(pc, m, c)
  BY Lengths DEF Phase
<1>5. /\ a.kind = "witness" /\ IsArtifact(a) /\ \A k : TokenNo(k) = WitnessToken(rd, ct, k)
  BY <1>1, FileLaid DEF TokenNo, TokenAt
<1>6. /\ rd = a.scalars /\ n \in Nat /\ Len(ct) = 3
      /\ \A k \in 1..n : rd[k] \in 0..R_MODULUS - 1
      /\ ct[1] = n /\ ct[2] = a.secrets /\ ct[3] = n + a.secrets
  BY <1>5, WitnessListed DEF AllReads, AllCounts
<1>7. Total = n + 3
  BY <1>6, ListsTyped
<1>8. Convertible(a) <=> a.secrets = 0
  BY <1>5 DEF Convertible
<1>9. Plain(a) <=> a.secrets = 0
  BY <1>5 DEF Plain
<1> HIDE DEF a, m, c, rd, ct, n
<1>10. ASSUME m = 0, c < 3
       PROVE  /\ TokenNo(m + c + 1) = <<"u32", ct[c + 1]>>
              /\ c < Len(AllCounts) /\ m = Len(read) /\ c = Len(counts)
  <2>1. m + c + 1 = c + 1 /\ c + 1 <= 3
    BY <1>4, <1>10
  <2> QED BY <1>5, <1>6, <1>10, <2>1 DEF WitnessToken, ct, m, c
<1>11. CASE WitnessPublic
  <2> DEFINE v == ct[c + 1]
  <2>1. pc = "nb_public" /\ CountRead(Ok, "nb_secret", 0, 0)
    BY <1>11 DEF WitnessPublic
  <2>2. m = 0 /\ c = 0
    BY <1>3, <1>4, <2>1 DEF PhaseAt, Ahead, c
  <2>3. v = AllCounts[c + 1] /\ TokenNo(m + c + 1) = <<"u32", v>>
        /\ c < Len(AllCounts) /\ m = Len(read) /\ c = Len(counts)
    BY <1>10, <2>2 DEF ct
  <2> HIDE DEF v
  <2>4. \/ OnTrack'
        \/ file' = file /\ pc' = "nb_secret" /\ Common' /\ Len(counts') = c + 1
    BY <1>3, <2>1, <2>3, CountOnward
  <2>5. file' = file /\ pc' = "nb_secret" /\ Len(counts') = c + 1 => Ahead'
    BY <2>2 DEF Ahead
  <2> QED BY <2>4, <2>5, StageReached
<1>12. CASE WitnessSecret
  <2> DEFINE checks == Ensure(N = 0, "Unsupported")
             v == a.secrets
  <2>1. pc = "nb_secret" /\ CountRead(checks, "len", 0, 0)
    BY <1>12 DEF WitnessSecret
  <2>2. m = 0 /\ c = 1
    BY <1>3, <1>4, <2>1 DEF PhaseAt, Ahead, c
  <2>3. v = AllCounts[c + 1] /\ TokenNo(m + c + 1) = <<"u32", v>>
        /\ c < Len(AllCounts) /\ m = Len(read) /\ c = Len(counts)
    <3>1. ct[c + 1] = v
      BY <1>6, <2>2
    <3> QED BY <1>10, <2>2, <3>1 DEF ct
  <2>4. N = v /\ checks # Ok => Verdict(Fail(checks))
    BY <1>8 DEF Ensure, Ok, Verdict, Refused, Fail, a
  <2>5. checks = Ok /\ N = v => v = 0
    BY DEF Ensure, Ok
  <2> HIDE DEF checks, v
  <2>6. \/ OnTrack'
        \/ v = 0 /\ file' = file /\ pc' = "len" /\ Common' /\ Len(counts') = c + 1
    BY <1>3, <2>1, <2>3, <2>4, <2>5, CountOnward
  <2>7. v = 0 /\ file' = file /\ pc' = "len" /\ Len(counts') = c + 1 => Ahead'
    BY <2>2 DEF Ahead, v, a
  <2> QED BY <2>6, <2>7, StageReached
<1>13. CASE WitnessLen
  <2> DEFINE checks ==    Ensure(N = counts[1], "Unsupported")
                       ?? ensure_remaining(N, FR_SIZE)
             v == ct[c + 1]
  <2>1. pc = "len" /\ CountRead(checks, "scalars", N, N)
    BY <1>13 DEF WitnessLen
  <2>2. m = 0 /\ c = 2 /\ a.secrets = 0
    BY <1>3, <1>4, <2>1 DEF PhaseAt, Ahead, c, a
  <2>3. v = AllCounts[c + 1] /\ TokenNo(m + c + 1) = <<"u32", v>> /\ v = n
        /\ counts[1] = n
        /\ c < Len(AllCounts) /\ m = Len(read) /\ c = Len(counts)
    <3>1. 1 \in 1..Len(counts)
      BY <2>2 DEF c
    <3>2. counts[1] = ct[1]
      BY <1>3, <3>1 DEF Common, ct
    <3>3. ct[c + 1] = n
      BY <1>6, <2>2
    <3> QED BY <1>6, <1>10, <2>2, <3>2, <3>3 DEF ct
  <2> HIDE DEF v
  <2>4. ASSUME N = v, pos + U32_SIZE = Offset(m + c + 1), checks # Ok
        PROVE  Verdict(Fail(checks))
    <3>1. checks = ensure_remaining(N, FR_SIZE)
      BY <2>3, <2>4 DEF Ensure, ??
    <3> HIDE DEF checks
    <3>2. CASE file.damage = "cut"
      <4>1. checks = "UnexpectedEof"
        BY <2>4, <3>1 DEF ensure_remaining, Ensure
      <4> QED BY <3>2, <4>1 DEF Verdict, EndsEarly, Fail
    <3>3. CASE file.damage # "cut"
      <4> DEFINE o == m + c
      <4>1. o \in Nat /\ o = 2 /\ o + 1 + n <= Total /\ pos + U32_SIZE = Offset(o + 1)
        BY <1>4, <1>6, <1>7, <2>2, <2>4
      <4> HIDE DEF o
      <4>2. \A k \in o + 2..o + 1 + n : TokenNo(k)[1] # "u32"
        <5> SUFFICES ASSUME NEW k \in o + 2..o + 1 + n PROVE TokenNo(k)[1] # "u32"
          OBVIOUS
        <5>1. ~(k <= Len(ct))
          BY <1>6, <4>1
        <5>2. TokenNo(k) = <<"Fr", rd[k - Len(ct)]>>
          BY <1>5, <5>1 DEF WitnessToken
        <5> QED BY <5>2
      <4>3. n * 2 <= Remaining - U32_SIZE
        BY <1>6, <3>3, <4>1, <4>2, RoomAhead
      <4>4. ensure_remaining(N, FR_SIZE) = Ok
        BY <2>3, <2>4, <4>3 DEF ensure_remaining, Ensure, FR_SIZE
      <4> QED BY <2>4, <3>1, <4>4
    <3> QED BY <3>2, <3>3
  <2> HIDE DEF checks
  <2>5. \/ OnTrack'
        \/ /\ N = v /\ file' = file /\ pc' = "scalars" /\ left' = N /\ Common'
           /\ read' = read /\ Len(counts') = c + 1
    <3>1. /\ v = AllCounts[c + 1] /\ TokenNo(m + c + 1) = <<"u32", v>>
          /\ c < Len(AllCounts) /\ m = Len(read) /\ c = Len(counts)
          /\ N = v /\ v \in Byte /\ pos + U32_SIZE = Offset(m + c + 1) /\ checks # Ok
               => Verdict(Fail(checks))
      BY <2>3, <2>4
    <3> QED BY <1>3, <2>1, <3>1, CountOnward
  <2>6. ASSUME N = v, file' = file, pc' = "scalars", left' = N, read' = read,
               Len(counts') = c + 1
        PROVE  Ahead'
    <3>1. left' = Len(AllReads) - Len(read') /\ Len(counts') = 3
          /\ file.artifact.secrets = 0
      <4>1. n - m = n /\ left' = n /\ c + 1 = 3
        BY <1>6, <2>2, <2>3, <2>6
      <4> QED BY <2>2, <2>6, <4>1 DEF m, n, rd, a
    <3> QED BY <2>6, <3>1, FileStays DEF Ahead
  <2> QED BY <2>5, <2>6, StageReached
<1>14. CASE WitnessScalar
  <2> DEFINE s == rd[m + 1]
             o == m + c
  <2>1. pc = "scalars" /\ left > 0
    BY <1>14 DEF WitnessScalar
  <2>2. c = 3 /\ a.secrets = 0 /\ left = n - m
    BY <1>3, <2>1 DEF Ahead, c, a, n, m, rd
  <2>3. /\ m + 1 \in 1..n /\ m < n /\ o \in Nat /\ o < Total /\ o + 1 = m + 4
        /\ s \in 0..R_MODULUS - 1
    BY <1>4, <1>6, <1>7, <2>1, <2>2
  <2>4. TokenNo(o + 1) = <<"Fr", s>>
    <3>1. ~(m + 4 <= Len(ct)) /\ (m + 4) - Len(ct) = m + 1
      BY <1>4, <1>6
    <3>2. TokenNo(m + 4) = <<"Fr", rd[(m + 4) - Len(ct)]>>
      BY <1>5, <3>1 DEF WitnessToken
    <3> QED BY <2>3, <3>1, <3>2
  <2>5. pos = Offset(o)
    BY <1>3 DEF Common, m, c
  <2> HIDE DEF s, o
  <2>6. \/ fr.outcome = Ok /\ fr.value = s /\ pos + FR_SIZE = Offset(o + 1)
        \/ EndsEarly(fr)
    BY <2>3, <2>4, <2>5, ScalarNext
  <2>7. CASE fr.outcome # Ok
    <3>1. EndsEarly(fr)
      BY <2>6, <2>7
    <3>2. Return(fr)
      BY <1>14, <2>7 DEF WitnessScalar
    <3> QED BY <3>1, <3>2, ReturnTracked DEF Verdict
  <2>8. CASE fr.outcome = Ok
    <3>1. fr.value = s /\ pos + FR_SIZE = Offset(o + 1)
      BY <2>6, <2>8 DEF EndsEarly, Ok
    <3>2. /\ read' = Append(read, s) /\ pos' = pos + FR_SIZE /\ left' = left - 1
          /\ file' = file /\ pc' = pc /\ counts' = counts
      BY <1>14, <2>8, <3>1 DEF WitnessScalar
    <3>3. /\ Len(read') = m + 1 /\ Len(read') <= n
          /\ \A k \in 1..Len(read') : read'[k] = rd[k]
      <4>1. /\ IsSequence(read) /\ \A k \in 1..Len(read) : read[k] = rd[k]
            /\ Len(read) < Len(rd) /\ Len(rd) \in Nat
            /\ read' = Append(read, rd[Len(read) + 1])
        BY <1>3, <1>6, <2>3, <3>2 DEF BoundInv, Common, m, n, rd, s
      <4>2. /\ Len(read') = Len(read) + 1 /\ Len(read') <= Len(rd)
            /\ \A k \in 1..Len(read') : read'[k] = rd[k]
        BY <4>1, PrefixGrows
      <4> QED BY <4>2 DEF m, n
    <3>4. pos' = Offset(Len(read') + Len(counts'))
      <4>1. Len(read') + Len(counts') = o + 1
        BY <1>4, <3>2, <3>3 DEF o, c
      <4> QED BY <3>1, <3>2, <4>1
    <3>5. Common'
      <4>1. Offset(Len(read') + Len(counts')) = (Offset(Len(read) + Len(counts)))'
        BY <3>2, FileStays DEF Offset
      <4>2. /\ (Len(counts) <= Len(AllCounts))'
            /\ (\A k \in 1..Len(counts) : counts[k] = AllCounts[k])'
        BY <1>3, <3>2, FileStays DEF Common
      <4>3. /\ (Len(read) <= Len(AllReads))'
            /\ (\A k \in 1..Len(read) : read[k] = AllReads[k])'
        BY <3>2, <3>3, FileStays DEF rd, n
      <4> QED BY <3>4, <4>1, <4>2, <4>3 DEF Common
    <3>6. Ahead'
      <4>1. left' = Len(AllReads) - Len(read') /\ Len(counts') = 3
            /\ file.artifact.secrets = 0 /\ pc' = "scalars"
        BY <1>4, <1>6, <2>1, <2>2, <3>2, <3>3 DEF n, rd, c, a
      <4> QED BY <3>2, <4>1, FileStays DEF Ahead
    <3> QED BY <1>2, <3>2, <3>5, <3>6, StageReached
  <2> QED BY <2>7, <2>8
<1>15. CASE WitnessEnd
  <2>1. /\ pc = "scalars" /\ left = 0
        /\ Return(IF finish # Ok THEN Fail(finish) ELSE Done(read))
    BY <1>15 DEF WitnessEnd
  <2>2. c = 3 /\ a.secrets = 0 /\ m = n
    <3>1. c = 3 /\ a.secrets = 0 /\ left = n - m
      BY <1>3, <2>1 DEF Ahead, c, a, n, m, rd
    <3> QED BY <1>4, <1>6, <2>1, <3>1
  <2>3. pos = Offset(Total)
    BY <1>3, <1>7, <2>2 DEF Common, m, c
  <2>4. read = rd
    BY <1>3, <2>2, WholeRead DEF m, n, rd
  <2>5. Converted(file.artifact) = Done(read)
    BY <1>5, <1>6, <2>4 DEF Converted, a
  <2>6. Plain(file.artifact)
    BY <1>9, <2>2 DEF a
  <2>7. Verdict(IF finish # Ok THEN Fail(finish) ELSE Done(read))
    BY <2>3, <2>5, <2>6, AtEnd
  <2> QED BY <2>1, <2>7, ReturnTracked
<1> QED BY <1>11, <1>12, <1>13, <1>14, <1>15

-----------------------------------------------------------------------------
(* The whole run, and the theorem. *)

(* No step changes the file. *)
LEMMA FileConstant ==
    ASSUME [Next]_vars
    PROVE  file' = file
<1>1. \A r : Return(r) => file' = file
  BY DEF Return
<1>2. \A g, next : PointRead(g, next) => file' = file
  BY <1>1 DEF PointRead
<1>3. \A checks, next, loop, room : CountRead(checks, next, loop, room) => file' = file
  BY <1>1 DEF CountRead
<1>4. CASE KeyPoint \/ KeyLen \/ KeyIc \/ KeyOuter \/ KeyInner \/ KeyCommitmentKeys
             \/ KeyEnd
  BY <1>1, <1>2, <1>3, <1>4
     DEF KeyPoint, KeyLen, KeyIc, KeyOuter, KeyInner, KeyCommitmentKeys, KeyEnd
<1>5. CASE ProofPoint \/ ProofCommitments \/ ProofPok \/ ProofEnd
  BY <1>1, <1>2, <1>3, <1>5 DEF ProofPoint, ProofCommitments, ProofPok, ProofEnd
<1>6. CASE WitnessPublic \/ WitnessSecret \/ WitnessLen \/ WitnessScalar \/ WitnessEnd
  BY <1>1, <1>3, <1>6
     DEF WitnessPublic, WitnessSecret, WitnessLen, WitnessScalar, WitnessEnd
<1>7. CASE FromBody
  BY <1>1, <1>7 DEF FromBody
<1>8. CASE UNCHANGED vars
  BY <1>8 DEF vars
<1> QED BY <1>4, <1>5, <1>6, <1>7, <1>8 DEF Next, Returned

(* Every parser stays on the track of the artifact that the file was written from. *)
LEMMA TrackInvariant == Spec => []OnTrack
<1>1. BoundInv /\ Init => OnTrack
  <2> SUFFICES ASSUME BoundInv, Init, Tracked PROVE pc # "done" /\ Common /\ Ahead
    BY DEF OnTrack
  <2>1. file.kind \in {"key", "proof", "witness"}
    BY FileAssumption DEF Init, Tracked
  <2>2. /\ pc = Entry[file.kind] /\ read = <<>> /\ counts = <<>>
        /\ Len(read) = 0 /\ Len(counts) = 0 /\ pos = 0
    BY DEF Init
  <2>3. /\ Entry["key"] = "key points" /\ Entry["proof"] = "proof points"
        /\ Entry["witness"] = "nb_public"
    BY DEF Entry
  <2>4. pc \in {"key points", "proof points", "nb_public"}
    BY <2>1, <2>2, <2>3
  <2>5. Ahead
    BY <2>2, <2>4 DEF Ahead
  <2>6. Common
    <3>1. Len(AllReads) \in Nat /\ Len(AllCounts) \in Nat /\ Offset(0) = 0
      BY ListsTyped, FileLaid
    <3>2. Len(read) + Len(counts) = 0
      BY <2>2
    <3>3. pos = Offset(Len(read) + Len(counts))
      BY <2>2, <3>1, <3>2
    <3> QED BY <2>2, <3>1, <3>3 DEF Common
  <2> QED BY <2>4, <2>5, <2>6
<1>2. BoundInv /\ ReadInv /\ Phase /\ OnTrack /\ [Next]_vars => OnTrack'
  <2> SUFFICES ASSUME BoundInv, ReadInv, Phase, OnTrack, [Next]_vars PROVE OnTrack'
    OBVIOUS
  <2>1. file' = file /\ Tracked' = Tracked
    BY FileConstant, FileStays
  <2>2. CASE ~Tracked
    BY <2>1, <2>2 DEF OnTrack
  <2>3. CASE Tracked /\ FromBody
    <3>1. file.kind = "body"
      BY <2>3, KindOf, StageSets DEF FromBody
    <3> QED BY <2>3, <3>1 DEF Tracked
  <2>4. CASE UNCHANGED vars
    <3>1. /\ UNCHANGED <<file, pos, pc, read, counts, left, result>>
      BY <2>4 DEF vars
    <3>2. Verdict(result)' = Verdict(result)
      BY <3>1 DEF Verdict, EndsEarly, Refused
    <3>3. Common' = Common
      BY <3>1, FileStays DEF Common, Offset
    <3>4. Ahead' = Ahead
      BY <3>1, FileStays DEF Ahead
    <3> QED BY <2>1, <3>1, <3>2, <3>3, <3>4 DEF OnTrack
  <2>5. CASE Tracked /\ (KeyPoint \/ KeyLen \/ KeyIc \/ KeyOuter \/ KeyInner
                           \/ KeyCommitmentKeys \/ KeyEnd)
    BY <2>5, KeyTracked
  <2>6. CASE Tracked /\ (ProofPoint \/ ProofCommitments \/ ProofPok \/ ProofEnd)
    BY <2>6, ProofTracked
  <2>7. CASE Tracked /\ (WitnessPublic \/ WitnessSecret \/ WitnessLen \/ WitnessScalar
                           \/ WitnessEnd)
    BY <2>7, WitnessTracked
  <2> QED BY <2>2, <2>3, <2>4, <2>5, <2>6, <2>7 DEF Next, Returned
<1> QED BY <1>1, <1>2, BoundInvariant, ReadInvariant, SpellingInvariant, PTL DEF Spec

(* A key that gnark holds is one that arkworks can hold. *)
LEMMA KeyHeld ==
    ASSUME NEW a, IsArtifact(a), a.kind = "key"
    PROVE  KeyOf(a) \in KeyElements /\ KeyOf(a).ic = a.ic /\ Len(a.ic) \in Nat
<1>1. PointsOfTypes(a.points, KeyPoints) /\ a.ic \in Seq(Point("G1"))
  BY DEF IsArtifact
<1>2. /\ a.points[1] \in Point("G1") /\ a.points[3] \in Point("G2")
      /\ a.points[4] \in Point("G2") /\ a.points[6] \in Point("G2")
  <2>1. DOMAIN KeyPoints = 1..6 /\ 6 \in Nat
    BY DEF KeyPoints
  <2>2. /\ KeyPoints[1] = "G1" /\ KeyPoints[3] = "G2"
        /\ KeyPoints[4] = "G2" /\ KeyPoints[6] = "G2"
    BY DEF KeyPoints
  <2>3. \A k \in 1..6 : a.points[k] \in Point(KeyPoints[k])
    BY <1>1, <2>1 DEF PointsOfTypes
  <2>4. 1 \in 1..6 /\ 3 \in 1..6 /\ 4 \in 1..6 /\ 6 \in 1..6
    OBVIOUS
  <2> QED BY <2>2, <2>3, <2>4
<1>3. Len(a.ic) \in Nat
  BY <1>1
<1> QED BY <1>1, <1>2, <1>3 DEF KeyOf, KeyElements

(* What its body has room for is converted. *)
LEMMA KeyRoom ==
    ASSUME NEW vk \in KeyElements
    PROVE  /\ Len(vk.ic) \in 1..MAX_PUBLIC_INPUTS + 1 =>
                OnChainKey_new(vk)
                  = Done(Joined(g1_to_bytes(vk.alpha), g2_to_bytes(neg("G2", vk.beta)),
                                g2_to_bytes(neg("G2", vk.gamma)),
                                g2_to_bytes(neg("G2", vk.delta)), IcBytes(vk.ic)))
           /\ Len(vk.ic) \notin 1..MAX_PUBLIC_INPUTS + 1 =>
                OnChainKey_new(vk).outcome \in {"Unsupported", "TooManyPublicInputs"}
<1>1. Len(vk.ic) \in Nat /\ MAX_PUBLIC_INPUTS \in Nat
  <2>1. vk.ic \in Seq(Point("G1"))
    BY DEF KeyElements
  <2> QED BY <2>1, LayoutAssumption
<1>2. CASE Len(vk.ic) \in 1..MAX_PUBLIC_INPUTS + 1
  <2>1. Len(vk.ic) # 0 /\ ~(Len(vk.ic) - 1 > MAX_PUBLIC_INPUTS)
    BY <1>1, <1>2
  <2> QED BY <1>2, <2>1 DEF OnChainKey_new, Joined
<1>3. CASE Len(vk.ic) \notin 1..MAX_PUBLIC_INPUTS + 1
  <2>1. Len(vk.ic) = 0 \/ Len(vk.ic) - 1 > MAX_PUBLIC_INPUTS
    BY <1>1, <1>3
  <2> QED BY <1>3, <2>1 DEF OnChainKey_new, Fail
<1> QED BY <1>2, <1>3

(* For every artifact that gnark can hold, every mixture of raw and compressed
   points, every curve and modulus: the bytes that a parser returns decode to exactly
   what gnark held, and what the format cannot express is refused. *)
THEOREM ConversionFaithful == Spec => []ConvertsFaithfully
<1>1. BoundInv /\ OnTrack => ConvertsFaithfully
  <2> DEFINE a == file.artifact
  <2> SUFFICES ASSUME BoundInv, OnTrack, pc = "done", file.damage = "none",
                      file.kind # "body"
               PROVE  IF Convertible(a) THEN result.outcome = Ok /\ Expected(a)
                      ELSE result.outcome \in {"Unsupported", "TooManyPublicInputs"}
    BY DEF ConvertsFaithfully, done
  <2>1. Tracked /\ Verdict(result)
    BY DEF Tracked, OnTrack
  <2>2. \/ result.outcome \in {"Unsupported", "TooManyPublicInputs"} /\ ~Convertible(a)
        \/ Plain(a) /\ result = Converted(a)
    BY <2>1 DEF Verdict, EndsEarly, Refused
  <2>3. IsArtifact(a) /\ a.kind \in {"key", "proof", "witness"}
    BY <2>1, FileLaid DEF IsArtifact
  <2> HIDE DEF a
  <2>4. CASE result.outcome \in {"Unsupported", "TooManyPublicInputs"} /\ ~Convertible(a)
    BY <2>4
  <2>5. CASE Plain(a) /\ result = Converted(a) /\ a.kind = "key"
    <3>1. /\ KeyOf(a) \in KeyElements /\ KeyOf(a).ic = a.ic
          /\ result = OnChainKey_new(KeyOf(a)) /\ a.commitments = 0
      BY <2>3, <2>5, KeyHeld DEF Converted, Plain
    <3>2. Convertible(a) <=> Len(a.ic) \in 1..MAX_PUBLIC_INPUTS + 1
      BY <2>5, <3>1 DEF Convertible
    <3>3. CASE Convertible(a)
      <4>1. result.outcome = Ok
        BY <3>1, <3>2, <3>3, KeyRoom DEF Done
      <4>2. decode_body(result.value) = Done(KeyOf(a))
        BY <3>1, <4>1, KeyDecoded
      <4> QED BY <2>5, <3>3, <4>1, <4>2 DEF Expected, OnChainKey_elements
    <3>4. CASE ~Convertible(a)
      BY <3>1, <3>2, <3>4, KeyRoom
    <3> QED BY <3>3, <3>4
  <2>6. CASE Plain(a) /\ result = Converted(a) /\ a.kind = "proof"
    <3> DEFINE x == a.points[1]
               y == a.points[2]
               z == a.points[3]
    <3>1. x \in Point("G1") /\ y \in Point("G2") /\ z \in Point("G1")
      <4>1. PointsOfTypes(a.points, ProofPoints)
        BY <2>3, <2>6 DEF IsArtifact
      <4> QED BY <4>1 DEF PointsOfTypes, ProofPoints
    <3>2. ProofOf(a) = [a |-> x, b |-> y, c |-> z]
      BY DEF ProofOf
    <3> HIDE DEF x, y, z
    <3>3. OnChainProof_elements(OnChainProof_new(ProofOf(a))) = Done(ProofOf(a))
      BY <3>1, <3>2, ProofDecoded
    <3>4. result = Done(OnChainProof_new(ProofOf(a)))
      BY <2>6 DEF Converted
    <3>5. result.outcome = Ok /\ result.value = OnChainProof_new(ProofOf(a))
      BY <3>4 DEF Done
    <3>6. Convertible(a)
      BY <2>6 DEF Convertible, Plain
    <3>7. Expected(a)
      BY <2>6, <3>3, <3>5 DEF Expected
    <3> QED BY <3>5, <3>6, <3>7
  <2>7. CASE Plain(a) /\ result = Converted(a) /\ a.kind = "witness"
    <3>1. result = Done(a.scalars) /\ Convertible(a)
      BY <2>7 DEF Converted, Convertible, Plain
    <3>2. result.outcome = Ok /\ result.value = a.scalars
      BY <3>1 DEF Done
    <3> QED BY <2>7, <3>1, <3>2 DEF Expected
  <2> QED BY <2>2, <2>3, <2>4, <2>5, <2>6, <2>7 DEF a
<1> QED BY <1>1, BoundInvariant, TrackInvariant, PTL

-----------------------------------------------------------------------------
(* What is left of a body. *)

(* A part of a prefix is a part of the whole. *)
LEMMA SlicePrefix ==
    ASSUME NEW S, NEW w \in Seq(S), NEW k \in 0..Len(w),
           NEW offset \in Nat, NEW size \in Nat, offset + size <= k
    PROVE  Slice(SubSeq(w, 1, k), offset, size) = Slice(w, offset, size)
<1> DEFINE v == SubSeq(w, 1, k)
           s == Slice(v, offset, size)
           t == Slice(w, offset, size)
<1>1. v \in Seq(S) /\ Len(v) = k /\ \A i \in 1..k : v[i] = w[i]
  OBVIOUS
<1>2. k \in Nat /\ Len(w) \in Nat /\ k <= Len(w)
  OBVIOUS
<1> HIDE DEF v
<1>3. /\ s \in Seq(S) /\ Len(s) = size
      /\ \A i \in 1..size : s[i] = v[offset + i]
  BY <1>1, <1>2, SliceCells, SMTT(30)
<1>4. /\ t \in Seq(S) /\ Len(t) = size
      /\ \A i \in 1..size : t[i] = w[offset + i]
  <2>1. offset + size <= Len(w)
    BY <1>2
  <2> QED BY <2>1, SliceCells
<1> HIDE DEF s, t
<1>5. \A i \in 1..size : s[i] = t[i]
  <2> SUFFICES ASSUME NEW i \in 1..size PROVE s[i] = t[i]
    OBVIOUS
  <2>1. offset + i \in 1..k
    BY <1>2
  <2> QED BY <1>1, <1>3, <1>4, <2>1
<1>6. s = t
  BY <1>3, <1>4, <1>5
<1> QED BY <1>6 DEF s, t, v

(* The bytes v are the body of the key that has the first inputs of vk. *)
FirstOf(v, vk) ==
    \E n \in 1..Len(vk.ic) - 1 :
        Elements(v) = FirstInputs(vk, n) /\ Done(v) = OnChainKey_new(FirstInputs(vk, n))

(* The key that a body holds, where the bytes of a longer one are cut: the same
   points, and the first of its inputs. *)
LEMMA CutBody ==
    ASSUME NEW vk \in KeyElements, Len(vk.ic) \in Nat, OnChainKey_new(vk).outcome = Ok,
           NEW w \in Seq(Byte), OnChainKey_new(vk).value = w,
           NEW k \in 0..Len(w) - 1,
           NEW v, v = SubSeq(w, 1, k), Decodes(v)
    PROVE  FirstOf(v, vk)
<1> DEFINE n == IcCount(v)
           L == IcCount(w)
<1>1. v \in Seq(Byte) /\ Len(v) = k /\ k \in Nat /\ k < Len(w) /\ k \in 0..Len(w)
  <2>1. Len(w) \in Nat
    OBVIOUS
  <2> QED BY <2>1
<1>2. Decodes(w) /\ vk = Elements(w)
  <2>1. decode_body(w) = Done(vk)
    BY KeyDecoded
  <2>2. Decodes(w)
    BY <2>1, DecodeBody DEF Done
  <2>3. Done(Elements(w)) = Done(vk)
    BY <2>1, <2>2, DecodeBody
  <2> QED BY <2>2, <2>3 DEF Done
<1>3. /\ n \in 1..MAX_PUBLIC_INPUTS + 1 /\ k = 28 + 4 * n
      /\ L \in 1..MAX_PUBLIC_INPUTS + 1 /\ Len(w) = 28 + 4 * L
      /\ MAX_PUBLIC_INPUTS \in Nat
  BY <1>1, <1>2, BodyLength, LayoutAssumption DEF Decodes
<1> HIDE DEF n, L
<1>4. n \in 1..L - 1 /\ L \in Nat /\ n \in Nat
  BY <1>1, <1>3
<1>5. ASSUME NEW o \in Nat, o + 4 <= k
      PROVE  G1At(v, o) = G1At(w, o)
  <2>1. Slice(v, o, 4) = Slice(w, o, 4)
    BY <1>1, <1>5, 4 \in Nat, SlicePrefix
  <2> QED BY <2>1, WireFacts DEF G1At
<1>6. ASSUME NEW o \in Nat, o + 8 <= k
      PROVE  G2At(v, o) = G2At(w, o)
  <2>1. Slice(v, o, 8) = Slice(w, o, 8)
    BY <1>1, <1>6, 8 \in Nat, SlicePrefix
  <2>2. G2_SIZE = 8
    BY DEF G2_SIZE, FQ_SIZE
  <2> QED BY <2>1, <2>2 DEF G2At
<1>7. /\ G1At(v, 0) = G1At(w, 0)
      /\ G2At(v, G1_SIZE) = G2At(w, G1_SIZE)
      /\ G2At(v, G1_SIZE + G2_SIZE) = G2At(w, G1_SIZE + G2_SIZE)
      /\ G2At(v, G1_SIZE + 2 * G2_SIZE) = G2At(w, G1_SIZE + 2 * G2_SIZE)
  <2>1. G2_SIZE = 8 /\ G1_SIZE = 4
    BY WireFacts DEF G2_SIZE, FQ_SIZE
  <2>2. G1_SIZE = 4 /\ G1_SIZE + G2_SIZE = 12 /\ G1_SIZE + 2 * G2_SIZE = 20
    BY <2>1
  <2>3. k >= 28
    BY <1>3, <1>4
  <2>4. G1At(v, 0) = G1At(w, 0)
    BY <1>1, <1>5, <2>3
  <2>5. G2At(v, 4) = G2At(w, 4) /\ G2At(v, 12) = G2At(w, 12) /\ G2At(v, 20) = G2At(w, 20)
    BY <1>1, <1>6, <2>3
  <2> QED BY <2>2, <2>4, <2>5
<1>8. ASSUME NEW i \in 1..n
      PROVE  IcAt(v, i) = IcAt(w, i)
  <2>1. /\ VK_FIXED_SIZE + (i - 1) * G1_SIZE = 28 + (i - 1) * 4
        /\ 28 + (i - 1) * 4 \in Nat /\ 28 + (i - 1) * 4 + 4 <= k
    BY <1>3, <1>4, WireFacts
  <2>2. G1At(v, 28 + (i - 1) * 4) = G1At(w, 28 + (i - 1) * 4)
    BY <1>5, <2>1
  <2> QED BY <2>1, <2>2 DEF IcAt
<1>9. vk.ic = [i \in 1..L |-> IcAt(w, i).value] /\ Len(vk.ic) = L
  <2>1. vk.ic = [i \in 1..L |-> IcAt(w, i).value]
    BY <1>2 DEF Elements, L
  <2> QED BY <1>4, <2>1
<1>10. Elements(v).ic = SubSeq(vk.ic, 1, n)
  <2> DEFINE first == [i \in 1..n |-> IcAt(v, i).value]
             all == [i \in 1..L |-> IcAt(w, i).value]
             S == {IcAt(w, i).value : i \in 1..L}
  <2>1. all \in Seq(S) /\ Len(all) = L /\ \A i \in 1..L : all[i] = IcAt(w, i).value
    BY <1>4
  <2>2. \A i \in 1..n : i \in 1..L /\ first[i] = IcAt(w, i).value
    BY <1>4, <1>8
  <2>3. DOMAIN first = 1..n
    OBVIOUS
  <2>4. first = [i \in 1..n |-> first[i]]
    OBVIOUS
  <2> HIDE DEF first, all, S
  <2>5. \A i \in 1..n : first[i] = all[i]
    BY <2>1, <2>2
  <2>6. SubSeq(all, 1, n) = [i \in 1..n |-> all[i]]
    BY <1>4, <2>1
  <2>7. first = SubSeq(all, 1, n)
    BY <2>4, <2>5, <2>6
  <2>8. Elements(v).ic = first
    BY DEF Elements, first, n
  <2> QED BY <1>9, <2>7, <2>8 DEF all
<1>11. Elements(v) = FirstInputs(vk, n)
  <2>1. vk = [alpha |-> vk.alpha, beta |-> vk.beta, gamma |-> vk.gamma,
              delta |-> vk.delta, ic |-> vk.ic]
    BY DEF KeyElements
  <2>2. FirstInputs(vk, n) = [alpha |-> vk.alpha, beta |-> vk.beta, gamma |-> vk.gamma,
                              delta |-> vk.delta, ic |-> SubSeq(vk.ic, 1, n)]
    <3>1. \A al, be, ga, de, ic, first :
            [[alpha |-> al, beta |-> be, gamma |-> ga, delta |-> de, ic |-> ic]
               EXCEPT !.ic = first]
              = [alpha |-> al, beta |-> be, gamma |-> ga, delta |-> de, ic |-> first]
      OBVIOUS
    <3> DEFINE first == SubSeq(vk.ic, 1, n)
    <3>2. FirstInputs(vk, n) = [vk EXCEPT !.ic = first]
      BY DEF FirstInputs
    <3> HIDE DEF first
    <3>3. [vk EXCEPT !.ic = first]
            = [alpha |-> vk.alpha, beta |-> vk.beta, gamma |-> vk.gamma,
               delta |-> vk.delta, ic |-> first]
      BY <2>1, <3>1
    <3> QED BY <3>2, <3>3 DEF first
  <2>3. /\ Elements(v).alpha = vk.alpha /\ Elements(v).beta = vk.beta
        /\ Elements(v).gamma = vk.gamma /\ Elements(v).delta = vk.delta
    BY <1>2, <1>7 DEF Elements
  <2>4. Elements(v) = [alpha |-> Elements(v).alpha, beta |-> Elements(v).beta,
                       gamma |-> Elements(v).gamma, delta |-> Elements(v).delta,
                       ic |-> Elements(v).ic]
    BY DEF Elements
  <2> QED BY <1>10, <2>2, <2>3, <2>4
<1>12. OnChainKey_new(Elements(v)) = Done(v)
  BY <1>1, KeyRebuilt
<1> QED BY <1>4, <1>9, <1>11, <1>12 DEF FirstOf

(* The cells of a body: its fixed part and four for every input. *)
LEMMA BodyWritten ==
    ASSUME NEW vk \in KeyElements, Len(vk.ic) \in Nat, OnChainKey_new(vk).outcome = Ok
    PROVE  /\ OnChainKey_new(vk).value \in Seq(Byte)
           /\ Len(OnChainKey_new(vk).value) = 28 + 4 * Len(vk.ic)
<1> DEFINE a == g1_to_bytes(vk.alpha)
           b == g2_to_bytes(neg("G2", vk.beta))
           c == g2_to_bytes(neg("G2", vk.gamma))
           d == g2_to_bytes(neg("G2", vk.delta))
           e == IcBytes(vk.ic)
<1>1. /\ vk.alpha \in Point("G1") /\ vk.beta \in Point("G2") /\ vk.gamma \in Point("G2")
      /\ vk.delta \in Point("G2") /\ vk.ic \in Seq(Point("G1"))
      /\ "G1" \in Group /\ "G2" \in Group
  BY DEF KeyElements, Group
<1>2. OnChainKey_new(vk) = Done(Joined(a, b, c, d, e))
  <2>1. Len(vk.ic) \in 1..MAX_PUBLIC_INPUTS + 1
    BY KeyRoom, LayoutAssumption DEF Ok
  <2> QED BY <2>1, KeyRoom
<1>3. a \in Seq(Byte) /\ Len(a) = 4
  BY <1>1, PointEncoded, WireFacts DEF g1_to_bytes
<1>4. ASSUME NEW p \in Point("G2")
      PROVE  g2_to_bytes(neg("G2", p)) \in Seq(Byte) /\ Len(g2_to_bytes(neg("G2", p))) = 8
  <2>1. neg("G2", p) \in Point("G2")
    BY <1>1, NegPoint
  <2> QED BY <1>1, <2>1, PointEncoded, WireFacts DEF g2_to_bytes
<1>5. /\ b \in Seq(Byte) /\ Len(b) = 8 /\ c \in Seq(Byte) /\ Len(c) = 8
      /\ d \in Seq(Byte) /\ Len(d) = 8
  BY <1>1, <1>4
<1>6. e \in Seq(Byte) /\ Len(e) = 4 * Len(vk.ic)
  BY <1>1, IcEncoded
<1> HIDE DEF a, b, c, d, e
<1>7. CutInto(Joined(a, b, c, d, e), a, b, c, d, e)
  BY <1>3, <1>5, <1>6, BodyParts
<1>8. /\ Joined(a, b, c, d, e) \in Seq(Byte)
      /\ Len(Joined(a, b, c, d, e)) = 28 + Len(e)
  BY <1>7 DEF CutInto
<1> QED BY <1>2, <1>6, <1>8 DEF Done

(* A body that decodes holds points of the groups, ... *)
LEMMA ElementsTyped ==
    ASSUME NEW body \in Seq(Byte), Decodes(body)
    PROVE  /\ Elements(body) \in KeyElements
           /\ Len(Elements(body).ic) \in 1..MAX_PUBLIC_INPUTS + 1
           /\ decode_body(body) = Done(Elements(body))
           /\ OnChainKey_from_body(body) = Done(body)
<1> DEFINE n == IcCount(body)
<1>1. /\ n \in 1..MAX_PUBLIC_INPUTS + 1 /\ Len(body) = 28 + 4 * n
      /\ n \in Nat /\ MAX_PUBLIC_INPUTS \in Nat
  BY BodyLength, LayoutAssumption DEF Decodes
<1>2. "G1" \in Group /\ "G2" \in Group /\ 4 \in Nat /\ 8 \in Nat
  BY DEF Group
<1>3. ASSUME NEW o \in Nat, o + 4 <= Len(body), G1At(body, o).outcome = Ok
      PROVE  G1At(body, o).value \in Point("G1")
  <2>1. Slice(body, o, 4) \in Seq(Byte) /\ Len(Slice(body, o, 4)) = 4
    BY <1>2, <1>3, SliceCells
  <2>2. G1At(body, o) = from_bytes("G1", Slice(body, o, 4))
    BY WireFacts DEF G1At, g1_from_bytes
  <2> QED BY <1>2, <1>3, <2>1, <2>2, PointDecoded, WireFacts
<1>4. ASSUME NEW o \in Nat, o + 8 <= Len(body), G2At(body, o).outcome = Ok
      PROVE  neg("G2", G2At(body, o).value) \in Point("G2")
  <2>1. Slice(body, o, 8) \in Seq(Byte) /\ Len(Slice(body, o, 8)) = 8
    BY <1>2, <1>4, SliceCells
  <2>2. G2At(body, o) = from_bytes("G2", Slice(body, o, 8))
    BY WireFacts DEF G2At, g2_from_bytes, G2_SIZE, FQ_SIZE
  <2> QED BY <1>2, <1>4, <2>1, <2>2, PointDecoded, NegPoint, WireFacts
<1>5. G1_SIZE = 4 /\ G1_SIZE + G2_SIZE = 12 /\ G1_SIZE + 2 * G2_SIZE = 20
  BY WireFacts DEF G2_SIZE, FQ_SIZE
<1>6. /\ Elements(body).alpha \in Point("G1") /\ Elements(body).beta \in Point("G2")
      /\ Elements(body).gamma \in Point("G2") /\ Elements(body).delta \in Point("G2")
  <2>1. /\ G1At(body, 0).outcome = Ok /\ G2At(body, 4).outcome = Ok
        /\ G2At(body, 12).outcome = Ok /\ G2At(body, 20).outcome = Ok
    BY <1>5 DEF Decodes
  <2>2. Len(body) >= 28
    BY <1>1
  <2>3. G1At(body, 0).value \in Point("G1")
    BY <1>3, <2>1, <2>2
  <2>4. /\ neg("G2", G2At(body, 4).value) \in Point("G2")
        /\ neg("G2", G2At(body, 12).value) \in Point("G2")
        /\ neg("G2", G2At(body, 20).value) \in Point("G2")
    BY <1>1, <1>4, <2>1, <2>2
  <2> QED BY <1>5, <2>3, <2>4 DEF Elements
<1>7. ASSUME NEW i \in 1..n
      PROVE  IcAt(body, i).value \in Point("G1")
  <2>1. /\ VK_FIXED_SIZE + (i - 1) * G1_SIZE = 28 + (i - 1) * 4
        /\ 28 + (i - 1) * 4 \in Nat /\ 28 + (i - 1) * 4 + 4 <= Len(body)
    BY <1>1, WireFacts
  <2>2. G1At(body, 28 + (i - 1) * 4).outcome = Ok
    BY <2>1 DEF Decodes, IcAt
  <2>3. G1At(body, 28 + (i - 1) * 4).value \in Point("G1")
    BY <1>3, <2>1, <2>2
  <2> QED BY <2>1, <2>3 DEF IcAt
<1>8. Elements(body).ic \in Seq(Point("G1")) /\ Len(Elements(body).ic) = n
  <2> DEFINE ic == [i \in 1..n |-> IcAt(body, i).value]
  <2>1. Elements(body).ic = ic
    BY DEF Elements
  <2> HIDE DEF n
  <2>2. ic \in Seq(Point("G1")) /\ Len(ic) = n
    BY <1>1, <1>7
  <2> QED BY <2>1, <2>2
<1>9. Elements(body) \in KeyElements
  BY <1>6, <1>8 DEF Elements, KeyElements
<1>10. decode_body(body) = Done(Elements(body))
  BY DecodeBody
<1>11. OnChainKey_from_body(body) = Done(body)
  <2>1. OnChainKey_from_body(body) = OnChainKey_new(Elements(body))
    BY <1>10 DEF OnChainKey_from_body, Then, Done
  <2> QED BY <2>1, KeyRebuilt
<1> HIDE DEF n
<1> QED BY <1>1, <1>8, <1>9, <1>10, <1>11

(* ... and the body of a key decodes to that key. *)
LEMMA BodyOfKey ==
    ASSUME NEW body \in Seq(Byte), NEW vk \in KeyElements,
           OnChainKey_new(vk) = Done(body)
    PROVE  Decodes(body) /\ Elements(body) = vk
<1>1. decode_body(body) = Done(vk)
  <2>1. OnChainKey_new(vk).outcome = Ok /\ OnChainKey_new(vk).value = body
    BY DEF Done
  <2> QED BY <2>1, KeyDecoded
<1>2. Decodes(body)
  BY <1>1, DecodeBody DEF Done
<1>3. Done(Elements(body)) = Done(vk)
  BY <1>1, <1>2, DecodeBody
<1> QED BY <1>2, <1>3 DEF Done

(* Another list of IC points in a key. *)
LEMMA WithInputs ==
    ASSUME NEW vk \in KeyElements, NEW list \in Seq(Point("G1"))
    PROVE  /\ [vk EXCEPT !.ic = list] \in KeyElements
           /\ [vk EXCEPT !.ic = list].ic = list
<1>1. /\ vk.alpha \in Point("G1") /\ vk.beta \in Point("G2")
      /\ vk.gamma \in Point("G2") /\ vk.delta \in Point("G2")
      /\ vk = [alpha |-> vk.alpha, beta |-> vk.beta, gamma |-> vk.gamma,
               delta |-> vk.delta, ic |-> vk.ic]
  BY DEF KeyElements
<1>2. [vk EXCEPT !.ic = list] = [alpha |-> vk.alpha, beta |-> vk.beta, gamma |-> vk.gamma,
                                 delta |-> vk.delta, ic |-> list]
  <2>1. \A al, be, ga, de, ic, other :
          [[alpha |-> al, beta |-> be, gamma |-> ga, delta |-> de, ic |-> ic]
             EXCEPT !.ic = other]
            = [alpha |-> al, beta |-> be, gamma |-> ga, delta |-> de, ic |-> other]
    OBVIOUS
  <2> QED BY <1>1, <2>1
<1> QED BY <1>1, <1>2 DEF KeyElements

(* What from_body answered is what was returned, errors included. *)
BodyRead == file.kind = "body" /\ pc = "done" => result = OnChainKey_from_body(file.bytes)

LEMMA BodyReadInvariant == Spec => []BodyRead
<1>1. Init => BodyRead
  <2>1. Init => file.kind \in {"key", "proof", "witness", "body"} /\ pc = Entry[file.kind]
    BY FileAssumption DEF Init
  <2> QED BY <2>1 DEF BodyRead, Entry
<1>2. ReadInv /\ BodyRead /\ [Next]_vars => BodyRead'
  <2> SUFFICES ASSUME ReadInv, BodyRead, [Next]_vars, file'.kind = "body", pc' = "done"
               PROVE  result' = OnChainKey_from_body(file'.bytes)
    BY DEF BodyRead
  <2>1. CASE FromBody
    BY <2>1 DEF FromBody, Return
  <2>2. CASE UNCHANGED vars
    BY <2>2 DEF vars, BodyRead
  <2>3. CASE Returned
    BY <2>3 DEF Returned, vars, BodyRead
  <2>4. CASE Next /\ ~FromBody /\ ~Returned
    <3>1. file' = file
      BY <2>4, Zenon DEF Next, KeyPoint, KeyLen, KeyIc, KeyOuter, KeyInner, KeyCommitmentKeys,
         KeyEnd, ProofPoint, ProofCommitments, ProofPok, ProofEnd, WitnessPublic,
         WitnessSecret, WitnessLen, WitnessScalar, WitnessEnd, PointRead, CountRead, Return
    <3>2. pc \in {"body", "done"}
      BY <3>1, StageSets, Zenon DEF ReadInv
    <3> QED BY <2>4, <3>2, Zenon DEF Next, KeyPoint, KeyLen, KeyIc, KeyOuter, KeyInner,
         KeyCommitmentKeys, KeyEnd, ProofPoint, ProofCommitments, ProofPok, ProofEnd,
         WitnessPublic, WitnessSecret, WitnessLen, WitnessScalar, WitnessEnd
  <2> QED BY <2>1, <2>2, <2>3, <2>4
<1> QED BY <1>1, <1>2, ReadInvariant, PTL DEF Spec

(* The key of a body that goes on where the body of vk ends: vk with more inputs. *)
LEMMA LongerBody ==
    ASSUME NEW vk \in KeyElements, NEW w \in Seq(Byte), OnChainKey_new(vk) = Done(w),
           NEW v \in Seq(Byte), Decodes(v), IsStrictPrefix(w, v)
    PROVE  Elements(v) \in Longer(vk)
<1> DEFINE uk == Elements(v)
           L == Len(uk.ic)
<1>1. /\ uk \in KeyElements /\ L \in 1..MAX_PUBLIC_INPUTS + 1
      /\ OnChainKey_new(uk) = Done(v) /\ MAX_PUBLIC_INPUTS \in Nat
  BY ElementsTyped, KeyRebuilt, LayoutAssumption
<1>2. Decodes(w) /\ Elements(w) = vk
  BY BodyOfKey
<1>3. /\ Len(w) \in 0..Len(v) - 1 /\ w = SubSeq(v, 1, Len(w))
  BY StrictPrefix
<1> HIDE DEF uk
<1>4. PICK n \in 1..L - 1 : vk = FirstInputs(uk, n)
  <2>1. OnChainKey_new(uk).outcome = Ok /\ OnChainKey_new(uk).value = v /\ Len(uk.ic) \in Nat
    BY <1>1 DEF Done
  <2>2. FirstOf(w, uk)
    BY <1>1, <1>2, <1>3, <2>1, CutBody
  <2> QED BY <1>2, <2>2 DEF FirstOf
<1> DEFINE ic == uk.ic
           first == SubSeq(ic, 1, n)
           points == SubSeq(ic, n + 1, L)
<1>5. ic \in Seq(Point("G1")) /\ n \in Nat /\ L \in Nat /\ n < L /\ L = Len(ic)
  BY <1>1, <1>4 DEF KeyElements
<1>6. /\ first \in Seq(Point("G1")) /\ Len(first) = n
      /\ points \in Seq(Point("G1")) /\ Len(points) = L - n
  BY <1>5, SubSeqProperties
<1>7. first \o points = ic
  <2>1. first \o points = SubSeq(ic, 1, L)
    <3>1. SubSeq(ic, 0 + 1, n) \o SubSeq(ic, n + 1, L) = SubSeq(ic, 0 + 1, L)
      BY <1>5, 0 \in Nat, Rejoined
    <3> QED BY <3>1
  <2>2. SubSeq(ic, 1, L) = ic
    BY <1>5, SubSeqProperties, SeqEqual
  <2> QED BY <2>1, <2>2
<1> HIDE DEF ic, first, points
<1>8. vk.ic = first /\ vk = [uk EXCEPT !.ic = first]
  <2>1. vk = [uk EXCEPT !.ic = first]
    BY <1>4 DEF FirstInputs, first, ic
  <2> QED BY <1>1, <1>6, <2>1, WithInputs
<1>9. uk = MoreInputs(vk, points)
  <2>1. MoreInputs(vk, points) = [vk EXCEPT !.ic = ic]
    BY <1>7, <1>8 DEF MoreInputs
  <2>2. [vk EXCEPT !.ic = ic] = uk
    BY <1>1, <1>8 DEF KeyElements, ic
  <2> QED BY <2>1, <2>2
<1>10. points \in [1..L - n -> Point("G1")] /\ L - n \in 1..MAX_PUBLIC_INPUTS + 1 - Len(vk.ic)
  BY <1>1, <1>4, <1>5, <1>6, <1>8
<1> QED BY <1>9, <1>10 DEF Longer, uk

(* A body file, cut or extended, converts exactly where it is the body of the key
   with fewer or with more inputs. *)
LEMMA BodyLengths ==
    ASSUME BoundInv, BodyRead, pc = "done", file.kind = "body", Convertible(file.artifact),
           NEW key, key = KeyOf(file.artifact)
    PROVE  /\ file.damage = "cut" => (result.outcome = Ok <=> BodyAmong(Shorter(key)))
           /\ file.damage = "tail" => (result.outcome = Ok <=> BodyAmong(Longer(key)))
<1> DEFINE art == file.artifact
           v == file.bytes
           w == OnChainKey_new(key).value
<1>1. file \in File /\ v \in Seq(Byte)
  BY FileTyped DEF BoundInv, Byte
<1>2. IsArtifact(art) /\ art.kind = "key"
  BY <1>1, HistoryAssumption
<1>3. Undamaged(file) = w
  BY DEF Undamaged, BodyOf
<1>4. /\ file.damage = "cut" => \E k \in 0..Len(w) - 1 : v = SubSeq(w, 1, k)
      /\ file.damage = "tail" => IsStrictPrefix(w, v)
  <2> HIDE DEF w
  <2> QED BY <1>1, <1>3, HistoryAssumption
<1>5. result = OnChainKey_from_body(v)
  BY DEF BodyRead
<1> HIDE DEF art
<1>6. key \in KeyElements /\ key.ic = art.ic /\ Len(key.ic) \in Nat
  BY <1>2, KeyHeld DEF art
<1>7. Len(key.ic) \in 1..MAX_PUBLIC_INPUTS + 1 /\ OnChainKey_new(key) = Done(w)
  <2>1. Len(art.ic) \in 1..MAX_PUBLIC_INPUTS + 1
    BY <1>2 DEF Convertible, art
  <2> QED BY <1>6, <2>1, KeyRoom DEF Done
<1>8. w \in Seq(Byte)
  BY <1>6, <1>7, BodyWritten DEF Done
<1> HIDE DEF w
<1>9. result.outcome = Ok <=> Decodes(v)
  <2>1. ASSUME result.outcome = Ok PROVE Decodes(v)
    <3>1. decode_body(v).outcome = Ok
      BY <1>5, <2>1 DEF OnChainKey_from_body, Then
    <3> QED BY <1>1, <3>1, DecodeBody
  <2>2. ASSUME Decodes(v) PROVE result.outcome = Ok
    BY <1>1, <1>5, <2>2, ElementsTyped DEF Done
  <2> QED BY <2>1, <2>2
<1>10. ASSUME NEW other \in KeyElements, OnChainKey_new(other) = Done(v)
       PROVE  Decodes(v)
  BY <1>1, <1>10, BodyOfKey
<1>11. ASSUME file.damage = "cut"
       PROVE  Decodes(v) <=> BodyAmong(Shorter(key))
  <2>1. ASSUME Decodes(v) PROVE BodyAmong(Shorter(key))
    <3>1. PICK k \in 0..Len(w) - 1 : v = SubSeq(w, 1, k)
      BY <1>4, <1>11
    <3>2. OnChainKey_new(key).outcome = Ok /\ OnChainKey_new(key).value = w
      BY <1>7 DEF Done
    <3>3. FirstOf(v, key)
      BY <1>6, <1>8, <2>1, <3>1, <3>2, CutBody
    <3> QED BY <3>3 DEF FirstOf, BodyAmong, Shorter
  <2>2. ASSUME BodyAmong(Shorter(key)) PROVE Decodes(v)
    <3>1. PICK n \in 1..Len(key.ic) - 1 : OnChainKey_new(FirstInputs(key, n)) = Done(v)
      BY <2>2 DEF BodyAmong, Shorter
    <3>2. SubSeq(key.ic, 1, n) \in Seq(Point("G1"))
      BY <1>6, SubSeqProperties DEF KeyElements
    <3>3. FirstInputs(key, n) \in KeyElements
      BY <1>6, <3>2, WithInputs DEF FirstInputs
    <3> QED BY <1>10, <3>1, <3>3
  <2> QED BY <2>1, <2>2
<1>12. ASSUME file.damage = "tail"
       PROVE  Decodes(v) <=> BodyAmong(Longer(key))
  <2>1. ASSUME Decodes(v) PROVE BodyAmong(Longer(key))
    <3>1. Elements(v) \in Longer(key)
      BY <1>1, <1>4, <1>6, <1>7, <1>8, <1>12, <2>1, LongerBody
    <3>2. OnChainKey_new(Elements(v)) = Done(v)
      BY <1>1, <2>1, KeyRebuilt
    <3> QED BY <3>1, <3>2 DEF BodyAmong
  <2>2. ASSUME BodyAmong(Longer(key)) PROVE Decodes(v)
    <3> DEFINE room == MAX_PUBLIC_INPUTS + 1 - Len(key.ic)
    <3>0. PICK n \in 1..room :
            \E points \in [1..n -> Point("G1")] :
                OnChainKey_new(MoreInputs(key, points)) = Done(v)
      BY <2>2 DEF BodyAmong, Longer
    <3>1. PICK points \in [1..n -> Point("G1")] :
            OnChainKey_new(MoreInputs(key, points)) = Done(v)
      BY <3>0
    <3>2. n \in Nat /\ points \in Seq(Point("G1"))
      BY <1>7, LayoutAssumption
    <3>3. key.ic \o points \in Seq(Point("G1"))
      BY <1>6, <3>2, ConcatProperties DEF KeyElements
    <3>4. MoreInputs(key, points) \in KeyElements
      BY <1>6, <3>3, WithInputs DEF MoreInputs
    <3> QED BY <1>10, <3>1, <3>4
  <2> QED BY <2>1, <2>2
<1> QED BY <1>9, <1>11, <1>12

(* For every file of every key, proof and witness: no proper prefix of one converts
   and nothing may follow it; a body that was cut or extended converts exactly where
   it is the body of the key with fewer or with more IC points. *)
THEOREM LengthsChecked == Spec => []LengthErrorsFound
<1>1. BoundInv /\ BodyRead /\ OnTrack => LengthErrorsFound
  <2> SUFFICES ASSUME BoundInv, BodyRead, OnTrack, pc = "done",
                      Convertible(file.artifact)
               PROVE  LengthErrorsFound
    BY DEF LengthErrorsFound, done
  <2>1. CASE file.kind = "body"
    BY <2>1, BodyLengths DEF LengthErrorsFound
  <2>2. CASE file.kind # "body" /\ file.damage \in {"cut", "tail"}
    <3>1. Verdict(result)
      BY <2>2 DEF OnTrack, Tracked
    <3>2. /\ file.damage = "cut" => result.outcome = "UnexpectedEof"
          /\ file.damage = "tail" => result.outcome = "TrailingBytes"
      BY <2>2, <3>1 DEF Verdict, EndsEarly, Refused
    <3> QED BY <2>2, <3>2 DEF LengthErrorsFound
  <2>3. CASE file.kind # "body" /\ file.damage \notin {"cut", "tail"}
    BY <2>3 DEF LengthErrorsFound
  <2> QED BY <2>1, <2>2, <2>3
<1> QED BY <1>1, BoundInvariant, BodyReadInvariant, TrackInvariant, PTL
=============================================================================
