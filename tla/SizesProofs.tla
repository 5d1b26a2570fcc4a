---------------------------- MODULE SizesProofs ----------------------------
(***************************************************************************)
(* Theorems about Sizes: the number of inputs inferred from the length of  *)
(* a body is the only one an account header can have, for every size of a  *)
(* point and every limit.                                                  *)
(***************************************************************************)
EXTENDS Sizes, TLAPS

(* The state between steps: n is what from_body made of the bytes held. *)
ReadInv ==
    /\ size \in Nat
    /\ n = -1 \/ (from_body(Body) = Ok /\ n = InferredInputs(Body))

(* The body read has the length asked for. *)
LEMMA BodyLength == size \in Nat => Len(Body) = size
BY DEF Body

(* What leaves no rest is a whole number of points ... *)
LEMMA WholePoints ==
    ASSUME NEW ic \in Nat, ic % G1_SIZE = 0
    PROVE  ic = G1_SIZE * (ic \div G1_SIZE) /\ ic \div G1_SIZE \in Nat
BY LayoutAssumption

(* ... any number of points leaves none ... *)
LEMMA PointsDivide ==
    ASSUME NEW k \in Nat
    PROVE  (G1_SIZE * k) % G1_SIZE = 0 /\ (G1_SIZE * k) \div G1_SIZE = k
BY LayoutAssumption

(* ... and other numbers of points take other lengths. *)
LEMMA PointsDistinct ==
    ASSUME NEW j \in Nat, NEW k \in Nat, G1_SIZE * j = G1_SIZE * k
    PROVE  j = k
BY LayoutAssumption

-----------------------------------------------------------------------------
(* from_body_with_len accepts the one length that its m asks for. *)
LEMMA AcceptedWithLen ==
    ASSUME size \in Nat, NEW m \in Nat
    PROVE  from_body_with_len(Body, m) = Ok <=>
             m <= MAX_PUBLIC_INPUTS /\ size = VK_FIXED_SIZE + G1_SIZE * (m + 1)
BY BodyLength DEF from_body_with_len, vk_body_len, Ensure, ??, Ok

(* from_body accepts what the inferred n explains. *)
LEMMA Accepted ==
    ASSUME size \in Nat
    PROVE  from_body(Body) = Ok <=>
             /\ size - VK_FIXED_SIZE >= 0
             /\ (size - VK_FIXED_SIZE) % G1_SIZE = 0
             /\ (size - VK_FIXED_SIZE) \div G1_SIZE >= 1
             /\ (size - VK_FIXED_SIZE) \div G1_SIZE - 1 <= MAX_PUBLIC_INPUTS
BY BodyLength DEF from_body, InferredInputs, Ensure, ??, Ok

(* A body that from_body accepts has the length of its inferred n ... *)
LEMMA InferredIsAccepted ==
    ASSUME size \in Nat, from_body(Body) = Ok
    PROVE  /\ InferredInputs(Body) \in 0..MAX_PUBLIC_INPUTS
           /\ from_body_with_len(Body, InferredInputs(Body)) = Ok
<1> DEFINE ic == size - VK_FIXED_SIZE
           k == ic \div G1_SIZE
<1>1. /\ ic \in Nat /\ ic % G1_SIZE = 0 /\ k >= 1
      /\ k - 1 <= MAX_PUBLIC_INPUTS
  BY Accepted, LayoutAssumption
<1>2. ic = G1_SIZE * k /\ k \in Nat
  <2> HIDE DEF ic
  <2> QED BY <1>1, WholePoints
<1>3. InferredInputs(Body) = k - 1
  BY BodyLength DEF InferredInputs
<1>4. k - 1 \in Nat /\ size = VK_FIXED_SIZE + G1_SIZE * ((k - 1) + 1)
  <2>1. (k - 1) + 1 = k /\ k - 1 \in Nat
    <3> HIDE DEF k
    <3> QED BY <1>1, <1>2
  <2>2. size = VK_FIXED_SIZE + ic
    BY LayoutAssumption
  <2> QED BY <1>2, <2>1, <2>2
<1>5. from_body_with_len(Body, k - 1) = Ok
  <2> HIDE DEF k
  <2> QED BY <1>1, <1>4, AcceptedWithLen
<1> HIDE DEF k
<1> QED BY <1>1, <1>3, <1>4, <1>5, LayoutAssumption

(* ... and a body of the length of some n is accepted, and that n inferred. *)
LEMMA AcceptedIsInferred ==
    ASSUME size \in Nat, NEW m \in Nat, from_body_with_len(Body, m) = Ok
    PROVE  from_body(Body) = Ok /\ InferredInputs(Body) = m
<1>1. m <= MAX_PUBLIC_INPUTS /\ size = VK_FIXED_SIZE + G1_SIZE * (m + 1)
  BY AcceptedWithLen
<1>2. size - VK_FIXED_SIZE = G1_SIZE * (m + 1) /\ G1_SIZE * (m + 1) \in Nat
  <2>1. G1_SIZE * (m + 1) \in Nat
    BY LayoutAssumption
  <2> QED BY <1>1, <2>1, LayoutAssumption
<1>3. /\ (size - VK_FIXED_SIZE) % G1_SIZE = 0
      /\ (size - VK_FIXED_SIZE) \div G1_SIZE = m + 1
  BY <1>2, PointsDivide, m + 1 \in Nat
<1>4. from_body(Body) = Ok
  BY <1>1, <1>2, <1>3, Accepted, LayoutAssumption
<1>5. InferredInputs(Body) = m
  BY <1>3, BodyLength DEF InferredInputs
<1> QED BY <1>4, <1>5

-----------------------------------------------------------------------------
(* What n is recorded is the one read from the bytes held. *)
LEMMA ReadInvariant == Spec => []ReadInv
<1>1. Init => ReadInv
  BY SizesAssumption DEF Init, ReadInv
<1>2. ReadInv /\ [Next]_vars => ReadInv'
  <2> SUFFICES ASSUME ReadInv, [Next]_vars PROVE ReadInv'
    OBVIOUS
  <2>1. CASE Hold
    BY <2>1, SizesAssumption DEF Hold, ReadInv
  <2>2. CASE Read
    BY <2>2 DEF Read, ReadInv, Body
  <2>3. CASE UNCHANGED vars
    BY <2>3 DEF vars, ReadInv, Body
  <2> QED BY <2>1, <2>2, <2>3 DEF Next
<1> QED BY <1>1, <1>2, PTL DEF Spec

(* For every size of a point, every header and every limit: the n that from_body
   infers is the one n that an account header can state for that body, and what
   it rejects fits no n. *)
THEOREM LengthInference == Spec => []LengthFixesInputs
<1>1. ReadInv => LengthFixesInputs
  <2> SUFFICES ASSUME ReadInv PROVE LengthFixesInputs
    OBVIOUS
  <2> DEFINE accepted == {m \in 0..MAX_PUBLIC_INPUTS + 1 :
                            from_body_with_len(Body, m) = Ok}
  <2>1. size \in Nat
    BY DEF ReadInv
  <2>2. \A m \in accepted : from_body(Body) = Ok /\ InferredInputs(Body) = m
    BY <2>1, AcceptedIsInferred, LayoutAssumption
  <2>3. ASSUME n # -1 PROVE accepted = {n}
    <3>1. from_body(Body) = Ok /\ n = InferredInputs(Body)
      BY <2>3 DEF ReadInv
    <3>2. n \in accepted
      BY <2>1, <3>1, InferredIsAccepted, LayoutAssumption
    <3> HIDE DEF accepted
    <3> QED BY <2>2, <3>1, <3>2
  <2>4. ASSUME from_body(Body) # Ok PROVE accepted = {}
    <3> HIDE DEF accepted
    <3> QED BY <2>2, <2>4
  <2> QED BY <2>3, <2>4 DEF LengthFixesInputs
<1> QED BY <1>1, ReadInvariant, PTL

-----------------------------------------------------------------------------
(* The limit on n is the largest for which a key account fits one allocation. *)
LimitFillsAllocation ==
    /\ KEY_HEADER_BYTES + VK_FIXED_SIZE + G1_SIZE * (MAX_PUBLIC_INPUTS + 1)
         <= MAX_PERMITTED_DATA_INCREASE
    /\ MAX_PERMITTED_DATA_INCREASE
         < KEY_HEADER_BYTES + VK_FIXED_SIZE + G1_SIZE * (MAX_PUBLIC_INPUTS + 2)

(* It is so for the constants of verifying_key.rs. *)
LEMMA CodeLimit ==
    ASSUME VK_FIXED_SIZE = 448, G1_SIZE = 64, MAX_PUBLIC_INPUTS = 151
    PROVE  LimitFillsAllocation
BY DEF LimitFillsAllocation, KEY_HEADER_BYTES, MAX_PERMITTED_DATA_INCREASE

(* More points take more bytes. *)
LEMMA PointsMonotone ==
    ASSUME NEW j \in Nat, NEW k \in Nat, j <= k
    PROVE  G1_SIZE * j \in Nat /\ G1_SIZE * k \in Nat /\ G1_SIZE * j <= G1_SIZE * k
BY LayoutAssumption

(* With such a limit, bytes that divide into points are read if and only if
   Publish can create the account for them, whatever their length: neither a
   key that could be stored is refused, nor one read that could not. *)
THEOREM LimitTight ==
    ASSUME LimitFillsAllocation
    PROVE  Spec => []LimitIsTight
<1>1. ReadInv => LimitIsTight
  <2> DEFINE points == (size - VK_FIXED_SIZE) \div G1_SIZE
             top == MAX_PUBLIC_INPUTS + 1
  <2> SUFFICES ASSUME size \in Nat, size = VK_FIXED_SIZE + points * G1_SIZE, points >= 1
               PROVE  from_body(Body) = Ok
                        <=> KEY_HEADER_BYTES + size <= MAX_PERMITTED_DATA_INCREASE
    BY DEF ReadInv, LimitIsTight
  <2>1. points \in Nat /\ top \in Nat
    BY LayoutAssumption
  <2>2. size - VK_FIXED_SIZE = G1_SIZE * points /\ G1_SIZE * points \in Nat
    <3> HIDE DEF points
    <3> QED
      BY <2>1, LayoutAssumption
  <2>3. (size - VK_FIXED_SIZE) % G1_SIZE = 0
    <3> HIDE DEF points
    <3> QED
      BY <2>1, <2>2, PointsDivide
  <2>4. from_body(Body) = Ok <=> points <= top
    <3>1. from_body(Body) = Ok <=> points - 1 <= MAX_PUBLIC_INPUTS
      BY <2>2, <2>3, Accepted
    <3> HIDE DEF points
    <3> QED
      BY <2>1, <3>1, LayoutAssumption
  <2>5. KEY_HEADER_BYTES + size <= MAX_PERMITTED_DATA_INCREASE <=> points <= top
    <3> DEFINE room == MAX_PERMITTED_DATA_INCREASE - KEY_HEADER_BYTES - VK_FIXED_SIZE
    <3>1. room \in Int /\ G1_SIZE * top <= room /\ room < G1_SIZE * (top + 1)
      BY LayoutAssumption DEF LimitFillsAllocation, KEY_HEADER_BYTES,
         MAX_PERMITTED_DATA_INCREASE
    <3>2. KEY_HEADER_BYTES + size <= MAX_PERMITTED_DATA_INCREASE
            <=> G1_SIZE * points <= room
      <4> HIDE DEF points
      <4> QED
        BY <2>1, <2>2, LayoutAssumption DEF KEY_HEADER_BYTES, MAX_PERMITTED_DATA_INCREASE
    <3> HIDE DEF points, room, top
    <3>3. CASE points <= top
      BY <2>1, <3>1, <3>2, <3>3, PointsMonotone
    <3>4. CASE ~(points <= top)
      <4>1. top + 1 \in Nat /\ top + 1 <= points
        BY <2>1, <3>4
      <4>2. G1_SIZE * (top + 1) <= G1_SIZE * points /\ G1_SIZE * (top + 1) \in Nat
        BY <2>1, <4>1, PointsMonotone
      <4> QED
        BY <2>2, <3>1, <3>2, <3>4, <4>2
    <3> QED
      BY <3>3, <3>4
  <2> QED
    BY <2>4, <2>5
<1> QED
  BY <1>1, ReadInvariant, PTL
=============================================================================
