--------------------------- MODULE VerifierProofs ---------------------------
(***************************************************************************)
(* Theorems about Verifier, for every key, every proof and every number of *)
(* inputs, from the group laws of CurveAssumption.                         *)
(***************************************************************************)
EXTENDS Verifier, FiniteSetTheorems, TLAPS

(* On a validated key, with a point in the accumulator, the pairing decodes
   exactly when the proof does. *)
LEMMA PairingDecodes ==
    ASSUME WellFormedKey(body, n), acc \in G1
    PROVE  Decodes(assemble_pairing_input) <=>
             proof[1] \in G1 /\ proof[2] \in G2 /\ proof[3] \in G1
<1> DEFINE a == proof[1]
           b == proof[2]
           c == proof[3]
           x == alpha(body)
           y == neg_beta(body)
           z == neg_gamma(body)
           w == neg_delta(body)
           input == <<a, b, x, y, acc, z, c, w>>
<1>1. assemble_pairing_input = input
  BY DEF assemble_pairing_input
<1>2. x \in G1 /\ y \in G2 /\ z \in G2 /\ w \in G2
  BY DEF WellFormedKey, PointsDecode
<1> HIDE DEF a, b, c, x, y, z, w
<1>3. /\ Len(input) = 8
      /\ input[1] = a /\ input[2] = b /\ input[3] = x /\ input[4] = y
      /\ input[5] = acc /\ input[6] = z /\ input[7] = c /\ input[8] = w
  OBVIOUS
<1> HIDE DEF input
<1>4. \A j \in 1..8 : j \in {1, 2, 3, 4, 5, 6, 7, 8}
  OBVIOUS
<1>5. Decodes(input) <=>
        /\ input[1] \in G1 /\ input[2] \in G2 /\ input[3] \in G1 /\ input[4] \in G2
        /\ input[5] \in G1 /\ input[6] \in G2 /\ input[7] \in G1 /\ input[8] \in G2
  BY <1>3, <1>4 DEF Decodes
<1> QED
  BY <1>1, <1>2, <1>3, <1>5 DEF a, b, c

(* The IC points of a validated key are points, and None is not. *)
LEMMA TablePoints ==
    ASSUME TypeOK
    PROVE  /\ n \in Nat
           /\ \A j \in 0..n : ic(body, j) \in G1
           /\ None \notin G1
           /\ \A j \in 1..Len(inputs) : inputs[j] \in Block
<1>1. n \in Nat
  BY DEF TypeOK, IsBody
<1>2. \A j \in 0..n : ic(body, j) \in G1
  BY DEF TypeOK, WellFormedKey, PointsDecode
<1>3. None \notin G1
  BY CurveAssumption, VerifierAssumption
<1>4. \A j \in 1..Len(inputs) : inputs[j] \in Block
  <2>1. inputs \in Seq(Block)
    BY DEF TypeOK
  <2> QED
    BY <2>1
<1> QED
  BY <1>1, <1>2, <1>3, <1>4

(* The invariant holds at the start. *)
LEMMA InitVerify ==
    ASSUME Init
    PROVE  VerifyInv
BY VerifierAssumption DEF Init, VerifyInv, TypeOK, IsBody, Ok,
   ChecksBeforeSyscalls, InvalidPointMeansProof

(* Adding a point to the accumulator succeeds. *)
LEMMA AccumulateOk ==
    ASSUME acc \in G1, NEW term \in G1, Accumulate(term)
    PROVE  acc' = Plus(acc, term) /\ acc' \in G1 /\ i' = i + 1 /\ UNCHANGED <<pc, outcome>>
BY CurveAssumption DEF Accumulate, g1_add, group_op, Ensure, Goto

(* What each statement of the MSM does to the accumulator. *)
LEMMA MsmStep ==
    ASSUME VerifyInv, SkipTerm \/ AddPoint \/ MulAddPoint
    PROVE  /\ pc = "msm" /\ i <= n /\ i' = i + 1
           /\ UNCHANGED <<arguments, pc, outcome>>
           /\ acc' \in G1 /\ acc' = Plus(acc, Times(inputs[i], ic(body, i)))
           /\ calls' \in [add : Nat, mul : Nat]
<1>1. pc = "msm" /\ i <= n /\ i \in Nat \ {0}
  BY DEF SkipTerm, AddPoint, MulAddPoint, InMsm, VerifyInv, TypeOK
<1>2. /\ acc \in G1 /\ Len(inputs) = n /\ calls \in [add : Nat, mul : Nat]
      /\ ic(body, i) \in G1 /\ inputs[i] \in Block
  <2>1. i \in 0..n /\ i \in 1..Len(inputs) /\ acc \in G1 /\ Len(inputs) = n
    BY <1>1, TablePoints DEF VerifyInv
  <2> QED
    BY <2>1, TablePoints DEF VerifyInv, TypeOK
<1>3. CASE SkipTerm
  <2>1. /\ i' = i + 1 /\ UNCHANGED <<arguments, pc, acc, calls, outcome>>
        /\ inputs[i] = 0 \/ ic(body, i) = 0
    BY <1>3 DEF SkipTerm, is_zero
  <2>2. Times(inputs[i], ic(body, i)) = 0 /\ Plus(acc, 0) = acc
    BY <1>2, <2>1, CurveAssumption
  <2> QED
    BY <1>1, <1>2, <2>1, <2>2
<1>4. CASE AddPoint
  <2>1. /\ inputs[i] = 1 /\ UNCHANGED arguments
        /\ calls' = [calls EXCEPT !.add = @ + 1]
        /\ Accumulate(ic(body, i))
    BY <1>4 DEF AddPoint, is_one
  <2>2. Times(inputs[i], ic(body, i)) = ic(body, i)
    BY <1>2, <2>1, CurveAssumption
  <2>3. calls' \in [add : Nat, mul : Nat]
    BY <1>2, <2>1
  <2> QED
    BY <1>1, <1>2, <2>1, <2>2, <2>3, AccumulateOk
<1>5. CASE MulAddPoint
  <2> DEFINE term == Times(inputs[i], ic(body, i))
  <2>1. /\ UNCHANGED arguments
        /\ calls' = [add |-> calls.add + 1, mul |-> calls.mul + 1]
        /\ Accumulate(term)
    BY <1>2, <1>5 DEF MulAddPoint, g1_mul, group_op, Ensure
  <2>2. term \in G1
    BY <1>2, CurveAssumption
  <2>3. calls' \in [add : Nat, mul : Nat]
    BY <1>2, <2>1
  <2> HIDE DEF term
  <2>4. acc' = Plus(acc, term) /\ acc' \in G1 /\ i' = i + 1 /\ UNCHANGED <<pc, outcome>>
    BY <1>2, <2>1, <2>2, AccumulateOk
  <2> QED
    BY <1>1, <2>1, <2>3, <2>4 DEF term
<1> QED
  BY <1>3, <1>4, <1>5

(* Every statement keeps the invariant. *)
LEMMA NextVerify ==
    ASSUME VerifyInv, [Next]_vars
    PROVE  VerifyInv'
<1> USE DEF VerifyInv, TypeOK, ChecksBeforeSyscalls, InvalidPointMeansProof, Ok
<1>0. n \in Nat /\ ic(body, 0) \in G1
  BY TablePoints
<1>1. CASE CheckCount
  BY <1>0, <1>1 DEF CheckCount, Return, Goto, arguments
<1>2. CASE CheckScalar
  <2>1. /\ UNCHANGED <<arguments, acc, calls>> /\ pc = "canonical" /\ i <= n
        /\ is_canonical(inputs[i]) => i' = i + 1 /\ UNCHANGED <<pc, outcome>>
        /\ ~is_canonical(inputs[i]) =>
             pc' = "done" /\ outcome' = "NonCanonicalScalar" /\ i' = i
    BY <1>2 DEF CheckScalar, Return, Goto
  <2>2. CASE is_canonical(inputs[i])
    <3>1. \A j \in 1..n : j < i + 1 => is_canonical(inputs[j])
      BY <1>0, <2>1, <2>2
    <3>2. i + 1 <= n + 1
      BY <1>0, <2>1
    <3> QED
      BY <1>0, <2>1, <2>2, <3>1, <3>2 DEF arguments
  <2>3. CASE ~is_canonical(inputs[i])
    BY <1>0, <2>1, <2>3 DEF arguments
  <2> QED
    BY <2>2, <2>3
<1>3. CASE StartMsm
  <2>1. /\ UNCHANGED <<arguments, calls, outcome>> /\ pc = "canonical" /\ i > n
        /\ pc' = "msm" /\ i' = 1 /\ acc' = ic(body, 0)
    BY <1>3 DEF StartMsm, Goto
  <2>2. \A j \in 1..n : is_canonical(inputs[j])
    BY <1>0, <2>1
  <2>3. 1 <= n + 1 /\ Len(inputs) = n
    BY <1>0, <2>1
  <2> QED
    BY <1>0, <2>1, <2>2, <2>3 DEF arguments
<1>4. CASE SkipTerm \/ AddPoint \/ MulAddPoint
  <2>1. /\ pc = "msm" /\ i <= n /\ i' = i + 1
        /\ UNCHANGED <<arguments, pc, outcome>>
        /\ acc' \in G1
        /\ calls' \in [add : Nat, mul : Nat]
    BY <1>4, MsmStep
  <2>2. i + 1 <= n + 1 /\ i + 1 \in Nat \ {0}
    BY <1>0, <2>1
  <2>3. Len(inputs) = n /\ \A j \in 1..n : is_canonical(inputs[j])
    BY <2>1
  <2> QED
    BY <2>1, <2>2, <2>3 DEF arguments
<1>5. CASE FinishMsm
  <2>1. /\ UNCHANGED <<arguments, i, acc, calls, outcome>> /\ pc = "msm" /\ i > n
        /\ pc' = "pairing"
    BY <1>5 DEF FinishMsm, Goto
  <2>2. i = n + 1
    BY <1>0, <2>1
  <2> QED
    BY <2>1, <2>2 DEF arguments
<1>6. CASE check_pairing
  <2>1. /\ UNCHANGED <<arguments, i, acc, calls>> /\ pc = "pairing" /\ pc' = "done"
        /\ Decodes(assemble_pairing_input) => outcome' \in {Ok, "ProofInvalid"}
        /\ ~Decodes(assemble_pairing_input) => outcome' = "InvalidPoint"
    BY <1>6 DEF check_pairing, pairing_validate_points, group_op, Ensure, Return
  <2>2. Decodes(assemble_pairing_input) <=>
             proof[1] \in G1 /\ proof[2] \in G2 /\ proof[3] \in G1
    BY <2>1, PairingDecodes
  <2> QED
    BY <2>1, <2>2 DEF arguments
<1>7. CASE UNCHANGED vars
  BY <1>7 DEF vars
<1> QED
  BY <1>1, <1>2, <1>3, <1>4, <1>5, <1>6, <1>7 DEF Next

(* Where the call stands determines what is known. *)
THEOREM VerifyInvariant == Spec => []VerifyInv
<1>1. Init => VerifyInv
  BY InitVerify
<1>2. VerifyInv /\ [Next]_vars => VerifyInv'
  BY NextVerify
<1> QED
  BY <1>1, <1>2, PTL DEF Spec

(* On a validated key, InvalidPoint is about A, B or C and nothing else. *)
THEOREM BlamesTheProof == Spec => []InvalidPointMeansProof
<1>1. VerifyInv => InvalidPointMeansProof
  BY DEF VerifyInv
<1> QED
  BY <1>1, VerifyInvariant, PTL

(* No syscall before count and canonicity are settled. *)
THEOREM ChecksFirst == Spec => []ChecksBeforeSyscalls
<1>1. VerifyInv => ChecksBeforeSyscalls
  BY DEF VerifyInv
<1> QED
  BY <1>1, VerifyInvariant, PTL

-----------------------------------------------------------------------------
(* The cost of the MSM. *)

(* The terms before the loop index that contribute, and of these the ones that
   take a multiplication. *)
Added(m) == {j \in 1..n : j < m /\ Contributes(j)}
Multiplied(m) == {j \in 1..n : j < m /\ Contributes(j) /\ inputs[j] # 1}

(* The calls made so far are the ones these terms take, and the loop runs to the
   end. *)
CostInv ==
    acc # None =>
        /\ pc \in {"msm", "pairing", "done"}
        /\ pc # "msm" => i = n + 1
        /\ calls.add = Cardinality(Added(i))
        /\ calls.mul = Cardinality(Multiplied(i))

(* Counting one more index. *)
LEMMA CountNext ==
    ASSUME NEW N \in Nat, NEW m \in 1..N, NEW A, NEW B,
           A \subseteq 1..N, m \notin A
    PROVE  /\ Cardinality(A) \in Nat
           /\ B = A \cup {m} => Cardinality(B) = Cardinality(A) + 1
<1>1. IsFiniteSet(1..N)
  BY FS_Interval, 1 \in Int, N \in Int
<1>2. IsFiniteSet(A)
  BY <1>1, FS_Subset
<1> QED
  BY <1>2, FS_CardinalityType, FS_AddElement

(* What each statement of the MSM costs. *)
LEMMA MsmCalls ==
    ASSUME VerifyInv, SkipTerm \/ AddPoint \/ MulAddPoint
    PROVE  /\ calls'.add = calls.add + (IF Contributes(i) THEN 1 ELSE 0)
           /\ calls'.mul = calls.mul + (IF Contributes(i) /\ inputs[i] # 1 THEN 1 ELSE 0)
<1>1. /\ pc = "msm" /\ i \in 1..n /\ acc \in G1
      /\ calls \in [add : Nat, mul : Nat]
      /\ ic(body, i) \in G1
  BY TablePoints DEF SkipTerm, AddPoint, MulAddPoint, InMsm, VerifyInv, TypeOK
<1>2. CASE SkipTerm
  BY <1>1, <1>2 DEF SkipTerm, is_zero, Contributes
<1>3. CASE AddPoint
  BY <1>1, <1>3 DEF AddPoint, is_zero, is_one, Contributes
<1>4. CASE MulAddPoint
  <2>1. calls' = [add |-> calls.add + 1, mul |-> calls.mul + 1]
    BY <1>1, <1>4 DEF MulAddPoint, g1_mul, group_op, Ensure
  <2>2. Contributes(i) /\ inputs[i] # 1
    BY <1>4 DEF MulAddPoint, is_zero, is_one, Contributes
  <2> QED
    BY <1>1, <2>1, <2>2
<1> QED
  BY <1>2, <1>3, <1>4

(* One turn of the loop keeps the count. *)
LEMMA MsmKeepsCost ==
    ASSUME VerifyInv, CostInv, SkipTerm \/ AddPoint \/ MulAddPoint
    PROVE  CostInv'
<1>1. /\ pc = "msm" /\ i <= n /\ i' = i + 1
      /\ UNCHANGED <<arguments, pc, outcome>>
  BY MsmStep
<1>2. n \in Nat /\ i \in 1..n /\ acc # None
  BY <1>1, TablePoints DEF VerifyInv, TypeOK
<1>3. body' = body /\ n' = n /\ inputs' = inputs /\ pc' = "msm"
  BY <1>1 DEF arguments
<1> DEFINE P == Contributes(i)
           Q == Contributes(i) /\ inputs[i] # 1
<1>4. /\ calls'.add = calls.add + (IF P THEN 1 ELSE 0)
      /\ calls'.mul = calls.mul + (IF Q THEN 1 ELSE 0)
  BY MsmCalls
<1>5. /\ calls.add = Cardinality(Added(i))
      /\ calls.mul = Cardinality(Multiplied(i))
      /\ calls \in [add : Nat, mul : Nat]
  BY <1>2 DEF CostInv, VerifyInv, TypeOK
<1>6. /\ Added(i)' = IF P THEN Added(i) \cup {i} ELSE Added(i)
      /\ Multiplied(i)' = IF Q THEN Multiplied(i) \cup {i} ELSE Multiplied(i)
  <2>1. \A j \in 1..n : Contributes(j)' <=> Contributes(j)
    BY <1>3 DEF Contributes
  <2>2. /\ Added(i)' = {j \in 1..n : j < i + 1 /\ Contributes(j)}
        /\ Multiplied(i)' = {j \in 1..n : j < i + 1 /\ Contributes(j) /\ inputs[j] # 1}
    BY <1>1, <1>3, <2>1 DEF Added, Multiplied
  <2>3. \A j \in 1..n : j < i + 1 <=> j < i \/ j = i
    BY <1>2
  <2>4. ~(i < i)
    BY <1>2
  <2> QED
    BY <1>2, <2>2, <2>3, <2>4 DEF Added, Multiplied
<1>7. /\ Added(i) \subseteq 1..n /\ i \notin Added(i)
      /\ Multiplied(i) \subseteq 1..n /\ i \notin Multiplied(i)
  BY <1>2 DEF Added, Multiplied
<1> HIDE DEF P, Q
<1>8. calls'.add = Cardinality(Added(i)')
  BY <1>2, <1>4, <1>5, <1>6, <1>7, CountNext
<1>9. calls'.mul = Cardinality(Multiplied(i)')
  BY <1>2, <1>4, <1>5, <1>6, <1>7, CountNext
<1> QED
  BY <1>3, <1>8, <1>9 DEF CostInv

(* Every statement keeps the count. *)
LEMMA NextCost ==
    ASSUME VerifyInv, CostInv, [Next]_vars
    PROVE  CostInv'
<1>0. n \in Nat /\ i \in Nat \ {0}
  BY TablePoints DEF VerifyInv, TypeOK
<1>1. CASE CheckCount \/ CheckScalar
  <2>1. acc = None /\ acc' = acc
    BY <1>1 DEF CheckCount, CheckScalar, VerifyInv
  <2>2. None' = None
    OBVIOUS
  <2> QED
    BY <2>1, <2>2 DEF CostInv
<1>2. CASE StartMsm
  <2>1. pc' = "msm" /\ i' = 1 /\ n' = n /\ calls' = calls /\ calls = [add |-> 0, mul |-> 0]
    BY <1>2 DEF StartMsm, Goto, VerifyInv, arguments
  <2>2. Added(i)' = {} /\ Multiplied(i)' = {}
    BY <1>0, <2>1 DEF Added, Multiplied
  <2> QED
    BY <2>1, <2>2, FS_EmptySet DEF CostInv
<1>3. CASE SkipTerm \/ AddPoint \/ MulAddPoint
  BY <1>3, MsmKeepsCost
<1>4. ASSUME pc' \in {"pairing", "done"}, i = n + 1, UNCHANGED <<arguments, i, acc, calls>>
      PROVE  CostInv'
  <2>1. Added(i)' = Added(i) /\ Multiplied(i)' = Multiplied(i)
    BY <1>4 DEF Added, Multiplied, Contributes, arguments
  <2> QED
    BY <1>4, <2>1 DEF CostInv, arguments
<1>5. CASE FinishMsm
  <2>1. /\ pc = "msm" /\ i > n /\ pc' = "pairing"
        /\ UNCHANGED <<arguments, i, acc, calls>>
    BY <1>5 DEF FinishMsm, Goto
  <2>2. i = n + 1
    BY <1>0, <2>1 DEF VerifyInv
  <2> QED
    BY <1>4, <2>1, <2>2
<1>6. CASE check_pairing
  BY <1>4, <1>6 DEF check_pairing, Return, VerifyInv
<1>7. CASE UNCHANGED vars
  <2>1. Added(i)' = Added(i) /\ Multiplied(i)' = Multiplied(i)
    BY <1>7 DEF Added, Multiplied, Contributes, vars
  <2> QED
    BY <1>7, <2>1 DEF CostInv, vars
<1> QED
  BY <1>1, <1>2, <1>3, <1>5, <1>6, <1>7 DEF Next

(* The cost that prepare_inputs documents is exact, for every key and all
   inputs: one addition for each term that contributes, one multiplication for
   each of these whose scalar is not one. *)
THEOREM CostExact == Spec => []MsmCost
<1>1. Init => CostInv
  BY DEF Init, CostInv
<1>2. VerifyInv /\ CostInv /\ [Next]_vars => CostInv'
  BY NextCost
<1>3. VerifyInv /\ CostInv => MsmCost
  <2> SUFFICES ASSUME VerifyInv, CostInv, pc \in {"pairing", "done"}, acc # None
               PROVE  /\ calls.add = Cardinality({j \in 1..n : Contributes(j)})
                      /\ calls.mul = Cardinality({j \in 1..n : Contributes(j) /\ inputs[j] # 1})
    BY DEF MsmCost
  <2>1. i = n + 1 /\ n \in Nat
    BY TablePoints DEF CostInv, VerifyInv
  <2>2. /\ Added(i) = {j \in 1..n : Contributes(j)}
        /\ Multiplied(i) = {j \in 1..n : Contributes(j) /\ inputs[j] # 1}
    BY <2>1 DEF Added, Multiplied
  <2> QED
    BY <2>2 DEF CostInv
<1> QED
  BY <1>1, <1>2, <1>3, VerifyInvariant, PTL DEF Spec

-----------------------------------------------------------------------------
(* The refinement. *)

(* Both read a body in the same way. *)
LEMMA SameViews ==
    /\ Plain!Ok = Ok
    /\ \A j : Plain!ic(body, j) = ic(body, j)
    /\ Plain!alpha(body) = alpha(body) /\ Plain!neg_beta(body) = neg_beta(body)
    /\ Plain!neg_gamma(body) = neg_gamma(body) /\ Plain!neg_delta(body) = neg_delta(body)
BY DEF Plain!Ok, Ok, Plain!At, At, Plain!ic, ic, Plain!alpha, alpha, Plain!neg_beta,
   neg_beta, Plain!neg_gamma, neg_gamma, Plain!neg_delta, neg_delta,
   Plain!VK_ALPHA_OFFSET, VK_ALPHA_OFFSET, Plain!VK_NEG_BETA_OFFSET, VK_NEG_BETA_OFFSET,
   Plain!VK_NEG_GAMMA_OFFSET, VK_NEG_GAMMA_OFFSET, Plain!VK_NEG_DELTA_OFFSET,
   VK_NEG_DELTA_OFFSET, Plain!VK_IC_OFFSET, VK_IC_OFFSET

(* Every statement is a step of the plain algorithm or none. *)
LEMMA PlainStep ==
    ASSUME VerifyInv, VerifyInv', [Next]_vars
    PROVE  [Plain!Next]_(Plain!gvars)
<1> DEFINE k == IF acc = None THEN 0 ELSE i - 1
           sum == IF acc = None THEN ic(body, 0) ELSE acc
<1> USE DEF Plain!gvars
<1>0. n \in Nat /\ ic(body, 0) \in G1 /\ None \notin G1 /\ i \in Nat \ {0}
  BY TablePoints DEF VerifyInv, TypeOK
<1>1. CASE CheckCount
  <2>1. UNCHANGED <<arguments, i, acc>> /\ outcome = "running"
    BY <1>1 DEF CheckCount, VerifyInv
  <2>2. CASE Len(inputs) # n
    <3>1. outcome' = "PublicInputCountMismatch"
      BY <1>1, <2>2 DEF CheckCount, Return
    <3>2. Plain!Reject
      BY <2>1, <2>2, <3>1 DEF Plain!Reject, arguments
    <3> QED
      BY <3>2 DEF Plain!Next
  <2>3. CASE Len(inputs) = n
    BY <1>1, <2>1, <2>3 DEF CheckCount, Goto, arguments
  <2> QED
    BY <2>2, <2>3
<1>2. CASE CheckScalar
  <2>1. /\ UNCHANGED <<arguments, acc>> /\ outcome = "running" /\ i \in 1..n
        /\ acc = None /\ Len(inputs) = n
    BY <1>0, <1>2 DEF CheckScalar, VerifyInv
  <2>2. CASE is_canonical(inputs[i])
    BY <1>2, <2>1, <2>2 DEF CheckScalar, Goto, arguments
  <2>3. CASE ~is_canonical(inputs[i])
    <3>1. outcome' = "NonCanonicalScalar"
      BY <1>2, <2>3 DEF CheckScalar, Return
    <3>2. ~Plain!Canonical
      BY <2>1, <2>3 DEF Plain!Canonical, is_canonical, Plain!is_canonical
    <3>3. Plain!Reject
      BY <2>1, <3>1, <3>2 DEF Plain!Reject, arguments
    <3> QED
      BY <3>3 DEF Plain!Next
  <2> QED
    BY <2>2, <2>3
<1>3. CASE StartMsm
  <2>1. /\ UNCHANGED <<arguments, outcome>> /\ acc = None
        /\ acc' = ic(body, 0) /\ acc' # None /\ i' = 1
    BY <1>0, <1>3 DEF StartMsm, Goto, VerifyInv
  <2>2. body' = body
    BY <2>1 DEF arguments
  <2> QED
    BY <2>1, <2>2 DEF arguments
<1>4. CASE SkipTerm \/ AddPoint \/ MulAddPoint
  <2>1. /\ pc = "msm" /\ i <= n /\ i' = i + 1
        /\ UNCHANGED <<arguments, pc, outcome>>
        /\ acc' \in G1 /\ acc' = Plus(acc, Times(inputs[i], ic(body, i)))
    BY <1>4, MsmStep
  <2>2. /\ acc \in G1 /\ Len(inputs) = n /\ outcome = "running"
        /\ \A j \in 1..n : is_canonical(inputs[j])
    BY <2>1 DEF VerifyInv
  <2>3. acc # None /\ acc' # None
    BY <1>0, <2>1, <2>2
  <2>4. k = i - 1 /\ k' = i /\ sum = acc /\ sum' = acc' /\ k + 1 = i /\ k < n /\ k' = k + 1
    BY <1>0, <2>1, <2>3
  <2>5. Plain!Canonical
    BY <2>2 DEF Plain!Canonical, is_canonical, Plain!is_canonical
  <2>6. sum' = Plus(sum, Times(inputs[k + 1], ic(body, k + 1)))
    BY <2>1, <2>4
  <2>7. Plain!AddTerm
    BY <2>1, <2>2, <2>4, <2>5, <2>6, SameViews DEF Plain!AddTerm, arguments
  <2> QED
    BY <2>7 DEF Plain!Next
<1>5. CASE FinishMsm
  BY <1>5 DEF FinishMsm, Goto, arguments
<1>6. CASE check_pairing
  <2>1. /\ UNCHANGED <<arguments, i, acc>> /\ outcome = "running"
        /\ acc \in G1 /\ i = n + 1 /\ Len(inputs) = n
        /\ \A j \in 1..n : is_canonical(inputs[j])
    BY <1>6 DEF check_pairing, VerifyInv
  <2>2. acc # None /\ k = n /\ sum = acc
    BY <1>0, <2>1
  <2>3. Plain!Canonical
    BY <2>1 DEF Plain!Canonical, is_canonical, Plain!is_canonical
  <2>4. Decodes(assemble_pairing_input) <=> Plain!ProofDecodes
    BY <2>1, PairingDecodes DEF VerifyInv, TypeOK, Plain!ProofDecodes
  <2>5. ProductIsOne(assemble_pairing_input) = Plain!Equation(sum)
    BY <2>2, SameViews DEF assemble_pairing_input, Plain!Equation
  <2>6. outcome' = IF ~Plain!ProofDecodes THEN "InvalidPoint"
                   ELSE IF Plain!Equation(sum) THEN Ok ELSE "ProofInvalid"
    BY <1>6, <2>4, <2>5 DEF check_pairing, pairing_validate_points, group_op, Ensure,
       Return, Ok
  <2>7. Plain!Decide
    BY <2>1, <2>2, <2>3, <2>6, SameViews DEF Plain!Decide, arguments
  <2> QED
    BY <2>7 DEF Plain!Next
<1>7. CASE UNCHANGED vars
  BY <1>7 DEF vars
<1> QED
  BY <1>1, <1>2, <1>3, <1>4, <1>5, <1>6, <1>7 DEF Next

(* The shortcuts of the MSM are sound: verify implements the plain algorithm. *)
THEOREM ShortcutsSound == Spec => ImplementsGroth16
<1>1. Init => Plain!Init
  BY SameViews DEF Init, Plain!Init
<1>2. VerifyInv /\ VerifyInv' /\ [Next]_vars => [Plain!Next]_(Plain!gvars)
  BY PlainStep
<1> QED
  BY <1>1, <1>2, VerifyInvariant, PTL DEF Spec, ImplementsGroth16, Plain!Spec

-----------------------------------------------------------------------------
(* The verdict. *)

(* The terms added so far, and their sum, as the plain algorithm sees them. *)
TermsAdded == IF acc = None THEN 0 ELSE i - 1
Sum == IF acc = None THEN ic(body, 0) ELSE acc

(* While the call runs, what it has added up is the next of the partial sums. *)
SumInv ==
    /\ outcome = "running" => \E s \in PartialSums(TermsAdded) : s[TermsAdded] = Sum
    /\ VerdictDecided

(* One term more. *)
LEMMA SumsExtend ==
    ASSUME NEW m \in Nat, NEW s \in PartialSums(m),
           NEW p \in G1, p = Plus(s[m], Times(inputs[m + 1], ic(body, m + 1)))
    PROVE  \E t \in PartialSums(m + 1) : t[m + 1] = p
<1> DEFINE t == [j \in 0..m + 1 |-> IF j = m + 1 THEN p ELSE s[j]]
           term(j) == Times(inputs[j], ic(body, j))
<1>1. /\ s \in [0..m -> G1] /\ s[0] = ic(body, 0)
      /\ \A j \in 1..m : s[j] = Plus(s[j - 1], term(j))
  BY DEF PartialSums
<1>2. t \in [0..m + 1 -> G1] /\ t[m + 1] = p /\ \A j \in 0..m : t[j] = s[j]
  BY <1>1
<1> HIDE DEF t
<1>3. t[0] = ic(body, 0)
  BY <1>1, <1>2
<1>4. ASSUME NEW j \in 1..m + 1 PROVE t[j] = Plus(t[j - 1], term(j))
  <2>1. t[j - 1] = s[j - 1]
    BY <1>2
  <2>2. CASE j = m + 1
    BY <1>2, <2>1, <2>2
  <2>3. CASE j # m + 1
    <3>1. j \in 1..m /\ j \in 0..m
      BY <2>3
    <3> QED BY <1>1, <1>2, <2>1, <3>1
  <2> QED BY <2>2, <2>3
<1> QED BY <1>2, <1>3, <1>4 DEF PartialSums

(* Every step of the plain algorithm keeps SumInv. *)
LEMMA SumStep ==
    ASSUME VerifyInv, VerifyInv', SumInv, [Next]_vars
    PROVE  SumInv'
<1>0. /\ n \in Nat /\ ic(body, 0) \in G1 /\ i \in Nat \ {0} /\ TermsAdded \in Nat
      /\ pc = "done" <=> outcome # "running"
      /\ pc' = "done" <=> outcome' # "running"
  BY TablePoints DEF VerifyInv, TypeOK, TermsAdded
<1>1. [Plain!Next]_(Plain!gvars)
  BY PlainStep
<1>2. CASE Plain!Reject
  <2>1. /\ UNCHANGED <<body, n, proof, inputs>>
        /\ \/ Len(inputs) # n /\ outcome' = "PublicInputCountMismatch"
           \/ Len(inputs) = n /\ ~Plain!Canonical /\ outcome' = "NonCanonicalScalar"
    BY <1>2 DEF Plain!Reject
  <2>2. Plain!Canonical' = Plain!Canonical
    BY <2>1 DEF Plain!Canonical
  <2>3. VerdictDecided'
    BY <2>1, <2>2 DEF VerdictDecided
  <2> QED BY <2>1, <2>3 DEF SumInv
<1>3. CASE Plain!AddTerm
  <2>1. /\ outcome = "running" /\ outcome' = "running"
        /\ UNCHANGED <<body, n, proof, inputs>>
        /\ Len(inputs) = n /\ TermsAdded < n /\ TermsAdded' = TermsAdded + 1
        /\ Sum' = Plus(Sum, Times(inputs[TermsAdded + 1], ic(body, TermsAdded + 1)))
    BY <1>3, SameViews DEF Plain!AddTerm, TermsAdded, Sum
  <2> DEFINE m == TermsAdded
  <2>2. PICK s \in PartialSums(m) : s[m] = Sum
    BY <2>1 DEF SumInv
  <2> HIDE DEF m
  <2>3. m \in Nat /\ m + 1 \in 0..n /\ m + 1 \in 1..Len(inputs) /\ m \in 0..m
    BY <1>0, <2>1 DEF m
  <2>4. Sum' \in G1
    <3>1. s \in [0..m -> G1]
      BY DEF PartialSums
    <3>2. Sum \in G1
      BY <2>2, <2>3, <3>1
    <3>3. inputs[m + 1] \in Block /\ ic(body, m + 1) \in G1
      BY <2>3, TablePoints DEF VerifyInv
    <3>4. Times(inputs[m + 1], ic(body, m + 1)) \in G1
      BY <3>3, CurveAssumption
    <3>5. Plus(Sum, Times(inputs[m + 1], ic(body, m + 1))) \in G1
      BY <3>2, <3>4, CurveAssumption
    <3> QED BY <2>1, <3>5 DEF m
  <2>5. \E t \in PartialSums(m + 1) : t[m + 1] = Sum'
    BY <2>1, <2>2, <2>3, <2>4, SumsExtend DEF m
  <2>6. \E t \in PartialSums(TermsAdded)' : t[TermsAdded'] = Sum'
    <3>1. \A j : ic(body, j)' = ic(body, j)
      BY <2>1 DEF ic, At
    <3>2. PartialSums(TermsAdded)' = PartialSums(m + 1)
      BY <2>1, <3>1 DEF PartialSums, m
    <3>3. TermsAdded' = m + 1
      BY <2>1 DEF m
    <3> QED BY <2>5, <3>2, <3>3
  <2>7. VerdictDecided'
    BY <1>0, <2>1 DEF VerdictDecided
  <2> QED BY <2>6, <2>7 DEF SumInv
<1>4. CASE Plain!Decide
  <2>1. /\ outcome = "running" /\ UNCHANGED <<body, n, proof, inputs>>
        /\ Len(inputs) = n /\ Plain!Canonical /\ TermsAdded = n
        /\ outcome' = IF ~Plain!ProofDecodes THEN "InvalidPoint"
                      ELSE IF Plain!Equation(Sum) THEN Ok ELSE "ProofInvalid"
    BY <1>4, SameViews DEF Plain!Decide, TermsAdded, Sum
  <2>2. PICK s \in PartialSums(n) : s[n] = Sum
    BY <2>1 DEF SumInv
  <2>3. /\ Plain!Canonical' = Plain!Canonical
        /\ Plain!ProofDecodes' = Plain!ProofDecodes
        /\ \A l : Plain!Equation(l)' = Plain!Equation(l)
        /\ PartialSums(n)' = PartialSums(n)
    BY <2>1 DEF Plain!Canonical, Plain!ProofDecodes, Plain!Equation, PartialSums,
       Plain!alpha, Plain!neg_beta, Plain!neg_gamma, Plain!neg_delta, Plain!At, ic, At
  <2>4. outcome' # "running"
    BY <2>1 DEF Ok
  <2>5. VerdictDecided'
    BY <2>1, <2>2, <2>3 DEF VerdictDecided
  <2> QED BY <2>4, <2>5 DEF SumInv
<1>5. CASE UNCHANGED Plain!gvars
  <2>1. /\ UNCHANGED <<body, n, proof, inputs, outcome>>
        /\ TermsAdded' = TermsAdded /\ Sum' = Sum
    BY <1>5 DEF Plain!gvars, TermsAdded, Sum
  <2>2. (pc' = "done") <=> (pc = "done")
    BY <1>0, <2>1
  <2>3. /\ Plain!Canonical' = Plain!Canonical
        /\ Plain!ProofDecodes' = Plain!ProofDecodes
        /\ \A l : Plain!Equation(l)' = Plain!Equation(l)
        /\ \A m : PartialSums(m)' = PartialSums(m)
    BY <2>1 DEF Plain!Canonical, Plain!ProofDecodes, Plain!Equation, PartialSums,
       Plain!alpha, Plain!neg_beta, Plain!neg_gamma, Plain!neg_delta, Plain!At, ic, At
  <2>4. VerdictDecided'
    BY <2>1, <2>2, <2>3 DEF SumInv, VerdictDecided
  <2> QED BY <2>1, <2>3, <2>4 DEF SumInv
<1> QED BY <1>1, <1>2, <1>3, <1>4, <1>5 DEF Plain!Next

(* For all groups, keys, proofs and inputs: the verdict is the first error that
   applies, or that of the pairing equation at IC[0] plus every a[i] * IC[i]. *)
THEOREM VerdictOfEquation == Spec => []VerdictDecided
<1>1. VerifyInv /\ Init => SumInv
  <2> SUFFICES ASSUME VerifyInv, Init PROVE SumInv
    OBVIOUS
  <2>1. acc = None /\ pc # "done"
    BY DEF Init
  <2>2. TermsAdded = 0 /\ Sum = ic(body, 0) /\ ic(body, 0) \in G1
    BY <2>1, TablePoints DEF TermsAdded, Sum, VerifyInv
  <2> DEFINE s == [j \in 0..0 |-> ic(body, 0)]
  <2>3. s \in [0..0 -> G1] /\ s[0] = ic(body, 0)
    BY <2>2
  <2>4. s \in PartialSums(0)
    BY <2>3 DEF PartialSums
  <2> QED BY <2>1, <2>2, <2>3, <2>4 DEF SumInv, VerdictDecided
<1>2. VerifyInv /\ VerifyInv' /\ SumInv /\ [Next]_vars => SumInv'
  BY SumStep
<1>3. SumInv => VerdictDecided
  BY DEF SumInv
<1> QED BY <1>1, <1>2, <1>3, VerifyInvariant, PTL DEF Spec
=============================================================================
