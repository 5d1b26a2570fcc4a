------------------------ MODULE KeyValidationProofs ------------------------
(***************************************************************************)
(* Theorems about KeyValidation, for every number of public inputs and     *)
(* every set of points.                                                    *)
(***************************************************************************)
EXTENDS KeyValidation, TLAPS

(* The pairing call checks alpha, IC[0] and the three points of G2. *)
LEMMA PairingChecks ==
    Decodes(PairingInput) <=>
        /\ alpha(body) \in G1 /\ ic(body, 0) \in G1
        /\ {neg_beta(body), neg_gamma(body), neg_delta(body)} \subseteq G2
<1> DEFINE a == alpha(body)
           b == neg_beta(body)
           c == neg_gamma(body)
           d == neg_delta(body)
           p == ic(body, 0)
           input == <<a, b, p, c, p, d>>
<1>1. PairingInput = input
  BY DEF PairingInput
<1> HIDE DEF a, b, c, d, p
<1>2. /\ Len(input) = 6
      /\ input[1] = a /\ input[2] = b /\ input[3] = p
      /\ input[4] = c /\ input[5] = p /\ input[6] = d
  OBVIOUS
<1> HIDE DEF input
<1>3. \A j \in 1..6 : j = 1 \/ j = 2 \/ j = 3 \/ j = 4 \/ j = 5 \/ j = 6
  OBVIOUS
<1>4. Decodes(input) <=>
        /\ input[1] \in G1 /\ input[2] \in G2 /\ input[3] \in G1
        /\ input[4] \in G2 /\ input[5] \in G1 /\ input[6] \in G2
  BY <1>2, <1>3 DEF Decodes
<1> QED
  BY <1>1, <1>2, <1>4 DEF a, b, c, d, p

(* Rounding up a half. *)
LEMMA Half ==
    ASSUME NEW k \in Nat, NEW m \in Nat, 2 * k <= m + 1
    PROVE  /\ k <= (m + 1) \div 2
           /\ 2 * k + 1 > m => k = (m + 1) \div 2
BY Z3

(* The loop invariant holds at the start. *)
LEMMA InitValidated ==
    ASSUME Init
    PROVE  ValidatedSoFar
BY BodyAssumption DEF Init, ValidatedSoFar, HalfTheCalls, TypeOK, IsBody, Ok

(* Every statement keeps the loop invariant. *)
LEMMA NextValidated ==
    ASSUME ValidatedSoFar, [Next]_vars
    PROVE  ValidatedSoFar'
<1> USE DEF ValidatedSoFar, HalfTheCalls, TypeOK, Ok
<1>0. n \in Nat
  BY DEF IsBody
<1>1. CASE CheckIdentity
  <2>1. UNCHANGED <<body, n, i, adds>>
    BY <1>1 DEF CheckIdentity
  <2>2. CASE NoIdentity(body)
    <3>1. pc' = "pairing" /\ outcome' = outcome /\ pc = "identity"
      BY <1>1, <2>2 DEF CheckIdentity, NoIdentity, is_zero, Return
    <3> QED
      BY <2>1, <2>2, <3>1
  <2>3. CASE ~NoIdentity(body)
    <3>1. pc' = "done" /\ outcome' = "IdentityKeyElement"
      BY <1>1, <2>3 DEF CheckIdentity, NoIdentity, is_zero, Return
    <3> QED
      BY <2>1, <2>3, <3>1 DEF WellFormedKey
  <2> QED
    BY <2>2, <2>3
<1>2. CASE ValidatePairing
  <2> DEFINE good == Decodes(PairingInput)
  <2>1. UNCHANGED <<body, n, i, adds>> /\ pc = "pairing" /\ outcome = "running"
    BY <1>2 DEF ValidatePairing
  <2>2. /\ good => pc' = "ic" /\ outcome' = outcome
        /\ ~good => pc' = "done" /\ outcome' = "InvalidPoint"
    BY <1>2 DEF ValidatePairing, pairing_validate_points, group_op, Ensure, Return
  <2>3. good <=> /\ alpha(body) \in G1 /\ ic(body, 0) \in G1
                 /\ {neg_beta(body), neg_gamma(body), neg_delta(body)} \subseteq G2
    BY PairingChecks
  <2> HIDE DEF good
  <2>4. CASE good
    <3>1. i = 1 => \A j \in 0..n : j < i => ic(body, j) \in G1
      BY <2>3, <2>4, <1>0
    <3> QED
      BY <2>1, <2>2, <2>3, <2>4, <3>1
  <2>5. CASE ~good
    <3>1. ~WellFormedKey(body, n)
      BY <2>3, <2>5, <1>0 DEF WellFormedKey, PointsDecode
    <3> QED
      BY <2>1, <2>2, <2>5, <3>1
  <2> QED
    BY <2>4, <2>5
<1>3. CASE AddPair
  <2> DEFINE good == ic(body, i) \in G1 /\ Partner \in G1
  <2>1. /\ UNCHANGED <<body, n>> /\ pc = "ic" /\ outcome = "running"
        /\ adds' = adds + 1 /\ i <= n
    BY <1>3 DEF AddPair
  <2>2. /\ good => pc' = pc /\ outcome' = outcome /\ i' = i + 2
        /\ ~good => pc' = "done" /\ outcome' = "InvalidPoint" /\ i' = i
    BY <1>3 DEF AddPair, g1_add, group_op, Ensure, Return
  <2> HIDE DEF good
  <2>3. 2 * (adds + 1) <= n + 1 /\ adds + 1 \in Nat
    BY <1>0, <2>1
  <2>4. adds' \in Nat /\ adds' <= (n + 1) \div 2
    BY <1>0, <2>1, <2>3, Half
  <2>5. CASE good
    <3>1. \A j \in 0..n : j < i + 2 => j < i \/ j = i \/ (i < n /\ j = i + 1)
      BY <1>0
    <3>2. \A j \in 0..n : j < i + 2 => ic(body, j) \in G1
      BY <2>1, <2>5, <3>1 DEF good, Partner
    <3>3. i' = 2 * adds' + 1 /\ 2 * adds' <= n' + 1 /\ i' \in Nat \ {0}
      BY <2>1, <2>2, <2>5, <2>3
    <3> QED
      BY <2>1, <2>2, <2>5, <2>4, <3>2, <3>3
  <2>6. CASE ~good
    <3>1. i \in 0..n /\ (i < n => i + 1 \in 0..n)
      BY <1>0, <2>1
    <3>2. ~WellFormedKey(body, n)
      BY <2>6, <3>1 DEF good, Partner, WellFormedKey, PointsDecode
    <3> QED
      BY <2>1, <2>2, <2>6, <2>4, <3>2
  <2> QED
    BY <2>5, <2>6
<1>4. CASE Finish
  <2>1. /\ UNCHANGED <<body, n, i, adds>> /\ pc = "ic" /\ i > n
        /\ pc' = "done" /\ outcome' = Ok
    BY <1>4 DEF Finish, Return
  <2>2. WellFormedKey(body, n)
    BY <1>0, <2>1 DEF WellFormedKey, PointsDecode
  <2>3. adds = (n + 1) \div 2
    BY <1>0, <2>1, Half
  <2> QED
    BY <2>1, <2>2, <2>3
<1>5. CASE UNCHANGED vars
  BY <1>5 DEF vars
<1> QED
  BY <1>1, <1>2, <1>3, <1>4, <1>5 DEF Next

(* The loop invariant of validate_for_publish. *)
THEOREM LoopInvariant == Spec => []ValidatedSoFar
<1>1. Init => ValidatedSoFar
  BY InitValidated
<1>2. ValidatedSoFar /\ [Next]_vars => ValidatedSoFar'
  BY NextValidated
<1> QED
  BY <1>1, <1>2, PTL DEF Spec

(* validate_for_publish accepts exactly the well-formed keys, for every n. *)
THEOREM ValidatesExactly == Spec => []ValidationExact
<1>1. ValidatedSoFar => ValidationExact
  BY DEF ValidatedSoFar, ValidationExact, TypeOK, Ok
<1> QED
  BY <1>1, LoopInvariant, PTL

(* Validation takes ceil(n/2) additions and never more, for every n. *)
THEOREM CallsHalved == Spec => []HalfTheCalls
<1>1. ValidatedSoFar => HalfTheCalls
  BY DEF ValidatedSoFar
<1> QED
  BY <1>1, LoopInvariant, PTL
=============================================================================
