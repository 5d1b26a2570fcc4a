------------------------------ MODULE Groth16 ------------------------------
(***************************************************************************)
(* What verification promises, without shortcuts: refuse inputs that are   *)
(* not n canonical scalars; otherwise add every term a[i] * IC[i] to IC[0] *)
(* and decide e(A,B) e(alpha,-beta) e(L,-gamma) e(C,-delta) = 1.           *)
(***************************************************************************)
EXTENDS VerifyingKey

VARIABLES
    body, n,    \* the key
    proof,      \* <<A, B, C>>
    inputs,     \* the public inputs, one block each
    k,          \* terms added
    sum,        \* IC[0] and those terms
    outcome

gvars == <<body, n, proof, inputs, k, sum, outcome>>

Canonical == \A j \in 1..Len(inputs) : is_canonical(inputs[j])

Init ==
    /\ k = 0 /\ sum = ic(body, 0)
    /\ outcome = "running"

Reject ==
    /\ outcome = "running"
    /\ \/ Len(inputs) # n /\ outcome' = "PublicInputCountMismatch"
       \/ Len(inputs) = n /\ ~Canonical /\ outcome' = "NonCanonicalScalar"
    /\ UNCHANGED <<body, n, proof, inputs, k, sum>>

AddTerm ==
    /\ outcome = "running" /\ Len(inputs) = n /\ Canonical /\ k < n
    /\ k' = k + 1
    /\ sum' = Plus(sum, Times(inputs[k + 1], ic(body, k + 1)))
    /\ UNCHANGED <<body, n, proof, inputs, outcome>>

ProofDecodes == proof[1] \in G1 /\ proof[2] \in G2 /\ proof[3] \in G1

Equation(l) ==
    ProductIsOne(<<proof[1], proof[2], alpha(body), neg_beta(body),
                   l, neg_gamma(body), proof[3], neg_delta(body)>>)

Decide ==
    /\ outcome = "running" /\ Len(inputs) = n /\ Canonical /\ k = n
    /\ outcome' = IF ~ProofDecodes THEN "InvalidPoint"
                  ELSE IF Equation(sum) THEN Ok ELSE "ProofInvalid"
    /\ UNCHANGED <<body, n, proof, inputs, k, sum>>

Next == Reject \/ AddTerm \/ Decide

Spec == Init /\ [][Next]_gvars
=============================================================================
