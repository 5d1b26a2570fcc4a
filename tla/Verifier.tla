------------------------------ MODULE Verifier ------------------------------
(***************************************************************************)
(* verifier.rs: verify on a validated key, one action per statement that   *)
(* may call the runtime.  The shortcuts of the MSM (a zero input, an       *)
(* identity IC, an input of one) are actions of their own.  An operator    *)
(* named mutant_... is a faulty variant of the definition that follows it. *)
(***************************************************************************)
EXTENDS VerifyingKey, FiniteSets

CONSTANTS
    Body(_),        \* the bodies tried for a given n
    Payload,        \* [proof, inputs]: what split_from makes of the payload;
                    \* a last block that is not whole counts as a block too many
    None            \* acc before it is assigned

ASSUME VerifierAssumption ==
    /\ \A n \in 0..MAX_PUBLIC_INPUTS : \A body \in Body(n) : IsBody(body, n)
    /\ Payload \subseteq [proof : Seq(Block), inputs : Seq(Block)]
    /\ \A p \in Payload : Len(p.proof) = 3
    /\ None \notin Block

VARIABLES
    body, n, proof, inputs,
    pc,         \* "count", "canonical", "msm", "pairing" or "done"
    i,          \* loop index, from 1
    acc,        \* the accumulator of the MSM
    calls,      \* group syscalls made: [add, mul]
    outcome

arguments == <<body, n, proof, inputs>>
vars == <<body, n, proof, inputs, pc, i, acc, calls, outcome>>

Return(result) == pc' = "done" /\ outcome' = result
Goto(label) == pc' = label /\ UNCHANGED outcome

(* A Checked key: one that validate_for_publish accepts. *)
Init ==
    /\ n \in 0..MAX_PUBLIC_INPUTS
    /\ body \in {b \in Body(n) : WellFormedKey(b, n)}
    /\ \E p \in Payload : proof = p.proof /\ inputs = p.inputs
    /\ pc = "count" /\ i = 1 /\ acc = None
    /\ calls = [add |-> 0, mul |-> 0]
    /\ outcome = "running"

-----------------------------------------------------------------------------
(* prepare_inputs *)
mutant_CheckCount_too_few ==
    /\ pc = "count"
    /\ IF Len(inputs) < n
       THEN Return("PublicInputCountMismatch") ELSE Goto("canonical")
    /\ UNCHANGED <<arguments, i, acc, calls>>

CheckCount ==
    /\ pc = "count"
    /\ IF Len(inputs) # n
       THEN Return("PublicInputCountMismatch") ELSE Goto("canonical")
    /\ UNCHANGED <<arguments, i, acc, calls>>

(* The first loop: every scalar is checked before the first syscall. *)
CheckScalar ==
    /\ pc = "canonical" /\ i <= n
    /\ IF is_canonical(inputs[i])
       THEN i' = i + 1 /\ Goto(pc)
       ELSE Return("NonCanonicalScalar") /\ UNCHANGED i
    /\ UNCHANGED <<arguments, acc, calls>>

mutant_StartMsm_early ==
    /\ pc = "canonical"
    /\ acc' = ic(body, 0) /\ i' = 1
    /\ Goto("msm")
    /\ UNCHANGED <<arguments, calls>>

mutant_StartMsm_no_reset ==
    /\ pc = "canonical" /\ i > n
    /\ acc' = ic(body, 0)
    /\ Goto("msm")
    /\ UNCHANGED <<arguments, i, calls>>

StartMsm ==
    /\ pc = "canonical" /\ i > n
    /\ acc' = ic(body, 0) /\ i' = 1
    /\ Goto("msm")
    /\ UNCHANGED <<arguments, calls>>

(* The second loop. *)
InMsm == pc = "msm" /\ i <= n

SkipTerm ==
    /\ InMsm
    /\ is_zero(inputs[i]) \/ is_zero(ic(body, i))
    /\ i' = i + 1
    /\ UNCHANGED <<arguments, pc, acc, calls, outcome>>

Accumulate(term) ==
    IF g1_add(acc, term) = Ok
    THEN acc' = Plus(acc, term) /\ i' = i + 1 /\ Goto(pc)
    ELSE Return(g1_add(acc, term)) /\ UNCHANGED <<acc, i>>

AddPoint ==
    /\ InMsm
    /\ ~is_zero(inputs[i]) /\ ~is_zero(ic(body, i)) /\ is_one(inputs[i])
    /\ calls' = [calls EXCEPT !.add = @ + 1]
    /\ Accumulate(ic(body, i))
    /\ UNCHANGED arguments

MulAddPoint ==
    /\ InMsm
    /\ ~is_zero(inputs[i]) /\ ~is_zero(ic(body, i)) /\ ~is_one(inputs[i])
    /\ LET multiplied == g1_mul(ic(body, i), inputs[i]) IN
       IF multiplied = Ok
       THEN /\ calls' = [add |-> calls.add + 1, mul |-> calls.mul + 1]
            /\ Accumulate(Times(inputs[i], ic(body, i)))
       ELSE /\ calls' = [calls EXCEPT !.mul = @ + 1]
            /\ Return(multiplied) /\ UNCHANGED <<acc, i>>
    /\ UNCHANGED arguments

FinishMsm ==
    /\ pc = "msm" /\ i > n
    /\ Goto("pairing")
    /\ UNCHANGED <<arguments, i, acc, calls>>

-----------------------------------------------------------------------------
(* write_pairing_input: four pairs, A and B and C from the proof. *)
mutant_assemble_pairing_input_swapped ==
    <<proof[1], proof[2], alpha(body), neg_beta(body),
      acc, neg_delta(body), proof[3], neg_gamma(body)>>

assemble_pairing_input ==
    <<proof[1], proof[2], alpha(body), neg_beta(body),
      acc, neg_gamma(body), proof[3], neg_delta(body)>>

check_pairing ==
    /\ pc = "pairing"
    /\ IF pairing_validate_points(assemble_pairing_input) = Ok
       THEN Return(Ensure(ProductIsOne(assemble_pairing_input), "ProofInvalid"))
       ELSE Return("InvalidPoint")
    /\ UNCHANGED <<arguments, i, acc, calls>>

Next ==
    \/ CheckCount \/ CheckScalar \/ StartMsm
    \/ SkipTerm \/ AddPoint \/ MulAddPoint \/ FinishMsm
    \/ check_pairing

Spec == Init /\ [][Next]_vars

-----------------------------------------------------------------------------
(* The types of the variables. *)
TypeOK ==
    /\ IsBody(body, n) /\ WellFormedKey(body, n)
    /\ proof \in Seq(Block) /\ Len(proof) = 3 /\ inputs \in Seq(Block)
    /\ pc \in {"count", "canonical", "msm", "pairing", "done"}
    /\ i \in Nat \ {0}
    /\ acc \in G1 \cup {None}
    /\ calls \in [add : Nat, mul : Nat]
    /\ outcome \in {"running", Ok, "PublicInputCountMismatch",
                    "NonCanonicalScalar", "InvalidPoint", "ProofInvalid"}

(* The shortcuts change nothing: whatever inputs, identities and partial sums
   occur, verify adds up and decides as the plain algorithm of Groth16 does. *)
Plain == INSTANCE Groth16 WITH
    k <- IF acc = None THEN 0 ELSE i - 1,
    sum <- IF acc = None THEN ic(body, 0) ELSE acc

ImplementsGroth16 == Plain!Spec

(* The verdict, whatever the groups are: the first that applies of a wrong count,
   a scalar that is not canonical and a point of the proof that does not decode,
   else the equation at the last of the partial sums of prepare_inputs (verify). *)
PartialSums(m) ==
    {s \in [0..m -> G1] :
        /\ s[0] = ic(body, 0)
        /\ \A j \in 1..m : s[j] = Plus(s[j - 1], Times(inputs[j], ic(body, j)))}

VerdictDecided ==
    pc = "done" =>
        IF Len(inputs) # n THEN outcome = "PublicInputCountMismatch"
        ELSE IF ~Plain!Canonical THEN outcome = "NonCanonicalScalar"
        ELSE IF ~Plain!ProofDecodes THEN outcome = "InvalidPoint"
        ELSE \E s \in PartialSums(n) :
                 outcome = IF Plain!Equation(s[n]) THEN Ok ELSE "ProofInvalid"

(* InvalidPoint blames the proof: on a validated key the MSM never fails, and
   the pairing rejects a point only if A, B or C does not decode (the comment
   on verify; error.rs). *)
InvalidPointMeansProof ==
    outcome = "InvalidPoint" =>
        proof[1] \notin G1 \/ proof[2] \notin G2 \/ proof[3] \notin G1

(* No syscall is spent on inputs that will be refused: when the first one is
   made, the count is right and every scalar is canonical. *)
ChecksBeforeSyscalls ==
    calls.add + calls.mul > 0 =>
        Len(inputs) = n /\ \A j \in 1..n : is_canonical(inputs[j])

(* The cost of the MSM when it completes: one addition for each term that
   contributes, one multiplication for each of these whose scalar is not one
   (the comment on prepare_inputs). *)
Contributes(j) == inputs[j] # 0 /\ ic(body, j) # 0

MsmCost ==
    pc \in {"pairing", "done"} /\ acc # None =>
        /\ calls.add = Cardinality({j \in 1..n : Contributes(j)})
        /\ calls.mul = Cardinality({j \in 1..n : Contributes(j) /\ inputs[j] # 1})

(* The inductive invariant: where the call stands determines what is known. *)
VerifyInv ==
    /\ TypeOK
    /\ pc = "done" <=> outcome # "running"
    /\ pc \in {"count", "canonical"} => acc = None /\ calls = [add |-> 0, mul |-> 0]
    /\ pc # "done" /\ pc # "count" => Len(inputs) = n
    /\ pc = "count" => i = 1
    /\ pc = "canonical" =>
         i <= n + 1 /\ \A j \in 1..n : j < i => is_canonical(inputs[j])
    /\ pc \in {"msm", "pairing"} =>
         acc \in G1 /\ i <= n + 1 /\ \A j \in 1..n : is_canonical(inputs[j])
    /\ pc = "pairing" => i = n + 1
    /\ ChecksBeforeSyscalls
    /\ InvalidPointMeansProof
=============================================================================
