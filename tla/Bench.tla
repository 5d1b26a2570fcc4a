------------------------------- MODULE Bench -------------------------------
(***************************************************************************)
(* tools/bench: a program that runs one stage of the verification, and the *)
(* harness that runs every tag on the same data to subtract the costs      *)
(* (program/tests/cu.rs).  As in Verifier, a point, a scalar and n are one *)
(* block each; so is the return data, 64 bytes.  The cost of a call is the *)
(* syscalls it makes.  An operator named mutant_... is a faulty variant of *)
(* the definition that follows it.                                         *)
(***************************************************************************)
EXTENDS VerifyingKey, SequencesExt

CONSTANT Workload       \* [body, proof, inputs, l]: what the harness measures

PROOF_BLOCKS == 3

(* The builder takes the proof and L as arrays of their size, the rest as slices. *)
ASSUME WorkloadAssumption ==
    /\ Workload \subseteq [body : Seq(Block), proof : Seq(Block), inputs : Seq(Block),
                           l : Block]
    /\ \A w \in Workload : Len(w.proof) = PROOF_BLOCKS

VARIABLES
    work,       \* the workload
    results     \* for each tag that has run, what it did

vars == <<work, results>>

(* The order of the measurements; the program refuses any other tag. *)
Tags == <<"NULL", "BASELINE", "ASSEMBLE", "MSM", "PAIRING", "VERIFY", "other">>

-----------------------------------------------------------------------------
(* The data that follows the tag, and its parts. *)
instruction_data(w) ==
    <<InferredInputs(w.body)>> \o w.body \o w.proof \o w.inputs \o <<w.l>>

mutant_parse_allows_rest(data) ==
    LET n == data[1]
        need == 1 + vk_body_len(n) + PROOF_BLOCKS + n
    IN Ensure(Len(data) > need, "InvalidInstructionData")

parse(data) ==
    LET n == data[1]
        need == 1 + vk_body_len(n) + PROOF_BLOCKS + n
    IN     Ensure(Len(data) >= 1, "InvalidInstructionData")
        ?? Ensure(Len(data) >= need, "InvalidInstructionData")
        ?? Ensure(Len(data) - need = 1, "InvalidInstructionData")

Parsed(data) ==
    LET n == data[1]
        body == SubSeq(data, 2, 1 + vk_body_len(n))
        rest == SubSeq(data, 2 + vk_body_len(n), Len(data))
    IN [n |-> n, body |-> body, proof |-> SubSeq(rest, 1, PROOF_BLOCKS),
        inputs |-> SubSeq(rest, PROOF_BLOCKS + 1, PROOF_BLOCKS + n),
        l |-> rest[PROOF_BLOCKS + n + 1]]

-----------------------------------------------------------------------------
(* The stages of verifier.rs, as functions of the parsed input. *)
Nothing == [add |-> 0, mul |-> 0, pairing |-> 0]

AddTerm(input, s, j) ==
    LET scalar == input.inputs[j]
        point == ic(input.body, j)
        term == IF is_one(scalar) THEN point ELSE Times(scalar, point)
        multiplied == IF is_one(scalar) THEN Ok ELSE g1_mul(point, scalar)
        mul == s.cost.mul + (IF is_one(scalar) THEN 0 ELSE 1)
    IN  IF s.outcome # Ok \/ is_zero(scalar) \/ is_zero(point) THEN s
        ELSE IF multiplied # Ok
        THEN [s EXCEPT !.outcome = multiplied, !.cost.mul = mul]
        ELSE LET added == g1_add(s.l, term) IN
             [outcome |-> added, l |-> IF added = Ok THEN Plus(s.l, term) ELSE s.l,
              cost |-> [s.cost EXCEPT !.add = @ + 1, !.mul = mul]]

prepare_inputs(input) ==
    LET start == [outcome |-> Ok, l |-> ic(input.body, 0), cost |-> Nothing] IN
    IF Len(input.inputs) # input.n
    THEN [start EXCEPT !.outcome = "PublicInputCountMismatch"]
    ELSE IF \E j \in 1..input.n : ~is_canonical(input.inputs[j])
    THEN [start EXCEPT !.outcome = "NonCanonicalScalar"]
    ELSE FoldLeft(LAMBDA s, j : AddTerm(input, s, j), start, [j \in 1..input.n |-> j])

assemble_pairing_input(input, l) ==
    <<input.proof[1], input.proof[2], alpha(input.body), neg_beta(input.body),
      l, neg_gamma(input.body), input.proof[3], neg_delta(input.body)>>

(* check_pairing(..).is_ok() as a block. *)
PairingFlag(buffer) ==
    IF pairing_validate_points(buffer) = Ok /\ ProductIsOne(buffer) THEN 1 ELSE 0

-----------------------------------------------------------------------------
Returns(data, cost) == [outcome |-> Ok, data |-> data, cost |-> cost]
Refused(cost) == [outcome |-> "InvalidInstructionData", data |-> <<>>, cost |-> cost]

MsmStage(input) ==
    LET msm == prepare_inputs(input) IN
    IF msm.outcome = Ok THEN Returns(<<msm.l>>, msm.cost) ELSE Refused(msm.cost)

PairingStage(input, l, cost) ==
    Returns(<<PairingFlag(assemble_pairing_input(input, l))>>,
            [cost EXCEPT !.pairing = 1])

mutant_VerifyStage_pairs_twice(input) ==
    LET msm == prepare_inputs(input) IN
    IF msm.outcome = Ok
    THEN [PairingStage(input, msm.l, msm.cost) EXCEPT !.cost.pairing = 2]
    ELSE Refused(msm.cost)

mutant_VerifyStage_supplied_l(input) ==
    LET msm == prepare_inputs(input) IN
    IF msm.outcome = Ok THEN PairingStage(input, input.l, msm.cost)
    ELSE Refused(msm.cost)

VerifyStage(input) ==
    LET msm == prepare_inputs(input) IN
    IF msm.outcome = Ok THEN PairingStage(input, msm.l, msm.cost)
    ELSE Refused(msm.cost)

(* The key counts as validated, whatever the harness supplied. *)
process_instruction(tag, data) ==
    LET input == Parsed(data) IN
    IF parse(data) # Ok \/ from_body_with_len(input.body, input.n) # Ok
    THEN Refused(Nothing)
    ELSE CASE tag = "NULL" -> Returns(<<>>, Nothing)
           [] tag = "BASELINE" -> Returns(<<alpha(input.body)>>, Nothing)
           [] tag = "ASSEMBLE" ->
                  Returns(<<assemble_pairing_input(input, input.l)[1]>>, Nothing)
           [] tag = "MSM" -> MsmStage(input)
           [] tag = "PAIRING" -> PairingStage(input, input.l, Nothing)
           [] tag = "VERIFY" -> VerifyStage(input)
           [] OTHER -> Refused(Nothing)

-----------------------------------------------------------------------------
Init == work \in Workload /\ results = <<>>

Measure(tag) ==
    /\ Len(Tags) > Cardinality(DOMAIN results)
    /\ tag = Tags[Cardinality(DOMAIN results) + 1]
    /\ results' = [t \in DOMAIN results \cup {tag} |->
                     IF t = tag THEN process_instruction(tag, instruction_data(work))
                     ELSE results[t]]
    /\ UNCHANGED work

Next == \E k \in DOMAIN Tags : Measure(Tags[k])

Spec == Init /\ [][Next]_vars

-----------------------------------------------------------------------------
Ran(tags) == tags \subseteq DOMAIN results

(* The program parses what the builder wrote, and nothing else: a workload with
   n scalars comes apart into its own parts, one with more or fewer is refused
   by every tag alike, so no tag measures a different input. *)
WorkloadKept ==
    LET data == instruction_data(work)
        whole == Len(work.inputs) = InferredInputs(work.body)
    IN /\ whole => /\ parse(data) = Ok
                   /\ work = [f \in DOMAIN work |-> Parsed(data)[f]]
       /\ \A tag \in DOMAIN results :
            ~whole => results[tag].outcome = "InvalidInstructionData"

(* The stage deltas of docs/cu-budget.md can be compared: on the same data the full
   verification makes exactly the syscalls of the MSM stage and of the pairing
   stage, the baselines make none, and only NULL returns no data. *)
StagesAddUp ==
    /\ Ran({"MSM", "PAIRING", "VERIFY"}) /\ results["VERIFY"].outcome = Ok =>
         \A syscall \in DOMAIN Nothing :
             results["VERIFY"].cost[syscall] =
                 results["MSM"].cost[syscall] + results["PAIRING"].cost[syscall]
    /\ \A tag \in DOMAIN results \cap {"NULL", "BASELINE", "ASSEMBLE"} :
         results[tag].cost = Nothing
    /\ \A tag \in DOMAIN results :
         results[tag].data = <<>> <=> tag = "NULL" \/ results[tag].outcome # Ok

(* The stages are the verification taken apart: the pairing stage answers like
   the full one exactly when the harness supplied the L that the MSM stage
   returns, and the two fail on the same inputs. *)
StagesAgree ==
    Ran({"MSM", "PAIRING", "VERIFY"}) =>
        /\ results["MSM"].outcome = results["VERIFY"].outcome
        /\ results["MSM"].outcome = Ok /\ results["MSM"].data = <<work.l>> =>
             results["PAIRING"].data = results["VERIFY"].data
        /\ results["VERIFY"].outcome = Ok =>
             results["VERIFY"].data =
                 <<PairingFlag(assemble_pairing_input(Parsed(instruction_data(work)),
                                                      results["MSM"].data[1]))>>
=============================================================================
