---------------------------- MODULE BenchProofs ----------------------------
(***************************************************************************)
(* Theorems about Bench, for every workload: the harness measures the      *)
(* input it built, and its stages are the verification taken apart.        *)
(***************************************************************************)
EXTENDS Bench, LayoutProofs

(* The largest index of a set of indices exists, so FoldLeft takes it first. *)
LEMMA LargestIndex ==
    ASSUME NEW n \in Nat, NEW s \in SUBSET (1..n), s # {}
    PROVE  Max(s) \in s
<1> DEFINE A == {m \in Nat : \A t \in SUBSET (1..m) :
                    t # {} => \E x \in t : \A y \in t : x >= y}
<1>1. 0 \in A
  <2>1. 1..0 = {}
    OBVIOUS
  <2> QED
    BY <2>1
<1>2. ASSUME NEW m \in Nat, m \in A
      PROVE  m + 1 \in A
  <2>1. ASSUME NEW t \in SUBSET (1..(m + 1)), t # {}
        PROVE  \E x \in t : \A y \in t : x >= y
    <3>1. CASE m + 1 \in t
      BY <3>1
    <3>2. CASE m + 1 \notin t
      <4>1. t \in SUBSET (1..m)
        BY <3>2
      <4> QED
        BY <1>2, <2>1, <4>1
    <3> QED
      BY <3>1, <3>2
  <2> QED
    BY <2>1
<1> HIDE DEF A
<1>3. n \in A
  BY <1>1, <1>2, InductionBySet
<1>4. \E x \in s : \A y \in s : x >= y
  BY <1>3 DEF A
<1> QED
  BY <1>4 DEF Max

(* The syscalls of an MSM: no pairing among them. *)
Spent == [add : Nat, mul : Nat, pairing : {0}]

(* The states of the loop: the accumulator is IC[0] until a point is added. *)
MsmState(input) ==
    [outcome : {Ok, "InvalidPoint"}, l : G1 \cup {ic(input.body, 0)}, cost : Spent]

(* Every term of the MSM keeps the loop among its states. *)
LEMMA AddTermType ==
    ASSUME NEW input, NEW s \in MsmState(input), NEW j
    PROVE  AddTerm(input, s, j) \in MsmState(input)
<1> DEFINE scalar == input.inputs[j]
           point == ic(input.body, j)
           term == IF is_one(scalar) THEN point ELSE Times(scalar, point)
           multiplied == IF is_one(scalar) THEN Ok ELSE g1_mul(point, scalar)
           mul == s.cost.mul + (IF is_one(scalar) THEN 0 ELSE 1)
           added == g1_add(s.l, term)
<1>1. /\ s.cost \in Spent /\ s.cost.mul \in Nat /\ s.cost.add \in Nat
      /\ s.outcome \in {Ok, "InvalidPoint"}
      /\ s.l \in G1 \cup {ic(input.body, 0)}
  BY DEF MsmState, Spent
<1>2. mul \in Nat /\ multiplied \in {Ok, "InvalidPoint"}
  BY <1>1 DEF g1_mul, group_op, Ensure
<1>3. /\ added \in {Ok, "InvalidPoint"}
      /\ added = Ok => s.l \in G1 /\ term \in G1
  BY DEF g1_add, group_op, Ensure, Ok
<1> HIDE DEF scalar, point, term, multiplied, mul, added
<1>4. added = Ok => Plus(s.l, term) \in G1
  BY <1>3, CurveAssumption
<1>5. \/ AddTerm(input, s, j) = s
      \/ AddTerm(input, s, j) = [s EXCEPT !.outcome = multiplied, !.cost.mul = mul]
      \/ AddTerm(input, s, j) =
           [outcome |-> added, l |-> IF added = Ok THEN Plus(s.l, term) ELSE s.l,
            cost |-> [s.cost EXCEPT !.add = @ + 1, !.mul = mul]]
  BY DEF AddTerm, scalar, point, term, multiplied, mul, added
<1>6. [s EXCEPT !.outcome = multiplied, !.cost.mul = mul] \in MsmState(input)
  BY <1>1, <1>2 DEF MsmState, Spent
<1>7. [s.cost EXCEPT !.add = @ + 1, !.mul = mul] \in Spent
  <2>1. ASSUME NEW k \in Spent
        PROVE  [k EXCEPT !.add = @ + 1, !.mul = mul] \in Spent
    <3>1. k.add + 1 \in Nat
      BY DEF Spent
    <3>2. [k EXCEPT !.add = k.add + 1] \in Spent
      BY <3>1 DEF Spent
    <3> QED
      BY <1>2, <3>2 DEF Spent
  <2> QED
    BY <1>1, <2>1
<1>8. [outcome |-> added, l |-> IF added = Ok THEN Plus(s.l, term) ELSE s.l,
       cost |-> [s.cost EXCEPT !.add = @ + 1, !.mul = mul]] \in MsmState(input)
  <2>1. (IF added = Ok THEN Plus(s.l, term) ELSE s.l) \in G1 \cup {ic(input.body, 0)}
    BY <1>1, <1>4
  <2> QED
    BY <1>3, <1>7, <2>1 DEF MsmState
<1> QED
  BY <1>5, <1>6, <1>8

(* The MSM makes no pairing call and counts its additions and multiplications,
   however it ends. *)
LEMMA MsmSpends ==
    ASSUME NEW input, input.n \in Nat
    PROVE  prepare_inputs(input).cost \in Spent
<1> DEFINE start == [outcome |-> Ok, l |-> ic(input.body, 0), cost |-> Nothing]
           V == MsmState(input)
           seq == [j \in 1..input.n |-> j]
           S == 1..input.n
           Equation(g) == g = [s \in SUBSET (DOMAIN seq) |->
                                 IF s = {} THEN start
                                 ELSE AddTerm(input, g[s \ {Max(s)}], seq[Max(s)])]
           fold == CHOOSE g : Equation(g)
           c == [s \in SUBSET S |-> Max(s)]
           op == [j \in S |-> [v \in V |-> AddTerm(input, v, j)]]
<1>1. start \in V /\ start.cost \in Spent
  BY DEF MsmState, Spent, Nothing, Ok
<1>2. \/ prepare_inputs(input).cost = start.cost
      \/ prepare_inputs(input) = fold[DOMAIN seq]
  <2>1. FoldLeft(LAMBDA s, j : AddTerm(input, s, j), start, seq) = fold[DOMAIN seq]
    BY Zenon DEF FoldLeft, MapThenFoldSet
  <2> HIDE DEF fold
  <2> QED
    BY <2>1 DEF prepare_inputs
<1>3. DOMAIN seq = S /\ IsFiniteSet(S)
  BY FS_Interval, 1 \in Int
<1>4. \A s \in SUBSET S : s # {} => Max(s) \in s
  BY LargestIndex
<1>5. IsChoice(c, S)
  BY <1>4 DEF IsChoice
<1>6. op \in [S -> [V -> V]]
  BY AddTermType
<1> HIDE DEF V, start
<1>7. PICK g \in [SUBSET S -> V] : IsFold(g, op, start, c, S)
  <2> HIDE DEF op, c, S
  <2> QED
    BY <1>1, <1>3, <1>5, <1>6, FoldExists
<1>8. Equation(g)
  <2>1. ASSUME NEW s \in SUBSET S
        PROVE  g[s] = IF s = {} THEN start
                      ELSE AddTerm(input, g[s \ {Max(s)}], seq[Max(s)])
    <3>1. g[s] = FoldStep(op, start, c, g, s)
      BY <1>7 DEF IsFold
    <3>2. s # {} => Max(s) \in S /\ c[s] = Max(s)
      BY <1>4
    <3>3. g[s \ {Max(s)}] \in V
      OBVIOUS
    <3> QED
      BY <3>1, <3>2, <3>3 DEF FoldStep
  <2> QED
    BY <1>3, <2>1
<1>9. Equation(fold)
  <2> HIDE DEF Equation
  <2>1. \E h : Equation(h)
    BY <1>8
  <2> QED
    BY <2>1
<1>10. fold[S] \in V
  <2> HIDE DEF fold
  <2> DEFINE A == {s \in SUBSET S : fold[s] \in V}
  <2>1. \A s \in SUBSET S :
          fold[s] = IF s = {} THEN start
                    ELSE AddTerm(input, fold[s \ {Max(s)}], seq[Max(s)])
    BY <1>3, <1>9
  <2>2. {} \in A
    BY <1>1, <2>1
  <2>3. ASSUME NEW s \in SUBSET S, s # {}, s \ {c[s]} \in A
        PROVE  s \in A
    <3>1. fold[s \ {Max(s)}] \in V
      BY <2>3
    <3>2. fold[s] \in V
      <4>1. AddTerm(input, fold[s \ {Max(s)}], seq[Max(s)]) \in V
        BY <3>1, AddTermType DEF V
      <4> QED
        BY <2>1, <2>3, <4>1
    <3> QED
      BY <3>2
  <2> HIDE DEF A, c, S
  <2>4. S \in A
    BY <1>3, <1>5, <2>2, <2>3, SubsetInduction
  <2> QED
    BY <2>4 DEF A
<1> HIDE DEF fold, S
<1>11. fold[S].cost \in Spent
  BY <1>10 DEF V, MsmState
<1> QED
  BY <1>1, <1>2, <1>3, <1>11

-----------------------------------------------------------------------------
(* The input that the program parses is the one the builder wrote. *)

(* n derived from the length of a body gives back that length: a point is one
   block. *)
LEMMA InferredLength ==
    ASSUME NEW Cell, NEW body \in Seq(Cell)
    PROVE  /\ InferredInputs(body) \in Int
           /\ vk_body_len(InferredInputs(body)) = Len(body)
<1> DEFINE m == Len(body)
<1>1. m \in Nat
  OBVIOUS
<1> HIDE DEF m
<1>2. (m - 4) \div 1 - 1 = m - 5
  BY <1>1
<1>3. InferredInputs(body) = m - 5
  BY <1>2, VerifyingKeyAssumption DEF InferredInputs, m
<1>4. vk_body_len(m - 5) = m
  BY <1>1, VerifyingKeyAssumption DEF vk_body_len
<1> QED
  BY <1>1, <1>3, <1>4 DEF m

(* What the harness supplies. *)
LEMMA WorkloadParts ==
    ASSUME NEW w \in Workload
    PROVE  /\ w.body \in Seq(Int) /\ w.proof \in Seq(Int) /\ w.inputs \in Seq(Int)
           /\ w.l \in Int
           /\ Len(w.proof) = 3
           /\ Len(w.body) \in Nat /\ Len(w.inputs) \in Nat
           /\ InferredInputs(w.body) \in Int
           /\ vk_body_len(InferredInputs(w.body)) = Len(w.body)
<1>1. /\ w.body \in Seq(Block) /\ w.proof \in Seq(Block) /\ w.inputs \in Seq(Block)
      /\ w.l \in Block
  BY WorkloadAssumption
<1>2. Block \subseteq Int
  BY CurveAssumption
<1>3. w.body \in Seq(Int) /\ w.proof \in Seq(Int) /\ w.inputs \in Seq(Int)
  BY <1>1, <1>2, SeqMonotonic
<1>4. Len(w.body) \in Nat /\ Len(w.inputs) \in Nat
  BY <1>3, LenProperties
<1>5. /\ InferredInputs(w.body) \in Int
      /\ vk_body_len(InferredInputs(w.body)) = Len(w.body)
  BY <1>3, InferredLength
<1> QED
  BY <1>1, <1>2, <1>3, <1>4, <1>5, WorkloadAssumption DEF PROOF_BLOCKS

(* Input::parse accepts exactly the workloads with n scalars, and takes such a
   workload apart into its own parts. *)
LEMMA ParseInverse ==
    ASSUME NEW w \in Workload, NEW data, data = instruction_data(w),
           NEW input, input = Parsed(data)
    PROVE  /\ parse(data) = Ok <=> Len(w.inputs) = InferredInputs(w.body)
           /\ Len(w.inputs) = InferredInputs(w.body) =>
                /\ input.n \in Nat
                /\ input.body = w.body
                /\ input.proof = w.proof
                /\ input.inputs = w.inputs
                /\ input.l = w.l
<1> DEFINE n == InferredInputs(w.body)
           b == Len(w.body)
           i == Len(w.inputs)
           rest == SubSeq(data, 2 + b, Len(data))
           need == 1 + vk_body_len(data[1]) + PROOF_BLOCKS + data[1]
<1>1. n \in Int /\ b \in Nat /\ i \in Nat /\ vk_body_len(n) = b
  BY WorkloadParts
<1>2. data = <<n>> \o w.body \o w.proof \o w.inputs \o <<w.l>>
  BY DEF instruction_data
<1> DEFINE x == <<n>>
           y == <<w.l>>
<1>3. /\ data[1] = n
      /\ Len(data) = 2 + b + 3 + i
      /\ SubSeq(data, 2, 1 + b) = w.body
      /\ SubSeq(rest, 1, 3) = w.proof
      /\ SubSeq(rest, 3 + 1, 3 + i) = w.inputs
      /\ rest[3 + i + 1] = w.l
  <2> DEFINE body == w.body
             proof == w.proof
             inputs == w.inputs
  <2>1. /\ x \in Seq(Int) /\ Len(x) = 1 /\ x[1] = n
        /\ y \in Seq(Int) /\ Len(y) = 1 /\ y[1] = w.l
        /\ body \in Seq(Int) /\ proof \in Seq(Int) /\ inputs \in Seq(Int)
        /\ Len(proof) = 3
    BY <1>1, WorkloadParts
  <2> HIDE DEF x, y
  <2>2. data = x \o body \o proof \o inputs \o y
    BY <1>2, Zenon DEF x, y
  <2> HIDE DEF n, body, proof, inputs
  <2>3. ReadBack(x \o body \o proof \o inputs \o y, x, body, proof, inputs, y)
    <3>1. Single(x) /\ Single(y)
      BY <2>1 DEF Single
    <3>2. /\ x \in Seq(Int) /\ y \in Seq(Int) /\ body \in Seq(Int)
          /\ proof \in Seq(Int) /\ inputs \in Seq(Int)
      BY <2>1
    <3> QED
      BY <3>1, <3>2, PartsReadBack
  <2>4. ReadBack(data, x, body, proof, inputs, y)
    BY <2>2, <2>3, Zenon
  <2> QED
    BY <2>1, <2>4 DEF ReadBack, body, proof, inputs
<1> HIDE DEF n, b, i
<1>4. parse(data) = Ok <=> i = n
  <2>1. need = 4 + b + n
    BY <1>1, <1>3 DEF PROOF_BLOCKS
  <2> HIDE DEF need
  <2>2. parse(data) = Ok <=> Len(data) >= 1 /\ Len(data) >= need /\ Len(data) - need = 1
    BY ThenOk DEF parse, Ensure, Ok, need
  <2> QED
    BY <1>1, <1>3, <2>1, <2>2
<1>5. ASSUME i = n
      PROVE  /\ input.n \in Nat
             /\ input.body = w.body
             /\ input.proof = w.proof
             /\ input.inputs = w.inputs
             /\ input.l = w.l
  <2>1. Parsed(data) =
          [n |-> n, body |-> SubSeq(data, 2, 1 + b), proof |-> SubSeq(rest, 1, 3),
           inputs |-> SubSeq(rest, 3 + 1, 3 + n), l |-> rest[3 + n + 1]]
    BY <1>1, <1>3 DEF Parsed, PROOF_BLOCKS
  <2> QED
    BY <1>1, <1>3, <1>5, <2>1
<1> QED
  BY <1>4, <1>5 DEF n, i

-----------------------------------------------------------------------------
(* Every tag that has run did what the program does on the workload's data. *)
BenchInv ==
    /\ work \in Workload
    /\ \A t \in DOMAIN results :
         results[t] = process_instruction(t, instruction_data(work))

(* The harness records the results of one tag and keeps the others, on a workload
   that does not change. *)
LEMMA BenchInductive == Spec => []BenchInv
<1>1. Init => BenchInv
  BY DEF Init, BenchInv
<1>2. BenchInv /\ [Next]_vars => BenchInv'
  <2> SUFFICES ASSUME BenchInv, [Next]_vars PROVE BenchInv'
    OBVIOUS
  <2>1. ASSUME NEW tag, Measure(tag)
        PROVE  BenchInv'
    <3>1. work' = work
      BY <2>1 DEF Measure
    <3>2. results' = [t \in DOMAIN results \cup {tag} |->
                        IF t = tag THEN process_instruction(tag, instruction_data(work))
                        ELSE results[t]]
      BY <2>1 DEF Measure
    <3> QED
      BY <3>1, <3>2 DEF BenchInv
  <2>2. CASE UNCHANGED vars
    BY <2>2 DEF vars, BenchInv
  <2> QED
    BY <2>1, <2>2 DEF Next
<1> QED
  BY <1>1, <1>2, PTL DEF Spec

(* What a tag returns for an input that was accepted. *)
Runs(tag, input, r) ==
    /\ tag = "NULL" => r = Returns(<<>>, Nothing)
    /\ tag = "BASELINE" => r = Returns(<<alpha(input.body)>>, Nothing)
    /\ tag = "ASSEMBLE" =>
         r = Returns(<<assemble_pairing_input(input, input.l)[1]>>, Nothing)
    /\ tag = "MSM" => r = MsmStage(input)
    /\ tag = "PAIRING" => r = PairingStage(input, input.l, Nothing)
    /\ tag = "VERIFY" => r = VerifyStage(input)
    /\ tag \notin {"NULL", "BASELINE", "ASSEMBLE", "MSM", "PAIRING", "VERIFY"} =>
         r = Refused(Nothing)

(* A tag runs its stage on the workload's own parts, or refuses the whole input:
   the same decision for every tag. *)
LEMMA TagRuns ==
    ASSUME BenchInv
    PROVE  LET data == instruction_data(work)
               input == Parsed(data)
               accepted == parse(data) = Ok /\ from_body_with_len(input.body, input.n) = Ok
           IN /\ accepted => /\ input.n \in Nat /\ input.l = work.l
                             /\ Len(work.inputs) = InferredInputs(work.body)
              /\ \A t \in DOMAIN results :
                   IF accepted THEN Runs(t, input, results[t])
                   ELSE results[t] = Refused(Nothing)
<1> DEFINE data == instruction_data(work)
           input == Parsed(data)
           accepted == parse(data) = Ok /\ from_body_with_len(input.body, input.n) = Ok
<1>1. work \in Workload
  BY DEF BenchInv
<1>2. accepted => /\ input.n \in Nat /\ input.l = work.l
                  /\ Len(work.inputs) = InferredInputs(work.body)
  BY <1>1, ParseInverse
<1>3. \A t \in DOMAIN results : results[t] = process_instruction(t, data)
  BY DEF BenchInv
<1> HIDE DEF data
<1>4. ASSUME NEW t
      PROVE  IF accepted THEN Runs(t, input, process_instruction(t, data))
             ELSE process_instruction(t, data) = Refused(Nothing)
  BY DEF process_instruction, Runs
<1> QED
  BY <1>2, <1>3, <1>4 DEF data

-----------------------------------------------------------------------------
(* Whatever the workload, the program parses the input that the builder wrote,
   part for part, and every tag refuses one whose scalars are not n: no tag of
   the benchmark measures another input (Input::parse, instruction_data). *)
THEOREM MeasuresItsInput == Spec => []WorkloadKept
<1>1. BenchInv => WorkloadKept
  <2> SUFFICES ASSUME BenchInv PROVE WorkloadKept
    OBVIOUS
  <2> DEFINE data == instruction_data(work)
             input == Parsed(data)
             whole == Len(work.inputs) = InferredInputs(work.body)
  <2>1. work \in Workload
    BY DEF BenchInv
  <2>2. /\ parse(data) = Ok <=> whole
        /\ whole => /\ input.body = work.body /\ input.proof = work.proof
                    /\ input.inputs = work.inputs /\ input.l = work.l
    BY <2>1, ParseInverse
  <2>3. work \in [body : Seq(Block), proof : Seq(Block), inputs : Seq(Block), l : Block]
    BY <2>1, WorkloadAssumption
  <2>4. \A t \in DOMAIN results : ~whole => results[t].outcome = "InvalidInstructionData"
    BY <2>2, TagRuns DEF Refused
  <2> HIDE DEF data, input
  <2>5. whole => work = [f \in DOMAIN work |-> input[f]]
    BY <2>2, <2>3
  <2> QED
    BY <2>2, <2>4, <2>5 DEF WorkloadKept, data, input
<1> QED
  BY <1>1, BenchInductive, PTL

(* The results of the stages differ from each other as the stages do. *)
LEMMA StageResults ==
    ASSUME NEW input, NEW l
    PROVE  LET msm == prepare_inputs(input)
               pairing == PairingStage(input, l, Nothing)
           IN /\ pairing.outcome = Ok
              /\ pairing.data = <<PairingFlag(assemble_pairing_input(input, l))>>
              /\ pairing.cost = [Nothing EXCEPT !.pairing = 1]
              /\ MsmStage(input).cost = msm.cost
              /\ MsmStage(input).outcome = VerifyStage(input).outcome
              /\ IF msm.outcome = Ok
                 THEN /\ MsmStage(input).outcome = Ok
                      /\ MsmStage(input).data = <<msm.l>>
                      /\ VerifyStage(input).data =
                           <<PairingFlag(assemble_pairing_input(input, msm.l))>>
                      /\ VerifyStage(input).cost = [msm.cost EXCEPT !.pairing = 1]
                 ELSE /\ MsmStage(input).outcome # Ok
                      /\ MsmStage(input).data = <<>>
                      /\ VerifyStage(input).data = <<>>
BY DEF MsmStage, VerifyStage, PairingStage, Returns, Refused, Ok

(* The stages are the verification taken apart, for every workload: MSM and
   VERIFY fail on the same inputs, VERIFY answers the pairing check of the L
   that MSM returns, and PAIRING answers like VERIFY when the harness supplied
   that L (process_instruction of tools/bench). *)
THEOREM StagesTakeApart == Spec => []StagesAgree
<1>1. BenchInv => StagesAgree
  <2> SUFFICES ASSUME BenchInv, Ran({"MSM", "PAIRING", "VERIFY"})
               PROVE  /\ results["MSM"].outcome = results["VERIFY"].outcome
                      /\ results["MSM"].outcome = Ok /\ results["MSM"].data = <<work.l>> =>
                           results["PAIRING"].data = results["VERIFY"].data
                      /\ results["VERIFY"].outcome = Ok =>
                           results["VERIFY"].data =
                             <<PairingFlag(assemble_pairing_input(
                                 Parsed(instruction_data(work)), results["MSM"].data[1]))>>
    BY DEF StagesAgree
  <2> DEFINE data == instruction_data(work)
             input == Parsed(data)
             accepted == parse(data) = Ok /\ from_body_with_len(input.body, input.n) = Ok
             msm == prepare_inputs(input)
  <2>1. {"MSM", "PAIRING", "VERIFY"} \subseteq DOMAIN results
    BY DEF Ran
  <2>2. CASE ~accepted
    <3>1. \A t \in {"MSM", "PAIRING", "VERIFY"} : results[t] = Refused(Nothing)
      BY <2>1, <2>2, TagRuns
    <3> QED
      BY <3>1 DEF Refused, Ok
  <2>3. CASE accepted
    <3>1. /\ results["MSM"] = MsmStage(input)
          /\ results["PAIRING"] = PairingStage(input, input.l, Nothing)
          /\ results["VERIFY"] = VerifyStage(input)
          /\ input.l = work.l
      BY <2>1, <2>3, TagRuns DEF Runs
    <3> HIDE DEF input
    <3>2. /\ PairingStage(input, input.l, Nothing).data =
               <<PairingFlag(assemble_pairing_input(input, input.l))>>
          /\ MsmStage(input).outcome = VerifyStage(input).outcome
          /\ MsmStage(input).outcome = Ok =>
               /\ MsmStage(input).data = <<msm.l>>
               /\ VerifyStage(input).data =
                    <<PairingFlag(assemble_pairing_input(input, msm.l))>>
      BY StageResults
    <3>3. ASSUME <<msm.l>> = <<work.l>> PROVE msm.l = work.l
      BY <3>3
    <3>4. <<msm.l>>[1] = msm.l
      OBVIOUS
    <3> QED
      BY <3>1, <3>2, <3>3, <3>4 DEF input
  <2> QED
    BY <2>2, <2>3
<1> QED
  BY <1>1, BenchInductive, PTL

(* The stage deltas of docs/cu-budget.md can be compared on every workload: VERIFY makes
   the syscalls of MSM and of PAIRING together, the baselines make none, and data
   is returned by every stage that succeeds except NULL. *)
THEOREM CostsAddUp == Spec => []StagesAddUp
<1>1. BenchInv => StagesAddUp
  <2> SUFFICES ASSUME BenchInv PROVE StagesAddUp
    OBVIOUS
  <2> DEFINE data == instruction_data(work)
             input == Parsed(data)
             accepted == parse(data) = Ok /\ from_body_with_len(input.body, input.n) = Ok
             msm == prepare_inputs(input)
  <2>1. ASSUME ~accepted PROVE \A t \in DOMAIN results : results[t] = Refused(Nothing)
    BY <2>1, TagRuns
  <2>2. ASSUME accepted PROVE /\ input.n \in Nat
                              /\ \A t \in DOMAIN results : Runs(t, input, results[t])
    BY <2>2, TagRuns
  <2> HIDE DEF input, accepted
  <2>3. ASSUME Ran({"MSM", "PAIRING", "VERIFY"}), results["VERIFY"].outcome = Ok
        PROVE  \A syscall \in DOMAIN Nothing :
                 results["VERIFY"].cost[syscall] =
                   results["MSM"].cost[syscall] + results["PAIRING"].cost[syscall]
    <3>1. {"MSM", "PAIRING", "VERIFY"} \subseteq DOMAIN results
      BY <2>3 DEF Ran
    <3>2. accepted
      BY <2>1, <2>3, <3>1 DEF Refused, Ok
    <3>3. /\ results["MSM"] = MsmStage(input)
          /\ results["PAIRING"] = PairingStage(input, input.l, Nothing)
          /\ results["VERIFY"] = VerifyStage(input)
          /\ input.n \in Nat
      BY <2>2, <3>1, <3>2 DEF Runs
    <3>4. msm.cost \in Spent
      BY <3>3, MsmSpends
    <3>5. msm.outcome = Ok
      BY <2>3, <3>3, StageResults
    <3>6. /\ results["MSM"].cost = msm.cost
          /\ results["PAIRING"].cost = [Nothing EXCEPT !.pairing = 1]
          /\ results["VERIFY"].cost = [msm.cost EXCEPT !.pairing = 1]
      BY <3>3, <3>5, StageResults
    <3>7. ASSUME NEW c \in Spent, NEW syscall \in DOMAIN Nothing
          PROVE  [c EXCEPT !.pairing = 1][syscall] =
                   c[syscall] + [Nothing EXCEPT !.pairing = 1][syscall]
      BY DEF Spent, Nothing
    <3> QED
      BY <3>4, <3>6, <3>7
  <2>4. \A t \in DOMAIN results \cap {"NULL", "BASELINE", "ASSEMBLE"} :
          results[t].cost = Nothing
    BY <2>1, <2>2 DEF Runs, Returns, Refused
  <2>5. \A t \in DOMAIN results :
          results[t].data = <<>> <=> t = "NULL" \/ results[t].outcome # Ok
    <3> SUFFICES ASSUME NEW t \in DOMAIN results
                 PROVE  results[t].data = <<>> <=> t = "NULL" \/ results[t].outcome # Ok
      OBVIOUS
    <3>1. CASE ~accepted
      BY <2>1, <3>1 DEF Refused, Ok
    <3>2. CASE accepted
      <4>1. Runs(t, input, results[t])
        BY <2>2, <3>2
      <4>2. CASE t = "MSM" \/ t = "PAIRING" \/ t = "VERIFY"
        <5>1. \A x : <<x>> # <<>>
          OBVIOUS
        <5>2. LET r == MsmStage(input) IN r.data = <<>> <=> r.outcome # Ok
          BY <5>1, StageResults
        <5>3. LET r == PairingStage(input, input.l, Nothing) IN
              r.data = <<>> <=> r.outcome # Ok
          BY <5>1 DEF PairingStage, Returns
        <5>4. LET r == VerifyStage(input) IN r.data = <<>> <=> r.outcome # Ok
          BY <5>1, StageResults, ZenonT(60)
        <5> QED
          BY <4>1, <4>2, <5>2, <5>3, <5>4 DEF Runs
      <4>3. CASE t \notin {"MSM", "PAIRING", "VERIFY"}
        BY <4>1, <4>3 DEF Runs, Returns, Refused, Ok
      <4> QED
        BY <4>2, <4>3
    <3> QED
      BY <3>1, <3>2
  <2> QED
    BY <2>3, <2>4, <2>5 DEF StagesAddUp
<1> QED
  BY <1>1, BenchInductive, PTL
=============================================================================
