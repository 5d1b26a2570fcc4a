--------------------------- MODULE KeyValidation ---------------------------
(***************************************************************************)
(* validation.rs: validate_for_publish, one action per syscall.  An        *)
(* operator named mutant_... is a faulty variant of the definition that    *)
(* follows it, for the check that the properties tell them apart.          *)
(***************************************************************************)
EXTENDS VerifyingKey

CONSTANT Body(_)        \* the bodies tried for a given n

ASSUME BodyAssumption ==
    \A n \in 0..MAX_PUBLIC_INPUTS : \A body \in Body(n) : IsBody(body, n)

VARIABLES
    body, n,    \* the key, as from_body_with_len accepted it
    pc,         \* the next statement: "identity", "pairing", "ic" or "done"
    i,          \* loop index
    adds,       \* G1_ADD calls made
    outcome     \* what the call returned

vars == <<body, n, pc, i, adds, outcome>>

Return(result) == pc' = "done" /\ outcome' = result

Init ==
    /\ n \in 0..MAX_PUBLIC_INPUTS
    /\ body \in Body(n)
    /\ pc = "identity"
    /\ i = 1 /\ adds = 0
    /\ outcome = "running"

mutant_CheckIdentity_no_delta ==
    /\ pc = "identity"
    /\ IF \/ is_zero(alpha(body)) \/ is_zero(neg_beta(body))
          \/ is_zero(neg_gamma(body))
       THEN Return("IdentityKeyElement")
       ELSE pc' = "pairing" /\ UNCHANGED outcome
    /\ UNCHANGED <<body, n, i, adds>>

CheckIdentity ==
    /\ pc = "identity"
    /\ IF \/ is_zero(alpha(body)) \/ is_zero(neg_beta(body))
          \/ is_zero(neg_gamma(body)) \/ is_zero(neg_delta(body))
       THEN Return("IdentityKeyElement")
       ELSE pc' = "pairing" /\ UNCHANGED outcome
    /\ UNCHANGED <<body, n, i, adds>>

(* Three pairs; IC[0] fills the G1 side of the last two. *)
PairingInput ==
    <<alpha(body), neg_beta(body), ic(body, 0), neg_gamma(body),
      ic(body, 0), neg_delta(body)>>

ValidatePairing ==
    /\ pc = "pairing"
    /\ IF pairing_validate_points(PairingInput) = Ok
       THEN pc' = "ic" /\ UNCHANGED outcome
       ELSE Return(pairing_validate_points(PairingInput))
    /\ UNCHANGED <<body, n, i, adds>>

(* for i in (1..=n).step_by(2): an odd last point is added to itself. *)
mutant_Partner_misses_last == ic(body, IF i + 1 < n THEN i + 1 ELSE i)

Partner == IF i < n THEN ic(body, i + 1) ELSE ic(body, i)

mutant_AddPair_step_by_one ==
    /\ pc = "ic" /\ i <= n
    /\ adds' = adds + 1
    /\ IF g1_add(ic(body, i), Partner) = Ok
       THEN i' = i + 1 /\ UNCHANGED <<pc, outcome>>
       ELSE Return(g1_add(ic(body, i), Partner)) /\ UNCHANGED i
    /\ UNCHANGED <<body, n>>

AddPair ==
    /\ pc = "ic" /\ i <= n
    /\ adds' = adds + 1
    /\ IF g1_add(ic(body, i), Partner) = Ok
       THEN i' = i + 2 /\ UNCHANGED <<pc, outcome>>
       ELSE Return(g1_add(ic(body, i), Partner)) /\ UNCHANGED i
    /\ UNCHANGED <<body, n>>

mutant_Finish_exact ==
    /\ pc = "ic" /\ i = n + 1
    /\ Return(Ok)
    /\ UNCHANGED <<body, n, i, adds>>

Finish ==
    /\ pc = "ic" /\ i > n
    /\ Return(Ok)
    /\ UNCHANGED <<body, n, i, adds>>

Next == CheckIdentity \/ ValidatePairing \/ AddPair \/ Finish

(* The call is sequential: the next statement is always executed. *)
Spec == Init /\ [][Next]_vars /\ WF_vars(Next)

-----------------------------------------------------------------------------
(* The types of the variables. *)
TypeOK ==
    /\ IsBody(body, n)
    /\ pc \in {"identity", "pairing", "ic", "done"}
    /\ i \in Nat \ {0} /\ adds \in Nat
    /\ outcome \in {"running", Ok, "IdentityKeyElement", "InvalidPoint"}

(* validate_for_publish accepts exactly the keys whose every point decodes and
   whose alpha, -beta, -gamma, -delta are not the identity: no IC point escapes
   the pairwise loop, whether n is odd, even or zero, and an identity IC passes. *)
ValidationExact ==
    pc = "done" => (outcome = Ok <=> WellFormedKey(body, n))

(* The n points of the loop take at most ceil(n/2) G1_ADD calls, and exactly
   that many when the key is accepted (the cost validation.rs promises). *)
HalfTheCalls ==
    /\ adds <= (n + 1) \div 2
    /\ outcome = Ok => adds = (n + 1) \div 2

(* The loop's invariant: all points below i decode, i advances by two for every
   call, and what was returned is right.  The two properties above follow. *)
ValidatedSoFar ==
    /\ TypeOK
    /\ pc = "done" <=> outcome # "running"
    /\ pc \in {"identity", "pairing"} => i = 1
    /\ pc # "done" => i = 2 * adds + 1 /\ 2 * adds <= n + 1
    /\ HalfTheCalls
    /\ pc = "pairing" => NoIdentity(body)
    /\ pc = "ic" =>
         /\ NoIdentity(body) /\ ic(body, 0) \in G1 /\ alpha(body) \in G1
         /\ {neg_beta(body), neg_gamma(body), neg_delta(body)} \subseteq G2
         /\ \A j \in 0..n : j < i => ic(body, j) \in G1
    /\ outcome = Ok => WellFormedKey(body, n)
    /\ outcome \in {"IdentityKeyElement", "InvalidPoint"} => ~WellFormedKey(body, n)

(* The call returns. *)
Terminates == <>(pc = "done")
=============================================================================
