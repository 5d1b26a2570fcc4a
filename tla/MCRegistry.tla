----------------------------- MODULE MCRegistry -----------------------------
(***************************************************************************)
(* Small instances of Registry.  Two users and one staging key pair;       *)
(* bodies of two or three cells; three bodies have their addresses in the  *)
(* ledger, each under two bumps; rent exemption costs one lamport for an   *)
(* empty account and two for any other.                                    *)
(***************************************************************************)
EXTENDS Registry

CONSTANTS
    alice, bob, stage,
    Sizes,              \* values of n that staging accounts are created for
    Readonly,           \* wallets a transaction may lock read-only
    Signatures,         \* sets of wallets that sign a transaction
    Donation            \* amounts bob may send to an address

MCWallet == {alice, bob, stage}
MCBump == {254, 255}

(* One valid body for n = 0, one for n = 1, and the blank body. *)
Small == <<1, 1>>
Large == <<1, 0, 0>>
Unwritten == <<0, 0>>

MCSha256(body) == [sha256 |-> body]
MCCreateProgramAddress(hash, bump) == [vk |-> hash, bump |-> bump]
MCOnCurve(hash, bump) == hash = MCSha256(Large) /\ bump = 255
MCDerived ==
    {MCCreateProgramAddress(MCSha256(body), bump) :
        body \in {Small, Large, Unwritten}, bump \in MCBump}

MCCell == 0..2 \cup MCBump \cup MCWallet

MCMinimumBalance(len) == IF len = 0 THEN 1 ELSE 2

MCFunds == [a \in MCWallet \cup MCDerived \cup {System} |->
              CASE a = alice -> 4 [] a = bob -> 3 [] a = System -> 1 [] OTHER -> 0]

(* The first cell is alpha, a third cell is a second IC point. *)
MCValidateForPublish(body, n) ==
       Ensure(body[1] # 0, "IdentityKeyElement")
    ?? Ensure(n = 0 \/ body[3] = 0, "InvalidPoint")

MCVerifyProof(body, n, payload) ==
       Ensure(Len(payload) = PROOF_SIZE + n, "PublicInputCountMismatch")
    ?? Ensure(payload[1] = 1, "ProofInvalid")

MCHeader ==
    {[signers |-> s, readonly |-> r] :
        s \in Signatures, r \in {{}} \cup {{a} : a \in Readonly}}

(* The accounts of the staging instructions: a key may be passed as staging. *)
SmallKey == KeyAddress(Small)
Pairs == {<<w, stage>> : w \in MCWallet} \cup {<<alice, SmallKey>>}

Make(tag, accounts, payload) ==
    [tag |-> tag, accounts |-> accounts, payload |-> payload]

Initializations ==
    {Make("InitializeStaging", pair, p) :
        pair \in Pairs, p \in {<<>>, <<0>>, <<1>>, <<2>>}}

Writes ==
    {Make("Write", pair, p) :
        pair \in Pairs,
        p \in {<<>>, <<0, 1>>, <<0, 1, 1>>, <<1, 0>>, <<1, 1>>, <<2, 1>>, <<1, 1, 1>>}}

Publications ==
    {Make("Publish", <<w, p, stage, k, System>>, <<>>) :
        w \in MCWallet, p \in MCWallet, k \in MCDerived}
    \cup {Make("Publish", <<alice, bob, SmallKey, SmallKey, System>>, <<>>),
          Make("Publish", <<alice, bob, stage, SmallKey, System, bob>>, <<>>),
          Make("Publish", <<alice, bob, stage, SmallKey>>, <<>>),
          Make("Publish", <<alice, bob, stage, SmallKey, bob>>, <<>>),
          Make("Publish", <<alice, bob, stage, SmallKey, System>>, <<0>>)}

Closes ==
    {Make("CloseStaging", pair, p) : pair \in Pairs, p \in {<<>>, <<0>>}}

Verifications ==
    {Make("Verify", <<k>>, p) : k \in MCDerived \cup {stage}, p \in {<<>>, <<0>>, <<1>>}}
    \cup {Make("Verify", <<SmallKey, stage>>, <<1>>)}

MCInstruction ==
    Initializations \cup Writes \cup Publications \cup Closes \cup Verifications
    \cup {Make("Unknown", <<>>, <<>>)}

MCSystemInstruction ==
    {[op |-> "CreateAccount", from |-> w, to |-> stage, lamports |-> 2, space |-> len] :
        w \in {alice, bob},
        len \in {key_account_len(0)} \cup {staging_account_len(n) : n \in Sizes}}
    \cup {[op |-> "Transfer", from |-> bob, to |-> a, lamports |-> amount, space |-> 0] :
        a \in {stage, SmallKey}, amount \in Donation}
=============================================================================
