---------------------------- MODULE MCUploader ----------------------------
(***************************************************************************)
(* alice uploads two keys in steps through one staging account, bob the    *)
(* first of them in one transaction.  Bodies have three or four cells and  *)
(* go out in pieces of two, so the last piece may be shorter.  Others try  *)
(* to claim, overwrite or close alice's staging account, and send lamports *)
(* to the address of a key.                                                *)
(***************************************************************************)
EXTENDS Uploader

CONSTANTS
    alice, bob, stageA, stageB,
    SecondInputs,       \* n of alice's second key
    MCClient,           \* who uploads
    Meddling            \* whether others interfere

MCWallet == {alice, bob, stageA, stageB}
MCBump == {255}

First == <<1, 1, 1>>
Second == IF SecondInputs = 0 THEN <<2, 2, 2>> ELSE <<2, 2, 2, 2>>

MCSha256(body) == [sha256 |-> body]
MCCreateProgramAddress(hash, bump) == [vk |-> hash, bump |-> bump]
MCOnCurve(hash, bump) == FALSE
MCDerived == {MCCreateProgramAddress(MCSha256(body), 255) : body \in {First, Second}}
MCCell == 0..2 \cup MCBump \cup MCWallet
MCMinimumBalance(len) == IF len = 0 THEN 1 ELSE 2
MCFunds == [a \in MCWallet \cup MCDerived \cup {System} |->
              CASE a = alice -> 7 [] a = bob -> 5 [] a = System -> 1 [] OTHER -> 0]

(* Any body without an unwritten cell validates, mixed ones too. *)
MCValidateForPublish(body, n) ==
    Ensure(\A k \in DOMAIN body : body[k] # 0, "IdentityKeyElement")
MCVerifyProof(body, n, payload) ==
       Ensure(Len(payload) = PROOF_SIZE + n, "PublicInputCountMismatch")
    ?? Ensure(payload[1] = body[1], "ProofInvalid")

UploadOf(authority, staging, n, body) ==
    [authority |-> authority, payer |-> authority, staging |-> staging,
     n |-> n, body |-> body, chunk |-> 2]

MCJobs ==
    [c \in MCClient |->
        IF c = "alice"
        THEN <<UploadOf(alice, stageA, 0, First),
               UploadOf(alice, stageA, SecondInputs, Second)>>
        ELSE <<UploadOf(bob, stageB, 0, First)>>]

(* bob on alice's staging account. *)
Claim == [UploadOf(bob, stageA, 0, Second) EXCEPT !.chunk = 3]
MCForeign ==
    IF ~Meddling THEN {} ELSE
    {<<ix!initialize_staging(Claim)>>, <<ix!write_body(Claim)[1]>>,
     <<ix!close_staging(Claim)>>,
     <<ix!For(System, <<ix!new(bob, TRUE), ix!new(KeyOf(Claim), FALSE)>>, <<2, 1>>)>>}

MCProofs == {<<1>>}
=============================================================================
