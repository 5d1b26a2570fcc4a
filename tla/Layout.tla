------------------------------- MODULE Layout -------------------------------
(***************************************************************************)
(* Account layouts: groth16-verify/src/constants.rs and state.rs.          *)
(*                                                                         *)
(* Account data is a sequence of cells.  One cell stands for one header    *)
(* field (discriminator, bump or reserved byte, n, reserved bytes,         *)
(* authority) or for one unit of a key body, so a header keeps its fields  *)
(* and their order while its length counts fields.  How many cells a point *)
(* takes is a constant, so that a write may still end inside a point.      *)
(*                                                                         *)
(*   key account      disc=1  bump      n  reserved             body       *)
(*   staging account  disc=2  reserved  n  reserved  authority  body       *)
(***************************************************************************)
EXTENDS Integers, Sequences, Outcome

CONSTANTS
    VK_FIXED_SIZE,      \* cells of alpha, -beta, -gamma, -delta
    G1_SIZE,            \* cells of one IC point
    MAX_PUBLIC_INPUTS   \* 151 in the code

ASSUME LayoutAssumption ==
    /\ VK_FIXED_SIZE \in Nat \ {0}
    /\ G1_SIZE \in Nat \ {0}
    /\ MAX_PUBLIC_INPUTS \in Nat

-----------------------------------------------------------------------------
(* Sizes. *)
KEY_HEADER_LEN == 4
STAGING_HEADER_LEN == 5

vk_body_len(n) == VK_FIXED_SIZE + G1_SIZE * (n + 1)
key_account_len(n) == KEY_HEADER_LEN + vk_body_len(n)
staging_account_len(n) == STAGING_HEADER_LEN + vk_body_len(n)

DISCRIMINATOR_UNINITIALIZED == 0
DISCRIMINATOR_KEY == 1
DISCRIMINATOR_STAGING == 2

(* Offsets count from 0, as in the code; sequences count from 1. *)
DISCRIMINATOR_OFFSET == 0
KEY_BUMP_OFFSET == 1
NUM_PUBLIC_INPUTS_OFFSET == 2
STAGING_AUTHORITY_OFFSET == 4

At(data, offset) == data[offset + 1]
From(data, offset) == SubSeq(data, offset + 1, Len(data))

(* bytes over data, after its first start cells. *)
copy_from_slice(data, start, bytes) ==
    [i \in DOMAIN data |->
        IF i - start \in DOMAIN bytes THEN bytes[i - start] ELSE data[i]]

read_n(data) == At(data, NUM_PUBLIC_INPUTS_OFFSET)

-----------------------------------------------------------------------------
(* VerifyingKey::from_body derives n from the length of the body ... *)
InferredInputs(body) == (Len(body) - VK_FIXED_SIZE) \div G1_SIZE - 1

mutant_from_body_rounds_down(body) ==
    LET ic_bytes == Len(body) - VK_FIXED_SIZE IN
       Ensure(ic_bytes >= 0, "InvalidKeyLength")
    ?? Ensure(ic_bytes \div G1_SIZE >= 1, "InvalidKeyLength")
    ?? Ensure(InferredInputs(body) <= MAX_PUBLIC_INPUTS, "InvalidKeyLength")

mutant_from_body_counts_points(body) ==
    LET ic_bytes == Len(body) - VK_FIXED_SIZE IN
       Ensure(ic_bytes >= 0, "InvalidKeyLength")
    ?? Ensure(ic_bytes % G1_SIZE = 0, "InvalidKeyLength")
    ?? Ensure(ic_bytes \div G1_SIZE >= 1, "InvalidKeyLength")
    ?? Ensure(ic_bytes \div G1_SIZE <= MAX_PUBLIC_INPUTS, "InvalidKeyLength")

from_body(body) ==
    LET ic_bytes == Len(body) - VK_FIXED_SIZE IN
       Ensure(ic_bytes >= 0, "InvalidKeyLength")
    ?? Ensure(ic_bytes % G1_SIZE = 0, "InvalidKeyLength")
    ?? Ensure(ic_bytes \div G1_SIZE >= 1, "InvalidKeyLength")
    ?? Ensure(InferredInputs(body) <= MAX_PUBLIC_INPUTS, "InvalidKeyLength")

(* ... and from_body_with_len checks it against a known n. *)
from_body_with_len(body, n) ==
       Ensure(n <= MAX_PUBLIC_INPUTS, "TooManyPublicInputs")
    ?? Ensure(Len(body) = vk_body_len(n), "InvalidKeyLength")

-----------------------------------------------------------------------------
(* The key account. *)
KeyBody(data) == From(data, KEY_HEADER_LEN)

read_key_account(data) ==
       Ensure(Len(data) >= KEY_HEADER_LEN, "InvalidAccountData")
    ?? Ensure(At(data, DISCRIMINATOR_OFFSET) = DISCRIMINATOR_KEY,
              "WrongDiscriminator")
    ?? from_body_with_len(KeyBody(data), read_n(data))

write_key_header(data, bump, n) ==
    <<DISCRIMINATOR_KEY, bump, n, 0>> \o KeyBody(data)

-----------------------------------------------------------------------------
(* The staging account. *)
StagingBody(data) == From(data, STAGING_HEADER_LEN)
StagingAuthority(data) == At(data, STAGING_AUTHORITY_OFFSET)

read_staging_account(data) ==
       Ensure(Len(data) >= STAGING_HEADER_LEN, "InvalidAccountData")
    ?? Ensure(At(data, DISCRIMINATOR_OFFSET) = DISCRIMINATOR_STAGING,
              "WrongDiscriminator")
    ?? Ensure(/\ read_n(data) <= MAX_PUBLIC_INPUTS
              /\ Len(data) = staging_account_len(read_n(data)),
              "InvalidAccountData")

write_staging_header(data, n, authority) ==
    <<DISCRIMINATOR_STAGING, 0, n, 0, authority>> \o StagingBody(data)
=============================================================================
