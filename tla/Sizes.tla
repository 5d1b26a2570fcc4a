------------------------------- MODULE Sizes -------------------------------
(***************************************************************************)
(* The code's numbers, in bytes: a client holds size bytes of a key body,  *)
(* reads them with VerifyingKey::from_body and learns n, from which it     *)
(* sizes the staging account; Publish later allocates the key account.     *)
(* Layout counts header fields, so the width of the header is here.        *)
(***************************************************************************)
EXTENDS Layout

CONSTANT BodySizes      \* the lengths of bodies that clients may hold

ASSUME SizesAssumption == BodySizes \subseteq Nat

KEY_HEADER_BYTES == 8
MAX_PERMITTED_DATA_INCREASE == 10240    \* external: growth in one instruction

VARIABLES size, n       \* bytes held; n once they are read, -1 before

vars == <<size, n>>

Body == [i \in 1..size |-> 0]

Hold == /\ size' \in BodySizes
        /\ n' = -1

Read == /\ n = -1
        /\ from_body(Body) = Ok
        /\ n' = InferredInputs(Body)
        /\ UNCHANGED size

Init == size \in BodySizes /\ n = -1

Next == Hold \/ Read

Spec == Init /\ [][Next]_vars

-----------------------------------------------------------------------------
(* The two constructors agree: an n inferred from a length is the one and only
   n that from_body_with_len (and so an account header) accepts for the body,
   and a body that from_body rejects is accepted for no n at all. *)
LengthFixesInputs ==
    LET body == Body
        accepted == {m \in 0..MAX_PUBLIC_INPUTS + 1 :
                       from_body_with_len(body, m) = Ok}
    IN  /\ n # -1 => accepted = {n}
        /\ from_body(body) # Ok => accepted = {}

(* The limit of 151 is the right one: bytes that divide into the points of a key
   are read if and only if Publish can create the account for them in one
   instruction, header included. *)
LimitIsTight ==
    LET points == (size - VK_FIXED_SIZE) \div G1_SIZE IN
    size = VK_FIXED_SIZE + points * G1_SIZE /\ points >= 1 =>
        (from_body(Body) = Ok
            <=> KEY_HEADER_BYTES + size <= MAX_PERMITTED_DATA_INCREASE)

(* What docs/design.md:30-31 says of a key body: 10,184 bytes at the maximum
   n = 151. *)
DocumentedBodySize == n = MAX_PUBLIC_INPUTS => size = 10184
=============================================================================
