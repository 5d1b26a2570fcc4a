---------------------------- MODULE Instructions ----------------------------
(***************************************************************************)
(* The client side: instruction.rs and tag.rs.  A builder returns the      *)
(* program it is for, its accounts with their flags, and data, which is    *)
(* tag \o payload.  An upload u names the wallets, the staging account and *)
(* the key body that a client registers, in pieces of u.chunk cells.  An   *)
(* operator named mutant_... is a faulty variant of the definition that    *)
(* follows it.                                                             *)
(***************************************************************************)
EXTENDS Runtime

Uploads ==
    [authority : Wallet, payer : Wallet, staging : Wallet,
     n : 0..MAX_PUBLIC_INPUTS, body : Seq(Cell), chunk : Nat \ {0}]

Tag == [InitializeStaging |-> 0, Write |-> 1, Publish |-> 2, Verify |-> 3,
        CloseStaging |-> 4]

from_u8(b) ==
    IF \E tag \in DOMAIN Tag : Tag[tag] = b
    THEN CHOOSE tag \in DOMAIN Tag : Tag[tag] = b ELSE "Unknown"

(* AccountMeta::new and new_readonly. *)
new(address, signer) ==
    [address |-> address, signer |-> signer, writable |-> TRUE]
new_readonly(address, signer) ==
    [address |-> address, signer |-> signer, writable |-> FALSE]

For(program, accounts, data) ==
    [program |-> program, accounts |-> accounts, data |-> data]

-----------------------------------------------------------------------------
vk_hash(body) == Sha256(body)

find_key_address(hash) == FindProgramAddress(hash)

initialize_staging(u) ==
    For(Program, <<new_readonly(u.authority, TRUE), new(u.staging, FALSE)>>,
        <<Tag.InitializeStaging, u.n>>)

(* SystemInstruction::CreateAccount and InitializeStaging, to be submitted *)
(* in one transaction: a set of transactions, each a sequence.             *)
SystemCreate(u) ==
    LET space == staging_account_len(u.n) IN
    For(System, <<new(u.payer, TRUE), new(u.staging, TRUE)>>,
        <<0, MinimumBalance(space), space, Program>>)

mutant_create_staging_split(u) == {<<SystemCreate(u)>>, <<initialize_staging(u)>>}

create_staging(u) == {<<SystemCreate(u), initialize_staging(u)>>}

write(u, offset, bytes) ==
    For(Program, <<new_readonly(u.authority, TRUE), new(u.staging, FALSE)>>,
        <<Tag.Write, offset>> \o bytes)

(* body.chunks(chunk): the last piece may be shorter. *)
Pieces(u) == (Len(u.body) + u.chunk - 1) \div u.chunk

Piece(u, i) ==
    LET last == i * u.chunk + u.chunk IN
    SubSeq(u.body, i * u.chunk + 1,
           IF last < Len(u.body) THEN last ELSE Len(u.body))

(* chunks_exact in the place of chunks. *)
mutant_write_body_exact(u) ==
    [k \in 1..(Len(u.body) \div u.chunk) |->
        write(u, (k - 1) * u.chunk, Piece(u, k - 1))]

write_body(u) ==
    [k \in 1..Pieces(u) |-> write(u, (k - 1) * u.chunk, Piece(u, k - 1))]

publish(u) ==
    For(Program,
        <<new(u.authority, TRUE), new(u.payer, TRUE), new(u.staging, FALSE),
          new(find_key_address(vk_hash(u.body)), FALSE),
          new_readonly(System, FALSE)>>,
        <<Tag.Publish>>)

verify(key, proof, inputs) ==
    For(Program, <<new_readonly(key, FALSE)>>, <<Tag.Verify>> \o proof \o inputs)

mutant_close_staging_readonly(u) ==
    For(Program, <<new_readonly(u.authority, TRUE), new(u.staging, FALSE)>>,
        <<Tag.CloseStaging>>)

close_staging(u) ==
    For(Program, <<new(u.authority, TRUE), new(u.staging, FALSE)>>,
        <<Tag.CloseStaging>>)
=============================================================================
