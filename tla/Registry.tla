------------------------------ MODULE Registry ------------------------------
(***************************************************************************)
(* The registry program (program/src): its entry point and its five        *)
(* instructions, run inside transactions of any shape.                     *)
(*                                                                         *)
(* ledger holds the committed accounts, view the accounts as the running   *)
(* transaction sees them, tx the transaction: who signed, which accounts   *)
(* it locks read-only, how many instructions it has executed.  The runtime *)
(* serialises transactions that share accounts, so one runs at a time; an  *)
(* error anywhere in it discards the view.                                 *)
(*                                                                         *)
(* A processor is two operators: the checks it makes in the code's order,  *)
(* named as in the code, and the view it leaves when all of them pass.     *)
(*                                                                         *)
(* An operator named mutant_... is a faulty variant of the definition that *)
(* follows it; none is used here.  Putting one in the place of its         *)
(* original must violate the property that PROJECT.json pairs it with.     *)
(***************************************************************************)
EXTENDS Runtime

CONSTANTS
    Instruction,        \* registry instructions: [tag, accounts, payload]
    SystemInstruction,  \* system instructions: [op, from, to, lamports, space]
    Header,             \* message headers: [signers, readonly]
    Funds,              \* lamports of every address at the start
    MaxInstructions,    \* bound on the instructions of one transaction
    MAX_ACCOUNTS,       \* accounts the entry point deserialises
    PROOF_SIZE,         \* cells of a proof
    ValidateForPublish(_, _),   \* points of a body and n: Ok or an error
    VerifyProof(_, _, _)        \* body, n, payload: Ok or an error

(* The accounts before the first transaction: the program owns none. *)
Genesis ==
    [a \in Address |->
        [owner |-> IF a = System THEN Loader ELSE System,
         lamports |-> Funds[a], data |-> <<>>]]

(* What an instruction's data decodes to: n is a u16, offset a u32, and cells
   come after them. *)
WellTyped(ix) ==
    /\ ix.accounts \in Seq(Address)
    /\ ix.payload # <<>> =>
         /\ ix.tag \in {"InitializeStaging", "Write"} => ix.payload[1] \in Nat
         /\ Tail(ix.payload) \in Seq(Cell)

(* On chain all lamports fit u64, and MAX_PUBLIC_INPUTS is chosen so that the
   largest key account can be allocated in one instruction (module Sizes). *)
ASSUME RegistryAssumption ==
    /\ \A ix \in Instruction : WellTyped(ix)
    /\ SystemInstruction \subseteq
         [op : STRING, from : Address, to : Address, lamports : Nat, space : Nat]
    /\ Header \subseteq
         [signers : SUBSET Wallet, readonly : SUBSET Address]
    /\ Funds \in [Address -> Nat]
    /\ TotalLamports(Genesis) <= U64_MAX
    /\ key_account_len(MAX_PUBLIC_INPUTS) <= MAX_PERMITTED_DATA_INCREASE
    /\ MaxInstructions \in Nat
    /\ MAX_ACCOUNTS = 5
    /\ PROOF_SIZE \in Nat

VARIABLES ledger, view, tx

vars == <<ledger, view, tx>>

Idle == [running |-> FALSE, signers |-> {}, readonly |-> {}, executed |-> 0]

-----------------------------------------------------------------------------
(* The account checks the processors share (processor/mod.rs). *)
expect_signer(t, account) ==
    Ensure(account \in t.signers, "MissingRequiredSignature")

mutant_expect_writable(t, account) == Ok

expect_writable(t, account) ==
    Ensure(account \notin t.readonly, "InvalidArgument")

expect_owned_by(v, account, owner) ==
    Ensure(v[account].owner = owner, "InvalidAccountOwner")

mutant_expect_distinct(a, b) == Ok

expect_distinct(a, b) == Ensure(a # b, "InvalidArgument")

(* The entry point hands a processor at most MAX_ACCOUNTS accounts. *)
Accounts(ix) ==
    SubSeq(ix.accounts, 1, IF Len(ix.accounts) < MAX_ACCOUNTS
                           THEN Len(ix.accounts) ELSE MAX_ACCOUNTS)

staging_pair(v, t, accounts) ==
       Ensure(Len(accounts) = 2, "InvalidArgument")
    ?? expect_signer(t, accounts[1])
    ?? expect_writable(t, accounts[2])
    ?? expect_owned_by(v, accounts[2], Program)
    ?? expect_distinct(accounts[1], accounts[2])

mutant_authorized_staging_no_checks(data, authority) == Ok

mutant_authorized_staging_no_authority(data, authority) ==
    read_staging_account(data)

authorized_staging(data, authority) ==
       read_staging_account(data)
    ?? Ensure(StagingAuthority(data) = authority, "IncorrectAuthority")

drain_and_close(v, from, to) ==
    Ensure(v[to].lamports + v[from].lamports <= U64_MAX, "ArithmeticOverflow")

(* Credit first, then empty the source: close zeroes owner, lamports, length. *)
Drained(v, from, to) ==
    [[v EXCEPT ![to].lamports = @ + v[from].lamports] EXCEPT ![from] = Empty]

-----------------------------------------------------------------------------
(* InitializeStaging: payload <<n>>. *)
initialize_staging(v, t, ix) ==
    LET accounts == Accounts(ix)
        n == ix.payload[1]
        data == v[accounts[2]].data
    IN     staging_pair(v, t, accounts)
        ?? Ensure(Len(ix.payload) = 1, "InvalidInstructionData")
        ?? Ensure(n <= MAX_PUBLIC_INPUTS, "TooManyPublicInputs")
        ?? Ensure(Len(data) = staging_account_len(n), "StagingSizeMismatch")
        ?? Ensure(At(data, DISCRIMINATOR_OFFSET) = DISCRIMINATOR_UNINITIALIZED,
                  "AccountAlreadyInitialized")

Initialized(v, ix) ==
    LET accounts == Accounts(ix) IN
    [v EXCEPT ![accounts[2]].data =
        write_staging_header(@, ix.payload[1], accounts[1])]

-----------------------------------------------------------------------------
(* Write: payload <<offset>> \o bytes. *)
write(v, t, ix) ==
    LET accounts == Accounts(ix)
        data == v[accounts[2]].data
    IN     staging_pair(v, t, accounts)
        ?? Ensure(Len(ix.payload) >= 1, "InvalidInstructionData")
        ?? authorized_staging(data, accounts[1])
        ?? Ensure(ix.payload[1] + Len(Tail(ix.payload))
                    <= Len(StagingBody(data)), "WriteOutOfBounds")

mutant_Written_reaches_header(v, ix) ==
    [v EXCEPT ![Accounts(ix)[2]].data =
        copy_from_slice(@, STAGING_HEADER_LEN - 1 + ix.payload[1],
                        Tail(ix.payload))]

Written(v, ix) ==
    [v EXCEPT ![Accounts(ix)[2]].data =
        copy_from_slice(@, STAGING_HEADER_LEN + ix.payload[1],
                        Tail(ix.payload))]

-----------------------------------------------------------------------------
(* Publish: accounts authority, payer, staging, key, system; no payload.    *)
(* The staging data stays borrowed during the CPIs, so a payer that is the *)
(* staging account cannot fund the key.                                    *)
Shortfall(v, key, space) ==
    IF v[key].lamports < MinimumBalance(space)
    THEN MinimumBalance(space) - v[key].lamports ELSE 0

mutant_create_key_account_ignores_transfer(v, payer, staging, key, space) ==
       Ensure(payer # staging, "AccountBorrowFailed")
    ?? Allocate(v, key, space)

create_key_account(v, payer, staging, key, space) ==
    LET shortfall == Shortfall(v, key, space) IN
       Ensure(shortfall = 0 \/ payer # staging, "AccountBorrowFailed")
    ?? (IF shortfall > 0 THEN Transfer(v, payer, shortfall) ELSE Ok)
    ?? Allocate(v, key, space)

KeyFunded(v, payer, key, space) ==
    LET shortfall == Shortfall(v, key, space) IN
    IF shortfall > 0 THEN Transferred(v, payer, key, shortfall) ELSE v

KeyAccountCreated(v, payer, key, space) ==
    Assigned(Allocated(KeyFunded(v, payer, key, space), key, space),
             key, Program)

KeyAddress(body) == FindProgramAddress(Sha256(body))

(* Step 2 of Publish: the key account is the unpublished canonical address. *)
mutant_unpublished_address_any(v, key, body) ==
       Ensure(PdaExists(Sha256(body)), "Panic")
    ?? Ensure(v[key].owner # Program, "KeyAlreadyPublished")
    ?? Ensure(v[key].owner = System /\ v[key].data = <<>>,
              "ProgramError::InvalidAccountData")

mutant_unpublished_address_reordered(v, key, body) ==
       Ensure(PdaExists(Sha256(body)), "Panic")
    ?? Ensure(v[key].owner # Program, "KeyAlreadyPublished")
    ?? Ensure(key = KeyAddress(body), "KeyAddressMismatch")
    ?? Ensure(v[key].owner = System /\ v[key].data = <<>>,
              "ProgramError::InvalidAccountData")

mutant_unpublished_address_empty(v, key, body) ==
       Ensure(PdaExists(Sha256(body)), "Panic")
    ?? Ensure(key = KeyAddress(body), "KeyAddressMismatch")
    ?? Ensure(v[key].owner # Program, "KeyAlreadyPublished")
    ?? Ensure(v[key] = Empty, "ProgramError::InvalidAccountData")

unpublished_address(v, key, body) ==
       Ensure(PdaExists(Sha256(body)), "Panic")
    ?? Ensure(key = KeyAddress(body), "KeyAddressMismatch")
    ?? Ensure(v[key].owner # Program, "KeyAlreadyPublished")
    ?? Ensure(v[key].owner = System /\ v[key].data = <<>>,
              "ProgramError::InvalidAccountData")

publish(v, t, ix) ==
    LET accounts == Accounts(ix)
        authority == accounts[1]
        payer == accounts[2]
        staging == accounts[3]
        key == accounts[4]
        n == read_n(v[staging].data)
        body == StagingBody(v[staging].data)
        space == key_account_len(n)
    IN     Ensure(ix.payload = <<>>, "InvalidInstructionData")
        ?? Ensure(Len(accounts) = 5, "InvalidArgument")
        ?? expect_signer(t, authority)
        ?? expect_writable(t, authority)
        ?? expect_signer(t, payer)
        ?? expect_writable(t, payer)
        ?? expect_writable(t, staging)
        ?? expect_writable(t, key)
        ?? expect_owned_by(v, staging, Program)
        ?? expect_distinct(authority, staging)
        ?? Ensure(accounts[5] = System, "IncorrectProgramId")
        ?? authorized_staging(v[staging].data, authority)
        ?? from_body_with_len(body, n)
        ?? unpublished_address(v, key, body)
        ?? ValidateForPublish(body, n)
        ?? create_key_account(v, payer, staging, key, space)
        ?? drain_and_close(KeyAccountCreated(v, payer, key, space),
                           staging, authority)

mutant_KeyWritten_no_body(v, key, bump, n, body) ==
    [v EXCEPT ![key].data = write_key_header(@, bump, n)]

mutant_KeyWritten_no_header(v, key, bump, n, body) ==
    [v EXCEPT ![key].data = copy_from_slice(@, KEY_HEADER_LEN, body)]

KeyWritten(v, key, bump, n, body) ==
    [v EXCEPT ![key].data =
        copy_from_slice(write_key_header(@, bump, n), KEY_HEADER_LEN, body)]

Published(v, ix) ==
    LET accounts == Accounts(ix)
        staging == accounts[3]
        key == accounts[4]
        n == read_n(v[staging].data)
        body == StagingBody(v[staging].data)
        bump == CanonicalBump(Sha256(body))
        created == KeyAccountCreated(v, accounts[2], key, key_account_len(n))
    IN Drained(KeyWritten(created, key, bump, n, body), staging, accounts[1])

-----------------------------------------------------------------------------
(* CloseStaging: accounts authority, staging; no payload. *)
close_staging(v, t, ix) ==
    LET accounts == Accounts(ix)
        data == v[accounts[2]].data
    IN     Ensure(ix.payload = <<>>, "InvalidInstructionData")
        ?? staging_pair(v, t, accounts)
        ?? expect_writable(t, accounts[1])
        ?? authorized_staging(data, accounts[1])
        ?? drain_and_close(v, accounts[2], accounts[1])

Closed(v, ix) ==
    LET accounts == Accounts(ix) IN Drained(v, accounts[2], accounts[1])

-----------------------------------------------------------------------------
(* Verify: account key; payload proof \o inputs.  It changes nothing. *)
KeyAccepted(v, ix) ==
    LET accounts == Accounts(ix) IN
       Ensure(Len(accounts) = 1, "InvalidArgument")
    ?? expect_owned_by(v, accounts[1], Program)
    ?? read_key_account(v[accounts[1]].data)

verify(v, ix) ==
    LET data == v[Accounts(ix)[1]].data IN
       KeyAccepted(v, ix)
    ?? Ensure(Len(ix.payload) >= PROOF_SIZE, "InvalidProofLength")
    ?? VerifyProof(KeyBody(data), read_n(data), ix.payload)

-----------------------------------------------------------------------------
(* The entry point: an unknown tag, or no tag at all, is an error. *)
process_instruction(v, t, ix) ==
    CASE ix.tag = "Verify" -> verify(v, ix)
      [] ix.tag = "InitializeStaging" -> initialize_staging(v, t, ix)
      [] ix.tag = "Write" -> write(v, t, ix)
      [] ix.tag = "Publish" -> publish(v, t, ix)
      [] ix.tag = "CloseStaging" -> close_staging(v, t, ix)
      [] OTHER -> "InvalidInstructionData"

-----------------------------------------------------------------------------
(* Steps of a transaction. *)
MayExecute == tx.running /\ tx.executed < MaxInstructions

(* The instruction returned Ok and the runtime accepts what it left. *)
Executed(after) ==
    /\ RuntimeAccepts(tx.readonly, view, after)
    /\ view' = after
    /\ tx' = [tx EXCEPT !.executed = @ + 1]
    /\ UNCHANGED ledger

(* Everything the transaction did is discarded. *)
RolledBack == view' = ledger /\ tx' = Idle /\ UNCHANGED ledger

Begin(header) ==
    /\ ~tx.running
    /\ tx' = [running |-> TRUE, signers |-> header.signers,
              readonly |-> header.readonly, executed |-> 0]
    /\ UNCHANGED <<ledger, view>>

InitializeStaging(ix) ==
    /\ MayExecute /\ ix.tag = "InitializeStaging"
    /\ process_instruction(view, tx, ix) = Ok
    /\ Executed(Initialized(view, ix))

Write(ix) ==
    /\ MayExecute /\ ix.tag = "Write"
    /\ process_instruction(view, tx, ix) = Ok
    /\ Executed(Written(view, ix))

Publish(ix) ==
    /\ MayExecute /\ ix.tag = "Publish"
    /\ process_instruction(view, tx, ix) = Ok
    /\ Executed(Published(view, ix))

CloseStaging(ix) ==
    /\ MayExecute /\ ix.tag = "CloseStaging"
    /\ process_instruction(view, tx, ix) = Ok
    /\ Executed(Closed(view, ix))

Verify(ix) ==
    /\ MayExecute /\ ix.tag = "Verify"
    /\ process_instruction(view, tx, ix) = Ok
    /\ Executed(view)

(* External: clients create accounts owned by the program and move lamports. *)
SystemCreateAccount(si) ==
    /\ MayExecute /\ si.op = "CreateAccount"
    /\ {si.from, si.to} \subseteq tx.signers \ tx.readonly
    /\ CreateAccount(view, si.from, si.to, si.lamports) = Ok
    /\ Executed(Created(view, si.from, si.to, si.lamports, si.space, Program))

SystemTransfer(si) ==
    /\ MayExecute /\ si.op = "Transfer"
    /\ si.from \in tx.signers /\ {si.from, si.to} \cap tx.readonly = {}
    /\ Transfer(view, si.from, si.lamports) = Ok
    /\ Executed(Transferred(view, si.from, si.to, si.lamports))

(* A registry instruction returned an error. *)
InstructionFails(ix) ==
    /\ MayExecute
    /\ process_instruction(view, tx, ix) # Ok
    /\ RolledBack

(* Another instruction failed, or the runtime stopped the transaction: out *)
(* of compute, unbalanced lamports, an account below rent exemption.       *)
RuntimeAborts == tx.running /\ RolledBack

Commit ==
    /\ tx.running
    /\ Committable(view)
    /\ ledger' = Purged(view)
    /\ view' = ledger'
    /\ tx' = Idle

-----------------------------------------------------------------------------
(* At the start the registry is empty. *)
Init ==
    /\ ledger = Genesis
    /\ view = ledger
    /\ tx = Idle

Next ==
    \/ \E header \in Header : Begin(header)
    \/ \E ix \in Instruction :
         \/ InitializeStaging(ix)
         \/ Write(ix)
         \/ Publish(ix)
         \/ CloseStaging(ix)
         \/ Verify(ix)
         \/ InstructionFails(ix)
    \/ \E si \in SystemInstruction :
         \/ SystemCreateAccount(si)
         \/ SystemTransfer(si)
    \/ RuntimeAborts
    \/ Commit

Spec == Init /\ [][Next]_vars

-----------------------------------------------------------------------------
(* What an account is. *)
IsKey(account) ==
    account.owner = Program /\ read_key_account(account.data) = Ok

IsStaged(account) ==
    account.owner = Program /\ read_staging_account(account.data) = Ok

AuthorityOf(account) == StagingAuthority(account.data)

Blank(account) == account.owner = System /\ account.data = <<>>

(* What an account held is still there; lamports may have come in. *)
Untouched(before, after) ==
    /\ after.owner = before.owner
    /\ after.data = before.data
    /\ after.lamports >= before.lamports

(* The types of the variables; outside a transaction the view is the ledger. *)
TypeOK ==
    /\ ledger \in [Address -> Account]
    /\ view \in [Address -> Account]
    /\ tx \in [running : BOOLEAN, signers : SUBSET Wallet,
               readonly : SUBSET Address, executed : Nat]
    /\ ~tx.running => view = ledger

(* What a transaction with these signers may do to one account: nothing to a
   key, to a staging account only what its authority signed for, and make
   nobody an authority who has not signed. *)
Permitted(before, after, signers) ==
    /\ IsKey(before) => Untouched(before, after)
    /\ IsStaged(before) => \/ Untouched(before, after)
                           \/ AuthorityOf(before) \in signers
    /\ IsStaged(after) => \/ AuthorityOf(after) \in signers
                          \/ /\ IsStaged(before)
                             /\ AuthorityOf(before) = AuthorityOf(after)

(* Content addressing.  Whatever Verify accepts as a key (owner, discriminator
   and length are all it checks) sits at the canonical address of its own body,
   with that address's bump, has passed point validation and is rent exempt:
   what assume_validated in verify.rs takes for granted. *)
CommitsTo(a, account) ==
    LET data == account.data
        body == KeyBody(data)
    IN /\ a = KeyAddress(body)
       /\ At(data, KEY_BUMP_OFFSET) = CanonicalBump(Sha256(body))
       /\ ValidateForPublish(body, read_n(data)) = Ok
       /\ RentExempt(account)

KeysCommit ==
    \A a \in Address :
        /\ IsKey(ledger[a]) => CommitsTo(a, ledger[a])
        /\ IsKey(view[a]) => CommitsTo(a, view[a])

(* What README.md says point validation establishes: "every account the program
   owns holds a syntactically valid Groth16 key".  Staging accounts are owned by
   the program too, so ownership without the discriminator says nothing. *)
OwnedMeansValidated ==
    \A a \in Address : ledger[a].owner = Program => IsKey(ledger[a])

(* A derived address is blank or holds a complete key, for every instruction
   of every transaction: Publish leaves no third state (design.md section 2). *)
NoPartialKey ==
    \A a \in Derived :
        /\ Blank(ledger[a]) \/ IsKey(ledger[a])
        /\ Blank(view[a]) \/ IsKey(view[a])

(* A published key is never rewritten, reassigned, drained or closed: there is
   no instruction that does so. *)
KeysPermanent ==
    [][\A a \in Address :
         IsKey(ledger[a]) => Untouched(ledger[a], ledger'[a])]_vars

(* Staging is private: a committed change to a staging account was signed for
   by the authority it records, and whoever a committed transaction makes an
   authority signed it (staging_pair, authorized_staging). *)
StagingPrivate ==
    [][\A a \in Address : Permitted(ledger[a], ledger'[a], tx.signers)]_vars

(* The registry implements the immutable map of KeyRegistry: what Verify would
   read from the committed accounts, across every interleaving of staging,
   publishing, closing, funding and rollback, is a map that only gains
   genuine keys. *)
PublishedKeys ==
    [a \in {b \in Address : IsKey(ledger[b])} |->
        [n |-> read_n(ledger[a].data), body |-> KeyBody(ledger[a].data)]]

Abstract == INSTANCE KeyRegistry WITH keys <- PublishedKeys

ImplementsKeyRegistry == Abstract!Spec

(* The inductive invariant behind the properties above.  Every account,
   committed or in the view, is well formed; the view differs from the ledger
   only as the transaction's signers permit; what the program owns is funded,
   so that a commit never removes it. *)
WellStaged(a, account) ==
    LET n == read_n(account.data) IN
    /\ n \in 0..MAX_PUBLIC_INPUTS
    /\ Len(account.data) = staging_account_len(n)
    /\ AuthorityOf(account) \in Wallet \ {a}

HoldsStaging(account) ==
    /\ account.owner = Program
    /\ Len(account.data) >= STAGING_HEADER_LEN
    /\ At(account.data, DISCRIMINATOR_OFFSET) = DISCRIMINATOR_STAGING

WellFormed(a, account) ==
    /\ IsKey(account) =>
         /\ CommitsTo(a, account)
         /\ read_n(account.data) \in 0..MAX_PUBLIC_INPUTS
         /\ Len(account.data) = key_account_len(read_n(account.data))
    /\ HoldsStaging(account) => WellStaged(a, account)
    /\ a \in Derived => Blank(account) \/ IsKey(account)

IndInv ==
    /\ TypeOK
    /\ \A a \in Address :
         /\ WellFormed(a, ledger[a])
         /\ WellFormed(a, view[a])
         /\ Permitted(ledger[a], view[a], tx.signers)
         /\ ledger[a].owner = Program => ledger[a].lamports > 0

(* Rent is never stuck: the authority of a staging account, signing alone, can
   always close it, and the runtime accepts the close (expect_distinct). *)
HeaderOf(signers) == [signers |-> signers, readonly |-> {}]

CloseBy(authority, staging) ==
    [tag |-> "CloseStaging", accounts |-> <<authority, staging>>, payload |-> <<>>]

AuthorityCanReclaim ==
    \A a \in Address :
        IsStaged(ledger[a]) =>
            LET authority == AuthorityOf(ledger[a])
                ix == CloseBy(authority, a)
            IN /\ process_instruction(ledger, HeaderOf({authority}), ix) = Ok
               /\ RuntimeAccepts({}, ledger, Closed(ledger, ix))

(* Nobody can block a publication.  Whatever lamports were sent to the key's
   address and whatever else was published, a staged body that validates can be
   published to its unpublished address by its authority and any payer that has
   the rent (create_key_account tops up, it does not create). *)
PublishBy(authority, payer, staging, key) ==
    [tag |-> "Publish", accounts |-> <<authority, payer, staging, key, System>>,
     payload |-> <<>>]

CanPay(v, payer, space) ==
    Blank(v[payer]) /\ v[payer].lamports >= MinimumBalance(space)

PublishNeverBlocked ==
    \A a \in Address, payer \in Wallet :
        LET n == read_n(ledger[a].data)
            body == StagingBody(ledger[a].data)
            key == KeyAddress(body)
            authority == AuthorityOf(ledger[a])
        IN /\ IsStaged(ledger[a])
           /\ ValidateForPublish(body, n) = Ok
           /\ PdaExists(Sha256(body))
           /\ key \in Derived /\ ~IsKey(ledger[key])
           /\ CanPay(ledger, payer, key_account_len(n))
           => process_instruction(ledger, HeaderOf({authority, payer}),
                                  PublishBy(authority, payer, a, key)) = Ok

(* Losing the race to publish is harmless: when a transaction opens with a
   Publish that fails with KeyAlreadyPublished, the ledger holds exactly the
   staged body, under its address, for Verify to use (README, Registration). *)
AlreadyPublishedMeansAvailable ==
    tx.running /\ tx.executed = 0 =>
        \A ix \in Instruction :
            /\ ix.tag = "Publish"
            /\ process_instruction(view, tx, ix) = "KeyAlreadyPublished"
            => LET key == Accounts(ix)[4]
                   staging == Accounts(ix)[3]
               IN /\ IsKey(ledger[key])
                  /\ KeyBody(ledger[key].data) = StagingBody(ledger[staging].data)

(* The processors' own checks are complete: the runtime never has to reject an
   instruction that returned Ok, for unbalanced lamports or for a change to an
   account locked read-only. *)
Effect(v, ix) ==
    CASE ix.tag = "InitializeStaging" -> Initialized(v, ix)
      [] ix.tag = "Write" -> Written(v, ix)
      [] ix.tag = "Publish" -> Published(v, ix)
      [] ix.tag = "CloseStaging" -> Closed(v, ix)
      [] OTHER -> v

ChecksComplete ==
    tx.running => \A ix \in Instruction :
        process_instruction(view, tx, ix) = Ok
            => RuntimeAccepts(tx.readonly, view, Effect(view, ix))
=============================================================================
