------------------------------ MODULE Runtime ------------------------------
(***************************************************************************)
(* The part of the Solana runtime and of the system program that the       *)
(* registry uses (external to the repository): accounts, program-derived   *)
(* addresses, the CPIs of Publish, and what a transaction checks when it   *)
(* commits.  A transaction's view v maps every address to its account.     *)
(***************************************************************************)
EXTENDS Layout, FiniteSetsExt

CONSTANTS
    Wallet,     \* addresses with a private key: they can sign
    Derived,    \* program-derived addresses: nobody can sign for them
    System,     \* the system program, the all-zero address
    Program,    \* the registry program's id, as an account owner
    Loader,     \* any other owner
    Cell,       \* what one cell of account data can hold
    Bump,       \* bump seeds, 0..255 on chain
    Sha256(_),
    CreateProgramAddress(_, _),     \* address of <<"vk", hash, bump>>
    OnCurve(_, _),                  \* ... is a point of ed25519, so no PDA
    MinimumBalance(_),              \* rent exemption for a data length
    MAX_PERMITTED_DATA_INCREASE,    \* 10,240 on chain
    U64_MAX

Address == Wallet \cup Derived \cup {System}
Owner == {System, Program, Loader}

ASSUME RuntimeAssumption ==
    /\ Wallet \cap Derived = {}
    /\ System \notin Wallet \cup Derived
    /\ IsFiniteSet(Address)
    /\ System # Program /\ System # Loader /\ Program # Loader
    /\ Bump \subseteq Nat
    /\ Bump \cup Wallet \cup (0..MAX_PUBLIC_INPUTS) \cup (0..2) \subseteq Cell
    /\ \A n \in 0..MAX_PUBLIC_INPUTS :
         MinimumBalance(key_account_len(n)) \in Nat \ {0}
    /\ MAX_PERMITTED_DATA_INCREASE \in Nat /\ U64_MAX \in Nat

Account == [owner : Owner, lamports : Nat, data : Seq(Cell)]

(* An address that holds nothing, and a closed account. *)
Empty == [owner |-> System, lamports |-> 0, data |-> <<>>]

Zeros(len) == [i \in 1..len |-> 0]

-----------------------------------------------------------------------------
(* find_program_address: the largest bump whose address is off the curve,  *)
(* so that no wallet has it.  It panics when there is none.                *)
IsCanonicalBump(hash, b) ==
    /\ ~OnCurve(hash, b) /\ CreateProgramAddress(hash, b) \notin Wallet
    /\ \A c \in Bump : c > b => OnCurve(hash, c)

PdaExists(hash) == \E b \in Bump : IsCanonicalBump(hash, b)

CanonicalBump(hash) == CHOOSE b \in Bump : IsCanonicalBump(hash, b)

FindProgramAddress(hash) == CreateProgramAddress(hash, CanonicalBump(hash))

-----------------------------------------------------------------------------
(* System program instructions: what they check and what they do. *)
Transfer(v, from, amount) ==
       Ensure(v[from].data = <<>>, "InvalidArgument")
    ?? Ensure(v[from].lamports >= amount, "InsufficientFunds")
    ?? Ensure(v[from].owner = System, "ExternalAccountLamportSpend")

Transferred(v, from, to, amount) ==
    [[v EXCEPT ![from].lamports = @ - amount] EXCEPT ![to].lamports = @ + amount]

Allocate(v, account, space) ==
       Ensure(v[account].data = <<>> /\ v[account].owner = System,
              "AccountAlreadyInUse")
    ?? Ensure(space <= MAX_PERMITTED_DATA_INCREASE, "InvalidRealloc")

Allocated(v, account, space) == [v EXCEPT ![account].data = Zeros(space)]

Assigned(v, account, owner) == [v EXCEPT ![account].owner = owner]

(* create_account refuses a target that already has a balance. *)
CreateAccount(v, from, account, lamports) ==
       Ensure(v[account] = Empty, "AccountAlreadyInUse")
    ?? Transfer(v, from, lamports)

Created(v, from, account, lamports, space, owner) ==
    Assigned(Allocated(Transferred(v, from, account, lamports),
                       account, space),
             account, owner)

-----------------------------------------------------------------------------
(* What the runtime checks after a program returns Ok: lamports balance    *)
(* and read-only accounts are as they were.                                *)
TotalLamports(v) == MapThenSumSet(LAMBDA a : v[a].lamports, DOMAIN v)

RuntimeAccepts(readonly, before, after) ==
    /\ TotalLamports(after) = TotalLamports(before)
    /\ \A a \in readonly : after[a] = before[a]

(* What it checks when a transaction ends: every account is rent exempt or *)
(* has no lamports left, and then it is removed.                           *)
RentExempt(account) == account.lamports >= MinimumBalance(Len(account.data))

Committable(v) == \A a \in Address : v[a].lamports = 0 \/ RentExempt(v[a])

Purged(v) == [a \in Address |-> IF v[a].lamports = 0 THEN Empty ELSE v[a]]
=============================================================================
