--------------------------- MODULE RegistryProofs ---------------------------
(***************************************************************************)
(* Theorems about Registry, for every set of wallets, every set of         *)
(* instructions, every layout and every transaction length.                *)
(*                                                                         *)
(* The argument is per account.  Each processor changes few accounts; for  *)
(* each one a lemma shows that the account it leaves is well formed and    *)
(* that the change is Permitted to the signers.  Permitted composes, so    *)
(* the whole transaction is permitted, and so is its commit.               *)
(*                                                                         *)
(* The second half is about the calls that must succeed and the lamports   *)
(* they move.  Lamports are counted with a sum over all addresses: a first *)
(* part shows that this sum exists and how it changes with one account, by *)
(* induction over the subsets of the addresses.                            *)
(***************************************************************************)
EXTENDS Registry, LayoutProofs

(* A view whose accounts are all well formed. *)
GoodView(v) ==
    /\ v \in [Address -> Account]
    /\ \A a \in Address : WellFormed(a, v[a])

(* A step between good views that the signers permit. *)
GoodStep(v, w, signers) ==
    /\ GoodView(w)
    /\ \A a \in Address : Permitted(v[a], w[a], signers)

-----------------------------------------------------------------------------
(* Facts about one account. *)

(* A key account has the key discriminator, a staging account its own: no
   account is both. *)
LEMMA Kinds ==
    ASSUME NEW x
    PROVE  /\ IsKey(x) => /\ x.owner = Program
                          /\ Len(x.data) >= KEY_HEADER_LEN
                          /\ At(x.data, DISCRIMINATOR_OFFSET) = 1
           /\ IsStaged(x) => HoldsStaging(x)
           /\ HoldsStaging(x) => /\ x.owner = Program
                                 /\ At(x.data, DISCRIMINATOR_OFFSET) = 2
           /\ ~(IsKey(x) /\ HoldsStaging(x))
BY ThenOk DEF IsKey, IsStaged, HoldsStaging, read_key_account, read_staging_account,
   Ensure, Ok, DISCRIMINATOR_KEY, DISCRIMINATOR_STAGING

(* An account the program does not own is neither; it may become anything. *)
LEMMA Unowned ==
    ASSUME NEW a, NEW x, x.owner # Program
    PROVE  /\ ~IsKey(x) /\ ~IsStaged(x) /\ ~HoldsStaging(x)
           /\ a \notin Derived \/ Blank(x) => WellFormed(a, x)
BY Kinds DEF WellFormed

(* Nothing happened, or lamports came in. *)
LEMMA UntouchedStep ==
    ASSUME NEW a, NEW x, NEW y, NEW signers, Untouched(x, y), WellFormed(a, x),
           x.lamports \in Nat, y.lamports \in Nat
    PROVE  WellFormed(a, y) /\ Permitted(x, y, signers)
<1>1. /\ IsKey(y) <=> IsKey(x)
      /\ IsStaged(y) <=> IsStaged(x)
      /\ HoldsStaging(y) <=> HoldsStaging(x)
      /\ Blank(y) <=> Blank(x)
      /\ AuthorityOf(y) = AuthorityOf(x)
  BY DEF Untouched, IsKey, IsStaged, HoldsStaging, Blank, AuthorityOf
<1>2. WellStaged(a, x) => WellStaged(a, y)
  BY DEF Untouched, WellStaged, AuthorityOf
<1>3. ASSUME IsKey(x)
      PROVE  /\ CommitsTo(a, y)
             /\ read_n(y.data) \in 0..MAX_PUBLIC_INPUTS
             /\ Len(y.data) = key_account_len(read_n(y.data))
  <2>1. /\ CommitsTo(a, x)
        /\ read_n(x.data) \in 0..MAX_PUBLIC_INPUTS
        /\ Len(x.data) = key_account_len(read_n(x.data))
    BY <1>3 DEF WellFormed
  <2>2. MinimumBalance(Len(x.data)) \in Nat
    BY <2>1, RuntimeAssumption
  <2>3. RentExempt(y)
    BY <2>1, <2>2 DEF CommitsTo, RentExempt, Untouched
  <2> QED
    BY <2>1, <2>3 DEF CommitsTo, Untouched
<1> QED
  BY <1>1, <1>2, <1>3 DEF WellFormed, Permitted

(* What the signers permit in two steps they permit in one. *)
LEMMA PermittedTransitive ==
    ASSUME NEW x, NEW y, NEW z, NEW signers,
           x.lamports \in Nat, y.lamports \in Nat, z.lamports \in Nat,
           Permitted(x, y, signers), Permitted(y, z, signers)
    PROVE  Permitted(x, z, signers)
<1>1. Untouched(x, y) /\ IsKey(x) => IsKey(y)
  BY DEF Untouched, IsKey
<1>2. Untouched(x, y) /\ IsStaged(x) => IsStaged(y) /\ AuthorityOf(x) = AuthorityOf(y)
  BY DEF Untouched, IsStaged, AuthorityOf
<1>3. Untouched(x, y) /\ Untouched(y, z) => Untouched(x, z)
  BY DEF Untouched
<1> QED
  BY <1>1, <1>2, <1>3 DEF Permitted

(* Every instruction of a transaction is well typed. *)
LEMMA InstructionsWellTyped ==
    ASSUME NEW ix \in Instruction
    PROVE  WellTyped(ix)
BY RegistryAssumption

(* The accounts an instruction passes are addresses. *)
LEMMA AccountsType ==
    ASSUME NEW ix, WellTyped(ix)
    PROVE  /\ Len(Accounts(ix)) \in Nat
           /\ \A i \in 1..Len(Accounts(ix)) : Accounts(ix)[i] \in Address
<1> DEFINE k == IF Len(ix.accounts) < MAX_ACCOUNTS
                THEN Len(ix.accounts) ELSE MAX_ACCOUNTS
<1>1. ix.accounts \in Seq(Address) /\ MAX_ACCOUNTS = 5
  BY RegistryAssumption DEF WellTyped
<1>2. k \in Nat /\ k <= Len(ix.accounts)
  BY <1>1
<1>3. \A i \in 1..k : ix.accounts[i] \in Address
  BY <1>1, <1>2
<1>4. SubSeq(ix.accounts, 1, k) \in Seq(Address)
  BY <1>2, <1>3, SubSeqProperties
<1> QED
  BY <1>4 DEF Accounts

(* Setting one field of an account leaves the others. *)
LEMMA SetLamports ==
    ASSUME NEW x \in Account, NEW m \in Nat, NEW y, y = [x EXCEPT !.lamports = m]
    PROVE  y \in Account /\ y.owner = x.owner /\ y.data = x.data /\ y.lamports = m
BY DEF Account

(* The same for the data. *)
LEMMA SetData ==
    ASSUME NEW x \in Account, NEW d \in Seq(Cell), NEW y, y = [x EXCEPT !.data = d]
    PROVE  y \in Account /\ y.owner = x.owner /\ y.data = d /\ y.lamports = x.lamports
BY DEF Account

(* The same for the owner. *)
LEMMA SetOwner ==
    ASSUME NEW x \in Account, NEW o \in Owner, NEW y, y = [x EXCEPT !.owner = o]
    PROVE  y \in Account /\ y.owner = o /\ y.data = x.data /\ y.lamports = x.lamports
BY DEF Account

(* Doing nothing is a permitted step. *)
LEMMA Unchanged ==
    ASSUME NEW v, GoodView(v), NEW signers
    PROVE  GoodStep(v, v, signers)
<1>1. ASSUME NEW a \in Address
      PROVE  Permitted(v[a], v[a], signers)
  <2>1. v[a].lamports \in Nat /\ WellFormed(a, v[a]) /\ Untouched(v[a], v[a])
    BY DEF GoodView, Account, Untouched
  <2> QED
    BY <2>1, UntouchedStep
<1> QED
  BY <1>1 DEF GoodStep

(* A step that changes one account. *)
LEMMA OneAccount ==
    ASSUME NEW v, GoodView(v), NEW s \in Address, NEW y \in Account, NEW signers,
           WellFormed(s, y), Permitted(v[s], y, signers),
           NEW w, w = [v EXCEPT ![s] = y]
    PROVE  GoodStep(v, w, signers)
<1>1. w \in [Address -> Account]
  BY DEF GoodView
<1>2. ASSUME NEW a \in Address
      PROVE  WellFormed(a, w[a]) /\ Permitted(v[a], w[a], signers)
  <2>1. CASE a = s
    BY <2>1 DEF GoodView
  <2>2. CASE a # s
    <3>1. w[a] = v[a] /\ WellFormed(a, v[a]) /\ v[a].lamports \in Nat
      BY <2>2 DEF GoodView, Account
    <3>2. Untouched(v[a], v[a])
      BY <3>1 DEF Untouched
    <3> QED
      BY <3>1, <3>2, UntouchedStep
  <2> QED
    BY <2>1, <2>2
<1> QED
  BY <1>1, <1>2 DEF GoodStep, GoodView

-----------------------------------------------------------------------------
(* The processors. *)

(* What staging_pair establishes. *)
LEMMA StagingPairOk ==
    ASSUME NEW v, NEW t, NEW accounts, staging_pair(v, t, accounts) = Ok
    PROVE  /\ Len(accounts) = 2
           /\ accounts[1] \in t.signers
           /\ accounts[2] \notin t.readonly
           /\ v[accounts[2]].owner = Program
           /\ accounts[1] # accounts[2]
BY ThenOk DEF staging_pair, Ok, Ensure, expect_signer, expect_writable,
   expect_owned_by, expect_distinct

(* What authorized_staging establishes. *)
LEMMA AuthorizedStagingOk ==
    ASSUME NEW x, NEW authority, x.owner = Program,
           authorized_staging(x.data, authority) = Ok
    PROVE  IsStaged(x) /\ AuthorityOf(x) = authority
BY ThenOk DEF authorized_staging, IsStaged, AuthorityOf, Ensure, Ok

(* A header that is consistent makes a staging account. *)
LEMMA StagedByHeader ==
    ASSUME NEW a, NEW x, HoldsStaging(x), WellStaged(a, x)
    PROVE  IsStaged(x)
BY ThenOk, LayoutAssumption
   DEF HoldsStaging, WellStaged, IsStaged, read_staging_account, Ensure

(* InitializeStaging turns a blank account of the program into a staging
   account of its signer. *)
LEMMA InitializedAccount ==
    ASSUME NEW v, GoodView(v), NEW t, t.signers \subseteq Wallet,
           NEW ix, WellTyped(ix), ix.tag = "InitializeStaging",
           initialize_staging(v, t, ix) = Ok,
           NEW s, s = Accounts(ix)[2]
    PROVE  \E y \in Account :
             /\ s \in Address
             /\ Initialized(v, ix) = [v EXCEPT ![s] = y]
             /\ WellFormed(s, y) /\ Permitted(v[s], y, t.signers)
             /\ v[s].owner = Program /\ ~IsStaged(v[s])
             /\ ~IsKey(y) /\ IsStaged(y) /\ AuthorityOf(y) = Accounts(ix)[1]
<1> DEFINE accounts == Accounts(ix)
           x == v[s]
           n == ix.payload[1]
           data == write_staging_header(x.data, n, accounts[1])
           y == [x EXCEPT !.data = data]
<1>1. /\ staging_pair(v, t, accounts) = Ok
      /\ Len(ix.payload) = 1
      /\ n <= MAX_PUBLIC_INPUTS
      /\ Len(x.data) = staging_account_len(n)
      /\ At(x.data, DISCRIMINATOR_OFFSET) = 0
  BY ThenOk DEF initialize_staging, Ok, Ensure, DISCRIMINATOR_UNINITIALIZED
<1>2. n \in 0..MAX_PUBLIC_INPUTS
  BY <1>1, LayoutAssumption DEF WellTyped
<1>3. /\ s \in Address
      /\ accounts[1] \in t.signers /\ accounts[1] # s
      /\ x.owner = Program
  BY <1>1, StagingPairOk, AccountsType
<1>4. x \in Account /\ x.data \in Seq(Cell) /\ WellFormed(s, x)
  BY <1>3 DEF GoodView, Account
<1>5. {0, 2} \subseteq Cell /\ n \in Cell /\ accounts[1] \in Cell
  BY <1>2, <1>3, RuntimeAssumption
<1>6. staging_account_len(n) \in Nat /\ staging_account_len(n) >= STAGING_HEADER_LEN
  BY <1>2, LayoutAssumption DEF staging_account_len, vk_body_len, STAGING_HEADER_LEN
<1>7. /\ data \in Seq(Cell)
      /\ Len(data) = Len(x.data)
      /\ At(data, DISCRIMINATOR_OFFSET) = DISCRIMINATOR_STAGING
      /\ read_n(data) = n
      /\ StagingAuthority(data) = accounts[1]
  <2>1. Len(x.data) >= STAGING_HEADER_LEN
    BY <1>1, <1>6
  <2> DEFINE old == x.data
             authority == accounts[1]
             new == write_staging_header(old, n, authority)
  <2>2. /\ old \in Seq(Cell) /\ Len(old) >= STAGING_HEADER_LEN
        /\ authority \in Cell
    BY <2>1, <1>4, <1>5
  <2> HIDE DEF old, n, authority
  <2>3. /\ new \in Seq(Cell)
        /\ Len(new) = Len(old)
        /\ At(new, DISCRIMINATOR_OFFSET) = DISCRIMINATOR_STAGING
        /\ read_n(new) = n
        /\ StagingAuthority(new) = authority
    BY <2>2, <1>5, StagingHeader
  <2> QED
    BY <2>3 DEF old, authority
<1>8. y \in Account /\ y.owner = Program /\ y.data = data
  BY <1>3, <1>4, <1>7 DEF Account
<1>9. ~IsKey(x) /\ ~IsStaged(x) /\ s \notin Derived
  BY <1>1, <1>3, <1>4, Kinds, RuntimeAssumption DEF WellFormed, Blank
<1>10. HoldsStaging(y) /\ AuthorityOf(y) = accounts[1] /\ ~IsKey(y)
  BY <1>1, <1>6, <1>7, <1>8, Kinds DEF HoldsStaging, AuthorityOf
<1>11. WellStaged(s, y)
  BY <1>1, <1>2, <1>3, <1>7, <1>8, <1>10 DEF WellStaged
<1>12. WellFormed(s, y) /\ Permitted(x, y, t.signers)
  BY <1>3, <1>9, <1>10, <1>11 DEF WellFormed, Permitted
<1>13. Initialized(v, ix) = [v EXCEPT ![s] = y]
  BY <1>3 DEF Initialized, GoodView
<1>14. IsStaged(y)
  BY <1>10, <1>11, StagedByHeader
<1> HIDE DEF y
<1> QED
  BY <1>3, <1>8, <1>9, <1>10, <1>12, <1>13, <1>14

(* So it is a permitted step. *)
LEMMA InitializeStep ==
    ASSUME NEW v, GoodView(v), NEW t, t.signers \subseteq Wallet,
           NEW ix, WellTyped(ix), ix.tag = "InitializeStaging",
           initialize_staging(v, t, ix) = Ok
    PROVE  GoodStep(v, Initialized(v, ix), t.signers)
BY InitializedAccount, OneAccount

(* Write changes the body of a staging account that its authority signed for;
   the header, and so the authority and n, stay. *)
LEMMA WrittenAccount ==
    ASSUME NEW v, GoodView(v), NEW t, t.signers \subseteq Wallet,
           NEW ix, WellTyped(ix), ix.tag = "Write", write(v, t, ix) = Ok,
           NEW s, s = Accounts(ix)[2]
    PROVE  \E y \in Account :
             /\ s \in Address
             /\ Written(v, ix) = [v EXCEPT ![s] = y]
             /\ WellFormed(s, y) /\ Permitted(v[s], y, t.signers)
             /\ v[s].owner = Program
             /\ ~IsKey(y) /\ IsStaged(y) /\ AuthorityOf(y) = AuthorityOf(v[s])
<1> DEFINE accounts == Accounts(ix)
           x == v[s]
           start == STAGING_HEADER_LEN + ix.payload[1]
           data == copy_from_slice(x.data, start, Tail(ix.payload))
           y == [x EXCEPT !.data = data]
<1>1. /\ staging_pair(v, t, accounts) = Ok
      /\ Len(ix.payload) >= 1
      /\ authorized_staging(x.data, accounts[1]) = Ok
  BY ThenOk DEF write, Ok, Ensure
<1>2. /\ s \in Address
      /\ accounts[1] \in t.signers
      /\ x.owner = Program
  BY <1>1, StagingPairOk, AccountsType
<1>3. IsStaged(x) /\ AuthorityOf(x) = accounts[1] /\ HoldsStaging(x)
  BY <1>1, <1>2, AuthorizedStagingOk, Kinds
<1>4. /\ x \in Account /\ x.data \in Seq(Cell)
      /\ WellFormed(s, x) /\ WellStaged(s, x)
  BY <1>2, <1>3 DEF GoodView, WellFormed, Account
<1>5. Tail(ix.payload) \in Seq(Cell) /\ start \in Nat /\ start >= 5
  <2>1. ix.payload # <<>>
    BY <1>1
  <2> QED
    BY <2>1 DEF WellTyped, STAGING_HEADER_LEN
<1>6. /\ data \in Seq(Cell)
      /\ Len(data) = Len(x.data)
      /\ Len(x.data) \in Nat /\ Len(x.data) >= 5
      /\ \A i \in 1..Len(x.data) : i <= start => data[i] = x.data[i]
  <2>1. Len(x.data) \in Nat /\ Len(x.data) >= 5
    BY <1>3, <1>4 DEF HoldsStaging, STAGING_HEADER_LEN
  <2> DEFINE old == x.data
             bytes == Tail(ix.payload)
  <2>2. old \in Seq(Cell) /\ bytes \in Seq(Cell) /\ start \in Nat
    BY <1>4, <1>5
  <2> HIDE DEF old, bytes, start
  <2>3. ASSUME NEW new, new = copy_from_slice(old, start, bytes)
        PROVE  /\ new \in Seq(Cell)
               /\ Len(new) = Len(old)
               /\ \A i \in 1..Len(old) : i <= start => new[i] = old[i]
    BY <2>2, <2>3, CopyFromSlice
  <2> QED
    BY <2>1, <2>3 DEF old, bytes
<1>7. \A i \in 1..5 : data[i] = x.data[i]
  BY <1>5, <1>6
<1>8. /\ At(data, DISCRIMINATOR_OFFSET) = At(x.data, DISCRIMINATOR_OFFSET)
      /\ read_n(data) = read_n(x.data)
      /\ StagingAuthority(data) = StagingAuthority(x.data)
  BY <1>7 DEF At, read_n, StagingAuthority, DISCRIMINATOR_OFFSET,
     NUM_PUBLIC_INPUTS_OFFSET, STAGING_AUTHORITY_OFFSET
<1>9. y \in Account /\ y.owner = Program /\ y.data = data
  BY <1>2, <1>4, <1>6 DEF Account
<1>10. HoldsStaging(y) /\ AuthorityOf(y) = AuthorityOf(x) /\ WellStaged(s, y)
  BY <1>3, <1>4, <1>6, <1>8, <1>9 DEF HoldsStaging, AuthorityOf, WellStaged
<1>11. ~IsKey(x) /\ ~IsKey(y) /\ s \notin Derived
  BY <1>2, <1>3, <1>4, <1>10, Kinds, RuntimeAssumption DEF WellFormed, Blank
<1>12. WellFormed(s, y) /\ Permitted(x, y, t.signers)
  BY <1>2, <1>3, <1>10, <1>11 DEF WellFormed, Permitted
<1>13. Written(v, ix) = [v EXCEPT ![s] = y]
  BY <1>2 DEF Written, GoodView
<1>14. IsStaged(y)
  BY <1>10, StagedByHeader
<1> HIDE DEF y
<1> QED
  BY <1>2, <1>9, <1>10, <1>11, <1>12, <1>13, <1>14

(* So it is a permitted step. *)
LEMMA WriteStep ==
    ASSUME NEW v, GoodView(v), NEW t, t.signers \subseteq Wallet,
           NEW ix, WellTyped(ix), ix.tag = "Write", write(v, t, ix) = Ok
    PROVE  GoodStep(v, Written(v, ix), t.signers)
BY WrittenAccount, OneAccount

(* Two permitted steps make one. *)
LEMMA GoodStepTransitive ==
    ASSUME NEW u, NEW v, NEW w, NEW signers,
           GoodView(u), GoodStep(u, v, signers), GoodStep(v, w, signers)
    PROVE  GoodStep(u, w, signers)
<1>1. ASSUME NEW a \in Address
      PROVE  Permitted(u[a], w[a], signers)
  <2>1. /\ u[a].lamports \in Nat /\ v[a].lamports \in Nat /\ w[a].lamports \in Nat
        /\ Permitted(u[a], v[a], signers) /\ Permitted(v[a], w[a], signers)
    BY DEF GoodStep, GoodView, Account
  <2> QED
    BY <2>1, PermittedTransitive
<1> QED
  BY <1>1 DEF GoodStep

(* drain_and_close empties one account and credits the other. *)
LEMMA DrainedView ==
    ASSUME NEW v \in [Address -> Account], NEW from \in Address, NEW to \in Address,
           from # to, NEW w, w = Drained(v, from, to)
    PROVE  /\ w \in [Address -> Account]
           /\ w[from] = Empty
           /\ w[to].owner = v[to].owner /\ w[to].data = v[to].data
           /\ w[to].lamports = v[to].lamports + v[from].lamports
           /\ \A a \in Address \ {from, to} : w[a] = v[a]
<1> DEFINE credited == [v[to] EXCEPT !.lamports = v[to].lamports + v[from].lamports]
<1>1. Empty \in Account
  BY DEF Empty, Account, Owner
<1>2. v[from].lamports \in Nat /\ v[to] \in Account /\ v[to].lamports \in Nat
  BY DEF Account
<1>3. /\ credited \in Account
      /\ credited.owner = v[to].owner /\ credited.data = v[to].data
      /\ credited.lamports = v[to].lamports + v[from].lamports
  BY <1>2, SetLamports
<1>4. w = [[v EXCEPT ![to] = credited] EXCEPT ![from] = Empty]
  BY DEF Drained
<1> HIDE DEF credited
<1> QED
  BY <1>1, <1>3, <1>4

(* drain_and_close on a staging account whose authority signed. *)
LEMMA DrainStep ==
    ASSUME NEW v, GoodView(v), NEW from \in Address, NEW to \in Address, from # to,
           NEW signers, IsStaged(v[from]), AuthorityOf(v[from]) \in signers,
           NEW w, w = Drained(v, from, to)
    PROVE  GoodStep(v, w, signers)
<1>1. v \in [Address -> Account] /\ \A a \in Address : WellFormed(a, v[a])
  BY DEF GoodView
<1>2. Empty.owner = System /\ Blank(Empty)
  BY DEF Empty, Blank
<1>3. /\ w \in [Address -> Account]
      /\ w[from] = Empty
      /\ w[to].owner = v[to].owner /\ w[to].data = v[to].data
      /\ w[to].lamports = v[to].lamports + v[from].lamports
      /\ \A a \in Address \ {from, to} : w[a] = v[a]
  BY <1>1, DrainedView
<1>4. WellFormed(from, w[from]) /\ Permitted(v[from], w[from], signers)
  BY <1>2, <1>3, Kinds, Unowned, RuntimeAssumption DEF Permitted
<1>5. ASSUME NEW a \in Address \ {from}
      PROVE  WellFormed(a, w[a]) /\ Permitted(v[a], w[a], signers)
  <2>1. /\ v[a].lamports \in Nat /\ w[a].lamports \in Nat
        /\ v[from].lamports \in Nat
    BY <1>1, <1>3 DEF Account
  <2>2. Untouched(v[a], w[a])
    BY <1>3, <2>1 DEF Untouched
  <2> QED
    BY <1>1, <2>1, <2>2, UntouchedStep
<1> QED
  BY <1>3, <1>4, <1>5 DEF GoodStep, GoodView

(* CloseStaging. *)
LEMMA CloseStep ==
    ASSUME NEW v, GoodView(v), NEW t, NEW ix, WellTyped(ix),
           close_staging(v, t, ix) = Ok
    PROVE  GoodStep(v, Closed(v, ix), t.signers)
<1> DEFINE accounts == Accounts(ix)
           from == accounts[2]
           to == accounts[1]
<1>1. /\ staging_pair(v, t, accounts) = Ok
      /\ authorized_staging(v[from].data, to) = Ok
  BY ThenOk DEF close_staging
<1>2. /\ from \in Address /\ to \in Address /\ from # to
      /\ to \in t.signers
      /\ v[from].owner = Program
  BY <1>1, StagingPairOk, AccountsType
<1>3. IsStaged(v[from]) /\ AuthorityOf(v[from]) \in t.signers
  BY <1>1, <1>2, AuthorizedStagingOk
<1>4. Closed(v, ix) = Drained(v, from, to)
  BY DEF Closed
<1> HIDE DEF from, to
<1> QED
  BY <1>2, <1>3, <1>4, DrainStep

-----------------------------------------------------------------------------
(* The system program. *)

(* A transfer moves lamports and nothing else. *)
LEMMA TransferredView ==
    ASSUME NEW v \in [Address -> Account], NEW from \in Address, NEW to \in Address,
           NEW amount \in Nat, v[from].lamports >= amount,
           NEW w, w = Transferred(v, from, to, amount)
    PROVE  /\ w \in [Address -> Account]
           /\ \A a \in Address :
                /\ w[a].owner = v[a].owner
                /\ w[a].data = v[a].data
                /\ a # from => w[a].lamports >= v[a].lamports
                /\ a \notin {from, to} => w[a] = v[a]
           /\ from # to => /\ w[to].lamports = v[to].lamports + amount
                           /\ w[from].lamports = v[from].lamports - amount
<1> DEFINE debited == [v[from] EXCEPT !.lamports = v[from].lamports - amount]
           u == [v EXCEPT ![from] = debited]
           credited == [u[to] EXCEPT !.lamports = u[to].lamports + amount]
<1>1. /\ v[from] \in Account /\ v[from].lamports \in Nat
      /\ v[from].lamports - amount \in Nat
  BY DEF Account
<1>2. /\ debited \in Account /\ debited.owner = v[from].owner
      /\ debited.data = v[from].data
      /\ debited.lamports = v[from].lamports - amount
  BY <1>1, SetLamports
<1>3. w = [u EXCEPT ![to] = credited]
  BY DEF Transferred
<1> HIDE DEF debited
<1>4. /\ u \in [Address -> Account]
      /\ u[from] = debited
      /\ \A a \in Address : a # from => u[a] = v[a]
  BY <1>2
<1> HIDE DEF u
<1>5. u[to] \in Account /\ u[to].lamports \in Nat /\ u[to].lamports + amount \in Nat
  BY <1>4 DEF Account
<1>6. /\ credited \in Account /\ credited.owner = u[to].owner
      /\ credited.data = u[to].data /\ credited.lamports = u[to].lamports + amount
  BY <1>5, SetLamports
<1> HIDE DEF credited
<1>7. /\ w \in [Address -> Account]
      /\ w[to] = credited
      /\ \A a \in Address : a # to => w[a] = u[a]
  BY <1>3, <1>4, <1>6
<1>8. ASSUME NEW a \in Address
      PROVE  /\ w[a].owner = v[a].owner
             /\ w[a].data = v[a].data
             /\ a # from => w[a].lamports >= v[a].lamports
             /\ a \notin {from, to} => w[a] = v[a]
  <2>1. v[a].lamports \in Nat
    BY DEF Account
  <2> QED
    BY <2>1, <1>2, <1>4, <1>5, <1>6, <1>7
<1>9. from # to => /\ w[to].lamports = v[to].lamports + amount
                   /\ w[from].lamports = v[from].lamports - amount
  BY <1>2, <1>4, <1>6, <1>7
<1> QED
  BY <1>7, <1>8, <1>9

(* What a successful Transfer checked. *)
LEMMA TransferOk ==
    ASSUME NEW v, NEW from, NEW amount, Transfer(v, from, amount) = Ok
    PROVE  /\ Blank(v[from])
           /\ v[from].lamports >= amount
BY ThenOk DEF Transfer, Ensure, Ok, Blank

(* A successful transfer is permitted to anyone: it takes only from a blank
   account. *)
LEMMA TransferStep ==
    ASSUME NEW v, GoodView(v), NEW from \in Address, NEW to \in Address,
           NEW amount \in Nat, Transfer(v, from, amount) = Ok, NEW signers,
           NEW w, w = Transferred(v, from, to, amount)
    PROVE  GoodStep(v, w, signers)
<1>1. v \in [Address -> Account] /\ Blank(v[from]) /\ v[from].lamports >= amount
  BY TransferOk DEF GoodView
<1>2. /\ w \in [Address -> Account]
      /\ \A a \in Address :
           /\ w[a].owner = v[a].owner
           /\ w[a].data = v[a].data
           /\ a # from => w[a].lamports >= v[a].lamports
  BY <1>1, TransferredView
<1>3. Blank(w[from]) /\ v[from].owner # Program /\ w[from].owner # Program
  BY <1>1, <1>2, RuntimeAssumption DEF Blank
<1>4. WellFormed(from, w[from]) /\ Permitted(v[from], w[from], signers)
  BY <1>3, Unowned DEF Permitted
<1>5. ASSUME NEW a \in Address, a # from
      PROVE  WellFormed(a, w[a]) /\ Permitted(v[a], w[a], signers)
  <2>1. v[a].lamports \in Nat /\ w[a].lamports \in Nat /\ WellFormed(a, v[a])
    BY <1>1, <1>2 DEF Account, GoodView
  <2>2. Untouched(v[a], w[a])
    BY <1>2, <1>5 DEF Untouched
  <2> QED
    BY <2>1, <2>2, UntouchedStep
<1> QED
  BY <1>2, <1>4, <1>5 DEF GoodStep, GoodView

(* Zeroed account data. *)
LEMMA ZerosType ==
    ASSUME NEW len \in Nat
    PROVE  Zeros(len) \in Seq(Cell) /\ Len(Zeros(len)) = len
<1>1. 0 \in Cell
  BY RuntimeAssumption
<1>2. \A i \in 1..len : Zeros(len)[i] = 0
  BY DEF Zeros
<1> QED
  BY <1>1, <1>2, IsASeq, LenProperties DEF Zeros

(* Allocate and assign to the program: what the account becomes. *)
LEMMA AllocateAssign ==
    ASSUME NEW v \in [Address -> Account], NEW a \in Address, NEW space \in Nat,
           NEW w, w = Assigned(Allocated(v, a, space), a, Program)
    PROVE  /\ w \in [Address -> Account]
           /\ w[a].owner = Program
           /\ w[a].data = Zeros(space)
           /\ w[a].lamports = v[a].lamports
           /\ \A b \in Address : b # a => w[b] = v[b]
<1> DEFINE sized == [v[a] EXCEPT !.data = Zeros(space)]
           u == [v EXCEPT ![a] = sized]
           owned == [u[a] EXCEPT !.owner = Program]
<1>1. Zeros(space) \in Seq(Cell)
  BY ZerosType
<1>2. /\ sized \in Account /\ sized.data = Zeros(space)
      /\ sized.lamports = v[a].lamports
  BY <1>1, SetData
<1>3. w = [u EXCEPT ![a] = owned]
  BY DEF Assigned, Allocated
<1> HIDE DEF sized
<1>4. /\ u \in [Address -> Account] /\ u[a] = sized
      /\ \A b \in Address : b # a => u[b] = v[b]
  BY <1>2
<1> HIDE DEF u
<1>5. /\ owned \in Account /\ owned.owner = Program
      /\ owned.data = u[a].data /\ owned.lamports = u[a].lamports
  BY <1>2, <1>4, SetOwner DEF Owner
<1> HIDE DEF owned
<1> QED
  BY <1>2, <1>3, <1>4, <1>5

(* create_account gives the program a zeroed account at an empty address,
   which is a wallet: neither a key nor a staging account. *)
LEMMA CreateStep ==
    ASSUME NEW v, GoodView(v), NEW from \in Address, NEW a \in Wallet,
           NEW amount \in Nat, NEW space \in Nat, NEW signers,
           CreateAccount(v, from, a, amount) = Ok,
           NEW w, w = Created(v, from, a, amount, space, Program)
    PROVE  GoodStep(v, w, signers)
<1> DEFINE u == Transferred(v, from, a, amount)
<1>1. v[a] = Empty /\ Transfer(v, from, amount) = Ok
  BY ThenOk DEF CreateAccount, Ensure, Ok
<1>2. a \in Address /\ a \notin Derived
  BY RuntimeAssumption DEF Address
<1>3. GoodStep(v, u, signers)
  BY <1>1, <1>2, TransferStep
<1>4. w = Assigned(Allocated(u, a, space), a, Program)
  BY DEF Created
<1>5. u[a].owner = v[a].owner
  BY <1>1, <1>2, TransferOk, TransferredView DEF GoodView
<1> HIDE DEF u
<1>6. u \in [Address -> Account] /\ GoodView(u)
  BY <1>3 DEF GoodStep, GoodView
<1>7. /\ w \in [Address -> Account]
      /\ w[a].data = Zeros(space)
      /\ \A b \in Address : b # a => w[b] = u[b]
  BY <1>2, <1>4, <1>6, AllocateAssign
<1>8. ~IsKey(w[a]) /\ ~HoldsStaging(w[a]) /\ ~IsStaged(w[a])
  <2>1. Len(w[a].data) = space /\ (space >= 4 => At(w[a].data, DISCRIMINATOR_OFFSET) = 0)
    BY <1>7, ZerosType DEF At, DISCRIMINATOR_OFFSET, Zeros
  <2> QED
    BY <2>1, Kinds DEF KEY_HEADER_LEN, STAGING_HEADER_LEN, HoldsStaging
<1>9. ~IsKey(u[a]) /\ ~IsStaged(u[a])
  BY <1>1, <1>5, Kinds, RuntimeAssumption DEF Empty
<1>10. WellFormed(a, w[a]) /\ Permitted(u[a], w[a], signers)
  BY <1>2, <1>8, <1>9 DEF WellFormed, Permitted
<1>11. w[a] \in Account /\ w = [u EXCEPT ![a] = w[a]]
  BY <1>2, <1>6, <1>7
<1>12. GoodStep(u, w, signers)
  BY <1>2, <1>6, <1>10, <1>11, OneAccount
<1> QED
  BY <1>3, <1>12, GoodStepTransitive

-----------------------------------------------------------------------------
(* Publish. *)

(* What the checks of Publish establish. *)
LEMMA PublishOk ==
    ASSUME NEW v, NEW t, NEW ix, publish(v, t, ix) = Ok,
           NEW authority, authority = Accounts(ix)[1],
           NEW payer, payer = Accounts(ix)[2],
           NEW staging, staging = Accounts(ix)[3],
           NEW key, key = Accounts(ix)[4],
           NEW n, n = read_n(v[staging].data),
           NEW body, body = StagingBody(v[staging].data)
    PROVE  /\ Len(Accounts(ix)) = 5
           /\ authority \in t.signers /\ payer \in t.signers
           /\ authority \notin t.readonly /\ payer \notin t.readonly
           /\ staging \notin t.readonly /\ key \notin t.readonly
           /\ authority # staging
           /\ v[staging].owner = Program
           /\ authorized_staging(v[staging].data, authority) = Ok
           /\ from_body_with_len(body, n) = Ok
           /\ PdaExists(Sha256(body))
           /\ key = KeyAddress(body)
           /\ Blank(v[key])
           /\ ValidateForPublish(body, n) = Ok
           /\ create_key_account(v, payer, staging, key, key_account_len(n)) = Ok
BY ThenOk DEF publish, unpublished_address, Ok, Ensure, expect_signer, expect_writable,
   expect_owned_by, expect_distinct, Blank

(* The canonical address comes with a bump and belongs to no wallet. *)
LEMMA CanonicalAddress ==
    ASSUME NEW body, PdaExists(Sha256(body))
    PROVE  /\ CanonicalBump(Sha256(body)) \in Cell
           /\ KeyAddress(body) \notin Wallet
<1>1. /\ CanonicalBump(Sha256(body)) \in Bump
      /\ IsCanonicalBump(Sha256(body), CanonicalBump(Sha256(body)))
  BY DEF PdaExists, CanonicalBump
<1> QED
  BY <1>1, RuntimeAssumption DEF IsCanonicalBump, KeyAddress, FindProgramAddress

(* create_key_account makes a zeroed, rent exempt account of the program out of
   the blank address; what it costs comes out of a blank payer. *)
LEMMA KeyAccountStep ==
    ASSUME NEW v, GoodView(v), NEW payer \in Address, NEW key \in Address,
           payer # key, Blank(v[key]),
           NEW space \in Nat, MinimumBalance(space) \in Nat,
           NEW need, need = Shortfall(v, key, space),
           need > 0 => Transfer(v, payer, need) = Ok,
           NEW signers,
           NEW u, u = KeyFunded(v, payer, key, space),
           NEW w, w = KeyAccountCreated(v, payer, key, space)
    PROVE  /\ GoodStep(v, u, signers)
           /\ \A a \in Address : u[a].owner = v[a].owner /\ u[a].data = v[a].data
           /\ \A a \in Address : v[a].owner = Program => u[a] = v[a]
           /\ \A a \in Address \ {payer, key} : u[a] = v[a]
           /\ u[payer].lamports + MinimumBalance(space) >= v[payer].lamports
           /\ Blank(u[key])
           /\ w \in [Address -> Account]
           /\ w[key].owner = Program /\ w[key].data = Zeros(space)
           /\ w[key].lamports \in Nat /\ w[key].lamports >= MinimumBalance(space)
           /\ \A a \in Address : a # key => w[a] = u[a]
<1> DEFINE shortfall == Shortfall(v, key, space)
<1>0. u = IF shortfall > 0 THEN Transferred(v, payer, key, shortfall) ELSE v
  BY DEF KeyFunded
<1>1. v \in [Address -> Account] /\ v[key].lamports \in Nat
  BY DEF GoodView, Account
<1>2. /\ shortfall \in Nat
      /\ shortfall > 0 => v[key].lamports + shortfall = MinimumBalance(space)
      /\ ~(shortfall > 0) => v[key].lamports >= MinimumBalance(space)
  BY <1>1 DEF Shortfall
<1>3. shortfall > 0 => Transfer(v, payer, shortfall) = Ok
  OBVIOUS
<1>4. w = Assigned(Allocated(u, key, space), key, Program)
  BY DEF KeyAccountCreated
<1> HIDE DEF shortfall
<1>5. /\ GoodStep(v, u, signers)
      /\ \A a \in Address : u[a].owner = v[a].owner /\ u[a].data = v[a].data
      /\ \A a \in Address : v[a].owner = Program => u[a] = v[a]
      /\ \A a \in Address \ {payer, key} : u[a] = v[a]
      /\ u[payer].lamports + MinimumBalance(space) >= v[payer].lamports
      /\ Blank(u[key])
      /\ u[key].lamports \in Nat /\ u[key].lamports >= MinimumBalance(space)
  <2>1. CASE shortfall > 0
    <3> DEFINE moved == Transferred(v, payer, key, shortfall)
    <3>1. u = moved
      BY <1>0, <2>1
    <3>2. GoodStep(v, moved, signers)
      BY <1>2, <1>3, <2>1, TransferStep
    <3>3. Blank(v[payer]) /\ v[payer].lamports >= shortfall
      BY <1>3, <2>1, TransferOk
    <3>4. /\ moved \in [Address -> Account]
          /\ \A a \in Address :
               /\ moved[a].owner = v[a].owner
               /\ moved[a].data = v[a].data
               /\ a \notin {payer, key} => moved[a] = v[a]
          /\ moved[key].lamports = v[key].lamports + shortfall
          /\ moved[payer].lamports = v[payer].lamports - shortfall
      BY <1>1, <1>2, <3>3, TransferredView
    <3> HIDE DEF moved
    <3>6. /\ v[payer].lamports \in Nat
          /\ moved[payer].lamports + MinimumBalance(space) >= v[payer].lamports
      <4>1. v[payer].lamports \in Nat
        BY <1>1 DEF Account
      <4> QED
        BY <4>1, <1>1, <1>2, <2>1, <3>4
    <3>5. \A a \in Address : v[a].owner = Program => a \notin {payer, key}
      BY <3>3, RuntimeAssumption DEF Blank
    <3> QED
      BY <1>1, <1>2, <2>1, <3>1, <3>2, <3>4, <3>5, <3>6 DEF Blank
  <2>2. CASE ~(shortfall > 0)
    <3>1. u = v
      BY <1>0, <2>2
    <3>2. GoodStep(v, v, signers)
      BY Unchanged
    <3>3. v[payer].lamports \in Nat
      BY <1>1 DEF Account
    <3> QED
      BY <1>1, <1>2, <2>2, <3>1, <3>2, <3>3
  <2> QED
    BY <2>1, <2>2
<1>6. u \in [Address -> Account]
  BY <1>5 DEF GoodStep, GoodView
<1>7. /\ w \in [Address -> Account]
      /\ w[key].owner = Program /\ w[key].data = Zeros(space)
      /\ w[key].lamports = u[key].lamports
      /\ \A a \in Address : a # key => w[a] = u[a]
  BY <1>4, <1>6, AllocateAssign
<1> QED
  BY <1>5, <1>7

(* The body of a staging account has the length that its n asks for. *)
LEMMA StagedBody ==
    ASSUME NEW data \in Seq(Cell), NEW n \in 0..MAX_PUBLIC_INPUTS,
           Len(data) = staging_account_len(n)
    PROVE  StagingBody(data) \in Seq(Cell) /\ Len(StagingBody(data)) = vk_body_len(n)
<1>1. vk_body_len(n) \in Nat
  BY LayoutAssumption DEF vk_body_len
<1>2. Len(data) = 5 + vk_body_len(n)
  BY DEF staging_account_len, STAGING_HEADER_LEN
<1>3. From(data, 5) \in Seq(Cell) /\ Len(From(data, 5)) = Len(data) - 5
  BY <1>1, <1>2, FromProperties
<1> QED
  BY <1>1, <1>2, <1>3 DEF StagingBody, STAGING_HEADER_LEN

(* Where the lamports of a publication come from and go to: the payer pays no
   more than the rent of the key, and the authority gets what the staging account
   held. *)
PublicationPaid(v, w, authority, payer, staging, key) ==
    /\ IsKey(w[key])
    /\ \A a \in Address \ {authority, payer, staging, key} : w[a] = v[a]
    /\ payer # staging =>
         w[payer].lamports + MinimumBalance(key_account_len(read_n(v[staging].data)))
           >= v[payer].lamports
    /\ authority # payer =>
         w[authority].lamports = v[authority].lamports + v[staging].lamports

(* Publish fills the blank canonical address with a complete key for exactly
   the staged body, and closes the staging account its authority signed for. *)
LEMMA PublishedAccounts ==
    ASSUME NEW v, GoodView(v), NEW t, t.signers \subseteq Wallet,
           NEW ix, WellTyped(ix), publish(v, t, ix) = Ok
    PROVE  /\ GoodStep(v, Published(v, ix), t.signers)
           /\ Accounts(ix)[4] \notin Wallet
           /\ Published(v, ix)[Accounts(ix)[3]] = Empty
           /\ \A a \in Address \ {Accounts(ix)[3], Accounts(ix)[4]} :
                /\ Published(v, ix)[a].owner = v[a].owner
                /\ Published(v, ix)[a].data = v[a].data
           /\ PublicationPaid(v, Published(v, ix), Accounts(ix)[1], Accounts(ix)[2],
                              Accounts(ix)[3], Accounts(ix)[4])
<1> DEFINE authority == Accounts(ix)[1]
           payer == Accounts(ix)[2]
           staging == Accounts(ix)[3]
           key == Accounts(ix)[4]
           x == v[staging]
           n == read_n(x.data)
           body == StagingBody(x.data)
           space == key_account_len(n)
           bump == CanonicalBump(Sha256(body))
           u == KeyFunded(v, payer, key, space)
           created == KeyAccountCreated(v, payer, key, space)
           data == copy_from_slice(write_key_header(created[key].data, bump, n),
                                   KEY_HEADER_LEN, body)
           y == [created[key] EXCEPT !.data = data]
           written == KeyWritten(created, key, bump, n, body)
<1>1. /\ Len(Accounts(ix)) = 5
      /\ authority \in t.signers /\ payer \in t.signers
      /\ authority # staging
      /\ x.owner = Program
      /\ authorized_staging(x.data, authority) = Ok
      /\ PdaExists(Sha256(body))
      /\ key = KeyAddress(body)
      /\ Blank(v[key])
      /\ ValidateForPublish(body, n) = Ok
      /\ create_key_account(v, payer, staging, key, space) = Ok
  BY PublishOk
<1>2. /\ authority \in Address /\ payer \in Address
      /\ staging \in Address /\ key \in Address
  <2>1. \A i \in 1..5 : Accounts(ix)[i] \in Address
    BY <1>1, AccountsType
  <2> QED
    BY <2>1
<1>3. IsStaged(x) /\ AuthorityOf(x) = authority /\ HoldsStaging(x)
  BY <1>1, AuthorizedStagingOk, Kinds
<1>4. /\ x \in Account /\ x.data \in Seq(Cell)
      /\ n \in 0..MAX_PUBLIC_INPUTS
      /\ Len(x.data) = staging_account_len(n)
  BY <1>2, <1>3 DEF GoodView, WellFormed, WellStaged, Account
<1>5. bump \in Cell /\ key \notin Wallet
  BY <1>1, CanonicalAddress
<1>6. payer # key /\ authority # key /\ staging # key
  BY <1>1, <1>5, RuntimeAssumption DEF Blank
<1>7. vk_body_len(n) \in Nat /\ space \in Nat /\ space = 4 + vk_body_len(n)
  BY <1>4, LayoutAssumption DEF vk_body_len, key_account_len, KEY_HEADER_LEN
<1>8. body \in Seq(Cell) /\ Len(body) = vk_body_len(n)
  BY <1>4, StagedBody
<1>9. MinimumBalance(space) \in Nat
  BY <1>4, RuntimeAssumption
<1> HIDE DEF n, body, bump, space, authority, payer, staging, key
<1>10. /\ GoodStep(v, u, t.signers)
       /\ \A a \in Address : u[a].owner = v[a].owner /\ u[a].data = v[a].data
       /\ \A a \in Address : v[a].owner = Program => u[a] = v[a]
       /\ \A a \in Address \ {payer, key} : u[a] = v[a]
       /\ u[payer].lamports + MinimumBalance(space) >= v[payer].lamports
       /\ Blank(u[key])
       /\ created \in [Address -> Account]
       /\ created[key].owner = Program /\ created[key].data = Zeros(space)
       /\ created[key].lamports \in Nat
       /\ created[key].lamports >= MinimumBalance(space)
       /\ \A a \in Address : a # key => created[a] = u[a]
  <2> DEFINE signers == t.signers
  <2>1. u = KeyFunded(v, payer, key, space)
    OBVIOUS
  <2>2. created = KeyAccountCreated(v, payer, key, space)
    OBVIOUS
  <2>3. /\ payer \in Address /\ key \in Address /\ payer # key /\ Blank(v[key])
        /\ space \in Nat /\ MinimumBalance(space) \in Nat
    BY <1>1, <1>2, <1>6, <1>7, <1>9
  <2> DEFINE need == Shortfall(v, key, space)
  <2>4. need > 0 => Transfer(v, payer, need) = Ok
    BY <1>1, ThenOk DEF create_key_account
  <2>5. need = Shortfall(v, key, space)
    OBVIOUS
  <2> HIDE DEF u, created, signers, need
  <2>6. /\ GoodStep(v, u, signers)
        /\ \A a \in Address : u[a].owner = v[a].owner /\ u[a].data = v[a].data
        /\ \A a \in Address : v[a].owner = Program => u[a] = v[a]
        /\ \A a \in Address \ {payer, key} : u[a] = v[a]
        /\ u[payer].lamports + MinimumBalance(space) >= v[payer].lamports
        /\ Blank(u[key])
        /\ created \in [Address -> Account]
        /\ created[key].owner = Program /\ created[key].data = Zeros(space)
        /\ created[key].lamports \in Nat
        /\ created[key].lamports >= MinimumBalance(space)
        /\ \A a \in Address : a # key => created[a] = u[a]
    BY <2>1, <2>2, <2>3, <2>4, <2>5, KeyAccountStep
  <2> QED
    BY <2>6 DEF signers
<1> HIDE DEF u
<1>11. GoodView(u) /\ u \in [Address -> Account]
  BY <1>10 DEF GoodStep, GoodView
<1> HIDE DEF created
<1>12. /\ data \in Seq(Cell)
       /\ Len(data) = space
       /\ At(data, KEY_BUMP_OFFSET) = bump
       /\ read_n(data) = n
       /\ KeyBody(data) = body
       /\ read_key_account(data) = Ok
  <2> DEFINE blank == created[key].data
  <2>1. {0, 1} \subseteq Cell /\ n \in Cell
    BY <1>4, RuntimeAssumption
  <2>2. blank \in Seq(Cell) /\ Len(blank) = key_account_len(n)
    BY <1>7, <1>10, ZerosType DEF space
  <2> DEFINE filled == copy_from_slice(write_key_header(blank, bump, n),
                                       KEY_HEADER_LEN, body)
  <2>3. data = filled
    OBVIOUS
  <2> HIDE DEF blank, data
  <2>4. /\ filled \in Seq(Cell)
        /\ Len(filled) = key_account_len(n)
        /\ At(filled, KEY_BUMP_OFFSET) = bump
        /\ read_n(filled) = n
        /\ KeyBody(filled) = body
        /\ read_key_account(filled) = Ok
    BY <2>1, <2>2, <1>4, <1>5, <1>8, KeyAccountData
  <2> QED
    BY <2>3, <2>4 DEF space
<1> HIDE DEF data
<1>13. /\ y \in Account /\ y.owner = Program /\ y.data = data
       /\ y.lamports = created[key].lamports
  BY <1>2, <1>10, <1>12, SetData
<1>14. written = [created EXCEPT ![key] = y]
  BY DEF KeyWritten, data
<1> HIDE DEF y, written
<1>15. written = [u EXCEPT ![key] = y]
  BY <1>2, <1>10, <1>11, <1>13, <1>14
<1>16. IsKey(y)
  BY <1>12, <1>13 DEF IsKey
<1>17. CommitsTo(key, y)
  BY <1>1, <1>10, <1>12, <1>13 DEF CommitsTo, RentExempt, bump
<1>18. WellFormed(key, y)
  BY <1>4, <1>12, <1>13, <1>16, <1>17, Kinds DEF WellFormed, space
<1>19. Permitted(u[key], y, t.signers)
  BY <1>10, <1>16, Kinds, RuntimeAssumption DEF Permitted, Blank
<1>20. GoodStep(u, written, t.signers)
  BY <1>2, <1>11, <1>13, <1>15, <1>18, <1>19, OneAccount
<1>21. written[staging] = x
  BY <1>1, <1>2, <1>6, <1>10, <1>11, <1>15
<1>22. Published(v, ix) = Drained(written, staging, authority)
  BY DEF Published, written, created, staging, authority, key, payer, n, body, bump, space
<1>23. GoodStep(written, Published(v, ix), t.signers)
  <2>1. GoodView(written)
    BY <1>20 DEF GoodStep
  <2>2. IsStaged(written[staging]) /\ AuthorityOf(written[staging]) \in t.signers
    BY <1>1, <1>3, <1>21
  <2> QED
    BY <1>1, <1>2, <1>22, <2>1, <2>2, DrainStep
<1>24. /\ Published(v, ix)[staging] = Empty
       /\ \A a \in Address \ {staging} :
            /\ Published(v, ix)[a].owner = written[a].owner
            /\ Published(v, ix)[a].data = written[a].data
  <2>1. written \in [Address -> Account]
    BY <1>20 DEF GoodStep, GoodView
  <2> QED
    BY <1>1, <1>2, <1>22, <2>1, DrainedView
<1>25. \A a \in Address \ {staging, key} :
         /\ Published(v, ix)[a].owner = v[a].owner
         /\ Published(v, ix)[a].data = v[a].data
  BY <1>2, <1>10, <1>11, <1>15, <1>24
<1>26. GoodStep(v, Published(v, ix), t.signers)
  BY <1>10, <1>20, <1>23, <1>11, GoodStepTransitive
<1>27. PublicationPaid(v, Published(v, ix), authority, payer, staging, key)
  <2> DEFINE w == Published(v, ix)
  <2>1. /\ written \in [Address -> Account]
        /\ \A a \in Address : a # key => written[a] = u[a]
        /\ written[key] = y
    BY <1>2, <1>11, <1>13, <1>15
  <2>2. /\ w[authority].lamports = written[authority].lamports + written[staging].lamports
        /\ \A a \in Address \ {staging, authority} : w[a] = written[a]
    BY <1>1, <1>2, <1>22, <2>1, DrainedView
  <2> HIDE DEF w
  <2>3. w[key] = y
    BY <1>2, <1>6, <2>1, <2>2
  <2>4. \A a \in Address \ {authority, payer, staging, key} : w[a] = v[a]
    BY <1>10, <2>1, <2>2
  <2>5. authority # payer =>
          w[authority].lamports = v[authority].lamports + v[staging].lamports
    BY <1>2, <1>6, <1>10, <1>21, <2>1, <2>2
  <2>6. payer # staging =>
          w[payer].lamports + MinimumBalance(space) >= v[payer].lamports
    <3> SUFFICES ASSUME payer # staging
                 PROVE  w[payer].lamports + MinimumBalance(space) >= v[payer].lamports
      OBVIOUS
    <3>1. /\ u[payer].lamports \in Nat /\ written[staging].lamports \in Nat
          /\ v[payer].lamports \in Nat /\ MinimumBalance(space) \in Nat
      BY <1>2, <1>9, <1>11, <2>1 DEF Account, GoodView
    <3>2. w[payer].lamports = u[payer].lamports
            \/ w[payer].lamports = u[payer].lamports + written[staging].lamports
      BY <1>2, <1>6, <2>1, <2>2
    <3> QED
      BY <1>10, <3>1, <3>2
  <2> QED
    BY <1>16, <2>3, <2>4, <2>5, <2>6 DEF PublicationPaid, w, space, n
<1> QED
  BY <1>5, <1>24, <1>25, <1>26, <1>27 DEF staging, key, authority, payer

(* So it is a permitted step. *)
LEMMA PublishStep ==
    ASSUME NEW v, GoodView(v), NEW t, t.signers \subseteq Wallet,
           NEW ix, WellTyped(ix), publish(v, t, ix) = Ok
    PROVE  GoodStep(v, Published(v, ix), t.signers)
BY PublishedAccounts

-----------------------------------------------------------------------------
(* The transaction. *)

(* A commit removes accounts without lamports.  No key is among them, and no
   staging account that its authority did not empty. *)
LEMMA CommitStep ==
    ASSUME NEW l, NEW v, NEW signers, GoodView(l), GoodStep(l, v, signers),
           \A a \in Address : l[a].owner = Program => l[a].lamports > 0,
           NEW w, w = Purged(v)
    PROVE  /\ GoodStep(l, w, signers)
           /\ \A a \in Address : w[a].owner = Program => w[a].lamports > 0
<1>1. Empty \in Account /\ Empty.owner = System /\ Blank(Empty)
  BY DEF Empty, Account, Owner, Blank
<1>2. ASSUME NEW a \in Address
      PROVE  /\ w[a] \in Account
             /\ WellFormed(a, w[a])
             /\ Permitted(l[a], w[a], signers)
             /\ w[a].owner = Program => w[a].lamports > 0
  <2>1. /\ v[a] \in Account /\ v[a].lamports \in Nat /\ l[a].lamports \in Nat
        /\ WellFormed(a, v[a]) /\ Permitted(l[a], v[a], signers)
    BY DEF GoodStep, GoodView, Account
  <2>2. CASE v[a].lamports # 0
    <3>1. w[a] = v[a]
      BY <2>2 DEF Purged
    <3> QED
      BY <2>1, <2>2, <3>1
  <2>3. CASE v[a].lamports = 0
    <3>1. w[a] = Empty
      BY <2>3 DEF Purged
    <3>2. WellFormed(a, Empty) /\ ~IsStaged(Empty) /\ System # Program
      BY <1>1, Unowned, RuntimeAssumption
    <3>3. l[a].owner = Program => ~Untouched(l[a], v[a])
      BY <2>1, <2>3 DEF Untouched
    <3>4. Permitted(l[a], Empty, signers)
      BY <2>1, <3>2, <3>3, Kinds DEF Permitted
    <3> QED
      BY <1>1, <3>1, <3>2, <3>4
  <2> QED
    BY <2>2, <2>3
<1>3. w \in [Address -> Account]
  <2>1. w = [a \in Address |-> w[a]]
    BY DEF Purged
  <2> QED
    BY <1>2, <2>1
<1> QED
  BY <1>2, <1>3 DEF GoodStep, GoodView

(* The inductive invariant, in terms of good views. *)
LEMMA IndInvGood ==
    IndInv <=> /\ TypeOK
               /\ GoodView(ledger)
               /\ GoodStep(ledger, view, tx.signers)
               /\ \A a \in Address : ledger[a].owner = Program => ledger[a].lamports > 0
BY DEF IndInv, TypeOK, GoodView, GoodStep

(* One instruction that its processor accepted, or a system instruction. *)
LEMMA InstructionStep ==
    ASSUME IndInv, tx.running, NEW after, GoodStep(view, after, tx.signers),
           Executed(after)
    PROVE  IndInv'
<1>1. /\ TypeOK /\ GoodView(ledger) /\ GoodStep(ledger, view, tx.signers)
      /\ \A a \in Address : ledger[a].owner = Program => ledger[a].lamports > 0
  BY IndInvGood
<1>2. view' = after /\ ledger' = ledger /\ tx' = [tx EXCEPT !.executed = @ + 1]
  BY DEF Executed
<1>3. /\ tx' \in [running : BOOLEAN, signers : SUBSET Wallet,
                  readonly : SUBSET Address, executed : Nat]
      /\ tx'.running /\ tx'.signers = tx.signers
  BY <1>1, <1>2 DEF TypeOK
<1>4. GoodStep(ledger, after, tx.signers)
  BY <1>1, GoodStepTransitive
<1>5. after \in [Address -> Account]
  BY <1>4 DEF GoodStep, GoodView
<1>6. TypeOK'
  BY <1>1, <1>2, <1>3, <1>5 DEF TypeOK
<1> QED
  BY <1>1, <1>2, <1>3, <1>4, <1>6 DEF IndInv, GoodView, GoodStep

(* A transaction that is discarded leaves the ledger as the view. *)
LEMMA RollbackStep ==
    ASSUME IndInv, RolledBack
    PROVE  IndInv'
<1>1. ledger' = ledger /\ view' = ledger /\ tx' = Idle
  BY DEF RolledBack
<1>2. TypeOK'
  BY <1>1 DEF IndInv, TypeOK, Idle
<1>3. GoodStep(ledger, ledger, {})
  BY IndInvGood, Unchanged
<1> QED
  BY <1>1, <1>2, <1>3 DEF IndInv, Idle, GoodStep

(* At the start every account is blank, or the system program. *)
LEMMA InitIndInv ==
    ASSUME Init
    PROVE  IndInv
<1>1. ASSUME NEW a \in Address
      PROVE  /\ ledger[a] \in Account
             /\ ledger[a].owner # Program
             /\ a \in Derived => Blank(ledger[a])
  BY RuntimeAssumption, RegistryAssumption DEF Init, Genesis, Account, Owner, Blank
<1>2. ledger \in [Address -> Account]
  BY <1>1 DEF Init, Genesis
<1>3. TypeOK
  BY <1>2 DEF Init, TypeOK, Idle
<1>4. ASSUME NEW a \in Address
      PROVE  WellFormed(a, ledger[a]) /\ Permitted(ledger[a], ledger[a], {})
  BY <1>1, <1>4, Unowned DEF Permitted
<1> QED
  BY <1>1, <1>3, <1>4 DEF Init, IndInv, Idle

(* Every instruction the entry point accepts is a permitted step. *)
LEMMA ProcessStep ==
    ASSUME NEW v, GoodView(v), NEW t, t.signers \subseteq Wallet,
           NEW ix, WellTyped(ix), process_instruction(v, t, ix) = Ok
    PROVE  GoodStep(v, Effect(v, ix), t.signers)
<1>1. /\ ix.tag = "InitializeStaging" => initialize_staging(v, t, ix) = Ok
      /\ ix.tag = "Write" => write(v, t, ix) = Ok
      /\ ix.tag = "Publish" => publish(v, t, ix) = Ok
      /\ ix.tag = "CloseStaging" => close_staging(v, t, ix) = Ok
  BY DEF process_instruction
<1>2. CASE ix.tag \notin {"InitializeStaging", "Write", "Publish", "CloseStaging"}
  <2>1. Effect(v, ix) = v
    BY <1>2 DEF Effect
  <2> QED
    BY <2>1, Unchanged
<1> QED
  BY <1>1, <1>2, InitializeStep, WriteStep, PublishStep, CloseStep DEF Effect

(* The same for the instruction that a transaction runs. *)
LEMMA RunningStep ==
    ASSUME IndInv, NEW ix \in Instruction, process_instruction(view, tx, ix) = Ok
    PROVE  /\ ix.tag = "InitializeStaging" =>
                GoodStep(view, Initialized(view, ix), tx.signers)
           /\ ix.tag = "Write" => GoodStep(view, Written(view, ix), tx.signers)
           /\ ix.tag = "Publish" => GoodStep(view, Published(view, ix), tx.signers)
           /\ ix.tag = "CloseStaging" => GoodStep(view, Closed(view, ix), tx.signers)
<1>1. GoodView(view) /\ tx.signers \subseteq Wallet
  BY DEF IndInv, TypeOK, GoodView
<1>2. GoodStep(view, Effect(view, ix), tx.signers)
  BY <1>1, InstructionsWellTyped, ProcessStep
<1> QED
  BY <1>2 DEF Effect

(* What a commit does to the ledger. *)
LEMMA CommittedStep ==
    ASSUME IndInv, Commit
    PROVE  /\ GoodStep(ledger, ledger', tx.signers)
           /\ \A a \in Address : ledger'[a].owner = Program => ledger'[a].lamports > 0
<1>1. ledger' = Purged(view)
  BY DEF Commit
<1>2. /\ GoodView(ledger) /\ GoodStep(ledger, view, tx.signers)
      /\ \A a \in Address : ledger[a].owner = Program => ledger[a].lamports > 0
  BY IndInvGood
<1> QED
  BY <1>1, <1>2, CommitStep

(* Every step preserves the inductive invariant. *)
LEMMA NextIndInv ==
    ASSUME IndInv, [Next]_vars
    PROVE  IndInv'
<1>1. ASSUME NEW header \in Header, Begin(header)
      PROVE  IndInv'
  <2>1. /\ ledger' = ledger /\ view' = view /\ view = ledger
        /\ tx' = [running |-> TRUE, signers |-> header.signers,
                  readonly |-> header.readonly, executed |-> 0]
    BY <1>1 DEF Begin, IndInv, TypeOK
  <2>2. header.signers \in SUBSET Wallet /\ header.readonly \in SUBSET Address
    BY RegistryAssumption
  <2>3. TypeOK'
    BY <2>1, <2>2 DEF IndInv, TypeOK
  <2>4. GoodStep(ledger, ledger, header.signers)
    BY IndInvGood, Unchanged
  <2> QED
    BY <2>1, <2>3, <2>4 DEF IndInv, GoodStep
<1>2. ASSUME NEW ix \in Instruction, InitializeStaging(ix)
      PROVE  IndInv'
  BY <1>2, RunningStep, InstructionStep DEF InitializeStaging, MayExecute
<1>3. ASSUME NEW ix \in Instruction, Write(ix)
      PROVE  IndInv'
  BY <1>3, RunningStep, InstructionStep DEF Write, MayExecute
<1>4. ASSUME NEW ix \in Instruction, Publish(ix)
      PROVE  IndInv'
  BY <1>4, RunningStep, InstructionStep DEF Publish, MayExecute
<1>5. ASSUME NEW ix \in Instruction, CloseStaging(ix)
      PROVE  IndInv'
  BY <1>5, RunningStep, InstructionStep DEF CloseStaging, MayExecute
<1>6. ASSUME NEW ix \in Instruction, Verify(ix)
      PROVE  IndInv'
  <2>1. GoodView(view)
    BY DEF IndInv, TypeOK, GoodView
  <2>2. GoodStep(view, view, tx.signers)
    BY <2>1, Unchanged
  <2> QED
    BY <1>6, <2>2, InstructionStep DEF Verify, MayExecute
<1>7. ASSUME NEW si \in SystemInstruction, SystemCreateAccount(si)
      PROVE  IndInv'
  <2> DEFINE from == si.from
             to == si.to
             lamports == si.lamports
             space == si.space
             signers == tx.signers
             after == Created(view, from, to, lamports, space, Program)
  <2>1. /\ from \in Address /\ to \in Wallet /\ lamports \in Nat /\ space \in Nat
        /\ CreateAccount(view, from, to, lamports) = Ok
        /\ tx.running /\ Executed(after)
    BY <1>7, RegistryAssumption DEF SystemCreateAccount, MayExecute, IndInv, TypeOK
  <2>2. GoodView(view) /\ after = Created(view, from, to, lamports, space, Program)
    BY DEF IndInv, TypeOK, GoodView
  <2> HIDE DEF from, to, lamports, space, signers, after
  <2>3. GoodStep(view, after, signers)
    BY <2>1, <2>2, CreateStep
  <2> QED
    BY <2>1, <2>3, InstructionStep DEF signers
<1>8. ASSUME NEW si \in SystemInstruction, SystemTransfer(si)
      PROVE  IndInv'
  <2> DEFINE from == si.from
             to == si.to
             lamports == si.lamports
             signers == tx.signers
             after == Transferred(view, from, to, lamports)
  <2>1. /\ from \in Address /\ to \in Address /\ lamports \in Nat
        /\ Transfer(view, from, lamports) = Ok
        /\ tx.running /\ Executed(after)
    BY <1>8, RegistryAssumption DEF SystemTransfer, MayExecute
  <2>2. GoodView(view) /\ after = Transferred(view, from, to, lamports)
    BY DEF IndInv, TypeOK, GoodView
  <2> HIDE DEF from, to, lamports, signers, after
  <2>3. GoodStep(view, after, signers)
    BY <2>1, <2>2, TransferStep
  <2> QED
    BY <2>1, <2>3, InstructionStep DEF signers
<1>9. ASSUME NEW ix \in Instruction, InstructionFails(ix)
      PROVE  IndInv'
  BY <1>9, RollbackStep DEF InstructionFails
<1>10. CASE RuntimeAborts
  BY <1>10, RollbackStep DEF RuntimeAborts
<1>11. CASE Commit
  <2>1. ledger' = Purged(view) /\ view' = ledger' /\ tx' = Idle
    BY <1>11 DEF Commit
  <2>2. /\ GoodStep(ledger, ledger', tx.signers)
        /\ \A a \in Address : ledger'[a].owner = Program => ledger'[a].lamports > 0
    BY <1>11, CommittedStep
  <2>3. ledger' \in [Address -> Account] /\ \A a \in Address : WellFormed(a, ledger'[a])
    BY <2>2 DEF GoodStep, GoodView
  <2>4. TypeOK'
    BY <2>1, <2>3 DEF TypeOK, Idle
  <2>5. GoodStep(ledger', ledger', {})
    BY <2>2, Unchanged DEF GoodStep
  <2> QED
    BY <2>1, <2>2, <2>3, <2>4, <2>5 DEF IndInv, Idle, GoodStep
<1>12. CASE UNCHANGED vars
  BY <1>12 DEF vars, IndInv, TypeOK
<1> QED
  BY <1>1, <1>2, <1>3, <1>4, <1>5, <1>6, <1>7, <1>8, <1>9, <1>10, <1>11, <1>12 DEF Next

-----------------------------------------------------------------------------
(* The theorems. *)

(* IndInv is an invariant: accounts are always well formed, and a running
   transaction has done only what its signers permit. *)
THEOREM Invariance == Spec => []IndInv
<1>1. Init => IndInv
  BY InitIndInv
<1>2. IndInv /\ [Next]_vars => IndInv'
  BY NextIndInv
<1> QED
  BY <1>1, <1>2, PTL DEF Spec

(* The variables have their types, and outside a transaction the view is the
   ledger: a rolled-back transaction leaves nothing behind. *)
THEOREM TypeCorrect == Spec => []TypeOK
<1>1. IndInv => TypeOK
  BY DEF IndInv
<1> QED
  BY <1>1, Invariance, PTL

(* Whatever Verify accepts as a key is at the canonical address of its body and
   was validated, so assume_validated (verify.rs) is justified. *)
THEOREM ContentAddressed == Spec => []KeysCommit
<1>1. IndInv => KeysCommit
  BY DEF IndInv, WellFormed, KeysCommit
<1> QED
  BY <1>1, Invariance, PTL

(* A derived address is blank or holds a complete key (publish.rs). *)
THEOREM BlankOrComplete == Spec => []NoPartialKey
<1>1. IndInv => NoPartialKey
  BY DEF IndInv, WellFormed, NoPartialKey, Address
<1> QED
  BY <1>1, Invariance, PTL

(* Only a commit changes the ledger, and only as the signers permit. *)
LEMMA LedgerStep ==
    ASSUME IndInv, [Next]_vars, NEW a \in Address
    PROVE  Permitted(ledger[a], ledger'[a], tx.signers)
<1>1. CASE ledger' = ledger
  <2>1. GoodStep(ledger, ledger, tx.signers)
    BY IndInvGood, Unchanged
  <2> QED
    BY <1>1, <2>1 DEF GoodStep
<1>2. CASE Commit
  BY <1>2, CommittedStep DEF GoodStep
<1>3. ledger' = ledger \/ Commit
  BY DEF Next, vars, Begin, InitializeStaging, Write, Publish, CloseStaging, Verify,
     SystemCreateAccount, SystemTransfer, InstructionFails, RuntimeAborts,
     Executed, RolledBack
<1> QED
  BY <1>1, <1>2, <1>3

(* A staging account changes only in a transaction that its authority signed
   (staging_pair, authorized_staging). *)
THEOREM Privacy == Spec => StagingPrivate
<1>1. IndInv /\ [Next]_vars =>
        \A a \in Address : Permitted(ledger[a], ledger'[a], tx.signers)
  BY LedgerStep
<1> QED
  BY <1>1, Invariance, PTL DEF Spec, StagingPrivate

(* A published key is there for ever (no instruction of the program touches an
   account with the key discriminator). *)
THEOREM Permanence == Spec => KeysPermanent
<1>1. IndInv /\ [Next]_vars =>
        \A a \in Address : IsKey(ledger[a]) => Untouched(ledger[a], ledger'[a])
  BY LedgerStep DEF Permitted
<1> QED
  BY <1>1, Invariance, PTL DEF Spec, KeysPermanent

(* Whatever takes the ledger to a good ledger as some signers permit, publishes,
   in the abstract registry, or changes nothing there. *)
LEMMA LedgerPublishes ==
    ASSUME NEW signers, GoodStep(ledger, ledger', signers)
    PROVE  Abstract!Publish
<1>1. ASSUME NEW a \in DOMAIN PublishedKeys
      PROVE  a \in DOMAIN PublishedKeys' /\ PublishedKeys'[a] = PublishedKeys[a]
  <2>1. a \in Address /\ IsKey(ledger[a])
    BY DEF PublishedKeys
  <2>2. Untouched(ledger[a], ledger'[a])
    BY <2>1 DEF GoodStep, Permitted
  <2>3. IsKey(ledger'[a]) /\ ledger'[a].data = ledger[a].data
    BY <2>1, <2>2 DEF IsKey, Untouched
  <2> QED
    BY <2>1, <2>3 DEF PublishedKeys
<1>2. ASSUME NEW a \in DOMAIN PublishedKeys'
      PROVE  Abstract!Genuine(a, PublishedKeys'[a])
  <2>1. a \in Address /\ IsKey(ledger'[a])
    BY DEF PublishedKeys
  <2>2. CommitsTo(a, ledger'[a])
    BY <2>1 DEF GoodStep, GoodView, WellFormed
  <2> QED
    BY <2>1, <2>2 DEF PublishedKeys, CommitsTo, Abstract!Genuine
<1> QED
  BY <1>1, <1>2 DEF Abstract!Publish

(* At the start no key is published. *)
LEMMA NothingPublished ==
    ASSUME Init
    PROVE  Abstract!Init
<1>1. \A b \in Address : ~IsKey(ledger[b])
  BY RuntimeAssumption, Kinds DEF Init, Genesis
<1> QED
  BY <1>1 DEF Abstract!Init, PublishedKeys

(* The program implements the abstract registry: publication is the only step a
   client can observe, and what it publishes is genuine and final. *)
THEOREM Refinement == Spec => ImplementsKeyRegistry
<1>1. Init => Abstract!Init
  BY NothingPublished
<1>2. IndInv /\ [Next]_vars => [Abstract!Publish]_PublishedKeys
  <2> SUFFICES ASSUME IndInv, [Next]_vars, IndInv'
               PROVE  Abstract!Publish
    BY NextIndInv
  <2>1. \A a \in Address : Permitted(ledger[a], ledger'[a], tx.signers)
    BY LedgerStep
  <2>2. GoodView(ledger')
    BY DEF IndInv, TypeOK, GoodView
  <2>3. GoodStep(ledger, ledger', tx.signers)
    BY <2>1, <2>2 DEF GoodStep, GoodView
  <2> QED
    BY <2>3, LedgerPublishes
<1> QED
  BY <1>1, <1>2, Invariance, PTL DEF Spec, ImplementsKeyRegistry, Abstract!Spec

-----------------------------------------------------------------------------
(* Sums over finite sets, as MapThenFoldSet takes them: one element at a time. *)
Pick(s) == CHOOSE x \in s : TRUE

SumStep(h, g, s) == IF s = {} THEN 0 ELSE h[Pick(s)] + g[s \ {Pick(s)}]

(* g[s] is the sum of h over s, for every subset s of S. *)
IsSum(g, h, S) == g = [s \in SUBSET S |-> SumStep(h, g, s)]

PickOf(S) == [s \in SUBSET S |-> Pick(s)]

(* A non-empty subset contains the element picked from it. *)
LEMMA PickChooses ==
    ASSUME NEW S
    PROVE  /\ IsChoice(PickOf(S), S)
           /\ \A s \in SUBSET S : PickOf(S)[s] = Pick(s)
           /\ \A s \in SUBSET S : s # {} => Pick(s) \in s
<1>1. \A s \in SUBSET S : PickOf(S)[s] = Pick(s)
  BY DEF PickOf
<1>2. \A s \in SUBSET S : s # {} => Pick(s) \in s
  BY DEF Pick
<1> QED
  BY <1>1, <1>2 DEF IsChoice

(* Induction over the subsets of a finite set, one picked element at a time. *)
LEMMA PickInduction ==
    ASSUME NEW S, IsFiniteSet(S), NEW A, {} \in A,
           \A s \in SUBSET S : s # {} /\ s \ {Pick(s)} \in A => s \in A
    PROVE  S \in A
<1>1. \A s \in SUBSET S : s # {} /\ s \ {PickOf(S)[s]} \in A => s \in A
  BY PickChooses
<1> QED
  BY <1>1, PickChooses, SubsetInduction

(* Every function into Nat has its sum. *)
LEMMA SumExists ==
    ASSUME NEW S, IsFiniteSet(S), NEW h \in [S -> Nat]
    PROVE  \E g : IsSum(g, h, S)
<1> DEFINE op == [x \in S |-> [v \in Nat |-> h[x] + v]]
<1>1. op \in [S -> [Nat -> Nat]]
  OBVIOUS
<1>2. PICK g \in [SUBSET S -> Nat] : IsFold(g, op, 0, PickOf(S), S)
  <2> HIDE DEF op
  <2>1. IsChoice(PickOf(S), S) /\ 0 \in Nat
    BY PickChooses
  <2> QED
    BY <1>1, <2>1, FoldExists
<1>3. ASSUME NEW s \in SUBSET S
      PROVE  g[s] = SumStep(h, g, s)
  <2>1. g[s] = FoldStep(op, 0, PickOf(S), g, s)
    BY <1>2 DEF IsFold
  <2>2. s # {} => Pick(s) \in S /\ PickOf(S)[s] = Pick(s)
    BY PickChooses
  <2>3. g[s \ {Pick(s)}] \in Nat
    OBVIOUS
  <2> QED
    BY <2>1, <2>2, <2>3 DEF FoldStep, SumStep
<1>4. g = [s \in SUBSET S |-> SumStep(h, g, s)]
  BY <1>3
<1> QED
  BY <1>4 DEF IsSum

(* A sum of natural numbers is one. *)
LEMMA SumType ==
    ASSUME NEW S, IsFiniteSet(S), NEW h \in [S -> Nat], NEW g, IsSum(g, h, S)
    PROVE  g[S] \in Nat
<1> DEFINE A == {s \in SUBSET S : g[s] \in Nat}
<1>1. \A s \in SUBSET S : g[s] = SumStep(h, g, s)
  BY DEF IsSum
<1>2. {} \in A
  <2>1. {} \in SUBSET S /\ SumStep(h, g, {}) = 0
    BY DEF SumStep
  <2> QED
    BY <1>1, <2>1
<1>3. ASSUME NEW s \in SUBSET S, s # {}, s \ {Pick(s)} \in A
      PROVE  s \in A
  <2>1. Pick(s) \in S /\ g[s \ {Pick(s)}] \in Nat
    BY <1>3, PickChooses
  <2>2. g[s] = h[Pick(s)] + g[s \ {Pick(s)}]
    BY <1>1, <1>3 DEF SumStep
  <2> QED
    BY <2>1, <2>2
<1> HIDE DEF A
<1>4. S \in A
  BY <1>2, <1>3, PickInduction
<1> QED
  BY <1>4 DEF A

(* Two functions that differ in one place have sums that differ as much. *)
LEMMA SumChange ==
    ASSUME NEW S, IsFiniteSet(S), NEW h \in [S -> Nat], NEW j \in [S -> Nat],
           NEW g, IsSum(g, h, S), NEW k, IsSum(k, j, S),
           NEW a \in S, \A b \in S : b # a => h[b] = j[b]
    PROVE  g[S] + j[a] = k[S] + h[a]
<1> DEFINE Differs(s) == IF a \in s THEN g[s] + j[a] = k[s] + h[a] ELSE g[s] = k[s]
           A == {s \in SUBSET S : /\ g[s] \in Nat /\ k[s] \in Nat
                                  /\ Differs(s)}
<1>1. \A s \in SUBSET S : g[s] = SumStep(h, g, s) /\ k[s] = SumStep(j, k, s)
  BY DEF IsSum
<1>2. {} \in A
  <2>1. {} \in SUBSET S /\ SumStep(h, g, {}) = 0 /\ SumStep(j, k, {}) = 0
    BY DEF SumStep
  <2> QED
    BY <1>1, <2>1
<1>3. ASSUME NEW s \in SUBSET S, s # {}, s \ {Pick(s)} \in A
      PROVE  s \in A
  <2> DEFINE x == Pick(s)
             r == s \ {x}
  <2>1. x \in s /\ x \in S /\ r \in SUBSET S
    BY <1>3, PickChooses
  <2>2. g[s] = h[x] + g[r] /\ k[s] = j[x] + k[r]
    BY <1>1, <1>3 DEF SumStep
  <2>3. g[r] \in Nat /\ k[r] \in Nat /\ Differs(r)
    BY <1>3
  <2>4. a \in r <=> a \in s /\ a # x
    OBVIOUS
  <2> HIDE DEF x, r
  <2>5. h[x] \in Nat /\ j[x] \in Nat /\ h[a] \in Nat /\ j[a] \in Nat
    BY <2>1
  <2>6. g[s] \in Nat /\ k[s] \in Nat
    BY <2>2, <2>3, <2>5
  <2>7. CASE a = x
    BY <2>1, <2>2, <2>3, <2>4, <2>5, <2>6, <2>7
  <2>8. CASE a # x
    <3>1. h[x] = j[x]
      BY <2>1, <2>8
    <3> QED
      BY <2>1, <2>2, <2>3, <2>4, <2>5, <2>6, <2>8, <3>1
  <2> QED
    BY <2>7, <2>8
<1> HIDE DEF A
<1>4. S \in A
  BY <1>2, <1>3, PickInduction
<1> QED
  BY <1>4 DEF A

-----------------------------------------------------------------------------
(* The lamports of a view. *)
LamportsOf(v) == [a \in Address |-> v[a].lamports]

(* TotalLamports is the sum of the lamports of all accounts. *)
LEMMA TotalIsSum ==
    ASSUME NEW v \in [Address -> Account]
    PROVE  /\ IsFiniteSet(Address)
           /\ LamportsOf(v) \in [Address -> Nat]
           /\ \E g : IsSum(g, LamportsOf(v), Address) /\ TotalLamports(v) = g[Address]
<1> DEFINE h == LamportsOf(v)
           Equation(g) == g = [s \in SUBSET (DOMAIN v) |->
                                 IF s = {} THEN 0
                                 ELSE v[CHOOSE x \in s : TRUE].lamports
                                        + g[s \ {CHOOSE x \in s : TRUE}]]
           total == CHOOSE g : Equation(g)
<1>1. TotalLamports(v) = total[DOMAIN v]
  BY Zenon DEF TotalLamports, MapThenSumSet, MapThenFoldSet
<1>2. DOMAIN v = Address
  OBVIOUS
<1>3. IsFiniteSet(Address)
  BY RuntimeAssumption
<1>4. h \in [Address -> Nat]
  BY DEF LamportsOf, Account
<1>5. ASSUME NEW g
      PROVE  IsSum(g, h, Address) <=> Equation(g)
  <2>1. \A s \in SUBSET Address : s # {} => Pick(s) \in Address
    BY DEF Pick
  <2>2. \A s \in SUBSET Address : s # {} => h[Pick(s)] = v[Pick(s)].lamports
    BY <2>1 DEF LamportsOf
  <2>3. \A s \in SUBSET Address :
          SumStep(h, g, s) = IF s = {} THEN 0
                             ELSE v[CHOOSE x \in s : TRUE].lamports
                                    + g[s \ {CHOOSE x \in s : TRUE}]
    BY <2>2 DEF SumStep, Pick
  <2> QED
    BY <1>2, <2>3 DEF IsSum
<1>6. \E g : IsSum(g, h, Address)
  BY <1>3, <1>4, SumExists
<1> HIDE DEF h
<1>7. IsSum(total, h, Address)
  <2> HIDE DEF Equation
  <2>1. \E g : Equation(g)
    BY <1>5, <1>6
  <2>2. Equation(total)
    BY <2>1
  <2> QED
    BY <1>5, <2>2
<1> HIDE DEF total
<1> QED
  BY <1>1, <1>2, <1>3, <1>4, <1>7 DEF h

(* Changing the lamports of one account changes the total as much. *)
LEMMA TotalChange ==
    ASSUME NEW v \in [Address -> Account], NEW w \in [Address -> Account],
           NEW a \in Address,
           \A b \in Address : b # a => w[b].lamports = v[b].lamports
    PROVE  /\ TotalLamports(v) \in Nat /\ TotalLamports(w) \in Nat
           /\ v[a].lamports \in Nat /\ w[a].lamports \in Nat
           /\ TotalLamports(v) + w[a].lamports = TotalLamports(w) + v[a].lamports
<1> DEFINE h == LamportsOf(v)
           j == LamportsOf(w)
<1>1. IsFiniteSet(Address) /\ h \in [Address -> Nat] /\ j \in [Address -> Nat]
  BY TotalIsSum
<1>2. /\ h[a] = v[a].lamports /\ j[a] = w[a].lamports
      /\ \A b \in Address : b # a => h[b] = j[b]
  BY DEF LamportsOf
<1>3. PICK g : IsSum(g, h, Address) /\ TotalLamports(v) = g[Address]
  BY TotalIsSum
<1>4. PICK k : IsSum(k, j, Address) /\ TotalLamports(w) = k[Address]
  BY TotalIsSum
<1> HIDE DEF h, j
<1>5. g[Address] \in Nat /\ k[Address] \in Nat
  BY <1>1, <1>3, <1>4, SumType
<1>6. g[Address] + j[a] = k[Address] + h[a]
  BY <1>1, <1>2, <1>3, <1>4, SumChange
<1>7. h[a] \in Nat /\ j[a] \in Nat
  BY <1>1
<1> QED
  BY <1>2, <1>3, <1>4, <1>5, <1>6, <1>7

(* What one account gains and another loses leaves the total. *)
LEMMA TotalMove ==
    ASSUME NEW v \in [Address -> Account], NEW w \in [Address -> Account],
           NEW a \in Address, NEW b \in Address, a # b,
           \A c \in Address : c \notin {a, b} => w[c].lamports = v[c].lamports,
           v[a].lamports + v[b].lamports = w[a].lamports + w[b].lamports
    PROVE  TotalLamports(w) = TotalLamports(v)
<1> DEFINE u == [v EXCEPT ![a] = w[a]]
<1>1. /\ u \in [Address -> Account] /\ u[a] = w[a]
      /\ \A c \in Address : c # a => u[c] = v[c]
  OBVIOUS
<1> HIDE DEF u
<1>2. /\ TotalLamports(v) \in Nat /\ TotalLamports(u) \in Nat
      /\ v[a].lamports \in Nat /\ u[a].lamports \in Nat
      /\ TotalLamports(v) + u[a].lamports = TotalLamports(u) + v[a].lamports
  BY <1>1, TotalChange
<1>3. /\ TotalLamports(w) \in Nat
      /\ u[b].lamports \in Nat /\ w[b].lamports \in Nat
      /\ TotalLamports(u) + w[b].lamports = TotalLamports(w) + u[b].lamports
  BY <1>1, TotalChange
<1> QED
  BY <1>1, <1>2, <1>3

(* Views with the same lamports have the same total. *)
LEMMA TotalSame ==
    ASSUME NEW v \in [Address -> Account], NEW w \in [Address -> Account],
           \A a \in Address : w[a].lamports = v[a].lamports
    PROVE  TotalLamports(w) = TotalLamports(v)
<1> DEFINE a == System
<1>1. a \in Address
  BY DEF Address
<1> HIDE DEF a
<1>2. /\ TotalLamports(v) \in Nat /\ TotalLamports(w) \in Nat
      /\ v[a].lamports \in Nat
      /\ TotalLamports(v) + w[a].lamports = TotalLamports(w) + v[a].lamports
  BY <1>1, TotalChange
<1> QED
  BY <1>1, <1>2

(* No two accounts hold more than there is. *)
LEMMA TotalBounds ==
    ASSUME NEW v \in [Address -> Account],
           NEW a \in Address, NEW b \in Address, a # b
    PROVE  /\ v[a].lamports \in Nat /\ v[b].lamports \in Nat
           /\ TotalLamports(v) \in Nat
           /\ v[a].lamports + v[b].lamports <= TotalLamports(v)
<1> DEFINE u == [v EXCEPT ![a] = Empty]
           w == [u EXCEPT ![b] = Empty]
<1>1. Empty \in Account /\ Empty.lamports = 0
  BY DEF Empty, Account, Owner
<1>2. /\ u \in [Address -> Account] /\ u[a].lamports = 0
      /\ \A c \in Address : c # a => u[c] = v[c]
  BY <1>1
<1>3. /\ w \in [Address -> Account] /\ w[b].lamports = 0
      /\ \A c \in Address : c # b => w[c] = u[c]
  BY <1>1, <1>2
<1> HIDE DEF u, w
<1>4. /\ TotalLamports(v) \in Nat /\ TotalLamports(u) \in Nat
      /\ v[a].lamports \in Nat
      /\ TotalLamports(v) + u[a].lamports = TotalLamports(u) + v[a].lamports
  BY <1>2, TotalChange
<1>5. /\ TotalLamports(w) \in Nat
      /\ u[b].lamports \in Nat
      /\ TotalLamports(u) + w[b].lamports = TotalLamports(w) + u[b].lamports
  BY <1>2, <1>3, TotalChange
<1> QED
  BY <1>2, <1>3, <1>4, <1>5

-----------------------------------------------------------------------------
(* What the processors do to the lamports and to accounts they were not given
   as writable. *)

(* w has the lamports of v, and is v outside the accounts of changed. *)
Moves(v, w, changed) ==
    /\ w \in [Address -> Account]
    /\ TotalLamports(w) = TotalLamports(v)
    /\ \A a \in Address : a \notin changed => w[a] = v[a]

(* Changing the data of an account moves nothing. *)
LEMMA DataMoves ==
    ASSUME NEW v \in [Address -> Account], NEW s \in Address, NEW d \in Seq(Cell),
           NEW w, w = [v EXCEPT ![s].data = d]
    PROVE  Moves(v, w, {s})
<1> DEFINE y == [v[s] EXCEPT !.data = d]
<1>1. y \in Account /\ y.lamports = v[s].lamports
  BY SetData
<1>2. w = [v EXCEPT ![s] = y]
  OBVIOUS
<1> HIDE DEF y
<1>3. /\ w \in [Address -> Account]
      /\ \A a \in Address : a # s => w[a] = v[a]
      /\ \A a \in Address : w[a].lamports = v[a].lamports
  BY <1>1, <1>2
<1>4. TotalLamports(w) = TotalLamports(v)
  BY <1>3, TotalSame
<1> QED
  BY <1>3, <1>4 DEF Moves

(* A transfer between two accounts. *)
LEMMA TransferMoves ==
    ASSUME NEW v \in [Address -> Account], NEW from \in Address, NEW to \in Address,
           from # to, NEW amount \in Nat, v[from].lamports >= amount,
           NEW w, w = Transferred(v, from, to, amount)
    PROVE  Moves(v, w, {from, to})
<1> DEFINE debited == [v[from] EXCEPT !.lamports = v[from].lamports - amount]
           credited == [v[to] EXCEPT !.lamports = v[to].lamports + amount]
<1>1. /\ v[from] \in Account /\ v[to] \in Account
      /\ v[from].lamports \in Nat /\ v[to].lamports \in Nat
      /\ v[from].lamports - amount \in Nat /\ v[to].lamports + amount \in Nat
  BY DEF Account
<1>2. /\ debited \in Account /\ debited.lamports = v[from].lamports - amount
      /\ credited \in Account /\ credited.lamports = v[to].lamports + amount
  BY <1>1, SetLamports
<1>3. w = [[v EXCEPT ![from] = debited] EXCEPT ![to] = credited]
  BY DEF Transferred
<1> HIDE DEF debited, credited
<1>4. /\ w \in [Address -> Account]
      /\ w[from] = debited /\ w[to] = credited
      /\ \A a \in Address : a \notin {from, to} => w[a] = v[a]
  BY <1>2, <1>3
<1>5. v[from].lamports + v[to].lamports = w[from].lamports + w[to].lamports
  BY <1>1, <1>2, <1>4
<1>6. TotalLamports(w) = TotalLamports(v)
  BY <1>4, <1>5, TotalMove
<1> QED
  BY <1>4, <1>6 DEF Moves

(* Draining an account into another. *)
LEMMA DrainMoves ==
    ASSUME NEW v \in [Address -> Account], NEW from \in Address, NEW to \in Address,
           from # to, NEW w, w = Drained(v, from, to)
    PROVE  Moves(v, w, {from, to})
<1>1. /\ w \in [Address -> Account]
      /\ w[from] = Empty /\ w[to].lamports = v[to].lamports + v[from].lamports
      /\ \A a \in Address : a \notin {from, to} => w[a] = v[a]
  BY DrainedView
<1>2. v[from].lamports + v[to].lamports = w[from].lamports + w[to].lamports
  BY <1>1 DEF Account, Empty
<1>3. TotalLamports(w) = TotalLamports(v)
  BY <1>1, <1>2, TotalMove
<1> QED
  BY <1>1, <1>3 DEF Moves

(* Two moves make one. *)
LEMMA MovesTransitive ==
    ASSUME NEW u, NEW v, NEW w, NEW A, NEW B, Moves(u, v, A), Moves(v, w, B)
    PROVE  Moves(u, w, A \cup B)
BY DEF Moves

(* Creating a key account: at most the payer and the key change. *)
LEMMA KeyCreatedMoves ==
    ASSUME NEW v \in [Address -> Account], NEW payer \in Address, NEW key \in Address,
           payer # key, NEW space \in Nat, MinimumBalance(space) \in Nat,
           NEW need, need = Shortfall(v, key, space),
           need > 0 => v[payer].lamports >= need,
           NEW w, w = KeyAccountCreated(v, payer, key, space)
    PROVE  Moves(v, w, {payer, key}) /\ w[key].data = Zeros(space)
<1> DEFINE u == KeyFunded(v, payer, key, space)
<1>1. need \in Nat
  BY DEF Shortfall, Account
<1>2. Moves(v, u, {payer, key})
  <2>1. CASE need > 0
    <3>1. u = Transferred(v, payer, key, need)
      BY <2>1 DEF KeyFunded
    <3> HIDE DEF u
    <3> QED
      BY <1>1, <2>1, <3>1, TransferMoves
  <2>2. CASE ~(need > 0)
    BY <2>2 DEF KeyFunded, Moves
  <2> QED
    BY <2>1, <2>2
<1>3. w = Assigned(Allocated(u, key, space), key, Program)
  BY DEF KeyAccountCreated
<1> HIDE DEF u
<1>4. u \in [Address -> Account]
  BY <1>2 DEF Moves
<1>5. /\ w \in [Address -> Account]
      /\ w[key].lamports = u[key].lamports /\ w[key].data = Zeros(space)
      /\ \A a \in Address : a # key => w[a] = u[a]
  BY <1>3, <1>4, AllocateAssign
<1>6. TotalLamports(w) = TotalLamports(u)
  BY <1>4, <1>5, TotalSame
<1>7. Moves(u, w, {key})
  BY <1>5, <1>6 DEF Moves
<1> QED
  BY <1>2, <1>5, <1>6, <1>7 DEF Moves

(* InitializeStaging and Write change the data of the staging account. *)
LEMMA InitializeMoves ==
    ASSUME NEW v, GoodView(v), NEW t, t.signers \subseteq Wallet,
           NEW ix, WellTyped(ix), ix.tag = "InitializeStaging",
           initialize_staging(v, t, ix) = Ok
    PROVE  Moves(v, Initialized(v, ix), Address \ t.readonly)
<1> DEFINE accounts == Accounts(ix)
           s == accounts[2]
           d == write_staging_header(v[s].data, ix.payload[1], accounts[1])
           w == Initialized(v, ix)
<1>1. staging_pair(v, t, accounts) = Ok
  BY ThenOk DEF initialize_staging
<1>2. s \in Address /\ s \notin t.readonly
  BY <1>1, StagingPairOk, AccountsType
<1>3. v \in [Address -> Account] /\ w \in [Address -> Account]
  BY InitializeStep DEF GoodStep, GoodView
<1>4. w = [v EXCEPT ![s].data = d]
  BY DEF Initialized
<1> HIDE DEF s, d, w
<1>5. d \in Seq(Cell)
  <2>1. w[s].data = d
    BY <1>2, <1>3, <1>4 DEF Account
  <2> QED
    BY <1>2, <1>3, <2>1 DEF Account
<1>6. Moves(v, w, {s})
  BY <1>2, <1>3, <1>4, <1>5, DataMoves
<1> QED
  BY <1>2, <1>6 DEF Moves, w

(* The same for Write. *)
LEMMA WriteMoves ==
    ASSUME NEW v, GoodView(v), NEW t, t.signers \subseteq Wallet,
           NEW ix, WellTyped(ix), ix.tag = "Write", write(v, t, ix) = Ok
    PROVE  Moves(v, Written(v, ix), Address \ t.readonly)
<1> DEFINE accounts == Accounts(ix)
           s == accounts[2]
           d == copy_from_slice(v[s].data, STAGING_HEADER_LEN + ix.payload[1],
                                Tail(ix.payload))
           w == Written(v, ix)
<1>1. staging_pair(v, t, accounts) = Ok
  BY ThenOk DEF write
<1>2. s \in Address /\ s \notin t.readonly
  BY <1>1, StagingPairOk, AccountsType
<1>3. v \in [Address -> Account] /\ w \in [Address -> Account]
  BY WriteStep DEF GoodStep, GoodView
<1>4. w = [v EXCEPT ![s].data = d]
  BY DEF Written
<1> HIDE DEF s, d, w
<1>5. d \in Seq(Cell)
  <2>1. w[s].data = d
    BY <1>2, <1>3, <1>4 DEF Account
  <2> QED
    BY <1>2, <1>3, <2>1 DEF Account
<1>6. Moves(v, w, {s})
  BY <1>2, <1>3, <1>4, <1>5, DataMoves
<1> QED
  BY <1>2, <1>6 DEF Moves, w

(* CloseStaging moves the rent to the authority. *)
LEMMA CloseMoves ==
    ASSUME NEW v, GoodView(v), NEW t, NEW ix, WellTyped(ix),
           close_staging(v, t, ix) = Ok
    PROVE  Moves(v, Closed(v, ix), Address \ t.readonly)
<1> DEFINE accounts == Accounts(ix)
           from == accounts[2]
           to == accounts[1]
           w == Closed(v, ix)
<1>1. staging_pair(v, t, accounts) = Ok /\ expect_writable(t, to) = Ok
  BY ThenOk DEF close_staging
<1>2. /\ from \in Address /\ to \in Address /\ from # to
      /\ from \notin t.readonly /\ to \notin t.readonly
  BY <1>1, StagingPairOk, AccountsType DEF expect_writable, Ensure, Ok
<1>3. w = Drained(v, from, to) /\ v \in [Address -> Account]
  BY DEF Closed, GoodView
<1> HIDE DEF from, to, w
<1>4. Moves(v, w, {from, to})
  BY <1>2, <1>3, DrainMoves
<1> QED
  BY <1>2, <1>4 DEF Moves, w

(* Publish moves the shortfall from the payer to the key and the rent of the
   staging account to the authority. *)
LEMMA PublishMoves ==
    ASSUME NEW v, GoodView(v), NEW t, t.signers \subseteq Wallet,
           NEW ix, WellTyped(ix), publish(v, t, ix) = Ok
    PROVE  Moves(v, Published(v, ix), Address \ t.readonly)
<1> DEFINE authority == Accounts(ix)[1]
           payer == Accounts(ix)[2]
           staging == Accounts(ix)[3]
           key == Accounts(ix)[4]
           n == read_n(v[staging].data)
           body == StagingBody(v[staging].data)
           space == key_account_len(n)
           bump == CanonicalBump(Sha256(body))
           need == Shortfall(v, key, space)
           created == KeyAccountCreated(v, payer, key, space)
           written == KeyWritten(created, key, bump, n, body)
           d == copy_from_slice(write_key_header(created[key].data, bump, n),
                                KEY_HEADER_LEN, body)
           w == Published(v, ix)
<1>1. /\ Len(Accounts(ix)) = 5
      /\ authority \in t.signers /\ payer \in t.signers
      /\ authority \notin t.readonly /\ payer \notin t.readonly
      /\ staging \notin t.readonly /\ key \notin t.readonly
      /\ authority # staging
      /\ v[staging].owner = Program
      /\ authorized_staging(v[staging].data, authority) = Ok
      /\ PdaExists(Sha256(body))
      /\ key = KeyAddress(body)
      /\ Blank(v[key])
      /\ create_key_account(v, payer, staging, key, space) = Ok
  BY PublishOk
<1>2. /\ authority \in Address /\ payer \in Address
      /\ staging \in Address /\ key \in Address
  <2>1. \A i \in 1..5 : Accounts(ix)[i] \in Address
    BY <1>1, AccountsType
  <2> QED
    BY <2>1
<1>3. HoldsStaging(v[staging])
  BY <1>1, AuthorizedStagingOk, Kinds
<1>4. /\ v \in [Address -> Account] /\ v[staging].data \in Seq(Cell)
      /\ n \in 0..MAX_PUBLIC_INPUTS
      /\ Len(v[staging].data) = staging_account_len(n)
  BY <1>2, <1>3 DEF GoodView, WellFormed, WellStaged, Account
<1>5. bump \in Cell /\ key \notin Wallet
  BY <1>1, CanonicalAddress
<1>6. payer # key /\ authority # key /\ staging # key
  BY <1>1, <1>5, RuntimeAssumption DEF Blank
<1>7. vk_body_len(n) \in Nat /\ space \in Nat /\ space = 4 + vk_body_len(n)
  BY <1>4, LayoutAssumption DEF vk_body_len, key_account_len, KEY_HEADER_LEN
<1>8. MinimumBalance(space) \in Nat
  BY <1>4, RuntimeAssumption
<1>9. need > 0 => v[payer].lamports >= need
  BY <1>1, ThenOk, TransferOk DEF create_key_account
<1>10. w = Drained(written, staging, authority)
  BY DEF Published
<1>11. written = [created EXCEPT ![key].data = d]
  BY DEF KeyWritten
<1> HIDE DEF n, body, bump, space, need, authority, payer, staging, key
<1>12. Moves(v, created, {payer, key}) /\ created[key].data = Zeros(space)
  <2>1. need = Shortfall(v, key, space)
    BY DEF need
  <2>2. created = KeyAccountCreated(v, payer, key, space)
    OBVIOUS
  <2>3. /\ v \in [Address -> Account] /\ payer \in Address /\ key \in Address
        /\ payer # key /\ space \in Nat /\ MinimumBalance(space) \in Nat
    BY <1>2, <1>4, <1>6, <1>7, <1>8
  <2> HIDE DEF created
  <2> QED
    BY <1>9, <2>1, <2>2, <2>3, KeyCreatedMoves
<1>13. created \in [Address -> Account]
  BY <1>12 DEF Moves
<1>14. d \in Seq(Cell)
  <2>1. {0, 1} \subseteq Cell /\ n \in Cell
    BY <1>4, RuntimeAssumption
  <2> DEFINE blank == created[key].data
             filled == copy_from_slice(write_key_header(blank, bump, n),
                                       KEY_HEADER_LEN, body)
  <2>2. blank \in Seq(Cell) /\ Len(blank) = key_account_len(n)
    BY <1>7, <1>12, ZerosType DEF space
  <2>3. body \in Seq(Cell) /\ Len(body) = vk_body_len(n)
    BY <1>4, StagedBody DEF body
  <2>4. d = filled
    OBVIOUS
  <2> HIDE DEF blank, d
  <2>5. filled \in Seq(Cell)
    BY <2>1, <2>2, <2>3, <1>4, <1>5, KeyAccountData
  <2> QED
    BY <2>4, <2>5
<1> HIDE DEF d, created, written, w
<1>15. Moves(created, written, {key})
  BY <1>2, <1>11, <1>13, <1>14, DataMoves
<1>16. written \in [Address -> Account]
  BY <1>15 DEF Moves
<1>17. Moves(written, w, {staging, authority})
  BY <1>1, <1>2, <1>10, <1>16, DrainMoves
<1> QED
  BY <1>1, <1>12, <1>15, <1>17 DEF Moves, w

-----------------------------------------------------------------------------
(* The invariant the calls need besides IndInv: a transaction moves lamports
   and makes none, there are never more than u64 counts, and what its first
   instruction sees is the ledger. *)
Balanced ==
    /\ TotalLamports(view) = TotalLamports(ledger)
    /\ TotalLamports(ledger) <= U64_MAX
    /\ tx.executed = 0 => view = ledger

(* A commit removes only accounts without lamports. *)
LEMMA PurgeKeepsTotal ==
    ASSUME NEW v \in [Address -> Account]
    PROVE  TotalLamports(Purged(v)) = TotalLamports(v)
<1> DEFINE w == Purged(v)
<1>1. Empty \in Account /\ Empty.lamports = 0
  BY DEF Empty, Account, Owner
<1>2. \A a \in Address : w[a] \in Account /\ w[a].lamports = v[a].lamports
  BY <1>1 DEF Purged
<1>3. w = [a \in Address |-> w[a]]
  BY DEF Purged
<1> HIDE DEF w
<1>4. w \in [Address -> Account]
  BY <1>2, <1>3
<1> QED
  BY <1>2, <1>4, TotalSame DEF w

(* Every step keeps the balance. *)
LEMMA NextBalanced ==
    ASSUME IndInv, Balanced, [Next]_vars
    PROVE  Balanced'
<1>1. /\ view \in [Address -> Account] /\ ledger \in [Address -> Account]
      /\ tx.executed \in Nat
      /\ ~tx.running => view = ledger
      /\ tx \in [running : BOOLEAN, signers : SUBSET Wallet,
                 readonly : SUBSET Address, executed : Nat]
  BY DEF IndInv, TypeOK
<1>2. ASSUME NEW after, Executed(after)
      PROVE  Balanced'
  <2>1. /\ TotalLamports(after) = TotalLamports(view)
        /\ view' = after /\ ledger' = ledger
        /\ tx' = [tx EXCEPT !.executed = @ + 1]
    BY <1>2 DEF Executed, RuntimeAccepts
  <2>2. tx'.executed # 0
    BY <1>1, <2>1
  <2> QED
    BY <2>1, <2>2 DEF Balanced
<1>3. ASSUME RolledBack
      PROVE  Balanced'
  BY <1>3 DEF RolledBack, Balanced, Idle
<1>4. ASSUME NEW header \in Header, Begin(header)
      PROVE  Balanced'
  BY <1>1, <1>4 DEF Begin, Balanced
<1>5. CASE Commit
  <2>1. ledger' = Purged(view) /\ view' = ledger'
    BY <1>5 DEF Commit
  <2>2. TotalLamports(Purged(view)) = TotalLamports(view)
    BY <1>1, PurgeKeepsTotal
  <2> QED
    BY <2>1, <2>2 DEF Balanced
<1>6. CASE UNCHANGED vars
  BY <1>6 DEF vars, Balanced
<1>7. ASSUME NEW ix \in Instruction,
             \/ InitializeStaging(ix) \/ Write(ix) \/ Publish(ix)
             \/ CloseStaging(ix) \/ Verify(ix)
      PROVE  Balanced'
  BY <1>2, <1>7 DEF InitializeStaging, Write, Publish, CloseStaging, Verify
<1>8. ASSUME NEW si \in SystemInstruction,
             SystemCreateAccount(si) \/ SystemTransfer(si)
      PROVE  Balanced'
  BY <1>2, <1>8 DEF SystemCreateAccount, SystemTransfer
<1>9. ASSUME NEW ix \in Instruction, InstructionFails(ix)
      PROVE  Balanced'
  BY <1>3, <1>9 DEF InstructionFails
<1>10. CASE RuntimeAborts
  BY <1>3, <1>10 DEF RuntimeAborts
<1> QED
  BY <1>4, <1>5, <1>6, <1>7, <1>8, <1>9, <1>10 DEF Next

(* No transaction makes or destroys lamports, committed or under way. *)
THEOREM LamportsBalance == Spec => [](IndInv /\ Balanced)
<1>1. Init => Balanced
  BY RegistryAssumption DEF Init, Balanced
<1>2. IndInv /\ Balanced /\ [Next]_vars => Balanced'
  BY NextBalanced
<1> QED
  BY <1>1, <1>2, Invariance, PTL DEF Spec

-----------------------------------------------------------------------------
(* What the entry point accepts, the runtime accepts: the processors check every
   account they change for write access, and move lamports without making any. *)
LEMMA AcceptedMoves ==
    ASSUME NEW v, GoodView(v), NEW t, t.signers \subseteq Wallet,
           NEW ix, WellTyped(ix), process_instruction(v, t, ix) = Ok
    PROVE  Moves(v, Effect(v, ix), Address \ t.readonly)
<1>1. CASE ix.tag = "InitializeStaging"
  BY <1>1, InitializeMoves DEF process_instruction, Effect
<1>2. CASE ix.tag = "Write"
  BY <1>2, WriteMoves DEF process_instruction, Effect
<1>3. CASE ix.tag = "Publish"
  BY <1>3, PublishMoves DEF process_instruction, Effect
<1>4. CASE ix.tag = "CloseStaging"
  BY <1>4, CloseMoves DEF process_instruction, Effect
<1>5. CASE ix.tag \notin {"InitializeStaging", "Write", "Publish", "CloseStaging"}
  <2>1. Effect(v, ix) = v
    BY <1>5 DEF Effect
  <2> QED
    BY <2>1 DEF Moves, GoodView
<1> QED
  BY <1>1, <1>2, <1>3, <1>4, <1>5

(* The runtime never rejects what a processor returned Ok for (expect_writable
   and the arithmetic of Publish and CloseStaging). *)
THEOREM ProcessorsCheckAll == Spec => []ChecksComplete
<1>1. ASSUME IndInv
      PROVE  ChecksComplete
  <2>1. GoodView(view) /\ tx.signers \subseteq Wallet /\ tx.readonly \subseteq Address
    BY <1>1 DEF IndInv, TypeOK, GoodView
  <2>2. ASSUME NEW ix \in Instruction, process_instruction(view, tx, ix) = Ok
        PROVE  Moves(view, Effect(view, ix), Address \ tx.readonly)
    BY <2>1, <2>2, InstructionsWellTyped, AcceptedMoves
  <2> QED
    BY <2>1, <2>2 DEF ChecksComplete, Moves, RuntimeAccepts
<1> QED
  BY <1>1, Invariance, PTL

-----------------------------------------------------------------------------
(* The calls that must succeed.  None of them passes more accounts than the
   entry point takes. *)
LEMMA AccountsOfShort ==
    ASSUME NEW ix, ix.accounts \in Seq(Address), Len(ix.accounts) <= 5
    PROVE  Accounts(ix) = ix.accounts
<1>1. MAX_ACCOUNTS = 5
  BY RegistryAssumption
<1>2. (IF Len(ix.accounts) < MAX_ACCOUNTS THEN Len(ix.accounts) ELSE MAX_ACCOUNTS)
        = Len(ix.accounts)
  BY <1>1
<1> QED
  BY <1>2, SubSeqFull DEF Accounts

(* A staging account: its authority is another account, a wallet, and its body
   has the right length. *)
LEMMA StagedFacts ==
    ASSUME NEW v, GoodView(v), NEW a \in Address, IsStaged(v[a])
    PROVE  /\ v[a].owner = Program
           /\ read_staging_account(v[a].data) = Ok
           /\ AuthorityOf(v[a]) \in Wallet \ {a}
           /\ AuthorityOf(v[a]) \in Address
           /\ authorized_staging(v[a].data, AuthorityOf(v[a])) = Ok
           /\ v[a].data \in Seq(Cell)
           /\ read_n(v[a].data) \in 0..MAX_PUBLIC_INPUTS
           /\ Len(v[a].data) = staging_account_len(read_n(v[a].data))
<1>1. v[a] \in Account /\ WellFormed(a, v[a])
  BY DEF GoodView
<1>2. WellStaged(a, v[a])
  BY <1>1, Kinds DEF WellFormed
<1>3. v[a].owner = Program /\ read_staging_account(v[a].data) = Ok
  BY DEF IsStaged
<1>4. authorized_staging(v[a].data, AuthorityOf(v[a])) = Ok
  BY <1>3, ThenOk DEF authorized_staging, Ensure, AuthorityOf
<1> QED
  BY <1>1, <1>2, <1>3, <1>4 DEF WellStaged, Account, Address

(* The authority of a staging account can always take its rent back. *)
LEMMA Reclaim ==
    ASSUME IndInv, Balanced, NEW a \in Address, IsStaged(ledger[a]),
           NEW authority, authority = AuthorityOf(ledger[a]),
           NEW ix, ix = CloseBy(authority, a)
    PROVE  /\ process_instruction(ledger, HeaderOf({authority}), ix) = Ok
           /\ RuntimeAccepts({}, ledger, Closed(ledger, ix))
<1> DEFINE t == HeaderOf({authority})
<1>1. /\ ledger[a].owner = Program
      /\ authority \in Address /\ authority # a
      /\ authorized_staging(ledger[a].data, authority) = Ok
  BY IndInvGood, StagedFacts
<1>2. ledger \in [Address -> Account] /\ TotalLamports(ledger) <= U64_MAX
  BY DEF IndInv, TypeOK, Balanced
<1>3. /\ ix.tag = "CloseStaging" /\ ix.payload = <<>>
      /\ ix.accounts = <<authority, a>>
      /\ t.signers = {authority} /\ t.readonly = {}
  BY DEF CloseBy, HeaderOf
<1>4. Accounts(ix) = <<authority, a>>
  <2>1. ix.accounts \in Seq(Address) /\ Len(ix.accounts) <= 5
    BY <1>1, <1>3
  <2> QED
    BY <1>3, <2>1, AccountsOfShort
<1>5. drain_and_close(ledger, a, authority) = Ok
  <2>1. /\ ledger[a].lamports \in Nat /\ ledger[authority].lamports \in Nat
        /\ TotalLamports(ledger) \in Nat
        /\ ledger[authority].lamports + ledger[a].lamports <= TotalLamports(ledger)
    BY <1>1, <1>2, TotalBounds
  <2>2. ledger[authority].lamports + ledger[a].lamports <= U64_MAX
    BY <1>2, <2>1, RuntimeAssumption
  <2> QED
    BY <2>2 DEF drain_and_close, Ensure
<1> HIDE DEF t
<1>6. staging_pair(ledger, t, <<authority, a>>) = Ok /\ expect_writable(t, authority) = Ok
  BY <1>1, <1>3, ThenOk DEF staging_pair, expect_signer, expect_writable,
     expect_owned_by, expect_distinct, Ensure
<1>7. close_staging(ledger, t, ix) = Ok
  BY <1>1, <1>3, <1>4, <1>5, <1>6, ThenOk DEF close_staging, Ensure
<1>8. process_instruction(ledger, t, ix) = Ok
  BY <1>3, <1>7 DEF process_instruction
<1>9. Closed(ledger, ix) = Drained(ledger, a, authority)
  BY <1>4 DEF Closed
<1>10. Moves(ledger, Closed(ledger, ix), {a, authority})
  BY <1>1, <1>2, <1>9, DrainMoves
<1> QED
  BY <1>8, <1>10 DEF Moves, RuntimeAccepts, t

(* Rent is never stuck in a staging account (close_staging.rs). *)
THEOREM RentReclaimable == Spec => []AuthorityCanReclaim
<1>1. IndInv /\ Balanced => AuthorityCanReclaim
  BY Reclaim DEF AuthorityCanReclaim
<1> QED
  BY <1>1, LamportsBalance, PTL

(* create_key_account succeeds on a blank address when the payer has the rent,
   and then the drain of the staging account cannot overflow. *)
LEMMA KeyAffordable ==
    ASSUME NEW v \in [Address -> Account], TotalLamports(v) <= U64_MAX,
           NEW n \in 0..MAX_PUBLIC_INPUTS, NEW space, space = key_account_len(n),
           NEW payer \in Address, NEW key \in Address, payer # key,
           NEW staging \in Address, NEW authority \in Address, authority # staging,
           payer # staging, Blank(v[key]), CanPay(v, payer, space)
    PROVE  /\ create_key_account(v, payer, staging, key, space) = Ok
           /\ drain_and_close(KeyAccountCreated(v, payer, key, space),
                              staging, authority) = Ok
<1> DEFINE need == Shortfall(v, key, space)
           created == KeyAccountCreated(v, payer, key, space)
<1>1. /\ space \in Nat /\ space <= key_account_len(MAX_PUBLIC_INPUTS)
      /\ key_account_len(MAX_PUBLIC_INPUTS) \in Nat
  <2>1. /\ G1_SIZE \in Nat /\ VK_FIXED_SIZE \in Nat
        /\ MAX_PUBLIC_INPUTS \in Nat /\ n <= MAX_PUBLIC_INPUTS
    BY LayoutAssumption
  <2>2. /\ G1_SIZE * (n + 1) \in Nat
        /\ G1_SIZE * (MAX_PUBLIC_INPUTS + 1) \in Nat
        /\ G1_SIZE * (n + 1) <= G1_SIZE * (MAX_PUBLIC_INPUTS + 1)
    BY <2>1
  <2> QED
    BY <2>1, <2>2 DEF key_account_len, vk_body_len, KEY_HEADER_LEN
<1>2. space <= MAX_PERMITTED_DATA_INCREASE
  BY <1>1, RegistryAssumption, RuntimeAssumption
<1>3. MinimumBalance(space) \in Nat
  BY RuntimeAssumption
<1>4. /\ v[key].lamports \in Nat /\ v[payer].lamports \in Nat
      /\ Blank(v[payer]) /\ v[payer].lamports >= MinimumBalance(space)
  BY DEF Account, CanPay
<1>5. need \in Nat /\ need <= MinimumBalance(space) /\ v[payer].lamports >= need
  BY <1>3, <1>4 DEF Shortfall
<1> HIDE DEF need
<1>6. Transfer(v, payer, need) = Ok
  BY <1>4, <1>5, ThenOk DEF Transfer, Ensure, Blank
<1>7. Allocate(v, key, space) = Ok
  BY <1>2, ThenOk DEF Allocate, Ensure, Blank
<1>8. create_key_account(v, payer, staging, key, space) = Ok
  BY <1>6, <1>7, ThenOk DEF create_key_account, Ensure, need
<1>9. Moves(v, created, {payer, key})
  BY <1>1, <1>3, <1>5, KeyCreatedMoves DEF need
<1> HIDE DEF created
<1>10. created \in [Address -> Account] /\ TotalLamports(created) <= U64_MAX
  BY <1>9 DEF Moves
<1>11. created[authority].lamports + created[staging].lamports <= U64_MAX
  <2>1. /\ created[staging].lamports \in Nat /\ created[authority].lamports \in Nat
        /\ TotalLamports(created) \in Nat
        /\ created[authority].lamports + created[staging].lamports
             <= TotalLamports(created)
    BY <1>10, TotalBounds
  <2> QED
    BY <1>10, <2>1, RuntimeAssumption
<1>12. drain_and_close(created, staging, authority) = Ok
  BY <1>11 DEF drain_and_close, Ensure
<1> QED
  BY <1>8, <1>12 DEF created

(* Publishing a staged body that validates, to its blank address. *)
LEMMA PublishGoesThrough ==
    ASSUME NEW v, GoodView(v), TotalLamports(v) <= U64_MAX, NEW a \in Address, NEW payer \in Wallet,
           IsStaged(v[a]),
           NEW n, n = read_n(v[a].data),
           NEW body, body = StagingBody(v[a].data),
           NEW key \in Derived, key = KeyAddress(body), ~IsKey(v[key]),
           NEW authority, authority = AuthorityOf(v[a]),
           ValidateForPublish(body, n) = Ok, PdaExists(Sha256(body)),
           CanPay(v, payer, key_account_len(n)),
           NEW t, {authority, payer} \subseteq t.signers,
           {authority, payer, a, key} \cap t.readonly = {},
           NEW ix, ix.tag = "Publish", ix.payload = <<>>,
           ix.accounts = <<authority, payer, a, key, System>>
    PROVE  process_instruction(v, t, ix) = Ok
<1> DEFINE space == key_account_len(n)
<1>1. /\ v[a].owner = Program
      /\ authority \in Wallet /\ authority \in Address /\ authority # a
      /\ authorized_staging(v[a].data, authority) = Ok
      /\ v[a].data \in Seq(Cell)
      /\ n \in 0..MAX_PUBLIC_INPUTS
      /\ Len(v[a].data) = staging_account_len(n)
  BY StagedFacts
<1>2. v \in [Address -> Account] /\ TotalLamports(v) <= U64_MAX
  BY DEF GoodView
<1>3. payer \in Address /\ key \in Address /\ System \in Address /\ payer # key
  BY RuntimeAssumption DEF Address
<1>4. Blank(v[key])
  BY <1>3 DEF GoodView, WellFormed
<1>5. payer # a
  BY <1>1, RuntimeAssumption DEF CanPay, Blank
<1>6. from_body_with_len(body, n) = Ok
  <2>1. Len(body) = vk_body_len(n) /\ n <= MAX_PUBLIC_INPUTS
    BY <1>1, StagedBody
  <2> QED
    BY <2>1, ThenOk DEF from_body_with_len, Ensure
<1>7. unpublished_address(v, key, body) = Ok
  BY <1>4, ThenOk, RuntimeAssumption DEF unpublished_address, Ensure, Blank
<1>8. /\ create_key_account(v, payer, a, key, space) = Ok
      /\ drain_and_close(KeyAccountCreated(v, payer, key, space), a, authority) = Ok
  BY <1>1, <1>2, <1>3, <1>4, <1>5, KeyAffordable
<1>9. /\ authority \in t.signers /\ payer \in t.signers
      /\ authority \notin t.readonly /\ payer \notin t.readonly
      /\ a \notin t.readonly /\ key \notin t.readonly
  OBVIOUS
<1>10. Accounts(ix) = <<authority, payer, a, key, System>>
  <2>1. ix.accounts \in Seq(Address) /\ Len(ix.accounts) <= 5
    BY <1>1, <1>3
  <2> QED
    BY <2>1, AccountsOfShort
<1>11. /\ Len(Accounts(ix)) = 5
       /\ Accounts(ix)[1] = authority /\ Accounts(ix)[2] = payer
       /\ Accounts(ix)[3] = a /\ Accounts(ix)[4] = key /\ Accounts(ix)[5] = System
  BY <1>10
<1>12. publish(v, t, ix) = Ok
  BY <1>1, <1>6, <1>7, <1>8, <1>9, <1>11, ThenOk DEF publish, Ensure, expect_signer,
     expect_writable, expect_owned_by, expect_distinct
<1> QED
  BY <1>12 DEF process_instruction

(* Nobody can block a publication (publish.rs, create_key_account). *)
THEOREM PublicationOpen == Spec => []PublishNeverBlocked
<1>1. IndInv /\ Balanced => PublishNeverBlocked
  <2> SUFFICES ASSUME IndInv, Balanced, NEW a \in Address, NEW payer \in Wallet,
                      IsStaged(ledger[a]),
                      NEW n, n = read_n(ledger[a].data),
                      NEW body, body = StagingBody(ledger[a].data),
                      NEW key \in Derived, key = KeyAddress(body), ~IsKey(ledger[key]),
                      NEW authority, authority = AuthorityOf(ledger[a]),
                      ValidateForPublish(body, n) = Ok, PdaExists(Sha256(body)),
                      CanPay(ledger, payer, key_account_len(n))
               PROVE  process_instruction(ledger, HeaderOf({authority, payer}),
                                          PublishBy(authority, payer, a, key)) = Ok
    BY DEF PublishNeverBlocked
  <2>1. GoodView(ledger) /\ TotalLamports(ledger) <= U64_MAX
    BY IndInvGood DEF Balanced
  <2> DEFINE t == HeaderOf({authority, payer})
             ix == PublishBy(authority, payer, a, key)
  <2>2. /\ {authority, payer} \subseteq t.signers
        /\ {authority, payer, a, key} \cap t.readonly = {}
        /\ ix.tag = "Publish" /\ ix.payload = <<>>
        /\ ix.accounts = <<authority, payer, a, key, System>>
    BY DEF HeaderOf, PublishBy
  <2> HIDE DEF t, ix
  <2>3. process_instruction(ledger, t, ix) = Ok
    BY <2>1, <2>2, PublishGoesThrough
  <2> QED
    BY <2>3 DEF t, ix
<1> QED
  BY <1>1, LamportsBalance, PTL

-----------------------------------------------------------------------------
(* The errors of key validation (Groth16Error in error.rs) are not the error of
   a lost race. *)
ValidationHasOwnErrors ==
    \A body, n : ValidateForPublish(body, n) # "KeyAlreadyPublished"

(* SHA-256 at work: no staged body has the address of a published key with
   another body, or the address of the system program. *)
NoCollision ==
    \A a, b \in Address :
        IsStaged(ledger[b]) =>
            LET body == StagingBody(ledger[b].data) IN
            /\ KeyAddress(body) # System
            /\ /\ IsKey(ledger[a])
               /\ KeyAddress(KeyBody(ledger[a].data)) = KeyAddress(body)
               => KeyBody(ledger[a].data) = body

(* Where KeyAlreadyPublished can come from: one check, after all that precede
   it in publish. *)
LEMMA KeyAlreadyPublishedCause ==
    ASSUME ValidationHasOwnErrors, NEW v, NEW t, NEW ix,
           publish(v, t, ix) = "KeyAlreadyPublished",
           NEW staging, staging = Accounts(ix)[3],
           NEW key, key = Accounts(ix)[4],
           NEW body, body = StagingBody(v[staging].data)
    PROVE  /\ Len(Accounts(ix)) = 5
           /\ v[staging].owner = Program
           /\ authorized_staging(v[staging].data, Accounts(ix)[1]) = Ok
           /\ PdaExists(Sha256(body))
           /\ key = KeyAddress(body)
           /\ v[key].owner = Program
<1> DEFINE n == read_n(v[staging].data)
           space == key_account_len(n)
           lost == "KeyAlreadyPublished"
<1>1. \A r, s : (r ?? s) = lost <=> r = lost \/ (r = Ok /\ s = lost)
  BY ThenFirst DEF Ok
<1>2. authorized_staging(v[staging].data, Accounts(ix)[1]) # lost
  BY ThenFirst DEF authorized_staging, read_staging_account, Ensure, Ok
<1>3. from_body_with_len(body, n) # lost
  BY ThenFirst DEF from_body_with_len, Ensure, Ok
<1>4. create_key_account(v, Accounts(ix)[2], staging, key, space) # lost
  BY ThenFirst DEF create_key_account, Transfer, Allocate, Ensure, Ok
<1>5. drain_and_close(KeyAccountCreated(v, Accounts(ix)[2], key, space),
                      staging, Accounts(ix)[1]) # lost
  BY DEF drain_and_close, Ensure, Ok
<1>6. /\ Len(Accounts(ix)) = 5
      /\ v[staging].owner = Program
      /\ authorized_staging(v[staging].data, Accounts(ix)[1]) = Ok
      /\ unpublished_address(v, key, body) = lost
  <2>1. ValidateForPublish(body, n) # lost
    BY DEF ValidationHasOwnErrors
  <2> QED
    BY <1>1, <1>2, <1>3, <1>4, <1>5, <2>1, ThenOk DEF publish, Ensure, Ok,
       expect_signer, expect_writable, expect_owned_by, expect_distinct
<1>7. PdaExists(Sha256(body)) /\ key = KeyAddress(body) /\ v[key].owner = Program
  BY <1>6, ThenFirst DEF unpublished_address, Ensure, Ok
<1> QED
  BY <1>6, <1>7

(* A transaction that opens with a Publish that loses the race finds the key. *)
LEMMA LostRace ==
    ASSUME ValidationHasOwnErrors, IndInv, Balanced, NoCollision,
           tx.executed = 0, NEW ix \in Instruction, ix.tag = "Publish",
           process_instruction(view, tx, ix) = "KeyAlreadyPublished",
           NEW staging, staging = Accounts(ix)[3],
           NEW key, key = Accounts(ix)[4]
    PROVE  /\ IsKey(ledger[key])
           /\ KeyBody(ledger[key].data) = StagingBody(ledger[staging].data)
<1> DEFINE body == StagingBody(ledger[staging].data)
<1>1. view = ledger
  BY DEF Balanced
<1>2. publish(ledger, tx, ix) = "KeyAlreadyPublished"
  BY <1>1 DEF process_instruction
<1>3. /\ Len(Accounts(ix)) = 5
      /\ ledger[staging].owner = Program
      /\ authorized_staging(ledger[staging].data, Accounts(ix)[1]) = Ok
      /\ PdaExists(Sha256(body))
      /\ key = KeyAddress(body)
      /\ ledger[key].owner = Program
  BY <1>2, KeyAlreadyPublishedCause
<1>4. staging \in Address /\ key \in Address
  <2>1. \A i \in 1..5 : Accounts(ix)[i] \in Address
    BY <1>3, InstructionsWellTyped, AccountsType
  <2> QED
    BY <2>1
<1>5. IsStaged(ledger[staging])
  BY <1>3, AuthorizedStagingOk
<1>6. key # System /\ key \notin Wallet
  BY <1>3, <1>4, <1>5, CanonicalAddress DEF NoCollision
<1>7. key \in Derived /\ WellFormed(key, ledger[key])
  BY <1>4, <1>6 DEF Address, IndInv
<1>8. IsKey(ledger[key]) /\ CommitsTo(key, ledger[key])
  BY <1>3, <1>7, RuntimeAssumption DEF WellFormed, Blank
<1>9. KeyAddress(KeyBody(ledger[key].data)) = KeyAddress(body)
  BY <1>3, <1>8 DEF CommitsTo
<1> QED
  BY <1>4, <1>5, <1>8, <1>9 DEF NoCollision

(* Losing the race to publish is harmless, as long as nobody finds a collision
   of SHA-256: the key that won is the one that was staged. *)
THEOREM LostRaceHarmless ==
    ASSUME ValidationHasOwnErrors
    PROVE  Spec => [](NoCollision => AlreadyPublishedMeansAvailable)
<1>1. IndInv /\ Balanced => (NoCollision => AlreadyPublishedMeansAvailable)
  BY LostRace DEF AlreadyPublishedMeansAvailable
<1> QED
  BY <1>1, LamportsBalance, PTL
-----------------------------------------------------------------------------
(* What no instruction does to an account, whoever signs it, unless it publishes
   a key there or creates the account: give it to the program, turn it into a
   key, change the authority of a staging account. *)
Kept(before, after) ==
    /\ IsKey(after) => IsKey(before)
    /\ after.owner = Program =>
         /\ before.owner = Program
         /\ IsStaged(before) =>
              IsStaged(after) /\ AuthorityOf(after) = AuthorityOf(before)

(* An account with the same owner and data is as it was. *)
LEMMA SameKept ==
    ASSUME NEW x, NEW y, y.owner = x.owner, y.data = x.data
    PROVE  Kept(x, y)
BY DEF Kept, IsKey, IsStaged, AuthorityOf

(* An emptied account is nothing. *)
LEMMA EmptyKept ==
    ASSUME NEW x
    PROVE  Kept(x, Empty)
BY Kinds, RuntimeAssumption DEF Kept, Empty

(* The processors keep every account but the one that Publish makes a key. *)
LEMMA ProcessKeeps ==
    ASSUME NEW v, GoodView(v), NEW t, t.signers \subseteq Wallet,
           NEW ix, WellTyped(ix), process_instruction(v, t, ix) = Ok,
           NEW w, w = Effect(v, ix), NEW a \in Address,
           ix.tag = "Publish" => a # Accounts(ix)[4]
    PROVE  Kept(v[a], w[a])
<1>1. v \in [Address -> Account]
  BY DEF GoodView
<1>2. CASE ix.tag = "InitializeStaging"
  <2> DEFINE s == Accounts(ix)[2]
  <2>1. initialize_staging(v, t, ix) = Ok /\ w = Initialized(v, ix)
    BY <1>2 DEF process_instruction, Effect
  <2>2. PICK y \in Account : /\ s \in Address /\ w = [v EXCEPT ![s] = y]
                             /\ v[s].owner = Program /\ ~IsStaged(v[s]) /\ ~IsKey(y)
    BY <1>2, <2>1, InitializedAccount
  <2> HIDE DEF s
  <2>3. CASE a = s
    BY <1>1, <2>2, <2>3 DEF Kept
  <2>4. CASE a # s
    BY <1>1, <2>2, <2>4, SameKept
  <2> QED
    BY <2>3, <2>4
<1>3. CASE ix.tag = "Write"
  <2> DEFINE s == Accounts(ix)[2]
  <2>1. write(v, t, ix) = Ok /\ w = Written(v, ix)
    BY <1>3 DEF process_instruction, Effect
  <2>2. PICK y \in Account : /\ s \in Address /\ w = [v EXCEPT ![s] = y]
                             /\ v[s].owner = Program /\ ~IsKey(y)
                             /\ IsStaged(y) /\ AuthorityOf(y) = AuthorityOf(v[s])
    BY <1>3, <2>1, WrittenAccount
  <2> HIDE DEF s
  <2>3. CASE a = s
    BY <1>1, <2>2, <2>3 DEF Kept
  <2>4. CASE a # s
    BY <1>1, <2>2, <2>4, SameKept
  <2> QED
    BY <2>3, <2>4
<1>4. CASE ix.tag = "Publish"
  <2>1. publish(v, t, ix) = Ok /\ w = Published(v, ix)
    BY <1>4 DEF process_instruction, Effect
  <2>2. /\ w[Accounts(ix)[3]] = Empty
        /\ a \notin {Accounts(ix)[3], Accounts(ix)[4]} =>
             w[a].owner = v[a].owner /\ w[a].data = v[a].data
    BY <2>1, PublishedAccounts
  <2> QED
    BY <1>4, <2>2, SameKept, EmptyKept
<1>5. CASE ix.tag = "CloseStaging"
  <2> DEFINE from == Accounts(ix)[2]
             to == Accounts(ix)[1]
  <2>1. close_staging(v, t, ix) = Ok /\ w = Drained(v, from, to)
    BY <1>5 DEF process_instruction, Effect, Closed
  <2>2. staging_pair(v, t, Accounts(ix)) = Ok
    BY <2>1, ThenOk DEF close_staging
  <2>3. from \in Address /\ to \in Address /\ from # to
    BY <2>2, StagingPairOk, AccountsType
  <2> HIDE DEF from, to
  <2>4. /\ w[from] = Empty
        /\ a # from => w[a].owner = v[a].owner /\ w[a].data = v[a].data
    BY <1>1, <2>1, <2>3, DrainedView
  <2> QED
    BY <2>4, SameKept, EmptyKept
<1>6. CASE ix.tag \notin {"InitializeStaging", "Write", "Publish", "CloseStaging"}
  <2>1. w = v
    BY <1>6 DEF Effect
  <2> QED
    BY <2>1, SameKept
<1> QED
  BY <1>2, <1>3, <1>4, <1>5, <1>6

(* Transfer keeps every account, CreateAccount every other, and what it creates
   is not a key. *)
LEMMA SystemKeeps ==
    ASSUME NEW v, GoodView(v), NEW from \in Address, NEW to \in Address,
           NEW amount \in Nat, Transfer(v, from, amount) = Ok,
           NEW space \in Nat, NEW a \in Address
    PROVE  /\ Kept(v[a], Transferred(v, from, to, amount)[a])
           /\ LET w == Created(v, from, to, amount, space, Program) IN
              IF a # to THEN Kept(v[a], w[a]) ELSE ~IsKey(w[a])
<1> DEFINE u == Transferred(v, from, to, amount)
           w == Created(v, from, to, amount, space, Program)
<1>1. v \in [Address -> Account] /\ v[from].lamports >= amount
  BY TransferOk DEF GoodView
<1>2. /\ u \in [Address -> Account]
      /\ \A b \in Address : u[b].owner = v[b].owner /\ u[b].data = v[b].data
  BY <1>1, TransferredView
<1>3. w = Assigned(Allocated(u, to, space), to, Program)
  BY DEF Created
<1> HIDE DEF u, w
<1>4. /\ w[to].data = Zeros(space)
      /\ \A b \in Address : b # to => w[b] = u[b]
  BY <1>2, <1>3, AllocateAssign
<1>5. ~IsKey(w[to])
  <2>1. Len(w[to].data) = space
        /\ (space >= 4 => At(w[to].data, DISCRIMINATOR_OFFSET) = 0)
    BY <1>4, ZerosType DEF At, DISCRIMINATOR_OFFSET, Zeros
  <2> QED
    BY <2>1, Kinds DEF KEY_HEADER_LEN
<1>6. Kept(v[a], u[a]) /\ (a # to => Kept(v[a], w[a]))
  BY <1>2, <1>4, SameKept
<1> QED
  BY <1>5, <1>6 DEF u, w
=============================================================================
