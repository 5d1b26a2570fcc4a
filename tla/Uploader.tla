------------------------------ MODULE Uploader ------------------------------
(***************************************************************************)
(* Clients that register keys (README, Registration; walkthrough.rs)       *)
(* against the registry, over a network that loses, delays, reorders and   *)
(* repeats transactions.  A client looks at the committed accounts, builds *)
(* what comes next and submits it, as often as it likes; what it saw may   *)
(* be stale when the transaction lands.  A transaction lands in one step:  *)
(* its instructions run on the ledger in order and the first error undoes  *)
(* it.  Registry takes these steps one by one.                             *)
(***************************************************************************)
EXTENDS Registry, SequencesExt

CONSTANTS
    Client,         \* names of clients
    Jobs,           \* for each client, the uploads it makes, one after another
    AtOnce,         \* clients that register in a single transaction
    Foreign,        \* transactions that others may land at any time
    Proofs          \* proofs that clients verify

ix == INSTANCE Instructions

Upload == UNION {ToSet(Jobs[c]) : c \in Client}

KeyOf(u) == ix!find_key_address(ix!vk_hash(u.body))

VARIABLES
    sent,       \* transactions in flight
    job         \* for each client, the number of its current upload

uploadVars == <<ledger, view, tx, sent, job>>

-----------------------------------------------------------------------------
(* A transaction is a sequence of instructions; its message header is the  *)
(* union of their flags.                                                   *)
Metas(t) == UNION {ToSet(t[k].accounts) : k \in DOMAIN t}

HeaderFor(t) ==
    [signers |-> {m.address : m \in {m \in Metas(t) : m.signer}},
     readonly |-> {m.address : m \in Metas(t)}
                    \ {m.address : m \in {m \in Metas(t) : m.writable}}]

Addresses(instruction) ==
    [k \in DOMAIN instruction.accounts |-> instruction.accounts[k].address]

ForRegistry(instruction) ==
    [tag |-> ix!from_u8(Head(instruction.data)),
     accounts |-> Addresses(instruction), payload |-> Tail(instruction.data)]

(* CreateAccount is system instruction 0, Transfer is 2. *)
SystemOutcome(v, header, instruction) ==
    LET from == Addresses(instruction)[1]
        to == Addresses(instruction)[2]
        data == instruction.data
    IN CASE data[1] = 0 ->
                Ensure({from, to} \subseteq header.signers, "MissingRequiredSignature")
             ?? CreateAccount(v, from, to, data[2])
         [] data[1] = 2 ->
                Ensure(from \in header.signers, "MissingRequiredSignature")
             ?? Transfer(v, from, data[2])

SystemEffect(v, instruction) ==
    LET from == Addresses(instruction)[1]
        to == Addresses(instruction)[2]
        data == instruction.data
    IN CASE data[1] = 0 -> Created(v, from, to, data[2], data[3], data[4])
         [] data[1] = 2 -> Transferred(v, from, to, data[2])

OutcomeOf(v, header, instruction) ==
    IF instruction.program = System THEN SystemOutcome(v, header, instruction)
    ELSE process_instruction(v, header, ForRegistry(instruction))

EffectOf(v, instruction) ==
    IF instruction.program = System THEN SystemEffect(v, instruction)
    ELSE Effect(v, ForRegistry(instruction))

(* One instruction; after is the view that the last one left. *)
Executing(s, header, instruction) ==
    LET outcome == OutcomeOf(s.after, header, instruction)
        next == EffectOf(s.after, instruction)
    IN IF s.outcome # Ok THEN s
       ELSE IF outcome # Ok THEN [s EXCEPT !.outcome = outcome]
       ELSE [outcome |-> Ensure(RuntimeAccepts(header.readonly, s.after, next),
                                "RuntimeError"),
             after |-> next]

Trace(t) ==
    LET header == HeaderFor(t)
        trace[k \in 0..Len(t)] ==
            IF k = 0 THEN [outcome |-> Ok, after |-> ledger]
            ELSE Executing(trace[k - 1], header, t[k])
    IN trace

Run(t) ==
    LET end == Trace(t)[Len(t)] IN
    [end EXCEPT !.outcome =
        @ ?? Ensure(Committable(end.after), "InsufficientFundsForRent")]

-----------------------------------------------------------------------------
(* What a transaction of others is made of.  They may sign as anybody else: *)
(* nobody but its client has the key of a staging account, and what they   *)
(* publish, if anything, are bodies that clients upload.                   *)
Sound(instruction) ==
    LET accounts == Addresses(instruction) IN
    IF instruction.program = System
    THEN /\ accounts \in Seq(Address) /\ Len(accounts) = 2
         /\ instruction.data \in {0} \X Nat \X Nat \X {Program} \cup {2} \X Nat
    ELSE LET call == ForRegistry(instruction) IN
         /\ WellTyped(call)
         /\ call.tag = "Publish" =>
              Accounts(call)[4] \in {KeyOf(u) : u \in Upload}

(* A staging account is a new key pair that an authority made.  Every upload
   is of a valid key, and every account is rent exempt from the start. *)
ASSUME UploaderAssumption ==
    /\ Jobs \in [Client -> Seq(ix!Uploads) \ {<<>>}]
    /\ AtOnce \subseteq Client
    /\ \A u \in Upload :
         /\ Len(u.body) = vk_body_len(u.n)
         /\ PdaExists(Sha256(u.body)) /\ KeyOf(u) \in Derived
         /\ ValidateForPublish(u.body, u.n) = Ok
         /\ u.authority # u.staging
         /\ \A w \in Upload : w.staging = u.staging => w.authority = u.authority
    /\ \A t \in Foreign :
         /\ t \in Seq(ToSet(t))
         /\ HeaderFor(t).signers \subseteq Wallet \ {u.staging : u \in Upload}
         /\ \A instruction \in ToSet(t) : Sound(instruction)
    /\ \A proof \in Proofs : proof \in Seq(Cell) /\ Len(proof) = PROOF_SIZE
    /\ MinimumBalance(0) \in Nat
    /\ \A n \in 0..MAX_PUBLIC_INPUTS :
         /\ MinimumBalance(staging_account_len(n)) \in Nat
         /\ MinimumBalance(0) <= MinimumBalance(staging_account_len(n))
    /\ Committable(Genesis)

-----------------------------------------------------------------------------
(* What a client sees in the committed accounts. *)
Current(c) == Jobs[c][job[c]]
Available(u) == IsKey(ledger[KeyOf(u)])
Mine(u) == IsStaged(ledger[u.staging]) /\ AuthorityOf(ledger[u.staging]) = u.authority

(* The pieces of the body that are not in the staging account. *)
Missing(u) ==
    LET data == ledger[u.staging].data IN
    {w \in ToSet(ix!write_body(u)) :
        Written(ledger, ForRegistry(w))[u.staging].data # data}

Registration(u) ==
    FlattenSeq(SetToSeq(ix!create_staging(u)))
        \o ix!write_body(u) \o <<ix!publish(u)>>

(* What it submits next; it leaves nothing staged that it does not need. *)
Wanted(c) ==
    LET u == Current(c)
        staged == ledger[u.staging]
    IN CASE Mine(u) /\ (Available(u) \/ read_n(staged.data) # u.n) ->
                {<<ix!close_staging(u)>>}
         [] Available(u) -> {}
         [] staged = Empty /\ c \in AtOnce -> {Registration(u)}
         [] staged = Empty -> ix!create_staging(u)
         [] Mine(u) /\ Missing(u) # {} -> {<<w>> : w \in Missing(u)}
         [] Mine(u) -> {<<ix!publish(u)>>}
         [] OTHER -> ix!create_staging(u)

Transactions(u) ==
    {Registration(u), <<ix!publish(u)>>, <<ix!close_staging(u)>>}
        \cup ix!create_staging(u) \cup {<<w>> : w \in ToSet(ix!write_body(u))}

-----------------------------------------------------------------------------
Submit(c, t) ==
    /\ t \in Wanted(c) \ sent
    /\ sent' = sent \cup {t}
    /\ UNCHANGED <<ledger, view, tx, job>>

(* The key is available and nothing is left staged: on to the next upload. *)
Advance(c) ==
    /\ Available(Current(c)) /\ ~Mine(Current(c))
    /\ job[c] < Len(Jobs[c])
    /\ job' = [job EXCEPT ![c] = @ + 1]
    /\ UNCHANGED <<ledger, view, tx, sent>>

Committed(t) ==
    /\ \E end \in {Run(t)} :
         ledger' = IF end.outcome = Ok THEN Purged(end.after) ELSE ledger
    /\ view' = ledger'
    /\ UNCHANGED <<tx, job>>

(* Another copy of the transaction may still be in flight. *)
Land(t) ==
    /\ t \in sent
    /\ sent' \in {sent, sent \ {t}}
    /\ Committed(t)

LandForeign(t) ==
    /\ Run(t).outcome = Ok
    /\ Committed(t)
    /\ UNCHANGED sent

(* The network drops it, or its blockhash is too old. *)
Expire(t) ==
    /\ t \in sent
    /\ sent' = sent \ {t}
    /\ UNCHANGED <<ledger, view, tx, job>>

UploadInit == Init /\ sent = {} /\ job = [c \in Client |-> 1]

UploadNext ==
    \/ \E c \in Client : Advance(c) \/ \E t \in Wanted(c) : Submit(c, t)
    \/ \E t \in sent : Land(t) \/ Expire(t)
    \/ \E t \in Foreign : LandForeign(t)

(* A client keeps going.  Of what it submits again and again, something    *)
(* lands while it is still of use.  What it will not submit again, because *)
(* it belongs to an earlier upload or the key is available, does not stay  *)
(* in flight for ever.  The last two conjuncts are SF of Progress(c) and   *)
(* WF of Expire for what is spent, with ENABLED written out: Land(t) and   *)
(* Expire(t) can change sent exactly when t is in flight.                  *)
Progress(c) == \E t \in Wanted(c) : Land(t)

Useful(c) ==
    LET closing == {<<ix!close_staging(Current(c))>>} IN
    IF Available(Current(c)) THEN closing
    ELSE Transactions(Current(c)) \ closing

Spent(c) == UNION {Transactions(Jobs[c][k]) : k \in 1..job[c]} \ Useful(c)

UploadFairness ==
    \A c \in Client :
        /\ WF_uploadVars(Advance(c))
        /\ WF_uploadVars(\E t \in Wanted(c) : Submit(c, t))
        /\ []<>(Wanted(c) \cap sent # {}) => []<><<Progress(c)>>_uploadVars
        /\ \A t \in UNION {Transactions(u) : u \in Upload} :
             []<>(t \notin sent \cap Spent(c))

UploadSpec == UploadInit /\ [][UploadNext]_uploadVars /\ UploadFairness

-----------------------------------------------------------------------------
(* What a client pays for stays its own: whatever lands, whenever, a staging
   account that it created is claimed by its authority, and by nobody in
   between (the comment on create_staging). *)
StagingStaysMine ==
    \A u \in Upload : ledger[u.staging].owner = Program => Mine(u)

(* Late, repeated or interleaved Writes of different uploads never mix into a
   published key: every key is a whole body that some client uploads. *)
NoMixedKey ==
    \A a \in Address : IsKey(ledger[a]) =>
        \E u \in Upload : a = KeyOf(u) /\ KeyBody(ledger[a].data) = u.body

(* The address is the commitment: a Verify built for the advertised address is
   refused until the key is there, and from then on it is decided by the
   client's own body, whoever published it. *)
VerifiesAdvertisedKeys ==
    \A proof \in Proofs, u \in Upload :
        LET inputs == [k \in 1..u.n |-> 0]
            outcome == Run(<<ix!verify(KeyOf(u), proof, inputs)>>).outcome
        IN IF Available(u)
           THEN outcome = VerifyProof(u.body, u.n, proof \o inputs)
           ELSE outcome = "InvalidAccountOwner"

(* A complete upload is never stuck: whoever raced, donated or replayed, the
   Publish of a client that sees its whole body staged succeeds, or finds
   that the key is available. *)
PublishSucceeds ==
    \A u \in Upload :
        Mine(u) /\ read_n(ledger[u.staging].data) = u.n /\ Missing(u) = {} =>
            IF Available(u)
            THEN Run(<<ix!publish(u)>>).outcome = "KeyAlreadyPublished"
            ELSE Run(<<ix!publish(u)>>).outcome = Ok

(* The inductive invariant behind these properties.  What is in flight was built
   for some upload, whatever its age; the accounts are as IndInv says and rent
   exempt; staging accounts are claimed; keys are at the addresses of uploads. *)
UploadInv ==
    /\ IndInv
    /\ tx = Idle
    /\ sent \subseteq UNION {Transactions(u) : u \in Upload}
    /\ job \in [Client -> Nat \ {0}]
    /\ \A c \in Client : job[c] <= Len(Jobs[c])
    /\ TotalLamports(ledger) <= U64_MAX
    /\ Committable(ledger)
    /\ \A a \in Address :
         /\ ledger[a].lamports = 0 => ledger[a].data = <<>>
         /\ IsKey(ledger[a]) => a \in {KeyOf(u) : u \in Upload}
    /\ StagingStaysMine

(* Every upload ends with the client's key at its address, for good. *)
AllPublished == <>[](\A u \in Upload : Available(u))

(* All rent comes back: in the end nothing is left staged. *)
RentReturns == <>[](\A u \in Upload : ledger[u.staging] = Empty)
=============================================================================
