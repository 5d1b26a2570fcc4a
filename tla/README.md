# Formal model of the Groth16 verifying-key registry

TLA+ specifications, TLC configurations and TLAPS proofs for the Solana program
in `program/`, the library in `groth16-verify/`, the converters in
`tools/convert` and the benchmark program in `tools/bench`.

## 1. The system

| Component | State it keeps | Operations | Correct when |
|---|---|---|---|
| Registry program (`program/src`) | accounts owned by the program: staging accounts and published keys | InitializeStaging, Write, Publish, CloseStaging, Verify | a key is at the canonical address of its body, validated, complete and permanent; a staging account obeys its authority alone; nobody can block a publication; rent is never stuck |
| Account layouts (`state.rs`, `constants.rs`) | none | header readers and writers, sizes | no account reads as both kinds; headers survive body writes |
| Key validation (`validation.rs`) | loop index | identity check, one pairing call, pairwise G1 additions | exactly the well-formed keys pass |
| Verifier (`verifier.rs`) | accumulator, loop index | count, canonicity, MSM with shortcuts, pairing | the verdict is that of the Groth16 equation; errors come in the promised order |
| Syscall wrappers, scalar helpers | none | `g1_add`, `g1_mul`, pairing, `is_zero`, ... | a point that does not decode is `InvalidPoint` |
| Client builders (`instruction.rs`, `tag.rs`) | none; their clients keep transactions in flight | `create_staging`, `write_body`, `publish`, `close_staging`, ... | an upload ends in the client's own key, and all staging rent comes back |
| Converters (`tools/convert`) | position in the file, counts read | `parse_verifying_key`, `parse_proof`, `parse_public_witness`, `OnChainKey::from_body` | the bytes on chain decode to what gnark held; one key has one body; no allocation exceeds the input |
| Bench program (`tools/bench`) | none | one tag per stage of the verification | the stages add up to the whole |
| Fixture generator (`tools/fixtures`) | none | | not modelled: calls gnark once and writes files |

The program is sequential inside one instruction. What is hard is around it:
transactions of different users interleave in any order on the same accounts;
a transaction carries several instructions and is undone as a whole; the
accounts of an instruction are chosen by the caller and may coincide; lamports
arrive at any address uninvited; accounts without lamports vanish. Clients
upload in many transactions that are lost, late, repeated and reordered, and
decide from a ledger that has moved on. The converters read foreign files whose
counts and encodings may be anything. The hazards
are listed in `PROJECT.json`, each with the properties that would catch it.

## 2. Modules

| Module | What it is |
|---|---|
| `Outcome` | Rust's `Result` and `?`: `r ?? s` is `r?; s` |
| `Layout` | sizes, offsets, readers and writers of both account kinds |
| `Runtime` | external: accounts, derived addresses, system program, runtime checks |
| `Registry` | the program, in transactions |
| `KeyRegistry` | abstract: an immutable map from addresses to genuine keys |
| `Curve` | syscall wrappers and scalar helpers over abstract groups |
| `VerifyingKey` | the views of a key body; what a well-formed key is |
| `KeyValidation` | `validate_for_publish`, one action per syscall |
| `Verifier` | `verify`, one action per statement |
| `Groth16` | abstract: verification without shortcuts |
| `Instructions` | the client's instruction builders and the tags |
| `Uploader` | composes `Registry` and `Instructions`: clients, their transactions in flight, the network |
| `Sizes` | `from_body` and the limit on n with the code's byte counts |
| `WireFormat` | encoding and decoding of field elements, points, keys and proofs |
| `Converter` | the gnark parsers, one action per element read |
| `GnarkFiles` | external: what gnark writes, and what can happen to a file |
| `Bench` | the benchmark program and the order of its measurements |
| `MC...` | instances for TLC |
| `LayoutProofs` | lemmas the other proofs rest on: `Result` chains, folds, sequences and their concatenation, header codecs |
| `RegistryProofs`, `UploaderProofs`, `KeyValidationProofs`, `VerifierProofs`, `SizesProofs`, `BenchProofs`, `ConverterProofs` | theorems |

### Registry

`ledger` is the committed accounts, `view` the accounts as the running
transaction sees them, `tx` its signers, its read-only accounts and the number
of instructions executed. The runtime serialises transactions that share
accounts, so one runs at a time; its instructions are separate steps, so a
failure after any of them is a behaviour.

Each processor is two operators: its checks, in the order of the code
(`initialize_staging`, `write`, `publish`, `close_staging`, `verify`; the shared
checks keep their names), and the view it leaves (`Initialized`, `Written`,
`Published`, `Closed`). The action of an instruction (`Publish(ix)`, ...)
requires the checks to return `Ok` and the runtime to accept the result;
`InstructionFails` is every error return and discards the view. `RuntimeAborts`
is everything else that undoes a transaction: an error of another program,
compute exhausted, the rent check. `SystemCreateAccount` and `SystemTransfer`
are what clients do outside the program.

Data is abstracted to cells: a header field is one cell, a point is `G1_SIZE` or
more cells, so a write can still end inside a point. Hashing is a constant
operator (no property of the registry itself needs injectivity: two bodies
with one hash would have one address, and `KeyAddress` would hold for both; what
clients conclude from an address does, see section 4).
The canonical bump is the largest whose address is off the curve.
`ValidateForPublish` and `VerifyProof` are constants here and are modelled by
`KeyValidation` and `Verifier`.

A detail worth knowing: `Publish` holds a borrow of the staging data during its
CPIs, so a payer that is the staging account cannot fund the key
(`AccountBorrowFailed` in `create_key_account`).

### KeyValidation and Verifier

A block of bytes (a scalar or a point) is the number it encodes; `G1` and `G2`
hold the encodings the runtime accepts; the identity is 0. The group operations
are constants with the six laws the shortcuts need (`CurveAssumption`): closure,
`p + O = p`, `0·p = O`, `1·p = p`, `s·O = O`. The verifier starts from a key that
`validate_for_publish` accepts, the contract of `Checked`; that Verify is only
ever handed such keys is `KeysCommit` of `Registry`.

### Instructions and Uploader

A builder returns a program, accounts with their flags, and data. `Uploader`
decodes the data again (`from_u8`, payload), derives the message header from the
flags and runs whole transactions on `Registry`'s operators: `Trace` is what each
instruction leaves, by recursion over the transaction, and `Run` its end with the
rent check. So a builder that forgot
a flag, an account or a piece of the body shows up as a registration that fails.

A client (`Wanted`) looks at the committed ledger and submits what is still
missing: the pair of `create_staging`, the Writes whose bytes are not there, the
Publish, or the close of a staging account it no longer needs. `sent` is the set
of transactions in flight; `Land` executes one and may leave a copy behind,
`Expire` loses it, and any order is possible. `Foreign` transactions land at any
time. What the builders return is translated from `instruction.rs`; the decisions
between them are external, after `program/tests/walkthrough.rs` with retries added.

One thing is left out on purpose: lamports sent to a staging address before it
exists make the system program refuse to create it. The staging account of the
walkthrough is a throwaway key pair, so its client takes another; here the
address is fixed to let transactions of an earlier upload meet the next one.

### Converter, WireFormat, GnarkFiles

A byte is a cell in base `Radix`, a field element two cells, a u32 one. Flags are
the top two bits of a point's first cell, as in gnark, so they share a cell with
x. Points, order of coordinates (c1 first), negations, canonicity, subgroup
checks and error order follow the code. The parser's state is its position, the
elements and counts read, the loop that runs and the capacity it allocated.
`GnarkFiles` is the other side: the writer (the compression is the one the tests
of `gnark.rs` mirror), artifacts in memory, and files cut anywhere, extended by a
cell or by a whole point, changed in one cell, or with the modulus added to an
element.

### Bench

The program's parser, builder and tags over the blocks of `Verifier`. The cost of
a call is the syscalls it makes. `Measure` runs one tag after another on the same
workload, as `program/tests/cu.rs` does.

## 3. Runs

| Run | Shows | Bounds |
|---|---|---|
| `registry` | safety, action properties and refinement of the program | 2 users and a staging key pair; 3 bodies with 2 bumps each, one of them with an on-curve first bump; n = 0 staged, 2 instructions per transaction, any number of transactions |
| `registry_calls` | what the next call does from every reachable state | n = 0 and 1, 1 instruction per transaction, accounts locked read-only |
| `registry_owned` | a violation, see Findings | as `registry`, 1 instruction |
| `key_validation` | exactness, cost and termination of validation | every body with n up to 4 over identity, point, undecodable |
| `verifier` | verdict, error order, cost and refinement of verification | every validated IC table with n up to 2 over groups of order 3; scalars 0, 1, 2 and one that is not canonical; proofs with identity and undecodable points; input counts 0 to 2 |
| `uploader` | safety of uploads | alice with two keys through one staging account in steps, bob with the first of them in one transaction; pieces of 2 cells of bodies of 3; claims, writes and closes by bob, donations (157,304 states) |
| `uploader_live` | every upload ends, all rent returns | alice's two keys, of different n, so that bodies divide into pieces with and without a rest (19,658 states) |
| `converter` | the gnark parsers on whole and damaged files | curves y² = x³ + b over F₁₁ and F₁₂₁, base 8; keys with 0 to 3 IC points against a limit of 2; every sample point in every place, every mixture of raw and compressed for one key; four files in three forms each and two bodies cut and changed in every place and extended by every cell and every point of the curve (24,572 states) |
| `converter_documented` | a violation, see Findings | as `converter` |
| `bench` | the stages of the benchmark | order 3 as in `verifier`, n up to 2, every IC table and every scalar, points that do not decode, a wrong number of scalars (75,264 states) |
| `sizes` | n from a length, the limit of 151 | the real numbers; lengths 0 to 700 and 10,100 to 10,260 |
| `sizes_documented` | a violation, see Findings | as `sizes` |

Why the bounds are enough. Two instructions in one transaction give
create + initialize, initialize + write, publish + a failing successor, and
close + create; longer sequences are covered across transactions, and the proofs
cover every length. Two users and a shared staging address give claims by a
third party, races to publish and re-creation by somebody else. Donations of one
lamport leave an address below, and repeated ones at or above, rent exemption (2).
In `uploader` two keys through one address are what it takes for a late Write,
Publish or close of the first upload to meet the second. In `converter` the
samples have both roots of y on both curves, a y with c1 = 0 and one with c0 = 0,
the identity, an x with the bit below the flag set, points outside the subgroup (reached
by changing a cell or appended to a body), and the values 11 to 15 are not canonical. A
key with one IC point has room for the point appended to its body, one with two has not. `sizes` has every remainder modulo 64 at both
ends.
n up to 4 has odd, even and zero loops with a full and a half last pair. Order 3
has sums that cancel, a scalar other than 0 and 1, and every shortcut.

Named bounds: `MaxInstructions` (instructions of one transaction), `Sizes`
(values of n that are staged), `Donation`, `MAX_PUBLIC_INPUTS` (151 in the code),
`U64_MAX`, `MAX_PERMITTED_DATA_INCREASE`.

Deadlock is checked for the registry, the converter (a call that has returned
stutters explicitly) and the sizes. `key_validation`, `verifier` and `bench` switch
it off: the calls have returned. So do the uploader runs: when all keys are
published and nothing is in flight, nobody has anything left to do.

Properties of the registry:

- `KeysCommit`: what Verify accepts as a key (owner, discriminator, length) is at
  the canonical address of its body, with its bump, validated, rent exempt.
- `NoPartialKey`: a derived address is blank or holds a complete key, in the
  ledger and between any two instructions.
- `KeysPermanent`, `StagingPrivate`: what no commit may do.
- `ImplementsKeyRegistry`: refinement of `KeyRegistry`.
- `AuthorityCanReclaim`, `PublishNeverBlocked`, `AlreadyPublishedMeansAvailable`:
  what a user can count on from every reachable ledger.
- `ChecksComplete`: what a processor accepts, the runtime accepts.

Properties of the uploader: `StagingStaysMine` (a paid-for staging account is never
claimed by another), `NoMixedKey` (Writes of different uploads never mix into a
published key), `VerifiesAdvertisedKeys` (a Verify for an advertised address is
decided by the client's own body), `PublishSucceeds` (a complete upload is never
stuck), `UploadInv` (the inductive invariant of section 4), `AllPublished` and
`RentReturns` (liveness).  That the registry with its clients and the network, too,
implements `KeyRegistry` is proved (section 4), not run: checking it as a property
of this run doubles its time.

Properties of the converter: `BoundedByInput`, `ConvertsFaithfully`,
`LengthErrorsFound` (a gnark file of another length is refused; a body of another
length is accepted exactly where it is the body of the key with fewer or more IC
points, since `from_body` infers n), `AcceptsOnlyGnark` (no second spelling of a file),
`ConvertedDecodes`, and `RebuildsBody` (the `debug_assert` of `OnChainKey::from_body`).
Of the verifier: `VerdictCorrect` (the verdict by discrete logarithms), `VerdictDecided`
(by the groups' own operations), `InvalidPointMeansProof`, `ChecksBeforeSyscalls`,
`MsmCost` and `ImplementsGroth16` (the shortcuts change nothing).
Of the benchmark: `WorkloadKept`, `StagesAddUp`, `StagesAgree`. Of the sizes:
`LengthFixesInputs`, `LimitIsTight`.

Each property has a mutant in `PROJECT.json`: a faulty variant of one definition
(`mutant_...`, written before its original) under which TLC finds the property
violated.

### Fairness

`KeyValidation` assumes weak fairness of its next step, because a
sequential call always executes its next statement (running out of compute ends
the whole transaction, which `Registry` models as `RuntimeAborts`). The registry
needs none: all of its properties are safety, and nothing makes a user act.

`Uploader` assumes three things of every client (`UploadFairness`). It goes on: weak
fairness of submitting and of advancing, the loop of a client program. If something
it still wants is in flight again and again, then again and again such a
transaction lands: strong fairness, because the network may lose any number of
copies and only persistence overcomes it. And what it will not submit again does
not stay in flight for ever, because a transaction names a recent blockhash and
expires with it; without this a late copy of the first upload's CloseStaging could
close the second upload's staging account without end. No fairness is assumed of
anybody else, and none of the order of arrival. The last two are written as
temporal formulas with their enabling conditions spelled out, since the set of
transactions differs from state to state.

### Findings

`registry_owned`: `README.md:301-303` and `verify.rs:7-8` say that every account
the program owns holds a validated key, because only Publish creates such
accounts. Staging accounts are owned by the program and hold arbitrary bytes.
`Verify` itself is right, since it also requires the key discriminator
(`KeysCommit`, theorem `ContentAddressed`); a caller that relies on ownership alone
would not be.

`sizes_documented`: `docs/design.md:30-31` gives 10,184 bytes for a key body with
n = 151; `vk_body_len(151)` is 10,176, and 10,184 is the whole account, as
`README.md:127` says. `docs/design.md:90` repeats the number. Nothing depends on it.

`converter_documented`: `docs/design.md:177-178` puts gnark's compression flag in the
three most significant bits of the first byte. It is in two, as `gnark.rs:3-4` says and
`FLAG_MASK` (`gnark.rs:46`) has it; the third bit belongs to x, whose first byte may be
as large as the modulus's 0x30. The run converts a compressed point whose x has that bit
set, which clearing three bits would turn into another x. `ConvertsFaithfully` and
`AcceptsOnlyGnark` rest on the two bits. The document is wrong, the parser is not.

## 4. Theorems

All are proved for every value of the constants that satisfies the named
assumptions (`LayoutAssumption`, `RuntimeAssumption`, `RegistryAssumption`,
`CurveAssumption`, `VerifyingKeyAssumption`, `BodyAssumption`,
`VerifierAssumption`, `SizesAssumption`, `WireAssumption`, `FileAssumption`,
`HistoryAssumption`, `WorkloadAssumption`, `UploaderAssumption`); TLC evaluates these on every run. What they say of the code:
there are finitely many addresses and all lamports together fit a u64; the largest
key account fits one allocation; a proof is an array of fixed length; the field
modulus is odd and leaves the flag bits free; subgroup points are on the curve and
none but the identity is its own negative, since the order is odd; a file that is
called whole, cut or extended is what gnark writes for its artifact, or a body,
whole, cut or extended by anything (`HistoryAssumption`), and its counts fit a u32; an upload is of
a valid key, staging accounts have key pairs of their own that only their client
has, and others publish, if anything, bodies of uploads (`Sound`). Some theorems
have a hypothesis of their own, named there: `LimitTight` is about limits that just
fill one allocation (lemma `CodeLimit`: 448, 64 and 151 do), and `LostRaceHarmless`
supposes that `validate_for_publish` never returns `KeyAlreadyPublished` and speaks
of the states in which SHA-256 has no collision among the bodies stored.
`NothingMixed` and `AdvertisedKeysVerified` speak of the states in which no stored
key collides with an upload (`KeysApart`), `CompleteUploadsPublish` of those in
which a payer that is still needed has the rent of its key and its own (`Solvent`),
for a rent that is a number (`RentCounted`). Both are true in every state of the
run `uploader`.

**Foundations.** What a fold computes cannot be proved by the library's induction
theorems here, so `LayoutProofs` argues by least counterexample: over subsets of a
finite set for sums (`InductionBySet`), over lengths for the flattening of
sequences (`FlatExists`, `FlattenAppend`). The sequence lemmas (`Rejoined`,
`PartsReadBack`, `FourStretches`, ...) say that what was concatenated is read back.

**Registry.** `KeysCommit` is not inductive: Publish copies the body of a staging
account, so its header has to be right, and a commit removes accounts without
lamports, so what the program owns has to be funded. `IndInv` adds that every
account is well formed (`WellFormed`), that the view differs from the ledger
only as the signers permit (`Permitted`), and that committed accounts of the
program have lamports. The proof is per account: one lemma for each processor
(`InitializeStep`, `WriteStep`, `PublishStep`, `CloseStep`), for the system program
(`TransferStep`, `CreateStep`) and for the commit (`CommitStep`) shows that the view
it leaves is well formed and the change permitted; `Permitted` is transitive, so
a whole transaction is permitted. From `Invariance` follow `TypeCorrect`,
`ContentAddressed`, `BlankOrComplete`, `Privacy`, `Permanence` and `Refinement`
(the program implements `KeyRegistry`).

**Registry, the next call.** What a user can count on needs more than `IndInv`:
crediting an account fails when it would overflow a u64, and only the total bounds
each balance. `Balanced` says that the view has the total of the ledger, that this
fits a u64, and that before its first instruction a transaction sees the ledger.
A payment between two accounts and a drain keep the total (`TransferMoves`,
`DrainMoves`), and so does a commit, which removes only accounts without lamports
(`PurgeKeepsTotal`); hence `LamportsBalance`. From `IndInv` and `Balanced` follow
`ProcessorsCheckAll`, `RentReclaimable`, `PublicationOpen` and `LostRaceHarmless`,
each by walking through the checks of the processor in their order.

**Uploader.** Nothing that a client saw need still be true when its transaction
lands, so `UploadInv` says nothing of its progress: what is in flight was built for
some upload, of any age; accounts are as in `IndInv`, rent exempt and with a total
that fits a u64; staging accounts are claimed by their authorities; keys are at
addresses of uploads. Every transaction built for an upload is sound
(`TransactionsSound`): its instructions decode as the program expects, only wallets
sign, and whoever creates a staging account claims it in the next instruction.
`Underway` is the invariant of a sound transaction after each instruction; it allows
a staging account that is created and not yet claimed, only while the claim is next.
`TraceUnderway` is the induction over the transaction, from one lemma about system
instructions and one about the registry's; `LandingKeeps` adds the commit. Hence
`UploadInvariance`, `StagingKept` and, since what one transaction does is a permitted
step, `UploadRefinement`. `NothingMixed` follows from the addresses of the keys.
`AdvertisedKeysVerified` computes what a Verify returns from its builder.
`CompleteUploadsPublish`: `WholeBody` says that the pieces cover the body, so when
none of them would change anything the staging account holds the body; then every
check of `publish` is walked through (`PublishGoesThrough`), the runtime accepts the
result, and `PublicationCommits` shows that each account it touched is rent exempt
or gone.

**KeyValidation.** `LoopInvariant`: all points below `i` decode, `i = 2·adds + 1`.
Then `ValidatesExactly` and `CallsHalved`.

**Verifier.** `VerifyInvariant`, then `BlamesTheProof`, `ChecksFirst` and
`ShortcutsSound`: every statement of the optimised loop is a step of `Groth16` or
none, by the group laws. `VerdictOfEquation` gives the verdict in closed form: along
the plain algorithm what has been added up is the next of the partial sums of
prepare_inputs (`SumInv`), so `VerdictDecided` holds at its end. `CostExact`: by
`CostInv` the calls so far are as many as the terms below `i` that contribute, and as
those of them whose scalar is not 1.

**Sizes.** `ReadInv`: n is what `from_body` made of the bytes held. By division with
remainder (`WholePoints`, `PointsDivide`) a length is accepted exactly if it is that
of the inferred n, so `LengthInference` holds for every size of a point. `LimitTight` adds that more
points take more bytes, so the limit separates what fits an account from what does not.

**Bench.** `BenchInv`: what is recorded for a tag is what the program returns on the
data built from the workload. The parser undoes the builder (`ParseInverse`), hence
`MeasuresItsInput`; `StagesTakeApart` and `CostsAddUp` then compare the stages on one
parsed input.

**Converter.** `AllocationBounded`: `BoundedByInput` for files of any length and
content. `BoundInv` adds that a loop never has more rounds left than elements
allocated (so the room checked before the loop stays enough) and that only the
witness parser is at a witness statement (so the limit on IC points covers every
allocation of the key parser). There is one lemma for reading a point, one for
reading a count under the checks its caller makes, and one per parser.

`NothingUnchecked`: by `ReadInv` every element kept is a point of the group expected
in its place, with all checks made. Each element survives writing and reading;
since the subgroup order is odd, no affine point encodes to zeros and is taken for
the identity. `BodyRebuilt` is the converse: what decodes, encodes to the same
cells.

`OneSpelling`: by `SpelledSoFar` the cells consumed are what gnark writes for the
tokens read, for some choice of raw and compressed points; by `Phase` the statement
that runs tells how much has been read, and a parser that succeeds is at the end of
the file. The heart is a compressed point: because the modulus is odd, y and -y lie
in different halves, so the flag determines the root and the root the flag.

`ConversionFaithful` and `LengthsChecked` are the converse: what the parsers make of a
file that gnark did write. `FileLaid` lays such a file out: a list of tokens in the
order of the artifact, each with its cells, and `Offset(m)`, where the first m end. The
invariant is `OnTrack`: the elements and counts read so far are the first of the
artifact's (`Common`), the position is the offset after them, and a loop has one round
left for every element still to come (`Ahead`). `PointNext`, `CountNext` and
`ScalarNext` each read one token: if the file goes on past its cells the value is the
one written, raw or compressed, and if it was cut before their end the result is
`UnexpectedEof`. `RoomAhead` says that the room a whole file has is enough for its counts.
A parser at the end of all tokens finds the end of the file exactly if nothing was
appended (`AtEnd`), so by `TrackInvariant` each returns one of the verdicts in `Verdict`.
What it converted decodes again by `KeyDecoded` and `ProofDecoded`. Bodies have no end
of their own: `CutBody` shows that the elements of a prefix that decodes are the same
points and the first inputs of the key, and `KeyRebuilt` that its bytes are their body.
`LongerBody` turns this round for a body that goes on; `BodyOfKey` gives the converse,
that the body of such a key is accepted (`BodyRead` keeps what `from_body` answered).

Only model-checked:

- `VerdictCorrect`: only `MCVerifier` knows the discrete logarithms it speaks of. For
  other groups `VerdictDecided`, which is proved, says the same of their own operations
  and pairing product.
- `Terminates`, `AllPublished`, `RentReturns`: liveness is out of the prover's reach.

## 5. Not modelled

- Fees, and the compute meter beyond "may abort at any point".
- Byte encodings of integers, tags and error codes; headers keep their fields and
  order, not their width.
- The curve: which bytes decode, and the pairing, are constants.
- The fixture generator, and `OnChainKey::validate_for_publish` and `hash`, which only
  call what is modelled elsewhere.
- Numeric error codes (`program/src/error.rs`): a fixed table with a test of its own.
- Transaction size and the choice of `chunk`; `write_body` is checked for pieces that
  do and do not divide the body.

## 6. Plan

1. Done: Layout, Runtime, Registry with proofs; KeyRegistry and refinement;
   KeyValidation; Verifier and Groth16.
2. Done: Instructions and Uploader with liveness; Sizes; WireFormat, Converter and
   GnarkFiles; Bench.
3. Done: the theorems of section 4: all safety properties of Registry, KeyValidation,
   Verifier, Sizes, Bench and the converter, but for `VerdictCorrect`.
4. Done: the safety properties of Uploader, and that it implements KeyRegistry.
5. Open: Registry with `ValidateForPublish` given by `KeyValidation`; the byte
   encodings of the account headers.
