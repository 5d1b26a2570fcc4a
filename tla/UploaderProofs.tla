--------------------------- MODULE UploaderProofs ---------------------------
(***************************************************************************)
(* Theorems about Uploader, for every set of clients, uploads and other    *)
(* transactions, every layout and every chunk size.                        *)
(*                                                                         *)
(* A client acts on accounts that may have changed since, and the network  *)
(* may deliver any transaction late or twice.  So the invariant, UploadInv, *)
(* does not say what a client has done: it says that what is in flight was *)
(* built for some upload, and that the accounts are as they should be      *)
(* between transactions.  What makes it inductive is that every transaction *)
(* built for an upload is sound: its instructions are, only wallets sign,  *)
(* and an account created at a staging address is claimed by the next      *)
(* instruction.  Underway says what holds after each instruction of a      *)
(* sound transaction; the facts about one instruction are Registry's.      *)
(*                                                                         *)
(* What a client's own Verify and Publish return is then computed from     *)
(* their builders, the checks of the processors and the invariant.         *)
(***************************************************************************)
EXTENDS Uploader, RegistryProofs

-----------------------------------------------------------------------------
(* What the builders build. *)

(* An upload's fields. *)
LEMMA UploadType ==
    ASSUME NEW u \in Upload
    PROVE  /\ u.authority \in Wallet /\ u.payer \in Wallet /\ u.staging \in Wallet
           /\ u.n \in 0..MAX_PUBLIC_INPUTS /\ u.body \in Seq(Cell)
           /\ u.chunk \in Nat \ {0}
           /\ Len(u.body) = vk_body_len(u.n) /\ u.authority # u.staging
           /\ PdaExists(Sha256(u.body)) /\ KeyOf(u) \in Derived
           /\ KeyOf(u) = KeyAddress(u.body)
           /\ ValidateForPublish(u.body, u.n) = Ok
<1>1. PICK c \in Client : u \in ToSet(Jobs[c])
  BY DEF Upload
<1>2. Jobs[c] \in Seq(ix!Uploads)
  BY UploaderAssumption
<1>3. u \in ix!Uploads
  BY <1>1, <1>2 DEF ToSet
<1>4. KeyOf(u) = KeyAddress(u.body)
  BY DEF KeyOf, ix!find_key_address, ix!vk_hash, KeyAddress,
     ix!FindProgramAddress, FindProgramAddress, ix!CanonicalBump, CanonicalBump,
     ix!IsCanonicalBump, IsCanonicalBump
<1> QED
  BY <1>3, <1>4, UploaderAssumption DEF ix!Uploads

(* The tags that from_u8 reads. *)
LEMMA TagsRead ==
    /\ ix!from_u8(ix!Tag.InitializeStaging) = "InitializeStaging"
    /\ ix!from_u8(ix!Tag.Write) = "Write"
    /\ ix!from_u8(ix!Tag.Publish) = "Publish"
    /\ ix!from_u8(ix!Tag.Verify) = "Verify"
    /\ ix!from_u8(ix!Tag.CloseStaging) = "CloseStaging"
BY DEF ix!from_u8, ix!Tag

(* Metas and data of the shapes that the builders use. *)
LEMMA ShortTuples ==
    ASSUME NEW x, NEW y
    PROVE  /\ Head(<<x, y>>) = x /\ Tail(<<x, y>>) = <<y>>
           /\ Head(<<x>>) = x /\ Tail(<<x>>) = <<>>
OBVIOUS

(* Instructions for the registry, taken apart again. *)
LEMMA CallRead ==
    ASSUME NEW i
    PROVE  /\ ForRegistry(i).tag = ix!from_u8(Head(i.data))
           /\ ForRegistry(i).accounts = Addresses(i)
           /\ ForRegistry(i).payload = Tail(i.data)
BY DEF ForRegistry

(* InitializeStaging. *)
LEMMA InitializeCall ==
    ASSUME NEW u, NEW i, i = ix!initialize_staging(u)
    PROVE  /\ i.program = Program
           /\ ForRegistry(i).tag = "InitializeStaging"
           /\ ForRegistry(i).accounts = <<u.authority, u.staging>>
           /\ ForRegistry(i).payload = <<u.n>>
<1> DEFINE x == ix!new_readonly(u.authority, TRUE)
           y == ix!new(u.staging, FALSE)
           data == <<ix!Tag.InitializeStaging, u.n>>
<1>1. /\ x.address = u.authority
      /\ y.address = u.staging
  BY DEF ix!new, ix!new_readonly
<1>2. Head(data) = ix!Tag.InitializeStaging /\ Tail(data) = <<u.n>>
  BY ShortTuples
<1>3. i = ix!For(Program, <<x, y>>, data)
  BY DEF ix!initialize_staging
<1> HIDE DEF x, y, data
<1>4. i.program = Program /\ i.accounts = <<x, y>> /\ i.data = data
  BY <1>3 DEF ix!For
<1>5. Addresses(i) = <<x.address, y.address>>
  BY <1>4 DEF Addresses
<1>6. Addresses(i) = <<u.authority, u.staging>>
  BY <1>1, <1>5
<1>7. ForRegistry(i).tag = "InitializeStaging" /\ ForRegistry(i).payload = <<u.n>>
  BY <1>2, <1>4, CallRead, TagsRead
<1> QED
  BY <1>4, <1>6, <1>7, CallRead

(* CloseStaging. *)
LEMMA CloseCall ==
    ASSUME NEW u, NEW i, i = ix!close_staging(u)
    PROVE  /\ i.program = Program
           /\ ForRegistry(i).tag = "CloseStaging"
           /\ ForRegistry(i).accounts = <<u.authority, u.staging>>
           /\ ForRegistry(i).payload = <<>>
<1> DEFINE x == ix!new(u.authority, TRUE)
           y == ix!new(u.staging, FALSE)
           data == <<ix!Tag.CloseStaging>>
<1>1. /\ x.address = u.authority
      /\ y.address = u.staging
  BY DEF ix!new, ix!new_readonly
<1>2. Head(data) = ix!Tag.CloseStaging /\ Tail(data) = <<>>
  BY ShortTuples
<1>3. i = ix!For(Program, <<x, y>>, data)
  BY DEF ix!close_staging
<1> HIDE DEF x, y, data
<1>4. i.program = Program /\ i.accounts = <<x, y>> /\ i.data = data
  BY <1>3 DEF ix!For
<1>5. Addresses(i) = <<x.address, y.address>>
  BY <1>4 DEF Addresses
<1>6. Addresses(i) = <<u.authority, u.staging>>
  BY <1>1, <1>5
<1>7. ForRegistry(i).tag = "CloseStaging" /\ ForRegistry(i).payload = <<>>
  BY <1>2, <1>4, CallRead, TagsRead
<1> QED
  BY <1>4, <1>6, <1>7, CallRead

(* Publish. *)
LEMMA PublishCall ==
    ASSUME NEW u, NEW i, i = ix!publish(u)
    PROVE  /\ i.program = Program
           /\ ForRegistry(i).tag = "Publish"
           /\ ForRegistry(i).accounts = <<u.authority, u.payer, u.staging, KeyOf(u), System>>
           /\ ForRegistry(i).payload = <<>>
<1> DEFINE x == ix!new(u.authority, TRUE)
           y == ix!new(u.payer, TRUE)
           z == ix!new(u.staging, FALSE)
           p == ix!new(KeyOf(u), FALSE)
           q == ix!new_readonly(System, FALSE)
           data == <<ix!Tag.Publish>>
<1>1. /\ x.address = u.authority
      /\ y.address = u.payer
      /\ z.address = u.staging
      /\ p.address = KeyOf(u)
      /\ q.address = System
  BY DEF ix!new, ix!new_readonly
<1>2. Head(data) = ix!Tag.Publish /\ Tail(data) = <<>>
  BY ShortTuples
<1>3. i = ix!For(Program, <<x, y, z, p, q>>, data)
  BY DEF ix!publish, KeyOf
<1> HIDE DEF x, y, z, p, q, data
<1>4. i.program = Program /\ i.accounts = <<x, y, z, p, q>> /\ i.data = data
  BY <1>3 DEF ix!For
<1>5. Addresses(i) = <<x.address, y.address, z.address, p.address, q.address>>
  BY <1>4 DEF Addresses
<1>6. Addresses(i) = <<u.authority, u.payer, u.staging, KeyOf(u), System>>
  BY <1>1, <1>5
<1>7. ForRegistry(i).tag = "Publish" /\ ForRegistry(i).payload = <<>>
  BY <1>2, <1>4, CallRead, TagsRead
<1> QED
  BY <1>4, <1>6, <1>7, CallRead

(* Write.  A name for the type of offsets keeps the provers from computing. *)
IsOffset(offset) == offset \in Nat

(* What a Write asks of the registry: its offset, then its bytes. *)
LEMMA WriteCall ==
    ASSUME NEW u, NEW offset, IsOffset(offset), NEW bytes \in Seq(Cell),
           NEW i, i = ix!write(u, offset, bytes)
    PROVE  /\ i.program = Program
           /\ ForRegistry(i).tag = "Write"
           /\ ForRegistry(i).accounts = <<u.authority, u.staging>>
           /\ ForRegistry(i).payload # <<>>
           /\ ForRegistry(i).payload[1] = offset
           /\ Tail(ForRegistry(i).payload) = bytes
<1> DEFINE tag == ix!Tag.Write
           data == <<tag, offset>> \o bytes
           All == Cell \cup Nat
<1>1. tag \in Nat /\ tag \in All /\ offset \in All
  BY DEF ix!Tag, IsOffset
<1> HIDE DEF tag, All
<1>2. <<tag, offset>> \in Seq(All) /\ bytes \in Seq(All)
  BY <1>1 DEF All
<1>3. /\ data \in Seq(All) /\ Len(data) = 2 + Len(bytes)
      /\ data[1] = tag /\ data[2] = offset
      /\ \A k \in 1..Len(bytes) : data[2 + k] = bytes[k]
  BY <1>2, Concatenated
<1> HIDE DEF data
<1>4. /\ Head(data) = tag /\ Tail(data) \in Seq(All)
      /\ Len(Tail(data)) = 1 + Len(bytes)
      /\ \A k \in 1..1 + Len(bytes) : Tail(data)[k] = data[k + 1]
  BY <1>2, <1>3
<1> DEFINE payload == Tail(data)
           rest == Tail(payload)
<1>15. Len(bytes) \in Nat /\ 1 \in 1..1 + Len(bytes) /\ 1 + 1 = 2
  BY <1>2
<1>16. payload[1] = data[2] /\ Len(payload) # 0
  BY <1>4, <1>15
<1> HIDE DEF payload
<1>5. payload # <<>> /\ payload[1] = offset
  BY <1>3, <1>16
<1>6. /\ payload \in Seq(All) /\ Len(payload) = 1 + Len(bytes)
      /\ \A k \in 1..Len(bytes) : payload[k + 1] = bytes[k]
  <2>1. \A k \in 1..Len(bytes) : k + 1 \in 1..1 + Len(bytes) /\ (k + 1) + 1 = 2 + k
    BY <1>2
  <2> QED
    BY <1>3, <1>4, <2>1 DEF payload
<1>7. rest \in Seq(All) /\ Len(rest) = Len(bytes)
      /\ \A k \in 1..Len(bytes) : rest[k] = bytes[k]
  BY <1>2, <1>5, <1>6
<1> HIDE DEF rest
<1>8. rest = bytes
  BY <1>2, <1>7, SeqEqual
<1> DEFINE x == ix!new_readonly(u.authority, TRUE)
           y == ix!new(u.staging, FALSE)
<1>9. i = ix!For(Program, <<x, y>>, data)
  BY DEF ix!write, data, tag
<1>10. x.address = u.authority /\ y.address = u.staging
  BY DEF ix!new, ix!new_readonly
<1> HIDE DEF x, y
<1>11. i.program = Program /\ i.accounts = <<x, y>> /\ i.data = data
  BY <1>9 DEF ix!For
<1>12. Addresses(i) = <<x.address, y.address>>
  BY <1>11 DEF Addresses
<1>13. Addresses(i) = <<u.authority, u.staging>>
  BY <1>10, <1>12
<1>14. ForRegistry(i).tag = "Write" /\ ForRegistry(i).payload = payload
  BY <1>4, <1>11, CallRead, TagsRead DEF payload, tag
<1> QED
  BY <1>5, <1>8, <1>11, <1>13, <1>14, CallRead DEF rest

-----------------------------------------------------------------------------
(* Client transactions are made of sound instructions. *)

(* A sound instruction for the registry. *)
LEMMA SoundCall ==
    ASSUME NEW i, i.program = Program, WellTyped(ForRegistry(i)),
           ForRegistry(i).tag = "Publish" =>
               Accounts(ForRegistry(i))[4] \in {KeyOf(u) : u \in Upload}
    PROVE  Sound(i)
<1>1. i.program # System
  BY RuntimeAssumption
<1> QED
  BY <1>1 DEF Sound

(* Pieces of c cells that cover len cells: none starts behind the end, and
   every cell is in one. *)
LEMMA PiecesCover ==
    ASSUME NEW len \in Nat, NEW c \in Nat \ {0},
           NEW q, q = (len + c - 1) \div c
    PROVE  /\ q \in Nat
           /\ \A k \in 1..q : (k - 1) * c \in Nat /\ (k - 1) * c < len
           /\ \A j \in 1..len : \E k \in 1..q :
                (k - 1) * c < j /\ j <= (k - 1) * c + c
<1>1. len + c - 1 \in Nat /\ len + c - 1 < q * c + c /\ q * c <= len + c - 1 /\ q \in Nat
  <2>1. len + c - 1 \in Nat
    OBVIOUS
  <2> DEFINE a == len + c - 1
  <2> HIDE DEF a
  <2>2. a \in Nat => /\ a % c \in Nat /\ a % c < c /\ a = c * (a \div c) + (a % c)
                     /\ a \div c \in Nat
    OBVIOUS
  <2>3. c * (a \div c) = (a \div c) * c
    BY <2>1, <2>2 DEF a
  <2> QED
    BY <2>1, <2>2, <2>3 DEF a
<1>2. ASSUME NEW k \in 1..q
      PROVE  (k - 1) * c \in Nat /\ (k - 1) * c < len
  <2>1. k * c <= q * c /\ (k - 1) * c = k * c - c /\ k - 1 \in Nat
    BY <1>1
  <2>2. (k - 1) * c \in Nat
    BY <2>1
  <2> QED
    BY <1>1, <2>1, <2>2
<1>3. ASSUME NEW j \in 1..len
      PROVE  \E k \in 1..q : (k - 1) * c < j /\ j <= (k - 1) * c + c
  <2> DEFINE p == (j - 1) \div c
  <2>1. p \in Nat /\ p * c <= j - 1 /\ j - 1 < p * c + c
    <3> DEFINE a == j - 1
    <3>1. a \in Nat
      OBVIOUS
    <3> HIDE DEF a
    <3>2. /\ a % c \in Nat /\ a % c < c /\ a = c * (a \div c) + (a % c)
          /\ a \div c \in Nat
      BY <3>1
    <3>3. c * (a \div c) = (a \div c) * c
      BY <3>1, <3>2
    <3> QED
      BY <3>1, <3>2, <3>3 DEF a
  <2> HIDE DEF p
  <2>2. p * c < q * c
    <3>1. q * c \in Nat /\ p * c \in Nat
      BY <1>1, <2>1
    <3> QED
      BY <1>1, <2>1, <3>1
  <2>3. p < q
    BY <1>1, <2>1, <2>2
  <2>4. p + 1 \in 1..q /\ (p + 1) - 1 = p
    BY <1>1, <2>1, <2>3
  <2>5. p * c \in Nat
    BY <2>1
  <2> DEFINE k == p + 1
  <2>6. k - 1 = p /\ k \in 1..q
    BY <2>4
  <2> HIDE DEF k
  <2>7. (k - 1) * c < j /\ j <= (k - 1) * c + c
    <3> DEFINE before == p * c
    <3>1. before \in Nat /\ before <= j - 1 /\ j - 1 < before + c
      BY <2>1, <2>5
    <3> HIDE DEF before
    <3>2. before < j /\ j <= before + c
      BY <3>1
    <3> QED
      BY <2>6, <3>2 DEF before
  <2>8. k \in 1..q
    BY <2>6
  <2> QED
    BY <2>7, <2>8, Zenon
<1> QED
  BY <1>1, <1>2, <1>3

(* The pieces of a body. *)
LEMMA PieceCells ==
    ASSUME NEW u \in Upload, NEW k \in 1..ix!Pieces(u),
           NEW offset, offset = (k - 1) * u.chunk,
           NEW bytes, bytes = ix!Piece(u, k - 1)
    PROVE  /\ offset \in Nat
           /\ bytes \in Seq(Cell)
           /\ offset + Len(bytes) <= Len(u.body)
           /\ \A j \in 1..Len(bytes) : bytes[j] = u.body[offset + j]
           /\ \A j \in 1..Len(u.body) :
                offset < j /\ j <= offset + u.chunk => j - offset \in 1..Len(bytes)
<1> DEFINE len == Len(u.body)
           c == u.chunk
           end == IF offset + c < len THEN offset + c ELSE len
<1>1. u.body \in Seq(Cell) /\ len \in Nat /\ c \in Nat \ {0}
  BY UploadType
<1>2. ix!Pieces(u) = (len + c - 1) \div c
  BY DEF ix!Pieces
<1>3. bytes = SubSeq(u.body, offset + 1, end)
  BY DEF ix!Piece
<1>4. \A i \in 1..len : u.body[i] \in Cell
  BY <1>1
<1> HIDE DEF len, c
<1>5. offset \in Nat /\ offset < len
  BY <1>1, <1>2, PiecesCover DEF c
<1>6. /\ end \in Nat /\ offset + 1 <= end /\ end <= len
      /\ end = offset + c \/ end = len
      /\ end <= offset + c
  BY <1>1, <1>5
<1> HIDE DEF end
<1>7. /\ offset + 1 \in Int /\ end \in Int
      /\ \A i \in (offset + 1)..end : u.body[i] \in Cell
  BY <1>1, <1>4, <1>5, <1>6
<1>8. /\ bytes \in Seq(Cell) /\ Len(bytes) = end - (offset + 1) + 1
      /\ \A j \in 1..end - (offset + 1) + 1 : bytes[j] = u.body[(offset + 1) + j - 1]
  <2> DEFINE s == u.body
             first == offset + 1
             piece == SubSeq(s, first, end)
  <2>1. first \in Int /\ end \in Int /\ \A i \in first..end : s[i] \in Cell
    BY <1>7
  <2>2. first <= end /\ bytes = piece
    BY <1>3, <1>6
  <2> HIDE DEF s, first
  <2>3. /\ piece \in Seq(Cell)
        /\ Len(piece) = IF first <= end THEN end - first + 1 ELSE 0
        /\ \A j \in 1..end - first + 1 : piece[j] = s[first + j - 1]
    BY <2>1, SubSeqProperties
  <2> HIDE DEF piece
  <2>4. /\ bytes \in Seq(Cell) /\ Len(bytes) = end - first + 1
        /\ \A j \in 1..end - first + 1 : bytes[j] = s[first + j - 1]
    BY <2>2, <2>3
  <2> QED
    BY <2>4 DEF first, s
<1>9. Len(bytes) = end - offset
  BY <1>5, <1>6, <1>8
<1>10. \A j \in 1..Len(bytes) : bytes[j] = u.body[offset + j]
  <2>1. \A j \in 1..Len(bytes) : /\ j \in 1..end - (offset + 1) + 1
                                 /\ (offset + 1) + j - 1 = offset + j
    BY <1>5, <1>6, <1>9
  <2> QED
    BY <1>8, <2>1
<1>11. \A j \in 1..len :
         offset < j /\ j <= offset + c => j - offset \in 1..Len(bytes)
  BY <1>1, <1>5, <1>6, <1>9
<1>12. offset + Len(bytes) <= len
  BY <1>1, <1>5, <1>6, <1>9
<1> QED
  BY <1>5, <1>8, <1>10, <1>11, <1>12 DEF len, c

(* What write_body, create_staging, publish and close_staging consist of. *)
LEMMA WritesSound ==
    ASSUME NEW u \in Upload, NEW k \in 1..ix!Pieces(u), NEW i,
           i = ix!write(u, (k - 1) * u.chunk, ix!Piece(u, k - 1))
    PROVE  Sound(i) /\ i.program # System
<1> DEFINE offset == (k - 1) * u.chunk
           bytes == ix!Piece(u, k - 1)
           call == ForRegistry(i)
<1>1. offset \in Nat /\ bytes \in Seq(Cell) /\ IsOffset(offset)
  BY PieceCells DEF IsOffset
<1>2. i = ix!write(u, offset, bytes)
  OBVIOUS
<1> HIDE DEF offset, bytes
<1>7. IsOffset(offset) /\ bytes \in Seq(Cell)
  BY <1>1
<1>6. /\ i.program = Program
      /\ ForRegistry(i).tag = "Write"
      /\ ForRegistry(i).accounts = <<u.authority, u.staging>>
      /\ ForRegistry(i).payload # <<>>
      /\ ForRegistry(i).payload[1] = offset
      /\ Tail(ForRegistry(i).payload) = bytes
  BY <1>2, <1>7, WriteCall
<1>3. /\ i.program = Program /\ call.tag = "Write"
      /\ call.accounts = <<u.authority, u.staging>>
      /\ call.payload # <<>> /\ call.payload[1] = offset
      /\ Tail(call.payload) = bytes
  BY <1>6
<1> HIDE DEF call
<1>4. <<u.authority, u.staging>> \in Seq(Address)
  BY UploadType DEF Address
<1>5. WellTyped(call) /\ call.tag # "Publish"
  BY <1>1, <1>3, <1>4 DEF WellTyped
<1> QED
  BY <1>3, <1>5, SoundCall, RuntimeAssumption DEF call

(* Initializing is sound. *)
LEMMA InitializeSound ==
    ASSUME NEW u \in Upload, NEW i, i = ix!initialize_staging(u)
    PROVE  Sound(i) /\ i.program # System
<1> DEFINE call == ForRegistry(i)
<1>1. /\ i.program = Program /\ call.tag = "InitializeStaging"
      /\ call.accounts = <<u.authority, u.staging>>
      /\ call.payload = <<u.n>>
  BY InitializeCall
<1> HIDE DEF call
<1>2. <<u.authority, u.staging>> \in Seq(Address) /\ u.n \in Nat
  BY UploadType, LayoutAssumption DEF Address
<1>3. Tail(<<u.n>>) = <<>> /\ <<u.n>>[1] = u.n
  BY ShortTuples
<1>4. WellTyped(call) /\ call.tag # "Publish"
  BY <1>1, <1>2, <1>3 DEF WellTyped
<1> QED
  BY <1>1, <1>4, SoundCall, RuntimeAssumption DEF call

(* Closing is sound. *)
LEMMA CloseSound ==
    ASSUME NEW u \in Upload, NEW i, i = ix!close_staging(u)
    PROVE  Sound(i) /\ i.program # System
<1> DEFINE call == ForRegistry(i)
<1>1. /\ i.program = Program /\ call.tag = "CloseStaging"
      /\ call.accounts = <<u.authority, u.staging>>
      /\ call.payload = <<>>
  BY CloseCall
<1> HIDE DEF call
<1>2. <<u.authority, u.staging>> \in Seq(Address)
  BY UploadType DEF Address
<1>3. WellTyped(call) /\ call.tag # "Publish"
  BY <1>1, <1>2 DEF WellTyped
<1> QED
  BY <1>1, <1>3, SoundCall, RuntimeAssumption DEF call

(* Publishing is sound: the key goes to the address of an upload. *)
LEMMA PublishSound ==
    ASSUME NEW u \in Upload, NEW i, i = ix!publish(u)
    PROVE  Sound(i) /\ i.program # System
<1> DEFINE call == ForRegistry(i)
           accounts == <<u.authority, u.payer, u.staging, KeyOf(u), System>>
<1>1. /\ i.program = Program /\ call.tag = "Publish"
      /\ call.accounts = accounts /\ call.payload = <<>>
  BY PublishCall
<1>2. accounts \in Seq(Address) /\ Len(accounts) <= 5 /\ accounts[4] = KeyOf(u)
  BY UploadType DEF Address
<1> HIDE DEF call, accounts
<1>3. Accounts(call) = accounts
  BY <1>1, <1>2, AccountsOfShort
<1>4. WellTyped(call)
  BY <1>1, <1>2 DEF WellTyped
<1>5. Accounts(call)[4] \in {KeyOf(w) : w \in Upload}
  BY <1>2, <1>3
<1> QED
  BY <1>1, <1>4, <1>5, SoundCall, RuntimeAssumption DEF call

(* Creating a staging account is sound. *)
LEMMA CreateSound ==
    ASSUME NEW u \in Upload, NEW i, i = ix!SystemCreate(u)
    PROVE  /\ Sound(i) /\ i.program = System
           /\ Addresses(i) = <<u.payer, u.staging>>
<1> DEFINE x == ix!new(u.payer, TRUE)
           y == ix!new(u.staging, TRUE)
           space == staging_account_len(u.n)
           data == <<0, MinimumBalance(space), space, Program>>
<1>1. i = ix!For(System, <<x, y>>, data)
  BY DEF ix!SystemCreate, ix!staging_account_len, staging_account_len,
     ix!vk_body_len, vk_body_len, ix!STAGING_HEADER_LEN, STAGING_HEADER_LEN
<1>2. x.address = u.payer /\ y.address = u.staging
  BY DEF ix!new
<1>3. u.n \in 0..MAX_PUBLIC_INPUTS
  BY UploadType
<1>4. MinimumBalance(space) \in Nat
  BY <1>3, UploaderAssumption
<1>5. space \in Nat
  <2>1. u.n \in Nat /\ G1_SIZE \in Nat /\ VK_FIXED_SIZE \in Nat
    BY <1>3, LayoutAssumption
  <2>2. G1_SIZE * (u.n + 1) \in Nat
    BY <2>1
  <2> QED
    BY <2>1, <2>2 DEF staging_account_len, vk_body_len, STAGING_HEADER_LEN
<1> HIDE DEF x, y, space
<1>6. data \in {0} \X Nat \X Nat \X {Program}
  BY <1>4, <1>5
<1> HIDE DEF data
<1>7. i.program = System /\ i.accounts = <<x, y>> /\ i.data = data
  BY <1>1 DEF ix!For
<1>8. Addresses(i) = <<x.address, y.address>>
  BY <1>7 DEF Addresses
<1>9. Addresses(i) = <<u.payer, u.staging>>
  BY <1>2, <1>8
<1>10. <<u.payer, u.staging>> \in Seq(Address) /\ Len(<<u.payer, u.staging>>) = 2
  BY UploadType DEF Address
<1> QED
  BY <1>6, <1>7, <1>9, <1>10 DEF Sound

(* Everybody who signs for what a builder builds is a wallet. *)
WalletsSign(i) == \A m \in ToSet(i.accounts) : m.signer => m.address \in Wallet

(* An instruction with two accounts. *)
LEMMA TwoSigners ==
    ASSUME NEW i, NEW x, NEW y, i.accounts = <<x, y>>,
           x.signer => x.address \in Wallet, y.signer => y.address \in Wallet
    PROVE  WalletsSign(i)
<1>1. ToSet(<<x, y>>) = {x, y}
  BY DEF ToSet
<1> QED
  BY <1>1 DEF WalletsSign

(* The builders with two accounts ask only wallets to sign. *)
LEMMA BuildersSigners ==
    ASSUME NEW u \in Upload, NEW i,
           \/ i = ix!initialize_staging(u)
           \/ i = ix!close_staging(u)
           \/ i = ix!SystemCreate(u)
           \/ \E offset, bytes : i = ix!write(u, offset, bytes)
    PROVE  WalletsSign(i)
<1> DEFINE x1 == ix!new_readonly(u.authority, TRUE)
           x2 == ix!new(u.authority, TRUE)
           x3 == ix!new(u.payer, TRUE)
           y1 == ix!new(u.staging, FALSE)
           y2 == ix!new(u.staging, TRUE)
<1>1. \/ i.accounts = <<x1, y1>> \/ i.accounts = <<x2, y1>> \/ i.accounts = <<x3, y2>>
  <2>1. CASE i = ix!initialize_staging(u)
    BY <2>1 DEF ix!initialize_staging, ix!For
  <2>2. CASE i = ix!close_staging(u)
    BY <2>2 DEF ix!close_staging, ix!For
  <2>3. CASE i = ix!SystemCreate(u)
    BY <2>3 DEF ix!SystemCreate, ix!For
  <2>4. CASE \E offset, bytes : i = ix!write(u, offset, bytes)
    <3>1. PICK offset, bytes : i = ix!write(u, offset, bytes)
      BY <2>4
    <3> QED
      BY <3>1 DEF ix!write, ix!For
  <2> QED
    BY <2>1, <2>2, <2>3, <2>4
<1>2. /\ x1.address \in Wallet /\ x2.address \in Wallet /\ x3.address \in Wallet
      /\ y1.address \in Wallet /\ y2.address \in Wallet
  BY UploadType DEF ix!new, ix!new_readonly
<1> HIDE DEF x1, x2, x3, y1, y2
<1> QED
  BY <1>1, <1>2, TwoSigners

(* The header of a Publish. *)
LEMMA PublishHeader ==
    ASSUME NEW u \in Upload, NEW i, i = ix!publish(u)
    PROVE  /\ WalletsSign(i)
           /\ {u.authority, u.payer} \subseteq HeaderFor(<<i>>).signers
           /\ HeaderFor(<<i>>).readonly = {System}
<1> DEFINE x == ix!new(u.authority, TRUE)
           y == ix!new(u.payer, TRUE)
           z == ix!new(u.staging, FALSE)
           p == ix!new(KeyOf(u), FALSE)
           q == ix!new_readonly(System, FALSE)
<1>1. i.accounts = <<x, y, z, p, q>>
  BY DEF ix!publish, ix!For, KeyOf
<1>2. /\ x.address = u.authority /\ x.signer /\ x.writable
      /\ y.address = u.payer /\ y.signer /\ y.writable
      /\ z.address = u.staging /\ ~z.signer /\ z.writable
      /\ p.address = KeyOf(u) /\ ~p.signer /\ p.writable
      /\ q.address = System /\ ~q.signer /\ ~q.writable
  BY DEF ix!new, ix!new_readonly
<1>3. u.authority \in Wallet /\ u.payer \in Wallet /\ u.staging \in Wallet
      /\ KeyOf(u) \in Derived
  BY UploadType
<1> HIDE DEF x, y, z, p, q
<1>4. ToSet(i.accounts) = {x, y, z, p, q}
  BY <1>1 DEF ToSet
<1>5. Metas(<<i>>) = {x, y, z, p, q}
  <2>1. Metas(<<i>>) = ToSet(i.accounts)
    BY DEF Metas
  <2> QED
    BY <1>4, <2>1
<1>6. WalletsSign(i)
  BY <1>2, <1>3, <1>4 DEF WalletsSign
<1>7. {u.authority, u.payer} \subseteq HeaderFor(<<i>>).signers
  BY <1>2, <1>5 DEF HeaderFor
<1>8. HeaderFor(<<i>>).readonly = {System}
  <2>1. {m.address : m \in {x, y, z, p, q}}
          = {u.authority, u.payer, u.staging, KeyOf(u), System}
    BY <1>2
  <2>2. {m.address : m \in {m \in {x, y, z, p, q} : m.writable}}
          = {u.authority, u.payer, u.staging, KeyOf(u)}
    BY <1>2
  <2>3. System \notin {u.authority, u.payer, u.staging, KeyOf(u)}
    BY <1>3, RuntimeAssumption
  <2> QED
    BY <1>5, <2>1, <2>2, <2>3 DEF HeaderFor
<1> QED
  BY <1>6, <1>7, <1>8

-----------------------------------------------------------------------------
(* Whole transactions.  Every one that lands is sound: sound instructions, a
   header of wallets, and whoever creates a staging account claims it in the
   next instruction. *)
Creates(i, a) == i.program = System /\ i.data[1] = 0 /\ Addresses(i)[2] = a

Claims(i, u) ==
    /\ i.program # System
    /\ ForRegistry(i).tag = "InitializeStaging"
    /\ ForRegistry(i).accounts = <<u.authority, u.staging>>

CreatesAndClaims(t, k) ==
    \A u \in Upload :
        Creates(t[k], u.staging) /\ u.staging \in HeaderFor(t).signers
            => k + 1 \in 1..Len(t) /\ Claims(t[k + 1], u)

SoundTransaction(t) ==
    /\ Len(t) \in Nat /\ DOMAIN t = 1..Len(t)
    /\ HeaderFor(t).signers \subseteq Wallet
    /\ \A k \in 1..Len(t) : Sound(t[k]) /\ CreatesAndClaims(t, k)

(* Instructions by which nobody signs but wallets make such a header. *)
LEMMA HeaderOfWallets ==
    ASSUME NEW t, \A k \in DOMAIN t : WalletsSign(t[k])
    PROVE  HeaderFor(t).signers \subseteq Wallet
<1> SUFFICES ASSUME NEW m \in Metas(t), m.signer
             PROVE  m.address \in Wallet
  BY DEF HeaderFor
<1>1. PICK k \in DOMAIN t : m \in ToSet(t[k].accounts)
  BY DEF Metas
<1> QED
  BY <1>1 DEF WalletsSign

(* A transaction of a single registry instruction. *)
LEMMA OneInstruction ==
    ASSUME NEW i, Sound(i), WalletsSign(i), i.program # System
    PROVE  SoundTransaction(<<i>>)
<1> DEFINE t == <<i>>
<1>1. Len(t) = 1 /\ DOMAIN t = 1..1 /\ t[1] = i /\ \A k \in 1..1 : k = 1
  OBVIOUS
<1> HIDE DEF t
<1>2. HeaderFor(t).signers \subseteq Wallet
  BY <1>1, HeaderOfWallets
<1>3. \A k \in 1..1 : CreatesAndClaims(t, k)
  BY <1>1 DEF CreatesAndClaims, Creates
<1>4. SoundTransaction(t)
  BY <1>1, <1>2, <1>3 DEF SoundTransaction
<1> QED
  BY <1>4 DEF t

(* Creating and claiming a staging account, and what may follow it. *)
LEMMA CreateThenClaim ==
    ASSUME NEW u \in Upload, NEW t, Len(t) \in Nat, Len(t) >= 2,
           DOMAIN t = 1..Len(t),
           t[1] = ix!SystemCreate(u), t[2] = ix!initialize_staging(u),
           \A k \in 3..Len(t) :
               Sound(t[k]) /\ WalletsSign(t[k]) /\ t[k].program # System
    PROVE  SoundTransaction(t)
<1>1. /\ Sound(t[1]) /\ t[1].program = System
      /\ Addresses(t[1]) = <<u.payer, u.staging>> /\ WalletsSign(t[1])
  BY CreateSound, BuildersSigners
<1>2. Sound(t[2]) /\ t[2].program # System /\ WalletsSign(t[2])
  BY InitializeSound, BuildersSigners
<1>3. 1 \in 1..Len(t) /\ 1 + 1 \in 1..Len(t) /\ 1 + 1 = 2
      /\ \A k \in 1..Len(t) : k = 1 \/ k = 2 \/ k \in 3..Len(t)
  OBVIOUS
<1>4. \A k \in 1..Len(t) : Sound(t[k]) /\ WalletsSign(t[k])
                           /\ (k # 1 => t[k].program # System)
  BY <1>1, <1>2, <1>3
<1>5. HeaderFor(t).signers \subseteq Wallet
  BY <1>4, HeaderOfWallets
<1>6. ForRegistry(t[2]).tag = "InitializeStaging"
      /\ ForRegistry(t[2]).accounts = <<u.authority, u.staging>>
  BY InitializeCall
<1>7. CreatesAndClaims(t, 1)
  <2> SUFFICES ASSUME NEW w \in Upload, Creates(t[1], w.staging)
               PROVE  Claims(t[2], w)
    BY <1>3 DEF CreatesAndClaims
  <2>1. w.staging = u.staging
    BY <1>1 DEF Creates
  <2>2. w.authority = u.authority
    BY <2>1, UploaderAssumption
  <2> QED
    BY <1>2, <1>6, <2>1, <2>2 DEF Claims
<1>8. ASSUME NEW k \in 1..Len(t)
      PROVE  CreatesAndClaims(t, k)
  <2>1. CASE k = 1
    BY <1>7, <2>1
  <2>2. CASE k # 1
    BY <1>4, <2>2 DEF CreatesAndClaims, Creates
  <2> QED
    BY <2>1, <2>2
<1> QED
  BY <1>4, <1>5, <1>8 DEF SoundTransaction

(* create_staging is one transaction: SetToSeq of it is that one. *)
LEMMA SingleToSeq ==
    ASSUME NEW x
    PROVE  SetToSeq({x}) = <<x>>
<1>1. Cardinality({x}) = 1
  BY FS_Singleton
<1> DEFINE f == <<x>>
<1>2. f \in [1..1 -> {x}] /\ IsInjective(f)
  BY DEF IsInjective
<1>3. \A g \in [1..1 -> {x}] : g = f
  OBVIOUS
<1> HIDE DEF f
<1>4. SetToSeq({x}) = CHOOSE g \in [1..1 -> {x}] : IsInjective(g)
  BY <1>1 DEF SetToSeq
<1>5. SetToSeq({x}) \in [1..1 -> {x}]
  BY <1>2, <1>4
<1> QED
  BY <1>3, <1>5 DEF f

(* A sequence of one sequence, flattened. *)
LEMMA FlattenSingle ==
    ASSUME NEW S, NEW s \in Seq(S)
    PROVE  FlattenSeq(<<s>>) = s
<1>1. FlattenSeq(<<>>) = <<>>
  BY DEF FlattenSeq
<1>2. <<>> \in Seq(Seq(S)) /\ <<>> \in Seq(S) /\ Append(<<>>, s) = <<s>> /\ <<>> \o s = s
  OBVIOUS
<1> DEFINE none == <<>>
<1>3. none \in Seq(Seq(S)) /\ FlattenSeq(none) \in Seq(S)
  BY <1>1, <1>2
<1>4. FlattenSeq(Append(none, s)) = FlattenSeq(none) \o s
  BY <1>3, FlattenAppend
<1> QED
  BY <1>1, <1>2, <1>4

(* The instructions of write_body. *)
LEMMA WriteBody ==
    ASSUME NEW u \in Upload
    PROVE  /\ ix!Pieces(u) \in Nat
           /\ Len(ix!write_body(u)) = ix!Pieces(u)
           /\ DOMAIN ix!write_body(u) = 1..ix!Pieces(u)
           /\ ix!write_body(u) \in Seq(ToSet(ix!write_body(u)))
           /\ ToSet(ix!write_body(u)) = {ix!write_body(u)[k] : k \in 1..ix!Pieces(u)}
           /\ \A k \in 1..ix!Pieces(u) : ix!write_body(u)[k]
                = ix!write(u, (k - 1) * u.chunk, ix!Piece(u, k - 1))
           /\ \A i \in ToSet(ix!write_body(u)) :
                Sound(i) /\ WalletsSign(i) /\ i.program # System
<1> DEFINE body == ix!write_body(u)
           n == ix!Pieces(u)
           Sent(k) == ix!write(u, (k - 1) * u.chunk, ix!Piece(u, k - 1))
<1>1. n \in Nat
  <2> DEFINE len == Len(u.body)
             c == u.chunk
  <2>1. len \in Nat /\ c \in Nat \ {0} /\ n = (len + c - 1) \div c
    BY UploadType DEF ix!Pieces
  <2> HIDE DEF len, c, n
  <2> QED
    BY <2>1, PiecesCover
<1>2. body = [k \in 1..n |-> Sent(k)]
  BY DEF ix!write_body
<1> HIDE DEF n, body, Sent
<1>3. /\ DOMAIN body = 1..n /\ ToSet(body) = {body[k] : k \in 1..n}
      /\ \A k \in 1..n : body[k] = Sent(k) /\ body[k] \in ToSet(body)
  BY <1>2 DEF ToSet
<1>4. body \in Seq(ToSet(body)) /\ Len(body) = n
  BY <1>1, <1>2, <1>3
<1>5. \A k \in 1..n : Sent(k) = ix!write(u, (k - 1) * u.chunk, ix!Piece(u, k - 1))
  BY DEF Sent
<1>6. ASSUME NEW i \in ToSet(body)
      PROVE  Sound(i) /\ WalletsSign(i) /\ i.program # System
  <2>1. PICK k \in 1..n :
          i = ix!write(u, (k - 1) * u.chunk, ix!Piece(u, k - 1))
    BY <1>3, <1>5
  <2>2. \E offset, bytes : i = ix!write(u, offset, bytes)
    BY <2>1
  <2>3. k \in 1..ix!Pieces(u)
    BY DEF n
  <2>4. Sound(i) /\ i.program # System
    BY <2>1, <2>3, WritesSound
  <2> QED
    BY <2>2, <2>4, BuildersSigners
<1> QED
  BY <1>1, <1>3, <1>4, <1>5, <1>6 DEF n, body

(* A whole registration. *)
LEMMA RegistrationSound ==
    ASSUME NEW u \in Upload
    PROVE  SoundTransaction(Registration(u))
<1> DEFINE create == ix!SystemCreate(u)
           claim == ix!initialize_staging(u)
           writes == ix!write_body(u)
           publish_ == ix!publish(u)
           first == <<create, claim>>
           last == <<publish_>>
           All == {create, claim, publish_} \cup ToSet(writes)
           t == (first \o writes) \o last
<1>1. Registration(u) = t
  <2>1. ix!create_staging(u) = {first}
    BY DEF ix!create_staging
  <2>2. first \in Seq({create, claim})
    OBVIOUS
  <2> HIDE DEF first
  <2>3. FlattenSeq(SetToSeq({first})) = first
    BY <2>2, SingleToSeq, FlattenSingle
  <2> QED
    BY <2>1, <2>3 DEF Registration
<1>2. /\ writes \in Seq(ToSet(writes))
      /\ \A i \in ToSet(writes) : Sound(i) /\ WalletsSign(i) /\ i.program # System
  BY WriteBody
<1>3. Sound(publish_) /\ WalletsSign(publish_) /\ publish_.program # System
  BY PublishSound, PublishHeader
<1> HIDE DEF create, claim, writes, publish_
<1>4. first \in Seq(All) /\ writes \in Seq(All) /\ last \in Seq(All)
      /\ Len(first) = 2 /\ first[1] = create /\ first[2] = claim
      /\ Len(last) = 1 /\ last[1] = publish_
  BY <1>2
<1> HIDE DEF first, last, All
<1>5. /\ first \o writes \in Seq(All)
      /\ Len(first \o writes) = 2 + Len(writes)
      /\ (first \o writes)[1] = create /\ (first \o writes)[2] = claim
      /\ \A k \in 1..Len(writes) : (first \o writes)[2 + k] = writes[k]
  <2>1. /\ first \o writes \in Seq(All)
        /\ Len(first \o writes) = Len(first) + Len(writes)
        /\ \A k \in 1..Len(first) : (first \o writes)[k] = first[k]
        /\ \A k \in 1..Len(writes) : (first \o writes)[Len(first) + k] = writes[k]
    <3>1. first \in Seq(All) /\ writes \in Seq(All)
      BY <1>4
    <3> QED
      BY <3>1, Concatenated
  <2>2. 1 \in 1..2 /\ 2 \in 1..2
    OBVIOUS
  <2> QED
    BY <1>4, <2>1, <2>2
<1> DEFINE front == first \o writes
<1> HIDE DEF front
<1>6. /\ front \in Seq(All) /\ Len(front) = 2 + Len(writes)
      /\ front[1] = create /\ front[2] = claim
      /\ \A k \in 1..Len(writes) : front[2 + k] = writes[k]
  BY <1>5 DEF front
<1>7. /\ t \in Seq(All) /\ Len(t) = Len(front) + 1
      /\ \A k \in 1..Len(front) : t[k] = front[k]
      /\ t[Len(front) + 1] = publish_
  <2>1. t = front \o last
    BY DEF front
  <2>2. /\ front \o last \in Seq(All)
        /\ Len(front \o last) = Len(front) + Len(last)
        /\ \A k \in 1..Len(front) : (front \o last)[k] = front[k]
        /\ \A k \in 1..Len(last) : (front \o last)[Len(front) + k] = last[k]
    <3>1. front \in Seq(All) /\ last \in Seq(All)
      BY <1>4, <1>6
    <3> QED
      BY <3>1, Concatenated
  <2>3. 1 \in 1..1
    OBVIOUS
  <2> QED
    BY <1>4, <2>1, <2>2, <2>3
<1> HIDE DEF t
<1>8. Len(writes) \in Nat /\ Len(t) = 3 + Len(writes) /\ DOMAIN t = 1..Len(t)
  BY <1>4, <1>6, <1>7
<1>9. t[1] = create /\ t[2] = claim
  BY <1>6, <1>7, <1>8
<1>10. ASSUME NEW k \in 3..Len(t)
       PROVE  Sound(t[k]) /\ WalletsSign(t[k]) /\ t[k].program # System
  <2>1. CASE k = Len(t)
    BY <1>3, <1>6, <1>7, <1>8, <2>1
  <2>2. CASE k # Len(t)
    <3> DEFINE j == k - 2
    <3>1. j \in 1..Len(writes) /\ 2 + j = k /\ k \in 1..Len(front)
      BY <1>6, <1>8, <2>2
    <3> HIDE DEF j
    <3>2. t[k] = writes[j]
      BY <1>6, <1>7, <3>1
    <3>3. writes[j] \in ToSet(writes)
      BY <1>2, <3>1
    <3> QED
      BY <1>2, <3>2, <3>3
  <2> QED
    BY <2>1, <2>2
<1>11. SoundTransaction(t)
  BY <1>8, <1>9, <1>10, CreateThenClaim DEF create, claim
<1> QED
  BY <1>1, <1>11

(* Everything that a client submits for an upload, and everything that others
   land. *)
LEMMA TransactionsSound ==
    ASSUME NEW u \in Upload, NEW t \in Transactions(u)
    PROVE  SoundTransaction(t)
<1>1. CASE t = Registration(u)
  BY <1>1, RegistrationSound
<1>2. CASE t = <<ix!publish(u)>>
  <2> DEFINE i == ix!publish(u)
  <2>1. Sound(i) /\ WalletsSign(i) /\ i.program # System
    BY PublishSound, PublishHeader
  <2> HIDE DEF i
  <2>2. SoundTransaction(<<i>>)
    BY <2>1, OneInstruction
  <2> QED
    BY <1>2, <2>2 DEF i
<1>3. CASE t = <<ix!close_staging(u)>>
  <2> DEFINE i == ix!close_staging(u)
  <2>1. Sound(i) /\ WalletsSign(i) /\ i.program # System
    BY CloseSound, BuildersSigners
  <2> HIDE DEF i
  <2>2. SoundTransaction(<<i>>)
    BY <2>1, OneInstruction
  <2> QED
    BY <1>3, <2>2 DEF i
<1>4. CASE t \in ix!create_staging(u)
  <2>1. t = <<ix!SystemCreate(u), ix!initialize_staging(u)>>
    BY <1>4 DEF ix!create_staging
  <2> DEFINE create == ix!SystemCreate(u)
             claim == ix!initialize_staging(u)
  <2> HIDE DEF create, claim
  <2>2. t = <<create, claim>>
    BY <2>1 DEF create, claim
  <2>3. /\ Len(t) = 2 /\ DOMAIN t = 1..Len(t) /\ t[1] = create /\ t[2] = claim
        /\ Len(t) \in Nat /\ Len(t) >= 2 /\ \A k \in 3..Len(t) : FALSE
    BY <2>2
  <2> QED
    BY <2>3, CreateThenClaim DEF create, claim
<1>5. CASE t \in {<<w>> : w \in ToSet(ix!write_body(u))}
  <2>1. PICK w \in ToSet(ix!write_body(u)) : t = <<w>>
    BY <1>5
  <2>2. Sound(w) /\ WalletsSign(w) /\ w.program # System
    BY WriteBody
  <2> QED
    BY <2>1, <2>2, OneInstruction
<1> QED
  BY <1>1, <1>2, <1>3, <1>4, <1>5 DEF Transactions

(* And so is what others submit. *)
LEMMA ForeignSound ==
    ASSUME NEW t \in Foreign
    PROVE  SoundTransaction(t)
<1>1. t \in Seq(ToSet(t))
  BY UploaderAssumption
<1>2. Len(t) \in Nat /\ DOMAIN t = 1..Len(t) /\ \A k \in 1..Len(t) : t[k] \in ToSet(t)
  BY <1>1
<1>3. HeaderFor(t).signers \subseteq Wallet \ {u.staging : u \in Upload}
  BY UploaderAssumption
<1>4. \A k \in 1..Len(t) : Sound(t[k])
  BY <1>2, UploaderAssumption
<1>5. \A k \in 1..Len(t) : CreatesAndClaims(t, k)
  BY <1>3 DEF CreatesAndClaims
<1> QED
  BY <1>2, <1>3, <1>4, <1>5 DEF SoundTransaction

-----------------------------------------------------------------------------
(* One instruction. *)

(* What a sound instruction does to a view: only what its signers permit; keys
   appear at addresses of uploads only; and what was claimed stays claimed. *)
ClaimedBy(account, authority) == IsStaged(account) /\ AuthorityOf(account) = authority

InstructionKeeps(v, w, header, i) ==
    /\ GoodStep(v, w, header.signers)
    /\ \A a \in Address :
         IsKey(w[a]) => IsKey(v[a]) \/ a \in {KeyOf(u) : u \in Upload}
    /\ \A a \in Wallet :
         Kept(v[a], w[a]) \/ (Creates(i, a) /\ a \in header.signers)
    /\ \A u \in Upload : Claims(i, u) => ClaimedBy(w[u.staging], u.authority)

(* A system instruction moves lamports between blank accounts, or creates. *)
LEMMA SystemInstructionKeeps ==
    ASSUME NEW v, GoodView(v), NEW header, header.signers \subseteq Wallet,
           NEW i, i.program = System, Sound(i), OutcomeOf(v, header, i) = Ok,
           NEW w, w = EffectOf(v, i)
    PROVE  InstructionKeeps(v, w, header, i)
<1> DEFINE from == Addresses(i)[1]
           to == Addresses(i)[2]
           data == i.data
<1>1. from \in Address /\ to \in Address
  <2>1. Addresses(i) \in Seq(Address) /\ Len(Addresses(i)) = 2
    BY DEF Sound
  <2> QED
    BY <2>1
<1>2. data \in {0} \X Nat \X Nat \X {Program} \cup {2} \X Nat
  BY DEF Sound
<1>3. SystemOutcome(v, header, i) = Ok /\ w = SystemEffect(v, i)
  BY DEF OutcomeOf, EffectOf
<1>4. \A u \in Upload : ~Claims(i, u)
  BY DEF Claims
<1> HIDE DEF from, to
<1>5. CASE data \in {0} \X Nat \X Nat \X {Program}
  <2>1. data[1] = 0 /\ data[2] \in Nat /\ data[3] \in Nat /\ data[4] = Program
    BY <1>5
  <2> DEFINE amount == data[2]
             space == data[3]
  <2>2. {from, to} \subseteq header.signers /\ CreateAccount(v, from, to, amount) = Ok
    BY <1>3, <2>1, ThenOk DEF SystemOutcome, Ensure, Ok, from, to
  <2>3. w = Created(v, from, to, amount, space, Program)
    BY <1>3, <2>1 DEF SystemEffect, from, to
  <2>4. amount \in Nat /\ space \in Nat /\ to \in Wallet
    BY <2>1, <2>2
  <2> HIDE DEF amount, space, data
  <2>5. GoodStep(v, w, header.signers)
    BY <1>1, <2>2, <2>3, <2>4, CreateStep
  <2>6. Transfer(v, from, amount) = Ok
    BY <2>2, ThenOk DEF CreateAccount
  <2>7. \A a \in Address : IF a # to THEN Kept(v[a], w[a]) ELSE ~IsKey(w[a])
    BY <1>1, <2>3, <2>4, <2>6, SystemKeeps
  <2>8. \A a \in Address : IsKey(w[a]) => IsKey(v[a])
    BY <2>7 DEF Kept
  <2>9. ASSUME NEW a \in Wallet
        PROVE  Kept(v[a], w[a]) \/ (Creates(i, a) /\ a \in header.signers)
    <3>1. a \in Address
      BY DEF Address
    <3>2. CASE a = to
      <4>1. Creates(i, a)
        BY <2>1, <3>2 DEF Creates, to, data
      <4> QED
        BY <2>2, <3>2, <4>1
    <3> QED
      BY <2>7, <3>1, <3>2
  <2>10. \A a \in Wallet :
           Kept(v[a], w[a]) \/ (Creates(i, a) /\ a \in header.signers)
    BY <2>9
  <2> QED
    BY <1>4, <2>5, <2>8, <2>10 DEF InstructionKeeps
<1>6. CASE data \in {2} \X Nat
  <2>1. data[1] = 2 /\ data[2] \in Nat /\ data[1] # 0
    BY <1>6
  <2> DEFINE amount == data[2]
  <2>2. Transfer(v, from, amount) = Ok
    BY <1>3, <2>1, ThenOk DEF SystemOutcome, from, to
  <2>3. w = Transferred(v, from, to, amount)
    BY <1>3, <2>1 DEF SystemEffect, from, to
  <2>4. amount \in Nat
    BY <2>1
  <2> HIDE DEF amount, data
  <2>5. GoodStep(v, w, header.signers)
    BY <1>1, <2>2, <2>3, <2>4, TransferStep
  <2>6. \A a \in Address : Kept(v[a], w[a])
    <3>1. 0 \in Nat
      OBVIOUS
    <3> QED
      BY <1>1, <2>2, <2>3, <2>4, <3>1, SystemKeeps
  <2>7. \A a \in Address : IsKey(w[a]) => IsKey(v[a])
    BY <2>6 DEF Kept
  <2>8. \A a \in Wallet : Kept(v[a], w[a])
    BY <2>6 DEF Address
  <2> QED
    BY <1>4, <2>5, <2>7, <2>8 DEF InstructionKeeps
<1> QED
  BY <1>2, <1>5, <1>6

(* A registry instruction keeps what Registry's own steps keep. *)
LEMMA RegistryInstructionKeeps ==
    ASSUME NEW v, GoodView(v), NEW header, header.signers \subseteq Wallet,
           NEW i, i.program # System, Sound(i), OutcomeOf(v, header, i) = Ok,
           NEW w, w = EffectOf(v, i)
    PROVE  InstructionKeeps(v, w, header, i)
<1> DEFINE call == ForRegistry(i)
           keys == {KeyOf(u) : u \in Upload}
<1>1. WellTyped(call) /\ (call.tag = "Publish" => Accounts(call)[4] \in keys)
  BY DEF Sound
<1>2. process_instruction(v, header, call) = Ok /\ w = Effect(v, call)
  BY DEF OutcomeOf, EffectOf
<1>3. \A a \in Wallet : ~Creates(i, a)
  BY DEF Creates
<1>4. \A u \in Upload : Claims(i, u) => call.tag = "InitializeStaging"
                          /\ call.accounts = <<u.authority, u.staging>>
  BY DEF Claims
<1> HIDE DEF call, keys
<1>5. GoodStep(v, w, header.signers)
  BY <1>1, <1>2, ProcessStep
<1>6. \A a \in Address :
        (call.tag = "Publish" => a # Accounts(call)[4]) => Kept(v[a], w[a])
  BY <1>1, <1>2, ProcessKeeps
<1>7. ASSUME NEW a \in Address, IsKey(w[a])
      PROVE  IsKey(v[a]) \/ a \in keys
  BY <1>1, <1>6, <1>7 DEF Kept
<1>8. call.tag = "Publish" => Accounts(call)[4] \notin Wallet
  <2> SUFFICES ASSUME call.tag = "Publish"
               PROVE  Accounts(call)[4] \notin Wallet
    OBVIOUS
  <2>1. publish(v, header, call) = Ok
    BY <1>2 DEF process_instruction
  <2> QED
    BY <1>1, <2>1, PublishedAccounts
<1>9. \A a \in Wallet : Kept(v[a], w[a])
  BY <1>6, <1>8 DEF Address
<1>10. ASSUME NEW u \in Upload, Claims(i, u)
       PROVE  ClaimedBy(w[u.staging], u.authority)
  <2>1. /\ call.tag = "InitializeStaging"
        /\ call.accounts = <<u.authority, u.staging>>
    BY <1>4, <1>10
  <2>2. initialize_staging(v, header, call) = Ok /\ w = Initialized(v, call)
    BY <1>2, <2>1 DEF process_instruction, Effect
  <2>3. /\ call.accounts \in Seq(Address) /\ Len(call.accounts) <= 5
        /\ call.accounts[1] = u.authority /\ call.accounts[2] = u.staging
    BY <2>1, UploadType DEF Address
  <2>4. Accounts(call) = call.accounts
    BY <2>3, AccountsOfShort
  <2> DEFINE s == Accounts(call)[2]
  <2>5. s = u.staging /\ Accounts(call)[1] = u.authority /\ s \in Address
    BY <2>3, <2>4, UploadType DEF Address
  <2> HIDE DEF s
  <2>6. PICK y \in Account : /\ Initialized(v, call) = [v EXCEPT ![s] = y]
                             /\ IsStaged(y) /\ AuthorityOf(y) = Accounts(call)[1]
    BY <1>1, <2>1, <2>2, InitializedAccount DEF s
  <2>7. w[s] = y
    BY <2>2, <2>5, <2>6 DEF GoodView
  <2> QED
    BY <2>5, <2>6, <2>7 DEF ClaimedBy
<1>11. \A a \in Address : IsKey(w[a]) => IsKey(v[a]) \/ a \in keys
  BY <1>7
<1>12. \A u \in Upload : Claims(i, u) => ClaimedBy(w[u.staging], u.authority)
  BY <1>10
<1> QED
  BY <1>5, <1>9, <1>11, <1>12 DEF InstructionKeeps, keys

-----------------------------------------------------------------------------
(* Running a transaction.  The recursion that Trace chooses has a solution. *)
TraceStep(t, f, k) ==
    IF k = 0 THEN [outcome |-> Ok, after |-> ledger]
    ELSE Executing(f[k - 1], HeaderFor(t), t[k])

IsTrace(f, t, n) == f = [k \in 0..n |-> TraceStep(t, f, k)]

(* For every length there is such a function, by induction. *)
LEMMA TraceExists ==
    ASSUME NEW t
    PROVE  \A n \in Nat : \E f : IsTrace(f, t, n)
<1> DEFINE A == {n \in Nat : \E f : IsTrace(f, t, n)}
<1>1. 0 \in A
  <2> DEFINE f == [k \in 0..0 |-> [outcome |-> Ok, after |-> ledger]]
  <2>1. f = [k \in 0..0 |-> TraceStep(t, f, k)]
    <3>1. \A k \in 0..0 : k = 0
      OBVIOUS
    <3> QED
      BY <3>1 DEF TraceStep
  <2> QED
    BY <2>1 DEF IsTrace
<1>2. ASSUME NEW n \in Nat, n \in A
      PROVE  n + 1 \in A
  <2>1. PICK f : IsTrace(f, t, n)
    BY <1>2
  <2> DEFINE g == [k \in 0..n + 1 |-> TraceStep(t, f, k)]
  <2>2. \A k \in 0..n : f[k] = TraceStep(t, f, k)
    BY <2>1 DEF IsTrace
  <2>3. ASSUME NEW k \in 0..n + 1
        PROVE  TraceStep(t, f, k) = TraceStep(t, g, k)
    <3>1. CASE k = 0
      BY <3>1 DEF TraceStep
    <3>2. CASE k # 0
      <4>1. k - 1 \in 0..n /\ k - 1 \in 0..n + 1
        BY <3>2
      <4>2. g[k - 1] = f[k - 1]
        BY <2>2, <4>1
      <4> QED
        BY <3>2, <4>2 DEF TraceStep
    <3> QED
      BY <3>1, <3>2
  <2>4. g = [k \in 0..n + 1 |-> TraceStep(t, g, k)]
    BY <2>3
  <2>5. \E h : IsTrace(h, t, n + 1)
    BY <2>4 DEF IsTrace
  <2> QED
    BY <2>5
<1> HIDE DEF A
<1>3. \A n \in Nat : n \in A
  BY <1>1, <1>2, InductionBySet
<1> QED
  BY <1>3 DEF A

(* So Trace satisfies its recursion. *)
LEMMA TraceRecursion ==
    ASSUME NEW t, Len(t) \in Nat
    PROVE  /\ Trace(t)[0] = [outcome |-> Ok, after |-> ledger]
           /\ \A k \in 1..Len(t) :
                Trace(t)[k] = Executing(Trace(t)[k - 1], HeaderFor(t), t[k])
<1> DEFINE n == Len(t)
           g == Trace(t)
<1>1. IsTrace(g, t, n)
  <2>1. g = CHOOSE f : IsTrace(f, t, n)
    BY DEF Trace, IsTrace, TraceStep
  <2>2. \E f : IsTrace(f, t, n)
    BY TraceExists
  <2> HIDE DEF g
  <2> QED
    BY <2>1, <2>2
<1>2. n \in Nat
  OBVIOUS
<1> HIDE DEF g, n
<1>3. \A k \in 0..n : g[k] = TraceStep(t, g, k)
  BY <1>1 DEF IsTrace
<1>4. 0 \in 0..n /\ \A k \in 1..n : k \in 0..n /\ k # 0
  BY <1>2
<1>5. g[0] = [outcome |-> Ok, after |-> ledger]
  BY <1>3, <1>4 DEF TraceStep
<1>6. \A k \in 1..n : g[k] = Executing(g[k - 1], HeaderFor(t), t[k])
  BY <1>3, <1>4 DEF TraceStep
<1> QED
  BY <1>5, <1>6 DEF g, n

(* What holds after k instructions of a sound transaction, if all returned Ok:
   the view is a good step away from the ledger, with the same lamports in all;
   keys are where uploads put them; and a staging account is claimed, or the
   next instruction claims it. *)
Claimed(v) ==
    \A u \in Upload :
        v[u.staging].owner = Program => ClaimedBy(v[u.staging], u.authority)

KeysOfUploads(v) ==
    \A a \in Address : IsKey(v[a]) => a \in {KeyOf(u) : u \in Upload}

IsResult(s) == s = [outcome |-> s.outcome, after |-> s.after]

Underway(t, k, s) ==
    IsResult(s) /\
    (s.outcome = Ok =>
        /\ GoodStep(ledger, s.after, HeaderFor(t).signers)
        /\ TotalLamports(s.after) = TotalLamports(ledger)
        /\ KeysOfUploads(s.after)
        /\ \A u \in Upload : s.after[u.staging].owner = Program =>
             \/ ClaimedBy(s.after[u.staging], u.authority)
             \/ k + 1 \in 1..Len(t) /\ Claims(t[k + 1], u))

(* An instruction that runs leaves a result. *)
LEMMA ExecutingResult ==
    ASSUME NEW s, IsResult(s), NEW header, NEW i
    PROVE  IsResult(Executing(s, header, i))
<1> DEFINE o == OutcomeOf(s.after, header, i)
           next == EffectOf(s.after, i)
           e == Ensure(RuntimeAccepts(header.readonly, s.after, next), "RuntimeError")
<1>1. Executing(s, header, i)
        = IF s.outcome # Ok THEN s
          ELSE IF o # Ok THEN [s EXCEPT !.outcome = o]
          ELSE [outcome |-> e, after |-> next]
  BY DEF Executing
<1> HIDE DEF o, next, e
<1>2. IsResult([outcome |-> e, after |-> next])
  BY DEF IsResult
<1>3. IsResult([s EXCEPT !.outcome = o])
  BY DEF IsResult
<1> QED
  BY <1>1, <1>2, <1>3

(* One more instruction of a sound transaction. *)
LEMMA UnderwayStep ==
    ASSUME GoodView(ledger), NEW t, SoundTransaction(t), NEW k \in 1..Len(t),
           NEW s, Underway(t, k - 1, s)
    PROVE  Underway(t, k, Executing(s, HeaderFor(t), t[k]))
<1> DEFINE header == HeaderFor(t)
           v == s.after
           w == EffectOf(v, t[k])
           r == Executing(s, header, t[k])
<1>0. IsResult(r)
  BY ExecutingResult DEF Underway
<1> SUFFICES ASSUME r.outcome = Ok
             PROVE  Underway(t, k, r)
  BY <1>0 DEF Underway
<1>1. /\ s.outcome = Ok /\ OutcomeOf(v, header, t[k]) = Ok
      /\ RuntimeAccepts(header.readonly, v, w) /\ r.after = w
  BY DEF Executing, Ensure, Ok
<1>2. /\ GoodStep(ledger, v, header.signers)
      /\ TotalLamports(v) = TotalLamports(ledger)
      /\ KeysOfUploads(v)
      /\ \A u \in Upload : v[u.staging].owner = Program =>
           \/ ClaimedBy(v[u.staging], u.authority)
           \/ (k - 1) + 1 \in 1..Len(t) /\ Claims(t[(k - 1) + 1], u)
  BY <1>1 DEF Underway
<1>3. /\ header.signers \subseteq Wallet /\ Sound(t[k]) /\ CreatesAndClaims(t, k)
      /\ (k - 1) + 1 = k
  BY DEF SoundTransaction
<1>4. GoodView(v)
  BY <1>2 DEF GoodStep
<1> HIDE DEF header, v, w, r
<1>5. InstructionKeeps(v, w, header, t[k])
  <2> DEFINE i == t[k]
  <2>1. Sound(i) /\ OutcomeOf(v, header, i) = Ok /\ w = EffectOf(v, i)
    BY <1>1, <1>3 DEF w
  <2> HIDE DEF i
  <2>2. InstructionKeeps(v, w, header, i)
    BY <1>3, <1>4, <2>1, SystemInstructionKeeps, RegistryInstructionKeeps
  <2> QED
    BY <2>2 DEF i
<1>6. GoodStep(ledger, w, header.signers)
  BY <1>2, <1>5, GoodStepTransitive DEF InstructionKeeps
<1>7. TotalLamports(w) = TotalLamports(ledger)
  BY <1>1, <1>2 DEF RuntimeAccepts
<1>8. KeysOfUploads(w)
  BY <1>2, <1>5 DEF InstructionKeeps, KeysOfUploads
<1>9. ASSUME NEW u \in Upload, w[u.staging].owner = Program
      PROVE  \/ ClaimedBy(w[u.staging], u.authority)
             \/ k + 1 \in 1..Len(t) /\ Claims(t[k + 1], u)
  <2> DEFINE a == u.staging
  <2>1. a \in Wallet
    BY UploadType
  <2>2. CASE Creates(t[k], a) /\ a \in header.signers
    BY <1>3, <2>2 DEF CreatesAndClaims, header
  <2>3. CASE Kept(v[a], w[a])
    <3>1. v[a].owner = Program /\ (IsStaged(v[a]) =>
              IsStaged(w[a]) /\ AuthorityOf(w[a]) = AuthorityOf(v[a]))
      BY <1>9, <2>3 DEF Kept
    <3>2. ClaimedBy(v[a], u.authority) \/ Claims(t[k], u)
      BY <1>2, <1>3, <3>1
    <3> QED
      BY <1>5, <3>1, <3>2 DEF InstructionKeeps, ClaimedBy
  <2> QED
    BY <1>5, <2>1, <2>2, <2>3 DEF InstructionKeeps
<1> QED
  BY <1>0, <1>1, <1>6, <1>7, <1>8, <1>9 DEF Underway, header

(* All the instructions of a sound transaction. *)
LEMMA TraceUnderway ==
    ASSUME GoodView(ledger), KeysOfUploads(ledger), Claimed(ledger),
           NEW t, SoundTransaction(t)
    PROVE  Underway(t, Len(t), Trace(t)[Len(t)])
<1> DEFINE A == {k \in Nat : k <= Len(t) => Underway(t, k, Trace(t)[k])}
<1>1. Len(t) \in Nat
  BY DEF SoundTransaction
<1>2. /\ Trace(t)[0] = [outcome |-> Ok, after |-> ledger]
      /\ \A k \in 1..Len(t) :
           Trace(t)[k] = Executing(Trace(t)[k - 1], HeaderFor(t), t[k])
  BY <1>1, TraceRecursion
<1>3. 0 \in A
  <2>1. GoodStep(ledger, ledger, HeaderFor(t).signers)
    BY Unchanged
  <2>2. Underway(t, 0, Trace(t)[0])
    BY <1>2, <2>1 DEF Underway, Claimed, IsResult
  <2> QED
    BY <2>2
<1>4. ASSUME NEW k \in Nat, k \in A
      PROVE  k + 1 \in A
  <2> SUFFICES ASSUME k + 1 <= Len(t)
               PROVE  Underway(t, k + 1, Trace(t)[k + 1])
    OBVIOUS
  <2> DEFINE j == k + 1
  <2>1. j \in 1..Len(t) /\ j - 1 = k /\ k <= Len(t)
    BY <1>1
  <2>2. Underway(t, k, Trace(t)[k])
    BY <1>4, <2>1
  <2> HIDE DEF j
  <2>3. Trace(t)[j] = Executing(Trace(t)[k], HeaderFor(t), t[j])
    BY <1>2, <2>1
  <2>4. Underway(t, j - 1, Trace(t)[k])
    BY <2>1, <2>2
  <2>5. Underway(t, j, Executing(Trace(t)[k], HeaderFor(t), t[j]))
    BY <2>1, <2>4, UnderwayStep
  <2> QED
    BY <2>3, <2>5 DEF j
<1> HIDE DEF A
<1>5. \A k \in Nat : k \in A
  BY <1>3, <1>4, InductionBySet
<1> QED
  BY <1>1, <1>5 DEF A

-----------------------------------------------------------------------------
(* The invariant. *)
AccountsInv(l) ==
    /\ GoodView(l)
    /\ \A a \in Address : l[a].owner = Program => l[a].lamports > 0
    /\ TotalLamports(l) <= U64_MAX
    /\ Committable(l)
    /\ \A a \in Address : l[a].lamports = 0 => l[a].data = <<>>
    /\ KeysOfUploads(l)
    /\ Claimed(l)

(* What the clients keep to themselves. *)
ClientsInv ==
    /\ sent \subseteq UNION {Transactions(u) : u \in Upload}
    /\ job \in [Client -> Nat \ {0}]
    /\ \A c \in Client : job[c] <= Len(Jobs[c])

UploadParts ==
    AccountsInv(ledger) /\ ClientsInv /\ view = ledger /\ tx = Idle

(* UploadInv is the conjunction of these parts. *)
LEMMA UploadInvParts == UploadInv <=> UploadParts
<1>1. StagingStaysMine <=> Claimed(ledger)
  BY DEF StagingStaysMine, Claimed, Mine, ClaimedBy
<1>2. (\A a \in Address :
         /\ ledger[a].lamports = 0 => ledger[a].data = <<>>
         /\ IsKey(ledger[a]) => a \in {KeyOf(u) : u \in Upload})
      <=> /\ \A a \in Address : ledger[a].lamports = 0 => ledger[a].data = <<>>
          /\ KeysOfUploads(ledger)
  BY DEF KeysOfUploads
<1>3. IndInv /\ tx = Idle <=> /\ GoodView(ledger) /\ view = ledger /\ tx = Idle
                              /\ \A a \in Address :
                                   ledger[a].owner = Program => ledger[a].lamports > 0
  <2>1. ASSUME IndInv, tx = Idle
        PROVE  /\ GoodView(ledger) /\ view = ledger
               /\ \A a \in Address :
                    ledger[a].owner = Program => ledger[a].lamports > 0
    BY <2>1, IndInvGood DEF TypeOK, Idle
  <2>2. ASSUME GoodView(ledger), view = ledger, tx = Idle,
               \A a \in Address : ledger[a].owner = Program => ledger[a].lamports > 0
        PROVE  IndInv
    <3>1. GoodStep(ledger, view, tx.signers)
      BY <2>2, Unchanged
    <3>2. TypeOK
      BY <2>2 DEF TypeOK, GoodView, Idle
    <3> QED
      BY <2>2, <3>1, <3>2, IndInvGood
  <2> QED
    BY <2>1, <2>2
<1> QED
  BY <1>1, <1>2, <1>3 DEF UploadInv, UploadParts, AccountsInv, ClientsInv

(* A commit of what a sound transaction left. *)
LEMMA CommitKeeps ==
    ASSUME NEW l, AccountsInv(l), NEW v, NEW signers, GoodStep(l, v, signers),
           TotalLamports(v) = TotalLamports(l), KeysOfUploads(v), Claimed(v),
           Committable(v), NEW w, w = Purged(v)
    PROVE  AccountsInv(w) /\ GoodStep(l, w, signers)
<1>1. /\ GoodStep(l, w, signers)
      /\ \A a \in Address : w[a].owner = Program => w[a].lamports > 0
  BY CommitStep DEF AccountsInv
<1>2. TotalLamports(w) <= U64_MAX
  <2>1. v \in [Address -> Account]
    BY DEF GoodStep, GoodView
  <2> QED
    BY <2>1, PurgeKeepsTotal DEF AccountsInv
<1>3. \A a \in Address : w[a] = IF v[a].lamports = 0 THEN Empty ELSE v[a]
  BY DEF Purged
<1>4. Empty.lamports = 0 /\ Empty.data = <<>> /\ Empty.owner # Program /\ ~IsKey(Empty)
  BY RuntimeAssumption, Unowned DEF Empty
<1>5. Committable(w) /\ \A a \in Address : w[a].lamports = 0 => w[a].data = <<>>
  BY <1>3, <1>4 DEF Committable
<1>6. KeysOfUploads(w)
  BY <1>3, <1>4 DEF KeysOfUploads
<1>7. \A u \in Upload : u.staging \in Address
  BY UploadType DEF Address
<1>8. Claimed(w)
  BY <1>3, <1>4, <1>7 DEF Claimed
<1> QED
  BY <1>1, <1>2, <1>5, <1>6, <1>8 DEF AccountsInv, GoodStep

(* A transaction that lands, if it is sound. *)
LEMMA LandingKeeps ==
    ASSUME AccountsInv(ledger), NEW t, SoundTransaction(t), Committed(t)
    PROVE  /\ AccountsInv(ledger')
           /\ GoodStep(ledger, ledger', HeaderFor(t).signers)
           /\ view' = ledger' /\ tx' = tx /\ job' = job
<1> DEFINE end == Run(t)
           last == Trace(t)[Len(t)]
           signers == HeaderFor(t).signers
<1>1. /\ ledger' = IF end.outcome = Ok THEN Purged(end.after) ELSE ledger
      /\ view' = ledger' /\ tx' = tx /\ job' = job
  BY DEF Committed
<1>2. Underway(t, Len(t), last)
  BY TraceUnderway DEF AccountsInv
<1> HIDE DEF last
<1>3. end = [last EXCEPT !.outcome =
               @ ?? Ensure(Committable(last.after), "InsufficientFundsForRent")]
  BY DEF Run, last
<1>4. end.outcome = Ok => last.outcome = Ok /\ end.after = last.after
                          /\ Committable(last.after)
  BY <1>2, <1>3, ThenFirst DEF Underway, IsResult, Ensure, Ok
<1> HIDE DEF end
<1>5. CASE end.outcome = Ok
  <2> DEFINE v == last.after
             w == ledger'
             from == ledger
  <2>1. /\ GoodStep(ledger, v, signers) /\ TotalLamports(v) = TotalLamports(ledger)
        /\ KeysOfUploads(v) /\ Committable(v)
        /\ \A u \in Upload : v[u.staging].owner = Program =>
             \/ ClaimedBy(v[u.staging], u.authority)
             \/ Len(t) + 1 \in 1..Len(t) /\ Claims(t[Len(t) + 1], u)
    BY <1>2, <1>4, <1>5 DEF Underway
  <2>2. Len(t) + 1 \notin 1..Len(t)
    BY DEF SoundTransaction
  <2>3. Claimed(v)
    BY <2>1, <2>2 DEF Claimed
  <2>4. w = Purged(v)
    BY <1>1, <1>4, <1>5
  <2>5. AccountsInv(from)
    OBVIOUS
  <2> HIDE DEF v, w
  <2>6. AccountsInv(w) /\ GoodStep(from, w, signers)
    BY <2>1, <2>3, <2>4, <2>5, CommitKeeps
  <2> QED
    BY <1>1, <2>6 DEF w
<1>6. CASE end.outcome # Ok
  <2>1. ledger' = ledger
    BY <1>1, <1>6
  <2>2. GoodStep(ledger, ledger, signers)
    BY Unchanged DEF AccountsInv
  <2> QED
    BY <1>1, <2>1, <2>2
<1> QED
  BY <1>5, <1>6

(* A client works on one of its uploads, and submits what is built for it. *)
LEMMA CurrentUpload ==
    ASSUME ClientsInv, NEW c \in Client
    PROVE  Current(c) \in Upload
<1>1. Jobs[c] \in Seq(ix!Uploads) /\ job[c] \in 1..Len(Jobs[c])
  BY UploaderAssumption DEF ClientsInv
<1>2. Jobs[c][job[c]] \in ToSet(Jobs[c])
  BY <1>1 DEF ToSet
<1> QED
  BY <1>2 DEF Current, Upload

(* What a client wants to submit was built for its current upload. *)
LEMMA WantedBuilt ==
    ASSUME NEW c \in Client, NEW t \in Wanted(c)
    PROVE  t \in Transactions(Current(c))
<1> DEFINE u == Current(c)
           staged == ledger[u.staging]
           own == {<<w>> : w \in ToSet(ix!write_body(u))}
<1>1. {<<w>> : w \in Missing(u)} \subseteq own
  BY DEF Missing
<1>2. Wanted(c) \subseteq {Registration(u), <<ix!publish(u)>>, <<ix!close_staging(u)>>}
                            \cup ix!create_staging(u) \cup own
  BY <1>1 DEF Wanted
<1> QED
  BY <1>2 DEF Transactions

(* At the start nothing is published and nothing staged. *)
LEMMA InitUploadInv ==
    ASSUME UploadInit
    PROVE  UploadInv
<1>1. Init /\ sent = {} /\ job = [c \in Client |-> 1]
  BY DEF UploadInit
<1>2. IndInv /\ tx = Idle /\ view = ledger
  BY <1>1, InitIndInv DEF Init
<1>3. TotalLamports(ledger) <= U64_MAX /\ Committable(ledger)
  BY <1>1, RegistryAssumption, UploaderAssumption DEF Init
<1>4. \A a \in Address : ledger[a].owner # Program /\ ledger[a].data = <<>>
  BY <1>1, RuntimeAssumption DEF Init, Genesis
<1>5. \A a \in Address : ~IsKey(ledger[a])
  BY <1>4, Unowned
<1>6. Claimed(ledger)
  BY <1>4, UploadType DEF Claimed, Address
<1>7. AccountsInv(ledger)
  BY <1>2, <1>3, <1>4, <1>5, <1>6, IndInvGood DEF AccountsInv, KeysOfUploads
<1>8. ClientsInv
  <2>1. \A c \in Client : job[c] = 1
    BY <1>1
  <2>2. \A c \in Client : Len(Jobs[c]) \in Nat /\ Len(Jobs[c]) # 0
    BY UploaderAssumption
  <2>3. job \in [Client -> Nat \ {0}]
    BY <1>1
  <2> QED
    BY <1>1, <2>1, <2>2, <2>3 DEF ClientsInv
<1> QED
  BY <1>2, <1>7, <1>8, UploadInvParts DEF UploadParts

(* What a step does to the ledger: nothing, or what the signers of one sound
   transaction permit. *)
LEMMA UploadStep ==
    ASSUME UploadInv, [UploadNext]_uploadVars
    PROVE  /\ AccountsInv(ledger') /\ ClientsInv' /\ view' = ledger' /\ tx' = Idle
           /\ \E signers : GoodStep(ledger, ledger', signers)
<1>1. AccountsInv(ledger) /\ ClientsInv /\ view = ledger /\ tx = Idle
  BY UploadInvParts DEF UploadParts
<1>2. GoodStep(ledger, ledger, {})
  BY <1>1, Unchanged DEF AccountsInv
<1>3. CASE UNCHANGED uploadVars
  BY <1>1, <1>2, <1>3 DEF uploadVars, ClientsInv
<1>4. ASSUME NEW c \in Client, Advance(c)
      PROVE  /\ AccountsInv(ledger') /\ ClientsInv' /\ view' = ledger' /\ tx' = Idle
             /\ \E signers : GoodStep(ledger, ledger', signers)
  <2>1. /\ job' = [job EXCEPT ![c] = @ + 1] /\ job[c] < Len(Jobs[c])
        /\ UNCHANGED <<ledger, view, tx, sent>>
    BY <1>4 DEF Advance
  <2>2. Len(Jobs[c]) \in Nat /\ job[c] \in Nat \ {0}
    BY <1>1, UploaderAssumption DEF ClientsInv
  <2>3. ClientsInv'
    <3>1. job' \in [Client -> Nat \ {0}]
      BY <1>1, <2>1, <2>2 DEF ClientsInv
    <3>2. \A d \in Client : job'[d] <= Len(Jobs[d])
      BY <1>1, <2>1, <2>2 DEF ClientsInv
    <3> QED
      BY <1>1, <2>1, <3>1, <3>2 DEF ClientsInv
  <2> QED
    BY <1>1, <1>2, <2>1, <2>3
<1>5. ASSUME NEW c \in Client, NEW t \in Wanted(c), Submit(c, t)
      PROVE  /\ AccountsInv(ledger') /\ ClientsInv' /\ view' = ledger' /\ tx' = Idle
             /\ \E signers : GoodStep(ledger, ledger', signers)
  <2>1. sent' = sent \cup {t} /\ UNCHANGED <<ledger, view, tx, job>>
    BY <1>5 DEF Submit
  <2>2. t \in UNION {Transactions(u) : u \in Upload}
    BY <1>1, CurrentUpload, WantedBuilt
  <2>3. ClientsInv'
    BY <1>1, <2>1, <2>2 DEF ClientsInv
  <2> QED
    BY <1>1, <1>2, <2>1, <2>3
<1>6. ASSUME NEW t, SoundTransaction(t), Committed(t), sent' \subseteq sent
      PROVE  /\ AccountsInv(ledger') /\ ClientsInv' /\ view' = ledger' /\ tx' = Idle
             /\ \E signers : GoodStep(ledger, ledger', signers)
  <2>1. /\ AccountsInv(ledger')
        /\ GoodStep(ledger, ledger', HeaderFor(t).signers)
        /\ view' = ledger' /\ tx' = tx /\ job' = job
    BY <1>1, <1>6, LandingKeeps
  <2>2. ClientsInv'
    BY <1>1, <1>6, <2>1 DEF ClientsInv
  <2> QED
    BY <1>1, <2>1, <2>2
<1>7. ASSUME NEW t \in sent, Land(t)
      PROVE  /\ AccountsInv(ledger') /\ ClientsInv' /\ view' = ledger' /\ tx' = Idle
             /\ \E signers : GoodStep(ledger, ledger', signers)
  <2>1. SoundTransaction(t)
    BY <1>1, TransactionsSound DEF ClientsInv
  <2>2. Committed(t) /\ sent' \subseteq sent
    BY <1>7 DEF Land
  <2> QED
    BY <1>6, <2>1, <2>2
<1>8. ASSUME NEW t \in sent, Expire(t)
      PROVE  /\ AccountsInv(ledger') /\ ClientsInv' /\ view' = ledger' /\ tx' = Idle
             /\ \E signers : GoodStep(ledger, ledger', signers)
  <2>1. sent' \subseteq sent /\ UNCHANGED <<ledger, view, tx, job>>
    BY <1>8 DEF Expire
  <2>2. ClientsInv'
    BY <1>1, <2>1 DEF ClientsInv
  <2> QED
    BY <1>1, <1>2, <2>1, <2>2
<1>9. ASSUME NEW t \in Foreign, LandForeign(t)
      PROVE  /\ AccountsInv(ledger') /\ ClientsInv' /\ view' = ledger' /\ tx' = Idle
             /\ \E signers : GoodStep(ledger, ledger', signers)
  BY <1>6, <1>9, ForeignSound DEF LandForeign
<1> QED
  BY <1>3, <1>4, <1>5, <1>7, <1>8, <1>9 DEF UploadNext

(* The invariant holds whatever the network does, for any number of clients,
   uploads and other transactions. *)
THEOREM UploadInvariance == UploadSpec => []UploadInv
<1>1. UploadInit => UploadInv
  BY InitUploadInv
<1>2. UploadInv /\ [UploadNext]_uploadVars => UploadParts'
  BY UploadStep DEF UploadParts
<1> QED
  BY <1>1, <1>2, UploadInvParts, PTL DEF UploadSpec

(* A staging account that a client created is the client's alone, from its
   creation to the Publish or CloseStaging that ends it. *)
THEOREM StagingKept == UploadSpec => []StagingStaysMine
<1>1. UploadInv => StagingStaysMine
  BY DEF UploadInv
<1> QED
  BY <1>1, UploadInvariance, PTL

(* Clients over this network, too, see the immutable map of KeyRegistry. *)
THEOREM UploadRefinement == UploadSpec => ImplementsKeyRegistry
<1>1. UploadInit => Abstract!Init
  BY NothingPublished DEF UploadInit
<1>2. UploadInv /\ [UploadNext]_uploadVars => [Abstract!Publish]_PublishedKeys
  BY UploadStep, LedgerPublishes
<1> QED
  BY <1>1, <1>2, UploadInvariance, PTL
     DEF UploadSpec, ImplementsKeyRegistry, Abstract!Spec

-----------------------------------------------------------------------------
(* SHA-256 is not injective, so what clients conclude from an address rests on
   this: no stored key has the address of an upload's body and is another. *)
KeysApart ==
    \A a \in Address, u \in Upload :
        /\ IsKey(ledger[a])
        /\ KeyAddress(KeyBody(ledger[a].data)) = KeyAddress(u.body)
        => KeyBody(ledger[a].data) = u.body

(* What a key at an upload's address is: the upload's body, with its n. *)
LEMMA AvailableKey ==
    ASSUME UploadInv, KeysApart, NEW u \in Upload, NEW a, a = KeyOf(u),
           IsKey(ledger[a])
    PROVE  /\ KeyBody(ledger[a].data) = u.body
           /\ read_n(ledger[a].data) = u.n
<1> DEFINE data == ledger[a].data
           n == read_n(data)
<1>1. GoodView(ledger)
  BY UploadInvParts DEF UploadParts, AccountsInv
<1>2. a \in Address /\ a = KeyAddress(u.body)
  BY UploadType DEF Address
<1>3. /\ a = KeyAddress(KeyBody(data))
      /\ n \in 0..MAX_PUBLIC_INPUTS /\ Len(data) = key_account_len(n)
      /\ data \in Seq(Cell)
  BY <1>1, <1>2 DEF GoodView, WellFormed, CommitsTo, Account
<1>4. KeyBody(data) = u.body
  BY <1>2, <1>3 DEF KeysApart
<1>5. n = u.n
  <2> DEFINE g == G1_SIZE
             m == u.n
  <2>1. /\ g \in Nat \ {0} /\ VK_FIXED_SIZE \in Nat /\ n \in Nat /\ m \in Nat
        /\ Len(data) \in Nat
    BY <1>3, LayoutAssumption, UploadType
  <2>2. Len(data) = 4 + (VK_FIXED_SIZE + g * (n + 1))
    BY <1>3 DEF key_account_len, vk_body_len, KEY_HEADER_LEN
  <2>3. g * (n + 1) \in Nat /\ g * (m + 1) \in Nat
    BY <2>1
  <2>4. Len(KeyBody(data)) = Len(data) - 4
    <3>1. 4 \in Nat /\ 4 <= Len(data)
      BY <2>1, <2>2, <2>3
    <3> QED
      BY <1>3, <3>1, FromProperties DEF KeyBody, KEY_HEADER_LEN
  <2>5. Len(u.body) = VK_FIXED_SIZE + g * (m + 1)
    BY UploadType DEF vk_body_len
  <2> HIDE DEF n, m, g, data
  <2>6. g * (n + 1) = g * (m + 1)
    BY <1>4, <2>1, <2>2, <2>3, <2>4, <2>5
  <2>7. n + 1 = m + 1
    BY <2>1, <2>6
  <2> QED
    BY <2>1, <2>7 DEF n, m, data
<1> QED
  BY <1>4, <1>5

(* Whatever Writes were late, repeated or interleaved, a published key is one
   client's whole body. *)
THEOREM NothingMixed == UploadSpec => [](KeysApart => NoMixedKey)
<1>1. UploadInv => (KeysApart => NoMixedKey)
  <2> SUFFICES ASSUME UploadInv, KeysApart, NEW a \in Address, IsKey(ledger[a])
               PROVE  \E u \in Upload :
                        a = KeyOf(u) /\ KeyBody(ledger[a].data) = u.body
    BY DEF NoMixedKey
  <2>1. PICK u \in Upload : a = KeyOf(u)
    BY DEF UploadInv
  <2> QED
    BY <2>1, AvailableKey
<1> QED
  BY <1>1, UploadInvariance, PTL

-----------------------------------------------------------------------------
(* Transactions of one instruction. *)
LEMMA RunOne ==
    ASSUME NEW i, NEW header, header = HeaderFor(<<i>>),
           NEW outcome, outcome = OutcomeOf(ledger, header, i),
           NEW next, next = EffectOf(ledger, i)
    PROVE  /\ outcome # Ok => Run(<<i>>).outcome = outcome
           /\ /\ outcome = Ok /\ RuntimeAccepts(header.readonly, ledger, next)
              /\ Committable(next)
              => Run(<<i>>).outcome = Ok
<1> DEFINE t == <<i>>
           first == [outcome |-> Ok, after |-> ledger]
           last == Executing(first, header, i)
<1>1. Len(t) \in Nat /\ 1 \in 1..Len(t) /\ Len(t) = 1 /\ t[1] = i /\ 1 - 1 = 0
  OBVIOUS
<1> HIDE DEF t
<1>2. Trace(t)[Len(t)] = last
  <2>1. /\ Trace(t)[0] = first
        /\ \A k \in 1..Len(t) :
             Trace(t)[k] = Executing(Trace(t)[k - 1], HeaderFor(t), t[k])
    BY <1>1, TraceRecursion
  <2>2. Trace(t)[1] = Executing(Trace(t)[1 - 1], HeaderFor(t), t[1])
    BY <1>1, <2>1
  <2> QED
    BY <1>1, <2>1, <2>2 DEF t
<1>3. IsResult(last)
  BY ExecutingResult DEF IsResult
<1>4. /\ outcome # Ok => last.outcome = outcome
      /\ outcome = Ok /\ RuntimeAccepts(header.readonly, ledger, next)
           => last.outcome = Ok /\ last.after = next
  BY DEF Executing, Ensure
<1> HIDE DEF last
<1>5. Run(t).outcome
        = last.outcome ?? Ensure(Committable(last.after), "InsufficientFundsForRent")
  BY <1>2, <1>3 DEF Run, IsResult
<1> QED
  BY <1>4, <1>5, ThenFirst DEF t, Ensure, Ok

(* A head before a sequence. *)
LEMMA HeadBefore ==
    ASSUME NEW S, NEW x \in S, NEW s \in Seq(S), NEW t, t = <<x>> \o s
    PROVE  Head(t) = x /\ Tail(t) = s
<1>1. <<x>> \in Seq(S) /\ Len(<<x>>) = 1 /\ <<x>>[1] = x /\ Len(s) \in Nat
  OBVIOUS
<1> DEFINE one == <<x>>
<1> HIDE DEF one
<1>2. /\ one \o s \in Seq(S) /\ Len(one \o s) = Len(one) + Len(s)
      /\ \A i \in 1..Len(one) : (one \o s)[i] = one[i]
      /\ \A i \in 1..Len(s) : (one \o s)[Len(one) + i] = s[i]
  <2>1. one \in Seq(S)
    BY <1>1 DEF one
  <2> QED
    BY <2>1, Concatenated
<1>3. /\ t \in Seq(S) /\ Len(t) = 1 + Len(s) /\ t[1] = x
      /\ \A i \in 1..Len(s) : t[1 + i] = s[i]
  BY <1>1, <1>2 DEF one
<1>4. /\ t # <<>> /\ Head(t) = t[1] /\ Tail(t) \in Seq(S) /\ Len(Tail(t)) = Len(s)
      /\ \A i \in 1..Len(s) : Tail(t)[i] = t[i + 1]
  BY <1>1, <1>3
<1>5. \A i \in 1..Len(s) : Tail(t)[i] = s[i]
  <2>1. \A i \in 1..Len(s) : i + 1 = 1 + i
    BY <1>1
  <2> QED
    BY <1>3, <1>4, <2>1
<1>6. Tail(t) = s
  BY <1>4, <1>5, SeqEqual
<1> QED
  BY <1>3, <1>4, <1>6

(* Verify.  Names that keep the provers from computing with sequences. *)
AreCells(s) == s \in Seq(Cell)

Pays(call, payload) == call.payload = payload

(* What a Verify asks of the registry: its payload is the proof and the inputs. *)
LEMMA VerifyCall ==
    ASSUME NEW key, NEW proof, NEW inputs, AreCells(proof), AreCells(inputs),
           NEW payload, payload = proof \o inputs,
           NEW i, i = ix!verify(key, proof, inputs)
    PROVE  /\ i.program = Program
           /\ ForRegistry(i).tag = "Verify"
           /\ ForRegistry(i).accounts = <<key>>
           /\ Pays(ForRegistry(i), payload)
<1> DEFINE tag == ix!Tag.Verify
           All == Cell \cup {tag}
           x == ix!new_readonly(key, FALSE)
           data == (<<tag>> \o proof) \o inputs
<1>1. x.address = key
  BY DEF ix!new_readonly
<1>2. i = ix!For(Program, <<x>>, data)
  BY DEF ix!verify
<1> HIDE DEF tag, x
<1>3. <<tag>> \in Seq(All) /\ proof \in Seq(All) /\ inputs \in Seq(All) /\ tag \in All
  BY DEF AreCells
<1> HIDE DEF All
<1>4. payload \in Seq(All)
  BY <1>3, Concatenated
<1>5. data = <<tag>> \o payload
  <2> DEFINE one == <<tag>>
  <2>1. one \in Seq(All) /\ proof \in Seq(All) /\ inputs \in Seq(All)
    BY <1>3
  <2> HIDE DEF one
  <2>2. Associates(one, proof, inputs)
    BY <2>1, ThreeRegrouped
  <2> QED
    BY <2>2 DEF Associates, one
<1> HIDE DEF data
<1>6. Head(data) = tag /\ Tail(data) = payload
  BY <1>3, <1>4, <1>5, HeadBefore
<1>7. i.program = Program /\ i.accounts = <<x>> /\ i.data = data
  BY <1>2 DEF ix!For
<1>8. Addresses(i) = <<x.address>>
  BY <1>7 DEF Addresses
<1>9. Addresses(i) = <<key>>
  BY <1>1, <1>8
<1>10. ForRegistry(i).tag = "Verify" /\ ForRegistry(i).payload = payload
  BY <1>6, <1>7, CallRead, TagsRead DEF tag
<1> QED
  BY <1>7, <1>9, <1>10, CallRead DEF Pays

(* A Verify for an advertised address. *)
LEMMA VerifyOutcome ==
    ASSUME UploadInv, KeysApart, NEW u \in Upload,
           NEW proof \in Seq(Cell), Len(proof) = PROOF_SIZE,
           NEW inputs \in Seq(Cell),
           NEW i, i = ix!verify(KeyOf(u), proof, inputs)
    PROVE  Run(<<i>>).outcome
             = IF Available(u) THEN VerifyProof(u.body, u.n, proof \o inputs)
               ELSE "InvalidAccountOwner"
<1> DEFINE a == KeyOf(u)
           call == ForRegistry(i)
           header == HeaderFor(<<i>>)
           outcome == OutcomeOf(ledger, header, i)
<1>1. /\ GoodView(ledger) /\ Committable(ledger)
      /\ a \in Derived /\ a \in Address /\ u.n \in Nat
  BY UploadInvParts, UploadType, LayoutAssumption DEF UploadParts, AccountsInv, Address
<1>2. proof \in Seq(Cell) /\ Len(proof) = PROOF_SIZE
  OBVIOUS
<1>3. inputs \in Seq(Cell)
  OBVIOUS
<1> HIDE DEF a
<1>4. /\ i.program = Program /\ call.tag = "Verify" /\ call.accounts = <<a>>
      /\ call.payload = proof \o inputs
  <2> DEFINE payload == proof \o inputs
  <2>1. /\ AreCells(proof) /\ AreCells(inputs) /\ payload = proof \o inputs
        /\ i = ix!verify(a, proof, inputs)
    BY DEF AreCells, a
  <2> HIDE DEF payload
  <2>2. /\ i.program = Program
        /\ ForRegistry(i).tag = "Verify"
    BY <2>1, VerifyCall
  <2>3. ForRegistry(i).accounts = <<a>>
    BY <2>1, VerifyCall
  <2>4. Pays(ForRegistry(i), payload)
    BY <2>1, VerifyCall
  <2> QED
    BY <2>2, <2>3, <2>4 DEF payload, Pays
<1>5. Accounts(call) = <<a>>
  <2>1. <<a>> \in Seq(Address) /\ Len(<<a>>) <= 5
    BY <1>1
  <2> QED
    BY <1>4, <2>1, AccountsOfShort
<1>6. outcome = verify(ledger, call)
  <2>1. i.program # System
    BY <1>4, RuntimeAssumption
  <2> QED
    BY <1>4, <2>1 DEF OutcomeOf, process_instruction
<1>7. EffectOf(ledger, i) = ledger
  <2>1. i.program # System
    BY <1>4, RuntimeAssumption
  <2> QED
    BY <1>4, <2>1 DEF EffectOf, Effect
<1>8. RuntimeAccepts(header.readonly, ledger, ledger)
  BY DEF RuntimeAccepts
<1>9. Run(<<i>>).outcome = verify(ledger, call)
  <2> HIDE DEF header, outcome
  <2>1. /\ outcome # Ok => Run(<<i>>).outcome = outcome
        /\ outcome = Ok => Run(<<i>>).outcome = Ok
    BY <1>1, <1>7, <1>8, RunOne DEF header, outcome
  <2> QED
    BY <1>6, <2>1
<1> HIDE DEF call
<1>10. verify(ledger, call)
         = IF Available(u) THEN VerifyProof(u.body, u.n, proof \o inputs)
           ELSE "InvalidAccountOwner"
  <2> DEFINE account == ledger[a]
             payload == proof \o inputs
  <2>1. Len(Accounts(call)) = 1 /\ Accounts(call)[1] = a
    BY <1>5
  <2>2. Available(u) <=> IsKey(account)
    BY DEF Available, a
  <2>3. Len(payload) >= PROOF_SIZE /\ call.payload = payload
    <3>1. Len(payload) = Len(proof) + Len(inputs)
      <4>1. proof \in Seq(Cell) /\ inputs \in Seq(Cell)
        BY <1>2, <1>3
      <4> QED
        BY <4>1, Concatenated
    <3>2. Len(inputs) \in Nat /\ PROOF_SIZE \in Nat
      BY <1>3, RegistryAssumption
    <3> HIDE DEF payload
    <3>3. Len(payload) >= PROOF_SIZE
      BY <1>2, <3>1, <3>2
    <3> QED
      BY <1>4, <3>3 DEF payload
  <2> HIDE DEF payload
  <2>4. CASE IsKey(account)
    <3>1. KeyBody(account.data) = u.body /\ read_n(account.data) = u.n
      BY <2>4, AvailableKey DEF a
    <3>2. account.owner = Program /\ read_key_account(account.data) = Ok
      BY <2>4 DEF IsKey
    <3>3. KeyAccepted(ledger, call) = Ok
      BY <2>1, <3>2, ThenFirst DEF KeyAccepted, expect_owned_by, Ensure, Ok
    <3>4. verify(ledger, call) = VerifyProof(u.body, u.n, payload)
      BY <2>1, <2>3, <3>1, <3>3, ThenFirst DEF verify, Ensure, Ok
    <3> QED
      BY <2>2, <2>4, <3>4 DEF payload
  <2>5. CASE ~IsKey(account)
    <3>1. account.owner # Program
      BY <1>1, <2>5, RuntimeAssumption DEF GoodView, WellFormed, Blank
    <3>2. KeyAccepted(ledger, call) = "InvalidAccountOwner"
      BY <2>1, <3>1, ThenFirst DEF KeyAccepted, expect_owned_by, Ensure, Ok
    <3>3. verify(ledger, call) = "InvalidAccountOwner"
      BY <3>2, ThenFirst DEF verify, Ok
    <3> QED
      BY <2>2, <2>5, <3>3
  <2> QED
    BY <2>4, <2>5
<1> QED
  BY <1>9, <1>10

(* The address is the commitment: Verify is refused until the client's key is
   there, and from then on decided by the client's own body. *)
THEOREM AdvertisedKeysVerified ==
    UploadSpec => [](KeysApart => VerifiesAdvertisedKeys)
<1>1. UploadInv => (KeysApart => VerifiesAdvertisedKeys)
  <2> SUFFICES ASSUME UploadInv, KeysApart, NEW proof \in Proofs, NEW u \in Upload
               PROVE  LET inputs == [k \in 1..u.n |-> 0]
                          outcome == Run(<<ix!verify(KeyOf(u), proof, inputs)>>).outcome
                      IN IF Available(u)
                         THEN outcome = VerifyProof(u.body, u.n, proof \o inputs)
                         ELSE outcome = "InvalidAccountOwner"
    BY DEF VerifiesAdvertisedKeys
  <2> DEFINE inputs == [k \in 1..u.n |-> 0]
  <2>1. inputs \in Seq(Cell)
    <3>1. 0 \in Cell /\ u.n \in Nat
      BY UploadType, RuntimeAssumption, LayoutAssumption
    <3> QED
      BY <3>1
  <2> DEFINE i == ix!verify(KeyOf(u), proof, inputs)
  <2>3. proof \in Seq(Cell) /\ Len(proof) = PROOF_SIZE
    BY UploaderAssumption
  <2>4. i = ix!verify(KeyOf(u), proof, inputs)
    OBVIOUS
  <2> HIDE DEF inputs, i
  <2>2. Run(<<i>>).outcome
          = IF Available(u) THEN VerifyProof(u.body, u.n, proof \o inputs)
            ELSE "InvalidAccountOwner"
    BY <2>1, <2>3, <2>4, VerifyOutcome
  <2> QED
    BY <2>2 DEF inputs, i
<1> QED
  BY <1>1, UploadInvariance, PTL
-----------------------------------------------------------------------------
(* Who can pay: while a client's key is missing and its staging account is in
   place, its payer has the rent of the key and stays rent exempt.  What
   payers do elsewhere is not the registry's business. *)
Solvent ==
    \A u \in Upload : Mine(u) /\ ~Available(u) =>
        /\ Blank(ledger[u.payer])
        /\ ledger[u.payer].lamports
             >= MinimumBalance(key_account_len(u.n)) + MinimumBalance(0)

(* What the Write of a piece asks of the registry. *)
LEMMA PieceCall ==
    ASSUME NEW u \in Upload, NEW k \in 1..ix!Pieces(u), NEW i,
           i = ix!write(u, (k - 1) * u.chunk, ix!Piece(u, k - 1))
    PROVE  /\ Accounts(ForRegistry(i))[2] = u.staging
           /\ ForRegistry(i).payload[1] = (k - 1) * u.chunk
           /\ Tail(ForRegistry(i).payload) = ix!Piece(u, k - 1)
<1> DEFINE offset == (k - 1) * u.chunk
           bytes == ix!Piece(u, k - 1)
           call == ForRegistry(i)
<1>1. IsOffset(offset) /\ bytes \in Seq(Cell)
  BY PieceCells DEF IsOffset
<1>2. i = ix!write(u, offset, bytes)
  OBVIOUS
<1> HIDE DEF offset, bytes
<1>3. /\ ForRegistry(i).accounts = <<u.authority, u.staging>>
      /\ ForRegistry(i).payload[1] = offset
      /\ Tail(ForRegistry(i).payload) = bytes
  <2>1. /\ i.program = Program
        /\ ForRegistry(i).tag = "Write"
        /\ ForRegistry(i).accounts = <<u.authority, u.staging>>
        /\ ForRegistry(i).payload # <<>>
        /\ ForRegistry(i).payload[1] = offset
        /\ Tail(ForRegistry(i).payload) = bytes
    BY <1>1, <1>2, WriteCall
  <2> QED
    BY <2>1
<1>4. /\ call.accounts \in Seq(Address) /\ Len(call.accounts) <= 5
      /\ call.accounts[2] = u.staging
  <2> DEFINE pair == <<u.authority, u.staging>>
  <2>1. pair \in Seq(Address) /\ Len(pair) <= 5 /\ pair[2] = u.staging
    BY UploadType DEF Address
  <2>2. call.accounts = pair
    BY <1>3
  <2> HIDE DEF pair, call
  <2> QED
    BY <2>1, <2>2
<1> HIDE DEF call
<1>5. Accounts(call)[2] = u.staging
  BY <1>4, AccountsOfShort
<1> QED
  BY <1>3, <1>5 DEF call, offset, bytes

(* A cell that no piece would change is as in the body. *)
LEMMA NoPieceMissing ==
    ASSUME GoodView(ledger), NEW u \in Upload, Missing(u) = {},
           NEW data, data = ledger[u.staging].data, data \in Seq(Cell),
           Len(data) = STAGING_HEADER_LEN + Len(u.body),
           NEW j \in 1..Len(u.body)
    PROVE  data[STAGING_HEADER_LEN + j] = u.body[j]
<1>1. /\ u.body \in Seq(Cell) /\ Len(u.body) \in Nat /\ u.chunk \in Nat \ {0}
      /\ u.authority \in Address /\ u.staging \in Address
  BY UploadType DEF Address
<1>2. PICK k \in 1..ix!Pieces(u) :
        (k - 1) * u.chunk < j /\ j <= (k - 1) * u.chunk + u.chunk
  <2>1. ix!Pieces(u) = (Len(u.body) + u.chunk - 1) \div u.chunk
    BY DEF ix!Pieces
  <2> QED
    BY <1>1, <2>1, PiecesCover
<1> DEFINE offset == (k - 1) * u.chunk
           bytes == ix!Piece(u, k - 1)
           i == ix!write(u, offset, bytes)
           call == ForRegistry(i)
           start == STAGING_HEADER_LEN + offset
<1>3. /\ offset \in Nat /\ bytes \in Seq(Cell)
      /\ \A m \in 1..Len(bytes) : bytes[m] = u.body[offset + m]
      /\ j - offset \in 1..Len(bytes)
  BY <1>2, PieceCells
<1>4. i \in ToSet(ix!write_body(u))
  <2>1. /\ ToSet(ix!write_body(u)) = {ix!write_body(u)[m] : m \in 1..ix!Pieces(u)}
        /\ ix!write_body(u)[k] = ix!write(u, (k - 1) * u.chunk, ix!Piece(u, k - 1))
    BY WriteBody
  <2> QED
    BY <2>1
<1>5. Written(ledger, call)[u.staging].data = data
  BY <1>4 DEF Missing
<1>6. /\ Accounts(call)[2] = u.staging
      /\ call.payload[1] = offset /\ Tail(call.payload) = bytes
  BY PieceCall
<1> HIDE DEF offset, bytes, i, call
<1>8. Written(ledger, call)[u.staging].data = copy_from_slice(data, start, bytes)
  BY <1>1, <1>6 DEF Written, GoodView, Account
<1>9. start \in Nat /\ start = 5 + offset
  BY <1>3 DEF STAGING_HEADER_LEN
<1>10. /\ 5 + j \in 1..Len(data)
       /\ start < 5 + j /\ 5 + j <= start + Len(bytes)
       /\ (5 + j) - start = j - offset /\ offset + (j - offset) = j
  BY <1>1, <1>3, <1>9 DEF STAGING_HEADER_LEN
<1> HIDE DEF start
<1>11. copy_from_slice(data, start, bytes)[5 + j] = bytes[(5 + j) - start]
  <2>1. \A m \in 1..Len(data) :
          start < m /\ m <= start + Len(bytes)
          => copy_from_slice(data, start, bytes)[m] = bytes[m - start]
    <3>1. data \in Seq(Cell) /\ bytes \in Seq(Cell) /\ start \in Nat
      BY <1>3, <1>9
    <3> QED
      BY ONLY <3>1, CopyFromSlice
  <2> QED
    BY ONLY <1>10, <2>1
<1> QED
  BY <1>3, <1>5, <1>8, <1>10, <1>11 DEF STAGING_HEADER_LEN

(* So nothing missing means that the whole body is there. *)
LEMMA WholeBody ==
    ASSUME GoodView(ledger), NEW u \in Upload, Missing(u) = {}, Mine(u),
           NEW data, data = ledger[u.staging].data, read_n(data) = u.n
    PROVE  StagingBody(data) = u.body
<1>1. /\ u.body \in Seq(Cell) /\ Len(u.body) = vk_body_len(u.n)
      /\ u.n \in 0..MAX_PUBLIC_INPUTS /\ u.staging \in Address
  BY UploadType DEF Address
<1>2. data \in Seq(Cell) /\ Len(data) = staging_account_len(u.n)
  BY <1>1, StagedFacts DEF Mine
<1>3. Len(data) = STAGING_HEADER_LEN + Len(u.body)
  BY <1>1, <1>2 DEF staging_account_len
<1>4. \A j \in 1..Len(u.body) : data[STAGING_HEADER_LEN + j] = u.body[j]
  BY <1>2, <1>3, NoPieceMissing
<1>5. /\ StagingBody(data) \in Seq(Cell)
      /\ Len(StagingBody(data)) = Len(u.body)
  BY <1>1, <1>2, StagedBody
<1>6. \A j \in 1..Len(u.body) : StagingBody(data)[j] = u.body[j]
  <2>1. Len(u.body) \in Nat /\ Len(data) = 5 + Len(u.body)
    BY <1>1, <1>3 DEF STAGING_HEADER_LEN
  <2>2. \A j \in 1..(Len(data) - 5) : From(data, 5)[j] = data[5 + j]
    <3>1. 5 \in Nat /\ 5 <= Len(data)
      BY <1>1, <2>1
    <3> QED
      BY <1>2, <3>1, FromProperties
  <2> QED
    BY <1>4, <2>1, <2>2 DEF StagingBody, STAGING_HEADER_LEN
<1> QED
  BY <1>1, <1>5, <1>6, SeqEqual
(* The Publish of a client whose body is in place. *)
LEMMA PublishFacts ==
    ASSUME GoodView(ledger), NEW u \in Upload, Missing(u) = {}, Mine(u),
           read_n(ledger[u.staging].data) = u.n,
           NEW i, i = ix!publish(u),
           NEW header, header = HeaderFor(<<i>>),
           NEW call, call = ForRegistry(i),
           NEW key, key = KeyOf(u)
    PROVE  /\ call.tag = "Publish" /\ call.payload = <<>>
           /\ call.accounts = <<u.authority, u.payer, u.staging, key, System>>
           /\ Accounts(call) = <<u.authority, u.payer, u.staging, key, System>>
           /\ WellTyped(call)
           /\ {u.authority, u.payer} \subseteq header.signers
           /\ header.signers \subseteq Wallet /\ header.readonly \subseteq Address
           /\ {u.authority, u.payer, u.staging, key} \cap header.readonly = {}
           /\ StagingBody(ledger[u.staging].data) = u.body
           /\ key = KeyAddress(u.body) /\ key \in Derived
           /\ OutcomeOf(ledger, header, i) = publish(ledger, header, call)
           /\ EffectOf(ledger, i) = Published(ledger, call)
<1>1. /\ u.authority \in Wallet /\ u.payer \in Wallet /\ u.staging \in Wallet
      /\ key \in Derived /\ key = KeyAddress(u.body)
  BY UploadType
<1>2. /\ i.program = Program /\ call.tag = "Publish" /\ call.payload = <<>>
      /\ call.accounts = <<u.authority, u.payer, u.staging, key, System>>
  BY PublishCall
<1>3. i.program # System
  BY <1>2, RuntimeAssumption
<1>4. Accounts(call) = <<u.authority, u.payer, u.staging, key, System>>
  <2>1. call.accounts \in Seq(Address) /\ Len(call.accounts) <= 5
    BY <1>1, <1>2 DEF Address
  <2> QED
    BY <1>2, <2>1, AccountsOfShort
<1>5. WellTyped(call)
  BY <1>1, <1>2 DEF WellTyped, Address
<1>6. /\ {u.authority, u.payer} \subseteq header.signers
      /\ WalletsSign(i) /\ header.readonly = {System}
  BY PublishHeader
<1>7. header.signers \subseteq Wallet
  <2> DEFINE t == <<i>>
  <2>1. \A k \in DOMAIN t : WalletsSign(t[k])
    BY <1>6
  <2> HIDE DEF t
  <2>2. HeaderFor(t).signers \subseteq Wallet
    BY <2>1, HeaderOfWallets
  <2> QED
    BY <2>2 DEF t
<1>8. /\ {u.authority, u.payer, u.staging, key} \cap header.readonly = {}
      /\ header.readonly \subseteq Address
  BY <1>1, <1>6, RuntimeAssumption DEF Address
<1>9. StagingBody(ledger[u.staging].data) = u.body
  BY WholeBody
<1>10. OutcomeOf(ledger, header, i) = publish(ledger, header, call)
  BY <1>2, <1>3 DEF OutcomeOf, process_instruction
<1>11. EffectOf(ledger, i) = Published(ledger, call)
  BY <1>2, <1>3 DEF EffectOf, Effect
<1> QED
  BY <1>1, <1>2, <1>4, <1>5, <1>6, <1>7, <1>8, <1>9, <1>10, <1>11

(* ... comes too late, but its key is there. *)
LEMMA PublishTooLate ==
    ASSUME GoodView(ledger), NEW u \in Upload, Missing(u) = {}, Mine(u),
           read_n(ledger[u.staging].data) = u.n, Available(u),
           NEW i, i = ix!publish(u)
    PROVE  Run(<<i>>).outcome = "KeyAlreadyPublished"
<1> DEFINE header == HeaderFor(<<i>>)
           call == ForRegistry(i)
           key == KeyOf(u)
           data == ledger[u.staging].data
           lost == "KeyAlreadyPublished"
<1>1. /\ call.payload = <<>>
      /\ Accounts(call) = <<u.authority, u.payer, u.staging, key, System>>
      /\ {u.authority, u.payer} \subseteq header.signers
      /\ {u.authority, u.payer, u.staging, key} \cap header.readonly = {}
      /\ StagingBody(data) = u.body
      /\ key = KeyAddress(u.body)
      /\ OutcomeOf(ledger, header, i) = publish(ledger, header, call)
  <2> DEFINE h == header
             c == call
             k == key
  <2>1. h = HeaderFor(<<i>>) /\ c = ForRegistry(i) /\ k = KeyOf(u)
    OBVIOUS
  <2> HIDE DEF h, c, k
  <2>2. /\ c.payload = <<>>
        /\ Accounts(c) = <<u.authority, u.payer, u.staging, k, System>>
        /\ {u.authority, u.payer} \subseteq h.signers
        /\ {u.authority, u.payer, u.staging, k} \cap h.readonly = {}
        /\ StagingBody(ledger[u.staging].data) = u.body
        /\ k = KeyAddress(u.body)
        /\ OutcomeOf(ledger, h, i) = publish(ledger, h, c)
    BY <2>1, PublishFacts
  <2> QED
    BY <2>2 DEF h, c, k
<1> HIDE DEF header, call
<1>2. ledger[key].owner = Program
  BY DEF Available, IsKey
<1> HIDE DEF key
<1>3. /\ u.n \in 0..MAX_PUBLIC_INPUTS /\ Len(u.body) = vk_body_len(u.n)
      /\ PdaExists(Sha256(u.body)) /\ u.authority # u.staging /\ u.staging \in Address
  BY UploadType DEF Address
<1>4. authorized_staging(data, u.authority) = Ok /\ ledger[u.staging].owner = Program
  BY <1>3, StagedFacts DEF Mine
<1>5. from_body_with_len(u.body, u.n) = Ok
  BY <1>3, ThenOk DEF from_body_with_len, Ensure
<1>6. unpublished_address(ledger, key, u.body) = lost
  BY <1>1, <1>2, <1>3, ThenFirst DEF unpublished_address, Ensure, Ok
<1>7. publish(ledger, header, call) = lost
  <2>1. /\ Len(Accounts(call)) = 5
        /\ Accounts(call)[1] = u.authority /\ Accounts(call)[2] = u.payer
        /\ Accounts(call)[3] = u.staging /\ Accounts(call)[4] = key
        /\ Accounts(call)[5] = System
    BY <1>1
  <2>2. /\ u.authority \in header.signers /\ u.payer \in header.signers
        /\ u.authority \notin header.readonly /\ u.payer \notin header.readonly
        /\ u.staging \notin header.readonly /\ key \notin header.readonly
    BY <1>1
  <2>3. read_n(data) = u.n
    OBVIOUS
  <2>4. \A s : (Ok ?? s) = s /\ (lost ?? s) = lost
    BY ThenFirst DEF Ok
  <2> QED
    BY <1>1, <1>3, <1>4, <1>5, <1>6, <2>1, <2>2, <2>3, <2>4
    DEF publish, Ensure, expect_signer, expect_writable, expect_owned_by, expect_distinct
<1> QED
  <2> DEFINE outcome == OutcomeOf(ledger, header, i)
             next == EffectOf(ledger, i)
  <2>1. outcome = lost
    BY <1>1, <1>7
  <2> HIDE DEF next
  <2>2. outcome # Ok => Run(<<i>>).outcome = outcome
    BY RunOne DEF header
  <2> QED
    BY <2>1, <2>2 DEF Ok
(* Rent is an amount of lamports, whatever the length of the data. *)
RentCounted == \A len \in Nat : MinimumBalance(len) \in Nat

(* After a publication that the payer can afford, every account is rent exempt
   again or gone. *)
LEMMA PublicationCommits ==
    ASSUME RentCounted, NEW v, GoodView(v), NEW w, GoodView(w), Committable(v),
           \A a \in Address : v[a].lamports = 0 => v[a].data = <<>>,
           NEW authority \in Address, NEW payer \in Address,
           NEW staging \in Address, NEW key \in Address,
           authority # staging, payer # staging, authority # key, payer # key,
           PublicationPaid(v, w, authority, payer, staging, key),
           w[staging] = Empty,
           \A a \in Address \ {staging, key} : w[a].data = v[a].data,
           NEW price \in Nat,
           price = MinimumBalance(key_account_len(read_n(v[staging].data))),
           Blank(v[payer]), v[payer].lamports >= price + MinimumBalance(0),
           v[staging].lamports >= MinimumBalance(0)
    PROVE  Committable(w)
<1>1. /\ MinimumBalance(0) \in Nat
      /\ \A a \in Address : /\ v[a].lamports \in Nat /\ w[a].lamports \in Nat
                            /\ v[a].data \in Seq(Cell)
                            /\ MinimumBalance(Len(v[a].data)) \in Nat
  <2>1. \A a \in Address : /\ v[a].lamports \in Nat /\ w[a].lamports \in Nat
                           /\ v[a].data \in Seq(Cell)
    BY DEF GoodView, Account
  <2>2. \A a \in Address : MinimumBalance(Len(v[a].data)) \in Nat
    <3> SUFFICES ASSUME NEW a \in Address
                 PROVE  MinimumBalance(Len(v[a].data)) \in Nat
      OBVIOUS
    <3> DEFINE len == Len(v[a].data)
    <3>1. len \in Nat
      BY <2>1
    <3> HIDE DEF len
    <3>2. MinimumBalance(len) \in Nat
      BY <3>1 DEF RentCounted
    <3> QED
      BY <3>2 DEF len
  <2>3. MinimumBalance(0) \in Nat
    BY DEF RentCounted
  <2> QED
    BY <2>1, <2>2, <2>3
<1>2. /\ IsKey(w[key])
      /\ \A a \in Address \ {authority, payer, staging, key} : w[a] = v[a]
      /\ w[payer].lamports + price >= v[payer].lamports
      /\ authority # payer =>
           w[authority].lamports = v[authority].lamports + v[staging].lamports
  BY DEF PublicationPaid
<1>3. Len(<<>>) = 0
  OBVIOUS
<1>4. RentExempt(w[key])
  BY <1>2 DEF GoodView, WellFormed, CommitsTo
<1>5. RentExempt(w[payer])
  <2>1. w[payer].data = <<>> /\ w[payer].lamports >= MinimumBalance(0)
    <3>1. w[payer].lamports >= MinimumBalance(0)
      BY <1>1, <1>2
    <3> QED
      BY <3>1 DEF Blank
  <2> QED
    BY <1>3, <2>1 DEF RentExempt
<1>6. authority # payer => RentExempt(w[authority])
  <2> SUFFICES ASSUME authority # payer
               PROVE  RentExempt(w[authority])
    OBVIOUS
  <2>1. /\ w[authority].data = v[authority].data
        /\ w[authority].lamports = v[authority].lamports + v[staging].lamports
    BY <1>2
  <2>2. CASE v[authority].lamports = 0
    <3>1. w[authority].data = <<>> /\ w[authority].lamports >= MinimumBalance(0)
      BY <1>1, <2>1, <2>2
    <3> QED
      BY <1>3, <3>1 DEF RentExempt
  <2>3. CASE v[authority].lamports # 0
    <3>1. v[authority].lamports >= MinimumBalance(Len(v[authority].data))
      BY <2>3 DEF Committable, RentExempt
    <3> QED
      BY <1>1, <2>1, <3>1 DEF RentExempt
  <2> QED
    BY <2>2, <2>3
<1>7. w[staging].lamports = 0
  BY DEF Empty
<1> QED
  <2> SUFFICES ASSUME NEW a \in Address
               PROVE  w[a].lamports = 0 \/ RentExempt(w[a])
    BY DEF Committable
  <2>1. CASE a \in {authority, payer, staging, key}
    BY <1>4, <1>5, <1>6, <1>7, <2>1
  <2>2. CASE a \notin {authority, payer, staging, key}
    BY <1>2, <2>2 DEF Committable
  <2> QED
    BY <2>1, <2>2

(* The Publish of a client whose body is in place, whose key is missing and whose
   payer can pay. *)
LEMMA PublishInTime ==
    ASSUME RentCounted, AccountsInv(ledger), NEW u \in Upload,
           Missing(u) = {}, Mine(u), read_n(ledger[u.staging].data) = u.n,
           ~Available(u), Blank(ledger[u.payer]),
           ledger[u.payer].lamports
             >= MinimumBalance(key_account_len(u.n)) + MinimumBalance(0),
           NEW i, i = ix!publish(u),
           NEW h, h = HeaderFor(<<i>>), NEW call, call = ForRegistry(i)
    PROVE  Run(<<i>>).outcome = Ok
<1> DEFINE key == KeyOf(u)
           space == key_account_len(u.n)
           price == MinimumBalance(space)
           data == ledger[u.staging].data
           after == Published(ledger, call)
<1>1. /\ GoodView(ledger)
      /\ TotalLamports(ledger) <= U64_MAX
      /\ Committable(ledger)
      /\ \A a \in Address : ledger[a].lamports = 0 => ledger[a].data = <<>>
      /\ \A a \in Address : ledger[a].owner = Program => ledger[a].lamports > 0
  BY DEF AccountsInv
<1>2. /\ u.authority \in Wallet /\ u.payer \in Wallet /\ u.staging \in Wallet
      /\ u.n \in 0..MAX_PUBLIC_INPUTS /\ PdaExists(Sha256(u.body))
      /\ ValidateForPublish(u.body, u.n) = Ok /\ key \in Derived
      /\ key = KeyAddress(u.body) /\ u.authority # u.staging
  BY UploadType
<1>3. ~IsKey(ledger[key])
  BY DEF Available
<1> HIDE DEF key
<1>4. /\ u.authority \in Address /\ u.payer \in Address /\ u.staging \in Address
      /\ key \in Address /\ u.authority # key /\ u.payer # key
  BY <1>2, RuntimeAssumption DEF Address
<1>5. /\ price \in Nat /\ MinimumBalance(0) \in Nat
      /\ MinimumBalance(staging_account_len(u.n)) \in Nat
      /\ MinimumBalance(0) <= MinimumBalance(staging_account_len(u.n))
  BY <1>2, RuntimeAssumption, UploaderAssumption
<1>6. /\ IsStaged(ledger[u.staging]) /\ ledger[u.staging].owner = Program
      /\ u.authority = AuthorityOf(ledger[u.staging])
      /\ Len(data) = staging_account_len(u.n)
  BY <1>1, <1>4, StagedFacts DEF Mine
<1>7. /\ call.tag = "Publish" /\ call.payload = <<>>
      /\ call.accounts = <<u.authority, u.payer, u.staging, key, System>>
      /\ Accounts(call) = <<u.authority, u.payer, u.staging, key, System>>
      /\ WellTyped(call)
      /\ {u.authority, u.payer} \subseteq h.signers
      /\ h.signers \subseteq Wallet /\ h.readonly \subseteq Address
      /\ {u.authority, u.payer, u.staging, key} \cap h.readonly = {}
      /\ StagingBody(data) = u.body
      /\ OutcomeOf(ledger, h, i) = publish(ledger, h, call)
      /\ EffectOf(ledger, i) = after
  <2>1. key = KeyOf(u)
    BY DEF key
  <2> QED
    BY <1>1, <2>1, PublishFacts
<1>8. process_instruction(ledger, h, call) = Ok
  <2>1. CanPay(ledger, u.payer, key_account_len(u.n))
    <3>1. ledger[u.payer].lamports \in Nat
      BY <1>1, <1>4 DEF GoodView, Account
    <3> QED
      BY <1>5, <3>1 DEF CanPay
  <2>2. u.n = read_n(ledger[u.staging].data) /\ u.body = StagingBody(ledger[u.staging].data)
    BY <1>7
  <2> HIDE DEF data
  <2> QED
    BY <1>1, <1>2, <1>3, <1>4, <1>6, <1>7, <2>1, <2>2, PublishGoesThrough
<1>9. publish(ledger, h, call) = Ok /\ Effect(ledger, call) = after
  BY <1>7, <1>8 DEF process_instruction, Effect
<1>10. RuntimeAccepts(h.readonly, ledger, after)
  <2>1. Moves(ledger, Effect(ledger, call), Address \ h.readonly)
    BY <1>1, <1>7, <1>8, AcceptedMoves
  <2> QED
    BY <1>7, <1>9, <2>1 DEF Moves, RuntimeAccepts
<1>11. Committable(after)
  <2>1. /\ GoodStep(ledger, after, h.signers)
        /\ after[Accounts(call)[3]] = Empty
        /\ \A a \in Address \ {Accounts(call)[3], Accounts(call)[4]} :
             after[a].data = ledger[a].data
        /\ PublicationPaid(ledger, after, Accounts(call)[1], Accounts(call)[2],
                           Accounts(call)[3], Accounts(call)[4])
    BY <1>1, <1>7, <1>9, PublishedAccounts
  <2>2. /\ Accounts(call)[1] = u.authority /\ Accounts(call)[2] = u.payer
        /\ Accounts(call)[3] = u.staging /\ Accounts(call)[4] = key
    BY <1>7
  <2> HIDE DEF after
  <2>3. /\ GoodView(after) /\ after[u.staging] = Empty
        /\ \A a \in Address \ {u.staging, key} : after[a].data = ledger[a].data
        /\ PublicationPaid(ledger, after, u.authority, u.payer, u.staging, key)
    BY <2>1, <2>2 DEF GoodStep
  <2>4. u.payer # u.staging
    BY <1>6, RuntimeAssumption DEF Blank
  <2>5. ledger[u.staging].lamports >= MinimumBalance(0)
    <3>1. /\ ledger[u.staging].lamports \in Nat
          /\ ledger[u.staging].lamports >= MinimumBalance(staging_account_len(u.n))
      BY <1>1, <1>4, <1>6 DEF GoodView, Account, Committable, RentExempt
    <3> QED
      BY <1>5, <3>1
  <2>6. price = MinimumBalance(key_account_len(read_n(ledger[u.staging].data)))
    OBVIOUS
  <2>7. ledger[u.payer].lamports >= price + MinimumBalance(0)
    OBVIOUS
  <2> HIDE DEF price
  <2> QED
    BY <1>1, <1>2, <1>4, <1>5, <2>3, <2>4, <2>5, <2>6, <2>7, PublicationCommits
<1> HIDE DEF after
<1> QED
  <2> DEFINE outcome == OutcomeOf(ledger, h, i)
             next == EffectOf(ledger, i)
  <2>1. outcome = Ok /\ next = after
    BY <1>7, <1>9
  <2>2. RuntimeAccepts(h.readonly, ledger, next) /\ Committable(next)
    BY <1>10, <1>11, <2>1
  <2> HIDE DEF outcome, next
  <2>3. outcome = OutcomeOf(ledger, h, i) /\ next = EffectOf(ledger, i)
    BY DEF outcome, next
  <2> QED
    BY <2>1, <2>2, <2>3, RunOne

(* A complete upload is never stuck: while its payer can pay, its Publish
   succeeds or finds the key, after whatever other transactions did. *)
THEOREM CompleteUploadsPublish ==
    ASSUME RentCounted
    PROVE  UploadSpec => [](Solvent => PublishSucceeds)
<1>1. UploadInv /\ Solvent => PublishSucceeds
  <2> SUFFICES ASSUME UploadInv, Solvent, NEW u \in Upload,
                      Mine(u), read_n(ledger[u.staging].data) = u.n, Missing(u) = {}
               PROVE  IF Available(u)
                      THEN Run(<<ix!publish(u)>>).outcome = "KeyAlreadyPublished"
                      ELSE Run(<<ix!publish(u)>>).outcome = Ok
    BY DEF PublishSucceeds
  <2>1. AccountsInv(ledger) /\ GoodView(ledger)
    BY UploadInvParts DEF UploadParts, AccountsInv
  <2> DEFINE i == ix!publish(u)
  <2>2. i = ix!publish(u)
    OBVIOUS
  <2> HIDE DEF i
  <2>3. CASE Available(u)
    <3>1. Run(<<i>>).outcome = "KeyAlreadyPublished"
      BY <2>1, <2>2, <2>3, PublishTooLate
    <3> QED
      BY <2>3, <3>1 DEF i
  <2>4. CASE ~Available(u)
    <3>1. /\ Blank(ledger[u.payer])
          /\ ledger[u.payer].lamports
               >= MinimumBalance(key_account_len(u.n)) + MinimumBalance(0)
      BY <2>4 DEF Solvent
    <3>2. Run(<<i>>).outcome = Ok
      BY <2>1, <2>2, <2>4, <3>1, PublishInTime
    <3> QED
      BY <2>4, <3>2 DEF i
  <2> QED
    BY <2>3, <2>4
<1> QED
  BY <1>1, UploadInvariance, PTL
=============================================================================
