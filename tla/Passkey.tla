------------------------------ MODULE Passkey ------------------------------
(***************************************************************************)
(* How the program learns that a passkey has signed.                       *)
(*                                                                         *)
(* The program does not verify signatures.  The transaction holds an       *)
(* instruction of the secp256r1 precompile right before the program's own; *)
(* the precompile verifies it, and the transaction fails if it does not    *)
(* verify.  The precompile reads signature, key and message wherever the   *)
(* offsets in its instruction point to, in any instruction.  The program   *)
(* reads them at fixed places, so it must make sure that these are the     *)
(* places the precompile read.                                             *)
(*                                                                         *)
(* Data is a sequence of cells: a cell holds a signature, a key, one field *)
(* of the authenticator data or a hash.  The offsets are kept apart from   *)
(* the cells.  The state is a transaction that is put together instruction *)
(* by instruction; next to it the authority's payload arrives byte by byte.*)
(***************************************************************************)
EXTENDS Integers, Sequences

CONSTANTS
    StoredKey,      \* the key of the authority
    StoredRp,       \* its rpIdHash
    Signatures,     \* signatures; Says tells whose, and of what
    Says,
    AuthDatas,      \* authenticator data that payloads may hold
    Hashes,         \* hashes of clientDataJSON
    Present,        \* flags with the bit "user present"
    OtherData,      \* what the first instruction may hold
    PrecompileData, \* what the second instruction may hold
    PayloadBase,    \* number of values of a byte of the payload
    MaxAuthPayload  \* bound on the payload

IsList(s) == s \in Seq({s[i] : i \in DOMAIN s})

ASSUME PasskeyAssumption ==
    /\ DOMAIN Says = Signatures
    /\ PayloadBase \in Nat \ {0, 1}
    /\ \A authData \in AuthDatas : IsList(authData)
    /\ \A d \in OtherData \cup PrecompileData : d.num \in Nat /\ IsList(d.cells)

VARIABLES
    tx,         \* the instructions before the program's own
    payload     \* the authority's payload

kvars == <<tx, payload>>

-----------------------------------------------------------------------------
(* The precompile. *)

(***************************************************************************)
(* Positions in the cells, from 0: SIGNATURE_DATA_OFFSET and so on.        *)
(***************************************************************************)
SignatureAt == 0

PubkeyAt == 1

MessageAt == 2

(***************************************************************************)
(* 0xFFFF: the instruction itself.                                         *)
(***************************************************************************)
Here == 65535

Exists(ix) == ix = Here \/ ix < Len(tx)

CellsIn(at, ix) == IF ix = Here THEN tx[at].cells ELSE tx[ix + 1].cells

Fits(at, ix, offset, size) ==
    Exists(ix) /\ offset + size <= Len(CellsIn(at, ix))

Read(at, ix, offset, size) ==
    SubSeq(CellsIn(at, ix), offset + 1, offset + size)

(***************************************************************************)
(* The precompile verifies as many signatures as the instruction says, and *)
(* passes when it says 0.  What it asks of those behind the first is left  *)
(* open.                                                                   *)
(***************************************************************************)
Verifies(at) ==
    LET o == tx[at].offsets
    IN  tx[at].num > 0 =>
          /\ Fits(at, o.sigIx, o.sig, 1)
          /\ Fits(at, o.keyIx, o.key, 1)
          /\ Fits(at, o.msgIx, o.msg, o.size)
          /\ LET sig == Read(at, o.sigIx, o.sig, 1)[1]
             IN  /\ sig \in Signatures
                 /\ Says[sig].key = Read(at, o.keyIx, o.key, 1)[1]
                 /\ Says[sig].msg = Read(at, o.msgIx, o.msg, o.size)

PrecompilePassed ==
    \A at \in DOMAIN tx : tx[at].program = "secp256r1" => Verifies(at)

-----------------------------------------------------------------------------
(* The program. *)

Message(authData, hash) == Append(authData, hash)

\* Mutant of OffsetsFixed: index 0 is accepted too.
OffsetsFixedOrFirst(o, authData) ==
    /\ o.sigIx \in {Here, 0} /\ o.keyIx \in {Here, 0} /\ o.msgIx \in {Here, 0}
    /\ o.sig = SignatureAt /\ o.key = PubkeyAt /\ o.msg = MessageAt
    /\ o.size = Len(authData) + 1

OffsetsFixed(o, authData) ==
    /\ o.sigIx = Here /\ o.keyIx = Here /\ o.msgIx = Here
    /\ o.sig = SignatureAt /\ o.key = PubkeyAt /\ o.msg = MessageAt
    /\ o.size = Len(authData) + 1

(***************************************************************************)
(* verify_secp256r1_instruction_data                                       *)
(***************************************************************************)
VerifyInstructionData(ix, authData, hash) ==
    /\ ix.num = 1
    /\ OffsetsFixed(ix.offsets, authData)
    /\ Len(ix.cells) >= MessageAt + Len(authData) + 1
    /\ ix.cells[PubkeyAt + 1] = StoredKey
    /\ SubSeq(ix.cells, MessageAt + 1, MessageAt + Len(authData)) = authData
    /\ ix.cells[MessageAt + Len(authData) + 1] = hash

(***************************************************************************)
(* AuthDataParser: rpIdHash and flags, at least.                           *)
(***************************************************************************)
AuthDataValid(authData) ==
    /\ Len(authData) >= 2
    /\ authData[2] \in Present
    /\ authData[1] = StoredRp

(***************************************************************************)
(* The instruction right before the program's own.                         *)
(***************************************************************************)
Preceding == tx[Len(tx)]

(***************************************************************************)
(* The part of authenticate that looks at the assertion, for a payload     *)
(* with this authenticator data and with a clientDataJSON of this hash.    *)
(***************************************************************************)
Authenticates(authData, hash) ==
    /\ AuthDataValid(authData)
    /\ tx # <<>>
    /\ Preceding.program = "secp256r1"
    /\ VerifyInstructionData(Preceding, authData, hash)

-----------------------------------------------------------------------------
(* The payload. *)

\* Mutant of ParsePayload: bytes may follow.
ParsePayloadTrailing(p) ==
    LET authLen == p[2] + PayloadBase * p[3]
        cdjAt   == 3 + authLen + 2
        cdjLen  == p[cdjAt - 1] + PayloadBase * p[cdjAt]
    IN  IF \/ Len(p) < 5
           \/ Len(p) < cdjAt
           \/ cdjLen = 0
           \/ Len(p) < cdjAt + cdjLen
        THEN [ok |-> FALSE]
        ELSE [ok |-> TRUE, fixed |-> p[1], authData |-> SubSeq(p, 4, 3 + authLen),
              cdj |-> SubSeq(p, cdjAt + 1, cdjAt + cdjLen)]

(***************************************************************************)
(* [fixed part][authDataLen: u16][authenticatorData][cdjLen: u16][cdj].    *)
(* The fixed part, 14 bytes of which the challenge covers each, is one.    *)
(***************************************************************************)
ParsePayload(p) ==
    LET authLen == p[2] + PayloadBase * p[3]
        cdjAt   == 3 + authLen + 2
        cdjLen  == p[cdjAt - 1] + PayloadBase * p[cdjAt]
    IN  IF \/ Len(p) < 5
           \/ Len(p) < cdjAt
           \/ cdjLen = 0
           \/ Len(p) # cdjAt + cdjLen
        THEN [ok |-> FALSE]
        ELSE [ok |-> TRUE, fixed |-> p[1], authData |-> SubSeq(p, 4, 3 + authLen),
              cdj |-> SubSeq(p, cdjAt + 1, cdjAt + cdjLen)]

-----------------------------------------------------------------------------
(* Inputs. *)

AddBefore(program, data) ==
    /\ payload = <<>>
    /\ tx' = Append(tx, [program |-> program, num |-> data.num,
                         offsets |-> data.offsets, cells |-> data.cells])
    /\ UNCHANGED payload

ArrivePayload(b) ==
    /\ tx = <<>>
    /\ Len(payload) < MaxAuthPayload
    /\ payload' = Append(payload, b)
    /\ UNCHANGED tx

PasskeyInit == tx = <<>> /\ payload = <<>>

PasskeyComplete ==
    /\ Len(tx) = 2 \/ Len(payload) = MaxAuthPayload
    /\ UNCHANGED kvars

PasskeyNext ==
    \/ \E program \in {"secp256r1", "other"} :
         \/ tx = <<>> /\ \E d \in OtherData : AddBefore(program, d)
         \/ Len(tx) = 1 /\ \E d \in PrecompileData : AddBefore(program, d)
    \/ \E b \in 0 .. PayloadBase - 1 : ArrivePayload(b)
    \/ PasskeyComplete

PasskeySpec == PasskeyInit /\ [][PasskeyNext]_kvars

-----------------------------------------------------------------------------
(***************************************************************************)
(* Whatever instructions a transaction holds, if its precompiles passed    *)
(* and the program accepts, then the authority's own key signed just the   *)
(* authenticator data of the payload and the hash of its clientDataJSON,   *)
(* with the user present: no signature, key or message from another place  *)
(* or another instruction stands in for it.                                *)
(***************************************************************************)
AcceptedMeansSigned ==
    PrecompilePassed =>
      \A authData \in AuthDatas, hash \in Hashes :
         Authenticates(authData, hash) =>
           \E s \in Signatures : /\ Says[s].key = StoredKey
                                 /\ Says[s].msg = Message(authData, hash)
                                 /\ Says[s].msg[1] = StoredRp
                                 /\ Says[s].msg[2] \in Present

(***************************************************************************)
(* A payload is exact: its three parts and their lengths determine it, so  *)
(* nothing in it escapes both the challenge and the signed message.        *)
(***************************************************************************)
PayloadIsExact ==
    LET parsed == ParsePayload(payload)
        U16(n) == <<n % PayloadBase, n \div PayloadBase>>
    IN  parsed.ok =>
          payload = <<parsed.fixed>> \o U16(Len(parsed.authData))
                      \o parsed.authData \o U16(Len(parsed.cdj)) \o parsed.cdj
=============================================================================
