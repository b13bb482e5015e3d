------------------------------ MODULE Compact ------------------------------
(***************************************************************************)
(* The compact instructions of Execute and ExecuteDeferred.                *)
(*                                                                         *)
(* The data of Execute is a list of compact instructions and, right behind *)
(* it, the payload of the authority; nothing but the parser says where the *)
(* one ends and the other begins.  The instructions name accounts by their *)
(* position in the list of accounts, which the signature does not cover:   *)
(* it covers the bytes of the instructions and a hash of the keys they     *)
(* name.                                                                   *)
(*                                                                         *)
(* A u8 is a digit of base Base and a u16 is two digits, the low one first.*)
(* The state is either data that arrives byte by byte, whatever it holds,  *)
(* or a program that a client puts together.                               *)
(***************************************************************************)
EXTENDS Integers, Sequences, SequencesExt

CONSTANTS
    Base,               \* number of values of a u8
    MaxInstructions,    \* MAX_COMPACT_INSTRUCTIONS
    AccountLists,       \* lists of account keys
    MaxData,            \* bound on the bytes that arrive
    MaxPayload,         \* bound on those of them behind the instructions
    MaxProgram          \* bound on the size of the client's program

ASSUME CompactAssumption ==
    /\ Base \in Nat \ {0, 1}
    /\ MaxInstructions \in 0 .. Base - 1

\* A transaction has fewer bytes than a u16 counts.
ASSUME ProgramAssumption == MaxProgram \in 0 .. Base * Base - 1

\* Lists of accounts are sequences, of whatever the keys are.
ASSUME AccountsAssumption ==
    \A l \in AccountLists : l \in Seq({l[i] : i \in DOMAIN l})

VARIABLES
    data,       \* what arrived
    program     \* what the client has put together

cvars == <<data, program>>

U8 == 0 .. Base - 1

ParseError == [ok |-> FALSE]

-----------------------------------------------------------------------------
(* Parsing. *)

\* Mutant of FromBytes: one byte too many is asked for.
FromBytesStrict(bytes) ==
    LET accountsEnd == 2 + bytes[2]
        start       == accountsEnd + 2
        end         == start + bytes[start - 1] + Base * bytes[start]
    IN  IF Len(bytes) < 4 \/ Len(bytes) < start \/ Len(bytes) <= end
        THEN ParseError
        ELSE [ok |-> TRUE,
              ix |-> [program_id_index |-> bytes[1],
                      accounts |-> SubSeq(bytes, 3, accountsEnd),
                      data |-> SubSeq(bytes, start + 1, end)],
              rest |-> SubSeq(bytes, end + 1, Len(bytes))]

\* Mutant of FromBytes: the high byte of the length is ignored.
FromBytesLow(bytes) ==
    LET accountsEnd == 2 + bytes[2]
        start       == accountsEnd + 2
        end         == start + bytes[start - 1]
    IN  IF Len(bytes) < 4 \/ Len(bytes) < start \/ Len(bytes) < end
        THEN ParseError
        ELSE [ok |-> TRUE,
              ix |-> [program_id_index |-> bytes[1],
                      accounts |-> SubSeq(bytes, 3, accountsEnd),
                      data |-> SubSeq(bytes, start + 1, end)],
              rest |-> SubSeq(bytes, end + 1, Len(bytes))]

(***************************************************************************)
(* [program_id_index][num_accounts][accounts][data_len: u16][data]         *)
(***************************************************************************)
FromBytes(bytes) ==
    LET accountsEnd == 2 + bytes[2]
        start       == accountsEnd + 2
        end         == start + bytes[start - 1] + Base * bytes[start]
    IN  IF Len(bytes) < 4 \/ Len(bytes) < start \/ Len(bytes) < end
        THEN ParseError
        ELSE [ok |-> TRUE,
              ix |-> [program_id_index |-> bytes[1],
                      accounts |-> SubSeq(bytes, 3, accountsEnd),
                      data |-> SubSeq(bytes, start + 1, end)],
              rest |-> SubSeq(bytes, end + 1, Len(bytes))]

ParseNext(parsed, i) ==
    LET next == FromBytes(parsed.rest)
    IN  IF ~ parsed.ok \/ ~ next.ok
        THEN ParseError
        ELSE [ok |-> TRUE, ixs |-> Append(parsed.ixs, next.ix),
              rest |-> next.rest]

(***************************************************************************)
(* parse_compact_instructions_with_len.  Execute takes the first consumed  *)
(* bytes for the instructions and the rest for the authority's payload.    *)
(***************************************************************************)
Parse(bytes) ==
    IF bytes = <<>> \/ bytes[1] > MaxInstructions
    THEN ParseError
    ELSE LET parsed == FoldLeft(ParseNext,
                                [ok |-> TRUE, ixs |-> <<>>, rest |-> Tail(bytes)],
                                [i \in 1 .. bytes[1] |-> i])
         IN  IF ~ parsed.ok
             THEN ParseError
             ELSE [ok |-> TRUE, ixs |-> parsed.ixs,
                   consumed |-> Len(bytes) - Len(parsed.rest)]

(***************************************************************************)
(* to_bytes and into_bytes.  The length of the data is cut to a u16.       *)
(***************************************************************************)
ToBytes(ix) ==
    <<ix.program_id_index, Len(ix.accounts)>> \o ix.accounts
      \o <<Len(ix.data) % Base, (Len(ix.data) \div Base) % Base>> \o ix.data

IntoBytes(ixs) ==
    FoldLeft(LAMBDA bytes, ix : bytes \o ToBytes(ix), <<Len(ixs)>>, ixs)

-----------------------------------------------------------------------------
(* Decompressing. *)

Positions(ix) == <<ix.program_id_index>> \o ix.accounts

(***************************************************************************)
(* decompress: positions count from 0.                                     *)
(***************************************************************************)
InRange(ix, accounts) ==
    \A i \in DOMAIN Positions(ix) : Positions(ix)[i] < Len(accounts)

Keys(positions, accounts) ==
    [i \in DOMAIN positions |-> accounts[positions[i] + 1]]

Decompress(ix, accounts) ==
    [program_id |-> accounts[ix.program_id_index + 1],
     accounts |-> Keys(ix.accounts, accounts),
     data |-> ix.data]

(***************************************************************************)
(* The calls Execute makes, if no index is out of range.                   *)
(***************************************************************************)
Calls(ixs, accounts) == [i \in DOMAIN ixs |-> Decompress(ixs[i], accounts)]

\* Mutant of NamedKeys: the programs are left out.
NamedKeysOfAccounts(ixs, accounts) ==
    FoldLeft(LAMBDA keys, ix : keys \o Keys(ix.accounts, accounts), <<>>, ixs)

(***************************************************************************)
(* compute_accounts_hash: what is hashed, all keys behind one another.     *)
(* SHA-256 is taken to be injective.                                       *)
(***************************************************************************)
NamedKeys(ixs, accounts) ==
    FoldLeft(LAMBDA keys, ix : keys \o Keys(Positions(ix), accounts), <<>>, ixs)

Valid(ixs, accounts) == \A i \in DOMAIN ixs : InRange(ixs[i], accounts)

-----------------------------------------------------------------------------
(* Inputs. *)

(***************************************************************************)
(* What follows a complete list of instructions is the payload.            *)
(***************************************************************************)
PayloadSize(bytes) ==
    LET parsed == Parse(bytes)
    IN  IF parsed.ok THEN Len(bytes) - parsed.consumed ELSE 0

ArriveData(b) ==
    /\ program = <<>>
    /\ Len(data) < MaxData
    /\ PayloadSize(data) < MaxPayload
    /\ data' = Append(data, b)
    /\ UNCHANGED program

Size(ixs) ==
    FoldLeft(LAMBDA n, ix : n + 1 + Len(ix.accounts) + Len(ix.data), 0, ixs)

AddCompact(b) ==
    /\ data = <<>>
    /\ Len(program) < MaxInstructions
    /\ Size(program) < MaxProgram
    /\ program' = Append(program, [program_id_index |-> b, accounts |-> <<>>,
                                   data |-> <<>>])
    /\ UNCHANGED data

(***************************************************************************)
(* The serialiser asserts that the number of accounts is a u8.             *)
(***************************************************************************)
ExtendCompact(field, b) ==
    /\ program # <<>>
    /\ Size(program) < MaxProgram
    /\ field = "accounts" => Len(Last(program).accounts) < Base - 1
    /\ program' = [program EXCEPT ![Len(program)][field] = Append(@, b)]
    /\ UNCHANGED data

CompactInit == data = <<>> /\ program = <<>>

CompactComplete ==
    /\ \/ Len(data) = MaxData
       \/ PayloadSize(data) = MaxPayload
       \/ Size(program) = MaxProgram
    /\ UNCHANGED cvars

CompactNext ==
    \/ \E b \in U8 : ArriveData(b) \/ AddCompact(b)
                       \/ \E field \in {"accounts", "data"} : ExtendCompact(field, b)
    \/ CompactComplete

CompactSpec == CompactInit /\ [][CompactNext]_cvars

-----------------------------------------------------------------------------
(***************************************************************************)
(* What a client serialises is what Execute parses, whatever the payload   *)
(* behind it, and nothing of the payload is taken for instructions.        *)
(***************************************************************************)
RoundTrip ==
    \A payload \in {<<>>} \cup {<<b>> : b \in U8} :
       Parse(IntoBytes(program) \o payload) =
         [ok |-> TRUE, ixs |-> program, consumed |-> Len(IntoBytes(program))]

(***************************************************************************)
(* Any bytes the parser accepts are the bytes the serialiser writes:       *)
(* ExecuteDeferred hashes the bytes it was given in the place of what it   *)
(* parsed, since "the parse/encode format is byte-identical".              *)
(***************************************************************************)
ParseIsCanonical ==
    LET parsed == Parse(data)
    IN  parsed.ok => IntoBytes(parsed.ixs) = SubSeq(data, 1, parsed.consumed)

(***************************************************************************)
(* The bytes and the hash of the keys bind the calls: a list of accounts   *)
(* that differs from the one signed for, in order or in length, passes the *)
(* comparison of hashes only if the same programs are called with the same *)
(* accounts.                                                               *)
(***************************************************************************)
HashBindsCalls ==
    LET parsed == Parse(data)
    IN  parsed.ok =>
          \A signed, given \in {l \in AccountLists : Valid(parsed.ixs, l)} :
             NamedKeys(parsed.ixs, signed) = NamedKeys(parsed.ixs, given)
               => Calls(parsed.ixs, signed) = Calls(parsed.ixs, given)
=============================================================================
