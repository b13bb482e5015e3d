---------------------------- MODULE ClientData ----------------------------
(***************************************************************************)
(* The clientDataJSON of a passkey's assertion.                            *)
(*                                                                         *)
(* The browser writes a JSON object in which the program looks for the     *)
(* members "type" and "challenge".  The program has no JSON parser: it     *)
(* scans the bytes once, keeping count of braces and brackets.  The values *)
(* of other members, nested ones and strings with braces in them, must not *)
(* mislead it.                                                             *)
(*                                                                         *)
(* The state is a JSON text that grows lexeme by lexeme along the grammar, *)
(* with the members of the object at the top.  Next to it grows a digest,  *)
(* for the base64url encoding in which the challenge is compared.          *)
(***************************************************************************)
EXTENDS Integers, Sequences, SequencesExt

CONSTANTS
    Strings,        \* what a string may hold, as sequences of bytes
    Fields,         \* the names that the program looks for
    DigestBytes,    \* byte values of the digest
    MaxLexemes,     \* bound on the lexemes of the text
    MaxDigest       \* bound on the digest

(***************************************************************************)
(* The bytes with a meaning in JSON: braces and brackets, comma, colon,    *)
(* the double quote, the backslash and white space.  Other bytes, letters  *)
(* and digits, stand for themselves.                                       *)
(***************************************************************************)
Punctuation ==
    {"open_brace", "close_brace", "open_bracket", "close_bracket", "comma",
     "colon", "quote", "escape", "space"}

(***************************************************************************)
(* In JSON a quote within a string comes after an escape.                  *)
(***************************************************************************)
ASSUME ClientDataAssumption ==
    /\ \A s \in Strings :
         /\ s \in Seq(Range(s))
         /\ \A i \in DOMAIN s :
              s[i] = "quote" => \E j \in 1 .. i - 1 : s[j] = "escape"
    /\ \A f \in Fields : Range(f) \cap Punctuation = {}
    /\ DigestBytes \subseteq 0 .. 255

VARIABLES
    text,       \* the bytes
    grammar,    \* what may come next, and which containers are open
    keys,       \* the keys of the top object, in their order
    members,    \* its members
    lexemes,    \* how many lexemes the text has
    digest

jvars == <<text, grammar, keys, members, lexemes, digest>>

-----------------------------------------------------------------------------
(* extract_top_level_string_field: one step for each byte. *)

(***************************************************************************)
(* mode is the loop the scanner is in.                                     *)
(***************************************************************************)
ScanStart ==
    [mode |-> "start", depth |-> 0, nest |-> 0, key |-> <<>>, value |-> <<>>]

To(scan, mode) == [scan EXCEPT !.mode = mode]

(***************************************************************************)
(* The main loop.  A key is looked for at depth 1 only.                    *)
(***************************************************************************)
MainByte(scan, b) ==
    CASE b = "open_brace" -> [scan EXCEPT !.mode = "main", !.depth = @ + 1]
      [] b = "close_brace" ->
           IF scan.depth = 0 THEN To(scan, "error")
           ELSE [scan EXCEPT !.mode = "main", !.depth = @ - 1]
      [] b = "quote" /\ scan.depth = 1 ->
           [scan EXCEPT !.mode = "key", !.key = <<>>]
      [] OTHER -> To(scan, "main")

(***************************************************************************)
(* What the loop over a value counts.                                      *)
(***************************************************************************)
Openers == {"open_brace", "open_bracket"}

Closers == {"close_brace", "close_bracket"}

(***************************************************************************)
(* Inside a value that is not a string.  The byte that ends it, at the     *)
(* value's own level, is left to the main loop.                            *)
(***************************************************************************)
SkipByte(scan, b) ==
    CASE b = "quote" -> To(scan, "skip_string")
      [] b \in Openers -> [scan EXCEPT !.mode = "skip", !.nest = @ + 1]
      [] b \in Closers /\ scan.nest > 0 -> [scan EXCEPT !.nest = @ - 1]
      [] b \in Closers \cup {"comma"} /\ scan.nest = 0 -> MainByte(scan, b)
      [] OTHER -> To(scan, "skip")

\* Mutant of ValueByte: the value must follow the colon at once.
ValueByteAtOnce(scan, b, field) ==
    CASE b = "quote" -> IF scan.key = field
                        THEN [scan EXCEPT !.mode = "found", !.value = <<>>]
                        ELSE To(scan, "string")
      [] scan.key = field /\ b # "quote" -> To(scan, "error")
      [] OTHER -> SkipByte([scan EXCEPT !.nest = 0], b)

(***************************************************************************)
(* The first byte of a value, after white space.                           *)
(***************************************************************************)
ValueByte(scan, b, field) ==
    CASE b = "space" -> scan
      [] b = "quote" -> IF scan.key = field
                        THEN [scan EXCEPT !.mode = "found", !.value = <<>>]
                        ELSE To(scan, "string")
      [] scan.key = field /\ b \notin {"space", "quote"} -> To(scan, "error")
      [] OTHER -> SkipByte([scan EXCEPT !.nest = 0], b)

\* Mutant of InString: an escaped byte is a byte like any other.
InStringEscaped(b, grown, closed) == IF b = "quote" THEN closed ELSE grown

(***************************************************************************)
(* The loops over a string: up to the next quote, and no escapes.          *)
(***************************************************************************)
InString(b, grown, closed) ==
    CASE b = "quote"  -> closed
      [] b = "escape" -> [grown EXCEPT !.mode = "error"]
      [] OTHER        -> grown

ScanByte(scan, b, field) ==
    CASE scan.mode = "start" ->
           IF b = "space" THEN scan
           ELSE IF b = "open_brace" THEN MainByte(scan, b) ELSE To(scan, "error")
      [] scan.mode = "main" -> MainByte(scan, b)
      [] scan.mode = "key" ->
           InString(b, [scan EXCEPT !.key = Append(@, b)], To(scan, "colon"))
      [] scan.mode = "colon" ->
           IF b = "space" THEN scan
           ELSE To(scan, IF b = "colon" THEN "value" ELSE "error")
      [] scan.mode = "value" -> ValueByte(scan, b, field)
      [] scan.mode = "found" ->
           InString(b, [scan EXCEPT !.value = Append(@, b)], To(scan, "ok"))
      [] scan.mode = "string" -> InString(b, scan, To(scan, "main"))
      [] scan.mode = "skip" -> SkipByte(scan, b)
      [] scan.mode = "skip_string" -> InString(b, scan, To(scan, "skip"))
      [] scan.mode \in {"ok", "error"} -> scan

Extract(json, field) ==
    LET scan == FoldLeft(LAMBDA s, b : ScanByte(s, b, field), ScanStart, json)
    IN  [ok |-> scan.mode = "ok", value |-> scan.value]

-----------------------------------------------------------------------------
(* base64url_encode_no_pad *)

(***************************************************************************)
(* The bytes of a chunk as a number of 24 bits, with zeros at its end      *)
(* where the chunk is short.                                               *)
(***************************************************************************)
Bits24(chunk) ==
    CASE Len(chunk) = 3 -> 65536 * chunk[1] + 256 * chunk[2] + chunk[3]
      [] Len(chunk) = 2 -> 65536 * chunk[1] + 256 * chunk[2]
      [] Len(chunk) = 1 -> 65536 * chunk[1]

\* The four digits of such a number.
Digits24(b) ==
    <<(b \div 262144) % 64, (b \div 4096) % 64, (b \div 64) % 64, b % 64>>

\* Mutant of EncodeChunk: a digit is missing where the chunk is short.
EncodeChunkFloor(chunk) ==
    SubSeq(Digits24(Bits24(chunk)), 1, (8 * Len(chunk)) \div 6)

(***************************************************************************)
(* Three bytes make four digits; one makes two and two make three.         *)
(***************************************************************************)
EncodeChunk(chunk) == SubSeq(Digits24(Bits24(chunk)), 1, Len(chunk) + 1)

Chunks(bytes) ==
    [i \in 1 .. (Len(bytes) + 2) \div 3 |->
       SubSeq(bytes, 3 * i - 2,
              IF 3 * i < Len(bytes) THEN 3 * i ELSE Len(bytes))]

Base64(bytes) ==
    FoldLeft(LAMBDA out, chunk : out \o EncodeChunk(chunk), <<>>, Chunks(bytes))

-----------------------------------------------------------------------------
(* The browser. *)

Top == Last(grammar.open)

AtValue == grammar.expect \in {"value", "value_or_close"}

AtClose ==
    \/ grammar.expect = "comma_or_close"
    \/ Top = "object" /\ grammar.expect = "key_or_close"
    \/ Top = "array" /\ grammar.expect = "value_or_close"

(***************************************************************************)
(* One lexeme is written; then next is expected, in the containers open.   *)
(***************************************************************************)
WriteLexeme(bytes, next, open) ==
    /\ digest = <<>>
    /\ lexemes < MaxLexemes
    /\ text' = text \o bytes
    /\ grammar' = [grammar EXCEPT !.expect = next, !.open = open]
    /\ lexemes' = lexemes + 1
    /\ UNCHANGED <<keys, digest>>

(***************************************************************************)
(* A value right in the top object is a member of it.                      *)
(***************************************************************************)
RecordMember(isString, value) ==
    members' = IF grammar.open # <<"object">> THEN members
               ELSE Append(members, [key |-> Last(keys), string |-> isString,
                                     value |-> value])

OpenObject ==
    /\ AtValue \/ grammar.expect = "start"
    /\ WriteLexeme(<<"open_brace">>, "key_or_close", Append(grammar.open, "object"))
    /\ RecordMember(FALSE, <<>>)

OpenArray ==
    /\ AtValue
    /\ WriteLexeme(<<"open_bracket">>, "value_or_close", Append(grammar.open, "array"))
    /\ RecordMember(FALSE, <<>>)

CloseContainer ==
    /\ grammar.open # <<>>
    /\ AtClose
    /\ WriteLexeme(<<IF Top = "object" THEN "close_brace"
                   ELSE "close_bracket">>,
                 IF Len(grammar.open) = 1 THEN "end" ELSE "comma_or_close",
                 Front(grammar.open))
    /\ UNCHANGED members

Comma ==
    /\ grammar.expect = "comma_or_close"
    /\ WriteLexeme(<<"comma">>, IF Top = "object" THEN "key" ELSE "value",
                   grammar.open)
    /\ UNCHANGED members

Quoted(s) == <<"quote">> \o s \o <<"quote">>

(***************************************************************************)
(* A key and its colon, with or without white space around the colon (the  *)
(* text has white space in one place at most).                             *)
(***************************************************************************)
Key(s, gap) ==
    /\ grammar.expect \in {"key", "key_or_close"}
    /\ gap # <<>> => "space" \notin Range(text)
    /\ digest = <<>>
    /\ lexemes < MaxLexemes
    /\ text' = text \o Quoted(s) \o gap \o <<"colon">> \o gap
    /\ grammar' = [grammar EXCEPT !.expect = "value"]
    /\ keys' = IF Len(grammar.open) = 1 THEN Append(keys, s) ELSE keys
    /\ lexemes' = lexemes + 1
    /\ UNCHANGED <<members, digest>>

StringValue(s) ==
    /\ AtValue
    /\ WriteLexeme(Quoted(s), "comma_or_close", grammar.open)
    /\ RecordMember(TRUE, s)

Literal ==
    /\ AtValue
    /\ WriteLexeme(<<"1">>, "comma_or_close", grammar.open)
    /\ RecordMember(FALSE, <<>>)

(***************************************************************************)
(* White space between two lexemes.                                        *)
(***************************************************************************)
Space ==
    /\ "space" \notin Range(text)
    /\ WriteLexeme(<<"space">>, grammar.expect, grammar.open)
    /\ UNCHANGED members

GrowDigest(b) ==
    /\ text = <<>>
    /\ Len(digest) < MaxDigest
    /\ digest' = Append(digest, b)
    /\ UNCHANGED <<text, grammar, keys, members, lexemes>>

ClientDataInit ==
    /\ text = <<>>
    /\ grammar = [expect |-> "start", open |-> <<>>]
    /\ keys = <<>>
    /\ members = <<>>
    /\ lexemes = 0
    /\ digest = <<>>

ClientDataComplete ==
    /\ \/ lexemes = MaxLexemes
       \/ Len(digest) = MaxDigest
       \/ grammar.expect = "end"
    /\ UNCHANGED jvars

ClientDataNext ==
    \/ OpenObject \/ OpenArray \/ CloseContainer \/ Comma \/ Literal \/ Space
    \/ \E s \in Strings : StringValue(s)
                            \/ \E gap \in {<<>>, <<"space">>} : Key(s, gap)
    \/ \E b \in DigestBytes : GrowDigest(b)
    \/ ClientDataComplete

ClientDataSpec == ClientDataInit /\ [][ClientDataNext]_jvars

-----------------------------------------------------------------------------
Escaped(s) == "escape" \in Range(s)

Named(field) == {i \in DOMAIN members : members[i].key = field}

(***************************************************************************)
(* What the scanner finds is what the object says: the value it returns is *)
(* a string member of the top object with that very name, no earlier       *)
(* member has the name or may have it once its escapes are read, and there *)
(* are no escapes in the value.  The comment promises the rejection of     *)
(* escapes "to prevent challenge injection".                               *)
(***************************************************************************)
ExtractIsSound ==
    \A field \in Fields :
       LET found == Extract(text, field)
       IN  found.ok => \E i \in Named(field) :
                          /\ members[i].string
                          /\ members[i].value = found.value
                          /\ ~ Escaped(found.value)
                          /\ \A j \in 1 .. i - 1 :
                               members[j].key # field /\ ~ Escaped(members[j].key)

(***************************************************************************)
(* A text without escapes is never refused: if the first member of the     *)
(* name is a string, it is found, whatever braces, brackets and commas the *)
(* strings and the nested values around it hold.                           *)
(***************************************************************************)
ExtractIsComplete ==
    grammar.expect = "end" /\ "escape" \notin Range(text) =>
      \A field \in Fields :
         (\E i \in Named(field) : /\ members[i].string
                                  /\ \A j \in Named(field) : i <= j)
           => Extract(text, field).ok

(***************************************************************************)
(* What base64url digits say.  The k-th byte has its bits in two digits,   *)
(* one behind the other.                                                   *)
(***************************************************************************)
DecodedByte(k, first, next) ==
    CASE k % 3 = 1 -> 4 * first + next \div 16
      [] k % 3 = 2 -> 16 * (first % 16) + next \div 4
      [] k % 3 = 0 -> 64 * (first % 4) + next

Decode(digits) ==
    [k \in 1 .. (6 * Len(digits)) \div 8 |->
       LET before == (4 * (k - 1)) \div 3
       IN  DecodedByte(k, digits[before + 1], digits[before + 2])]

(***************************************************************************)
(* The challenge in the text equals the expected one only if the digests   *)
(* are equal: the encoding loses no bit of a digest, whatever its length   *)
(* modulo 3 is.                                                            *)
(***************************************************************************)
EncodingIsFaithful == Decode(Base64(digest)) = digest
=============================================================================
