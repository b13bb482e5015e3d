---------------------------- MODULE FormatProofs ----------------------------
(***************************************************************************)
(* Proofs about the bytes of an instruction.  Compact: what a client       *)
(* serialises is what the program parses, and the other way round, and the *)
(* hash of the keys binds the calls.  ClientData: what the scanner finds   *)
(* in a JSON text is what the text says, and a digest is read back from    *)
(* its encoding.  Passkey: what the program accepts was signed by the      *)
(* authority's own key, and a payload holds nothing but its parts.         *)
(***************************************************************************)
EXTENDS Compact, ClientData, Passkey, DataInduction

-----------------------------------------------------------------------------
(* One compact instruction. *)

(***************************************************************************)
(* What a u8 can index, and u8 and u16 can count.                          *)
(***************************************************************************)
CompactInstructions ==
    {ix \in [program_id_index: U8, accounts: Seq(U8), data: Seq(U8)] :
       Len(ix.accounts) < Base /\ Len(ix.data) < Base * Base}

(***************************************************************************)
(* Where the five parts of a list are.                                     *)
(***************************************************************************)
IsRow(whole, s1, s2, s3, s4, s5, n2, n4, n5) ==
    /\ whole = s1 \o s2 \o s3 \o s4 \o s5
    /\ Len(whole) = n2 + 4 + n4 + n5
    /\ whole[1] = s1[1] /\ whole[2] = s1[2]
    /\ whole[n2 + 3] = s3[1] /\ whole[n2 + 4] = s3[2]
    /\ SubSeq(whole, 3, n2 + 2) = s2
    /\ SubSeq(whole, n2 + 5, n2 + 4 + n4) = s4
    /\ SubSeq(whole, n2 + 4 + n4 + 1, n2 + 4 + n4 + n5) = s5

(***************************************************************************)
(* Five lists behind one another, the first and the third of two entries,  *)
(* have their entries in the places that the parser looks at.              *)
(***************************************************************************)
LEMMA PartsInPlace ==
    ASSUME NEW S, NEW s1 \in Seq(S), NEW s2 \in Seq(S), NEW s3 \in Seq(S),
           NEW s4 \in Seq(S), NEW s5 \in Seq(S),
           NEW n2 \in Nat, NEW n4 \in Nat, NEW n5 \in Nat,
           Len(s1) = 2, Len(s2) = n2, Len(s3) = 2, Len(s4) = n4, Len(s5) = n5
    PROVE  \E whole \in Seq(S) : IsRow(whole, s1, s2, s3, s4, s5, n2, n4, n5)
  <1>1. PICK x2 \in Seq(S) : Joined(x2, s1, s2)
    BY JoinedExists
  <1>2. PICK x3 \in Seq(S) : Joined(x3, x2, s3)
    BY JoinedExists
  <1>3. PICK x4 \in Seq(S) : Joined(x4, x3, s4)
    BY JoinedExists
  <1>4. PICK x5 \in Seq(S) : Joined(x5, x4, s5)
    BY JoinedExists
  <1>5. x5 = s1 \o s2 \o s3 \o s4 \o s5
    <2>1. x2 = s1 \o s2
      BY <1>1 DEF Joined
    <2>2. x3 = x2 \o s3
      BY <1>2 DEF Joined
    <2>3. x4 = x3 \o s4
      BY <1>3 DEF Joined
    <2>4. x5 = x4 \o s5
      BY <1>4 DEF Joined
    <2> QED
      BY <2>1, <2>2, <2>3, <2>4
  <1>6. PICK n3 \in Nat, n6 \in Nat, n7 \in Nat, n8 \in Nat :
          n3 = n2 + 2 /\ n6 = n2 + 4 /\ n7 = n2 + 4 + n4 /\ n8 = n2 + 4 + n4 + n5
    OBVIOUS
  <1>7. Len(x2) = n3 /\ Len(x3) = n6 /\ Len(x4) = n7 /\ Len(x5) = n8
    <2>1. Len(x2) = n3
      BY <1>1, <1>6 DEF Joined
    <2>2. Len(x3) = n6
      BY <1>2, <1>6, <2>1 DEF Joined
    <2>3. Len(x4) = n7
      BY <1>3, <1>6, <2>2 DEF Joined
    <2>4. Len(x5) = n8
      BY <1>4, <1>6, <2>3 DEF Joined
    <2> QED
      BY <2>1, <2>2, <2>3, <2>4
  <1>8. /\ x5[1] = s1[1] /\ x5[2] = s1[2]
        /\ x5[n2 + 3] = s3[1] /\ x5[n2 + 4] = s3[2]
    <2>1. \A i \in 1 .. n6 : x5[i] = x3[i]
      BY <1>3, <1>4, <1>6, <1>7 DEF Joined
    <2>2. \A i \in 1 .. 2 : x3[n3 + i] = s3[i] /\ x3[i] = s1[i]
      BY <1>1, <1>2, <1>6, <1>7, SMTT(40) DEF Joined
    <2>3. n3 + 1 = n2 + 3 /\ n3 + 2 = n2 + 4 /\ 1 \in 1 .. n6 /\ 2 \in 1 .. n6
          /\ n2 + 3 \in 1 .. n6 /\ n2 + 4 \in 1 .. n6
      BY <1>6
    <2>4. x3[n3 + 1] = s3[1] /\ x3[n3 + 2] = s3[2] /\ x3[1] = s1[1] /\ x3[2] = s1[2]
      BY <2>2
    <2> QED
      BY <2>1, <2>3, <2>4
  <1>9. SubSeq(x5, 3, n2 + 2) = s2
    <2>1. \A i \in 1 .. n2 : x5[2 + i] = s2[i]
      <3> TAKE i \in 1 .. n2
      <3>1. 2 + i \in 1 .. n3 /\ 2 + i \in 1 .. n6 /\ 2 + i \in 1 .. n7
        BY <1>6
      <3>2. x5[2 + i] = x4[2 + i]
        BY <1>4, <1>7, <3>1 DEF Joined
      <3>3. x4[2 + i] = x3[2 + i]
        BY <1>3, <1>7, <3>1 DEF Joined
      <3>4. x3[2 + i] = x2[2 + i]
        BY <1>2, <1>7, <3>1 DEF Joined
      <3>5. x2[2 + i] = s2[i]
        BY <1>1 DEF Joined
      <3> QED
        BY <3>2, <3>3, <3>4, <3>5
    <2>2. 2 + n2 <= Len(x5)
      BY <1>6, <1>7
    <2>3. SubSeq(x5, 2 + 1, 2 + Len(s2)) = s2
      BY <2>1, <2>2, PartIs
    <2> QED
      BY <2>3
  <1>10. SubSeq(x5, n2 + 5, n2 + 4 + n4) = s4
    <2>1. \A i \in 1 .. n4 : x5[n6 + i] = s4[i]
      <3> TAKE i \in 1 .. n4
      <3>1. n6 + i \in 1 .. n7
        BY <1>6
      <3> QED
        BY <1>3, <1>4, <1>7, <3>1 DEF Joined
    <2>2. n6 + Len(s4) <= Len(x5)
      BY <1>6, <1>7
    <2>3. SubSeq(x5, n6 + 1, n6 + Len(s4)) = s4
      BY <2>1, <2>2, PartIs
    <2>4. n6 + 1 = n2 + 5 /\ n6 + n4 = n2 + 4 + n4
      BY <1>6
    <2> QED
      BY <2>3, <2>4
  <1>11. SubSeq(x5, n2 + 4 + n4 + 1, n2 + 4 + n4 + n5) = s5
    <2>1. \A i \in 1 .. n5 : x5[n7 + i] = s5[i]
      BY <1>4, <1>7 DEF Joined
    <2>2. n7 + Len(s5) <= Len(x5)
      BY <1>6, <1>7
    <2>3. SubSeq(x5, n7 + 1, n7 + Len(s5)) = s5
      BY <2>1, <2>2, PartIs
    <2> QED
      BY <1>6, <2>3
  <1> QED
    BY <1>5, <1>6, <1>7, <1>8, <1>9, <1>10, <1>11 DEF IsRow

(***************************************************************************)
(* What a list is read as that starts with an instruction.                 *)
(***************************************************************************)
ReadTo(bytes, na, nd) ==
    IF Len(bytes) < na + 4 \/ Len(bytes) < na + 4 + nd
    THEN ParseError
    ELSE [ok |-> TRUE,
          ix |-> [program_id_index |-> bytes[1],
                  accounts |-> SubSeq(bytes, 3, na + 2),
                  data |-> SubSeq(bytes, na + 5, na + 4 + nd)],
          rest |-> SubSeq(bytes, na + 4 + nd + 1, Len(bytes))]

(***************************************************************************)
(* FromBytes reads that, with the two lengths it finds.                    *)
(***************************************************************************)
LEMMA ReadAt ==
    ASSUME NEW bytes, NEW na \in Nat, NEW nd \in Nat,
           bytes[2] = na, bytes[na + 3] \in Nat, bytes[na + 4] \in Nat,
           bytes[na + 3] + Base * bytes[na + 4] = nd, Len(bytes) \in Nat
    PROVE  FromBytes(bytes) = ReadTo(bytes, na, nd)
  <1>1. PICK low \in Nat, high \in Nat :
          low = bytes[na + 3] /\ high = Base * bytes[na + 4] /\ low + high = nd
    <2>1. PICK low \in Nat, top \in Nat : low = bytes[na + 3] /\ top = bytes[na + 4]
      OBVIOUS
    <2>2. PICK high \in Nat : high = Base * top
      BY CompactAssumption
    <2> QED
      BY <2>1, <2>2
  <1>2. PICK start \in Nat, end \in Nat :
          /\ start = na + 4 /\ end = na + 4 + nd
          /\ 2 + na = na + 2 /\ 2 + na + 2 = start /\ start - 1 = na + 3
          /\ start + 1 = na + 5 /\ start + low + high = end
    <2>1. low + high = nd
      BY <1>1
    <2> QED
      BY <2>1
  <1>3. 2 + bytes[2] = na + 2 /\ 2 + bytes[2] + 2 = start
    BY <1>2
  <1>4. start + bytes[start - 1] + Base * bytes[start] = end
    BY <1>1, <1>2
  <1>5. PICK n \in Nat : n = Len(bytes)
    OBVIOUS
  <1>6. (n < 4 \/ n < start \/ n < end) <=> (n < na + 4 \/ n < na + 4 + nd)
    BY <1>2
  <1>7. FromBytes(bytes) =
          IF n < 4 \/ n < start \/ n < end
          THEN ParseError
          ELSE [ok |-> TRUE,
                ix |-> [program_id_index |-> bytes[1],
                        accounts |-> SubSeq(bytes, 3, na + 2),
                        data |-> SubSeq(bytes, start + 1, end)],
                rest |-> SubSeq(bytes, end + 1, Len(bytes))]
    BY <1>3, <1>4, <1>5 DEF FromBytes
  <1> QED
    BY <1>2, <1>5, <1>6, <1>7 DEF ReadTo

(***************************************************************************)
(* What the client writes is what the program reads, whatever follows.     *)
(***************************************************************************)
LEMMA WrittenIsRead ==
    ASSUME NEW ix \in CompactInstructions, NEW rest \in Seq(U8)
    PROVE  /\ ToBytes(ix) \in Seq(U8)
           /\ FromBytes(ToBytes(ix) \o rest) = [ok |-> TRUE, ix |-> ix, rest |-> rest]
  <1>1. PICK S : S = U8 /\ S = 0 .. Base - 1
    BY DEF U8
  <1>2. PICK i \in S, accounts \in Seq(S), d \in Seq(S) :
          /\ ix = [program_id_index |-> i, accounts |-> accounts, data |-> d]
          /\ Len(accounts) < Base /\ Len(d) < Base * Base
    <2>1. ix = [program_id_index |-> ix.program_id_index,
                accounts |-> ix.accounts, data |-> ix.data]
      BY DEF CompactInstructions
    <2>2. /\ ix.program_id_index \in S /\ ix.accounts \in Seq(S)
          /\ ix.data \in Seq(S)
          /\ Len(ix.accounts) < Base /\ Len(ix.data) < Base * Base
      BY <1>1 DEF CompactInstructions
    <2> QED
      BY <2>1, <2>2
  <1>3. PICK na \in Nat, nd \in Nat : na = Len(accounts) /\ nd = Len(d)
    OBVIOUS
  <1>4. Base \in Nat \ {0, 1}
    BY CompactAssumption
  <1>5. PICK low \in S, high \in S :
          /\ low = (nd % Base) /\ high = ((nd \div Base) % Base)
          /\ low + Base * high = nd
    <2>1. nd < Base * Base
      BY <1>2, <1>3
    <2> QED
      BY <1>1, <1>4, <2>1, DigitsOf
  <1>6. na \in S
    BY <1>1, <1>2, <1>3, <1>4
  <1>7. PICK s1 \in Seq(S) : s1 = <<i, na>> /\ Len(s1) = 2 /\ s1[1] = i /\ s1[2] = na
    <2>1. /\ <<i, na>> \in Seq(S) /\ Len(<<i, na>>) = 2
          /\ <<i, na>>[1] = i /\ <<i, na>>[2] = na
      BY <1>6, PairIsSeq
    <2> QED
      BY <2>1
  <1>8. PICK s3 \in Seq(S) :
          s3 = <<low, high>> /\ Len(s3) = 2 /\ s3[1] = low /\ s3[2] = high
    <2>1. /\ <<low, high>> \in Seq(S) /\ Len(<<low, high>>) = 2
          /\ <<low, high>>[1] = low /\ <<low, high>>[2] = high
      BY PairIsSeq
    <2> QED
      BY <2>1
  <1>9. ToBytes(ix) = s1 \o accounts \o s3 \o d
    BY <1>2, <1>3, <1>5, <1>7, <1>8 DEF ToBytes
  <1>10. s1 \o accounts \o s3 \o d \in Seq(S)
    BY ConcatProperties
  <1>11. PICK nr \in Nat : rest \in Seq(S) /\ nr = Len(rest)
    BY <1>1
  <1>12. PICK bytes \in Seq(S) : IsRow(bytes, s1, accounts, s3, d, rest, na, nd, nr)
    BY <1>3, <1>7, <1>8, <1>11, PartsInPlace
  <1>13. /\ bytes[1] = i /\ bytes[2] = na
         /\ bytes[na + 3] = low /\ bytes[na + 4] = high
    BY <1>7, <1>8, <1>12 DEF IsRow
  <1>14. low \in Nat /\ high \in Nat
    BY <1>1, <1>4
  <1>15. FromBytes(bytes) = ReadTo(bytes, na, nd)
    <2>1. Len(bytes) \in Nat
      OBVIOUS
    <2>2. bytes[na + 3] + Base * bytes[na + 4] = nd
      BY <1>5, <1>13
    <2> QED
      BY <1>13, <1>14, <2>1, <2>2, ReadAt
  <1>16. PICK n \in Nat : n = Len(bytes) /\ n = na + 4 + nd + nr
    <2>1. Len(bytes) = na + 4 + nd + nr
      BY <1>12 DEF IsRow
    <2>2. na + 4 + nd + nr \in Nat
      OBVIOUS
    <2> QED
      BY <2>1, <2>2
  <1>17. ~ (n < na + 4 \/ n < na + 4 + nd)
    BY <1>16
  <1>18. FromBytes(bytes) = [ok |-> TRUE, ix |-> ix, rest |-> rest]
    <2>1. /\ SubSeq(bytes, 3, na + 2) = accounts
          /\ SubSeq(bytes, na + 5, na + 4 + nd) = d
          /\ SubSeq(bytes, na + 4 + nd + 1, n) = rest
      BY <1>12, <1>16 DEF IsRow
    <2> QED
      BY <1>2, <1>13, <1>15, <1>16, <1>17, <2>1 DEF ReadTo
  <1>19. bytes = (s1 \o accounts \o s3 \o d) \o rest
    BY <1>12 DEF IsRow
  <1> QED
    BY <1>1, <1>9, <1>10, <1>18, <1>19

(***************************************************************************)
(* A list cut at four places is its five parts in a row.                   *)
(***************************************************************************)
LEMMA CutAtFour ==
    ASSUME NEW S, NEW p \in Seq(S), NEW a \in Nat, NEW d \in Nat,
           2 <= a, a + 2 <= d, d <= Len(p)
    PROVE  p = <<p[1], p[2]>> \o SubSeq(p, 3, a) \o <<p[a + 1], p[a + 2]>>
                 \o SubSeq(p, a + 3, d) \o SubSeq(p, d + 1, Len(p))
  <1>0. PICK n \in Nat : n = Len(p)
    OBVIOUS
  <1>1. SubSeq(p, 1, 2) \o SubSeq(p, 3, a) = SubSeq(p, 1, a)
    BY ConcatAdjacentSubSeq
  <1>2. SubSeq(p, 1, a) \o SubSeq(p, a + 1, a + 2) = SubSeq(p, 1, a + 2)
    BY ConcatAdjacentSubSeq
  <1>3. SubSeq(p, 1, a + 2) \o SubSeq(p, a + 3, d) = SubSeq(p, 1, d)
    <2>1. /\ 1 \in 1 .. Len(p) + 1 /\ a + 2 \in 1 - 1 .. Len(p)
          /\ d \in a + 2 .. Len(p) /\ a + 2 + 1 = a + 3
      BY <1>0
    <2> QED
      BY <2>1, ConcatAdjacentSubSeq
  <1>4. SubSeq(p, 1, d) \o SubSeq(p, d + 1, Len(p)) = p
    <2>1. /\ 1 \in 1 .. Len(p) + 1 /\ d \in 1 - 1 .. Len(p)
          /\ Len(p) \in d .. Len(p)
      BY <1>0
    <2>2. SubSeq(p, 1, d) \o SubSeq(p, d + 1, Len(p)) = SubSeq(p, 1, Len(p))
      BY <2>1, ConcatAdjacentSubSeq
    <2> QED
      BY <2>2, SubSeqFull
  <1>5. SubSeq(p, 1, 2) = <<p[1], p[2]>>
    BY <1>0, ShortParts
  <1>6. SubSeq(p, a + 1, a + 2) = <<p[a + 1], p[a + 2]>>
    <2>1. a + 1 \in 1 .. Len(p) /\ a + 1 + 1 <= Len(p) /\ a + 1 + 1 = a + 2
      BY <1>0
    <2> QED
      BY <2>1, ShortParts
  <1> QED
    BY <1>1, <1>2, <1>3, <1>4, <1>5, <1>6

(***************************************************************************)
(* What the program reads is what a client would have written.             *)
(***************************************************************************)
LEMMA ReadIsWritten ==
    ASSUME NEW bytes \in Seq(U8), FromBytes(bytes).ok
    PROVE  \E ix \in CompactInstructions, rest \in Seq(U8) :
              /\ FromBytes(bytes) = [ok |-> TRUE, ix |-> ix, rest |-> rest]
              /\ bytes = ToBytes(ix) \o rest
  <1>1. PICK S : S = U8 /\ S = 0 .. Base - 1
    BY DEF U8
  <1>2. Base \in Nat \ {0, 1}
    BY CompactAssumption
  <1>3. PICK n \in Nat : n = Len(bytes)
    OBVIOUS
  <1>4. n >= 4
    <2> SUFFICES ASSUME n < 4 PROVE FALSE
      BY <1>3
    <2>1. Len(bytes) < 4
      BY <1>3
    <2> QED
      BY <2>1 DEF FromBytes, ParseError
  <1>5. bytes \in Seq(S)
    BY <1>1
  <1>6. \A k \in 1 .. n : bytes[k] \in S
    BY <1>3, <1>5
  <1>7. PICK i \in S, na \in S : i = bytes[1] /\ na = bytes[2]
    <2>1. 1 \in 1 .. n /\ 2 \in 1 .. n
      BY <1>4
    <2> QED
      BY <1>6, <2>1
  <1>8. na \in Nat
    BY <1>1, <1>2
  <1>9. n >= na + 4
    <2> SUFFICES ASSUME n < na + 4 PROVE FALSE
      BY <1>3, <1>8
    <2>1. 2 + na + 2 = na + 4
      BY <1>8
    <2>2. Len(bytes) < 2 + bytes[2] + 2
      BY <1>3, <1>7, <2>1
    <2> QED
      BY <2>2 DEF FromBytes, ParseError
  <1>10. PICK low \in S, high \in S :
           low = bytes[na + 3] /\ high = bytes[na + 4]
    <2>1. na + 3 \in 1 .. n /\ na + 4 \in 1 .. n
      BY <1>8, <1>9
    <2> QED
      BY <1>6, <2>1
  <1>11. low \in Nat /\ high \in Nat
    BY <1>1, <1>2
  <1>12. PICK nd \in Nat : nd = low + Base * high
    BY <1>2, <1>11
  <1>13. low = (nd % Base) /\ high = ((nd \div Base) % Base) /\ nd < Base * Base
    <2>1. (nd % Base) = low /\ nd \div Base = high
      BY <1>1, <1>2, <1>12, TwoDigits
    <2>2. (high % Base) = high
      BY <1>1, <1>2
    <2>3. nd < Base * Base
      <3>1. high + 1 <= Base /\ low < Base
        BY <1>1, <1>2
      <3>2. Base * (high + 1) <= Base * Base
        BY <1>2, <1>11, <3>1
      <3>3. Base * (high + 1) = Base * high + Base
        BY <1>2, <1>11
      <3>4. PICK t \in Nat, q \in Nat : t = Base * high /\ q = Base * Base
        BY <1>2, <1>11
      <3> QED
        BY <1>2, <1>11, <1>12, <3>1, <3>2, <3>3, <3>4
    <2> QED
      BY <2>1, <2>2, <2>3
  <1>14. FromBytes(bytes) = ReadTo(bytes, na, nd)
    <2>1. bytes[na + 3] + Base * bytes[na + 4] = nd
      BY <1>10, <1>12
    <2> QED
      BY <1>3, <1>7, <1>8, <1>10, <1>11, <2>1, ReadAt
  <1>15. n >= na + 4 + nd
    <2>1. ~ (Len(bytes) < na + 4 + nd)
      BY <1>14 DEF ReadTo, ParseError
    <2> QED
      BY <1>3, <1>8, <2>1
  <1>16. PICK accounts \in Seq(S), d \in Seq(S), rest \in Seq(S) :
           /\ accounts = SubSeq(bytes, 3, na + 2) /\ Len(accounts) = na
           /\ d = SubSeq(bytes, na + 5, na + 4 + nd) /\ Len(d) = nd
           /\ rest = SubSeq(bytes, na + 4 + nd + 1, Len(bytes))
    <2>1. bytes \in Seq(S)
      BY <1>1
    <2>2. PICK m \in Nat, e \in Nat : m = na + 4 + nd /\ e = na + 2
      BY <1>8
    <2>3. /\ SubSeq(bytes, 3, e) \in Seq(S)
          /\ Len(SubSeq(bytes, 3, e)) = e - 3 + 1
      <3>1. e <= Len(bytes) /\ 3 <= e + 1 /\ 3 \in Nat \ {0}
        BY <1>3, <1>8, <1>9, <2>2
      <3> QED
        BY <2>1, <3>1, PartIn
    <2>4. /\ SubSeq(bytes, na + 5, m) \in Seq(S)
          /\ Len(SubSeq(bytes, na + 5, m)) = m - (na + 5) + 1
      <3>1. na + 5 \in Nat \ {0} /\ m <= Len(bytes) /\ na + 5 <= m + 1
        BY <1>3, <1>8, <1>9, <1>15, <2>2
      <3> QED
        BY <2>1, <3>1, PartIn
    <2>5. SubSeq(bytes, m + 1, n) \in Seq(S)
      <3>1. m + 1 \in Nat \ {0} /\ n <= Len(bytes) /\ m + 1 <= n + 1
        BY <1>3, <1>15, <2>2
      <3> QED
        BY <2>1, <3>1, PartIn
    <2>6. e - 3 + 1 = na /\ m - (na + 5) + 1 = nd
      BY <1>8, <2>2
    <2> QED
      BY <1>3, <2>2, <2>3, <2>4, <2>5, <2>6
  <1>17. PICK ix : ix = [program_id_index |-> i, accounts |-> accounts, data |-> d]
    OBVIOUS
  <1>18. ix \in CompactInstructions
    <2>1. ix \in [program_id_index: S, accounts: Seq(S), data: Seq(S)]
      BY <1>17
    <2>2. na < Base
      BY <1>1, <1>2
    <2>3. Len(ix.accounts) < Base /\ Len(ix.data) < Base * Base
      BY <1>13, <1>16, <1>17, <2>2
    <2> QED
      BY <1>1, <2>1, <2>3 DEF CompactInstructions
  <1>19. FromBytes(bytes) = [ok |-> TRUE, ix |-> ix, rest |-> rest]
    <2>1. ~ (Len(bytes) < na + 4 \/ Len(bytes) < na + 4 + nd)
      BY <1>3, <1>8, <1>9, <1>15
    <2> QED
      BY <1>7, <1>14, <1>16, <1>17, <2>1 DEF ReadTo
  <1>20. bytes = <<i, na>> \o accounts \o <<low, high>> \o d \o rest
    <2>1. PICK a \in Nat, m \in Nat : a = na + 2 /\ m = na + 4 + nd
      BY <1>8
    <2>2. /\ 2 <= a /\ a + 2 <= m /\ m <= Len(bytes)
          /\ a + 1 = na + 3 /\ a + 2 = na + 4 /\ a + 3 = na + 5
      BY <1>3, <1>8, <1>9, <1>15, <2>1
    <2>3. bytes = <<bytes[1], bytes[2]>> \o SubSeq(bytes, 3, a)
                    \o <<bytes[a + 1], bytes[a + 2]>>
                    \o SubSeq(bytes, a + 3, m) \o SubSeq(bytes, m + 1, Len(bytes))
      BY <1>5, <2>2, CutAtFour
    <2> QED
      BY <1>7, <1>10, <1>16, <2>1, <2>2, <2>3
  <1>21. ToBytes(ix) = <<i, na>> \o accounts \o <<low, high>> \o d
    BY <1>13, <1>16, <1>17 DEF ToBytes
  <1> QED
    BY <1>1, <1>18, <1>19, <1>20, <1>21

-----------------------------------------------------------------------------
(* The loops over the instructions. *)

(***************************************************************************)
(* The fold of into_bytes.                                                 *)
(***************************************************************************)
IsWriting(g, ixs, D) ==
    g = [s \in SUBSET D |->
           IF s = {} THEN <<Len(ixs)>> ELSE g[s \ {Max(s)}] \o ToBytes(ixs[Max(s)])]

(***************************************************************************)
(* into_bytes writes one instruction behind another.                       *)
(***************************************************************************)
LEMMA WritingIsConcat ==
    ASSUME NEW ixs, NEW n \in Nat, DOMAIN ixs = 1 .. n, Len(ixs) = n,
           NEW S, <<n>> \in Seq(S),
           NEW p, \A k \in 1 .. n : p[k] = ToBytes(ixs[k]) /\ p[k] \in Seq(S)
    PROVE  \E acc : IsConcat(acc, n, S, <<n>>, p) /\ acc[n] = IntoBytes(ixs)
  <1>0. PICK D : D = 1 .. n
    OBVIOUS
  <1>1. PICK base \in Seq(S) : base = <<n>>
    OBVIOUS
  <1>2. IntoBytes(ixs) = (CHOOSE g : IsWriting(g, ixs, D))[D]
    BY <1>0 DEF IntoBytes, FoldLeft, MapThenFoldSet, IsWriting
  <1>3. \A s \in SUBSET D : s # {} => Max(s) \in s
    BY <1>0, Largest
  <1>4. \E g : IsWriting(g, ixs, D)
    <2>1. PICK g \in [SUBSET D -> Seq(S)] : IsJoin(g, D, base, p)
      <3>1. AreLists(p, n, S)
        BY DEF AreLists
      <3> QED
        BY <1>0, <3>1, JoinExists
    <2>2. IsWriting(g, ixs, D)
      <3>1. ASSUME NEW s \in SUBSET D
            PROVE  g[s] = IF s = {} THEN <<Len(ixs)>>
                          ELSE g[s \ {Max(s)}] \o ToBytes(ixs[Max(s)])
        <4>1. CASE s = {}
          BY <1>1, <2>1, <4>1 DEF IsJoin
        <4>2. CASE s # {}
          <5>1. PICK m \in D : m = Max(s)
            BY <1>3, <4>2
          <5>2. g[s] = g[s \ {m}] \o p[m]
            BY <2>1, <4>2, <5>1 DEF IsJoin
          <5>3. p[m] = ToBytes(ixs[m])
            BY <1>0
          <5> QED
            BY <4>2, <5>1, <5>2, <5>3
        <4> QED
          BY <4>1, <4>2
      <3> QED
        BY <2>1, <3>1 DEF IsWriting
    <2> QED
      BY <2>2
  <1>5. PICK g : g = (CHOOSE w : IsWriting(w, ixs, D)) /\ IsWriting(g, ixs, D)
    BY <1>4
  <1>6. IsJoin(g, D, base, p)
    <2>1. ASSUME NEW s \in SUBSET D
          PROVE  g[s] = IF s = {} THEN base ELSE g[s \ {Max(s)}] \o p[Max(s)]
      <3>1. g[s] = IF s = {} THEN <<Len(ixs)>>
                   ELSE g[s \ {Max(s)}] \o ToBytes(ixs[Max(s)])
        BY <1>5 DEF IsWriting
      <3>2. CASE s = {}
        BY <1>1, <3>1, <3>2
      <3>3. CASE s # {}
        <4>1. PICK m \in D : m = Max(s)
          BY <1>3, <3>3
        <4>2. p[m] = ToBytes(ixs[m])
          BY <1>0
        <4> QED
          BY <3>1, <3>3, <4>1, <4>2
      <3> QED
        BY <3>2, <3>3
    <2> QED
      BY <2>1 DEF IsJoin
  <1>7. \E acc : IsConcat(acc, n, S, base, p) /\ acc[n] = g[1 .. n]
    <2>1. AreLists(p, n, S)
      BY DEF AreLists
    <2>2. IsJoin(g, 1 .. n, base, p)
      BY <1>0, <1>6
    <2> QED
      BY <2>1, <2>2, JoinIsConcat
  <1> QED
    BY <1>0, <1>1, <1>2, <1>5, <1>7

(***************************************************************************)
(* The fold of compute_accounts_hash.                                      *)
(***************************************************************************)
IsNaming(g, ixs, accounts, D) ==
    g = [s \in SUBSET D |->
           IF s = {} THEN <<>>
           ELSE g[s \ {Max(s)}] \o Keys(Positions(ixs[Max(s)]), accounts)]

(***************************************************************************)
(* p has the keys that each of the instructions names.                     *)
(***************************************************************************)
ArePieces(p, ixs, n, accounts, S) ==
    \A k \in 1 .. n : p[k] = Keys(Positions(ixs[k]), accounts) /\ p[k] \in Seq(S)

(***************************************************************************)
(* compute_accounts_hash puts the keys of one instruction behind those of  *)
(* another.                                                                *)
(***************************************************************************)
LEMMA NamingIsConcat ==
    ASSUME NEW ixs, NEW n \in Nat, DOMAIN ixs = 1 .. n, NEW accounts, NEW S,
           NEW p, ArePieces(p, ixs, n, accounts, S)
    PROVE  \E acc : IsConcat(acc, n, S, <<>>, p) /\ acc[n] = NamedKeys(ixs, accounts)
  <1>0. PICK D : D = 1 .. n
    OBVIOUS
  <1>1. PICK base \in Seq(S) : base = <<>>
    BY EmptySeq
  <1>2. NamedKeys(ixs, accounts) = (CHOOSE g : IsNaming(g, ixs, accounts, D))[D]
    BY <1>0 DEF NamedKeys, FoldLeft, MapThenFoldSet, IsNaming
  <1>3. \A s \in SUBSET D : s # {} => Max(s) \in s
    BY <1>0, Largest
  <1>4. \E g : IsNaming(g, ixs, accounts, D)
    <2>1. PICK g \in [SUBSET D -> Seq(S)] : IsJoin(g, D, base, p)
      <3>1. AreLists(p, n, S)
        BY DEF ArePieces, AreLists
      <3> QED
        BY <1>0, <3>1, JoinExists
    <2>2. IsNaming(g, ixs, accounts, D)
      <3>1. ASSUME NEW s \in SUBSET D
            PROVE  g[s] = IF s = {} THEN <<>>
                          ELSE g[s \ {Max(s)}] \o Keys(Positions(ixs[Max(s)]), accounts)
        <4>1. CASE s = {}
          BY <1>1, <2>1, <4>1 DEF IsJoin
        <4>2. CASE s # {}
          <5>1. PICK m \in D : m = Max(s)
            BY <1>3, <4>2
          <5>2. g[s] = g[s \ {m}] \o p[m]
            BY <2>1, <4>2, <5>1 DEF IsJoin
          <5>3. p[m] = Keys(Positions(ixs[m]), accounts)
            BY <1>0 DEF ArePieces
          <5> QED
            BY <4>2, <5>1, <5>2, <5>3
        <4> QED
          BY <4>1, <4>2
      <3> QED
        BY <2>1, <3>1 DEF IsNaming
    <2> QED
      BY <2>2
  <1>5. PICK g : /\ g = (CHOOSE w : IsNaming(w, ixs, accounts, D))
                 /\ IsNaming(g, ixs, accounts, D)
    BY <1>4
  <1>6. IsJoin(g, D, base, p)
    <2>1. ASSUME NEW s \in SUBSET D
          PROVE  g[s] = IF s = {} THEN base ELSE g[s \ {Max(s)}] \o p[Max(s)]
      <3>1. g[s] = IF s = {} THEN <<>>
                   ELSE g[s \ {Max(s)}] \o Keys(Positions(ixs[Max(s)]), accounts)
        BY <1>5 DEF IsNaming
      <3>2. CASE s = {}
        BY <1>1, <3>1, <3>2
      <3>3. CASE s # {}
        <4>1. PICK m \in D : m = Max(s)
          BY <1>3, <3>3
        <4>2. p[m] = Keys(Positions(ixs[m]), accounts)
          BY <1>0 DEF ArePieces
        <4> QED
          BY <3>1, <3>3, <4>1, <4>2
      <3> QED
        BY <3>2, <3>3
    <2> QED
      BY <2>1 DEF IsJoin
  <1>7. \E acc : IsConcat(acc, n, S, base, p) /\ acc[n] = g[1 .. n]
    <2>1. AreLists(p, n, S)
      BY DEF ArePieces, AreLists
    <2>2. IsJoin(g, 1 .. n, base, p)
      BY <1>0, <1>6
    <2> QED
      BY <2>1, <2>2, JoinIsConcat
  <1> QED
    BY <1>0, <1>1, <1>2, <1>5, <1>7

(***************************************************************************)
(* What the parser has of a list, after some of its instructions.          *)
(***************************************************************************)
Parsed ==
    {ParseError} \cup [ok: {TRUE}, ixs: Seq(CompactInstructions), rest: Seq(U8)]

(***************************************************************************)
(* The parser goes from one step to the next by an instruction.            *)
(***************************************************************************)
Follows(parsed, next) ==
    \E ixs \in Seq(CompactInstructions), ix \in CompactInstructions,
       before \in Seq(U8), rest \in Seq(U8) :
       /\ parsed = [ok |-> TRUE, ixs |-> ixs, rest |-> before]
       /\ before = ToBytes(ix) \o rest
       /\ next = [ok |-> TRUE, ixs |-> Append(ixs, ix), rest |-> rest]

(***************************************************************************)
(* A step of the parser either fails or takes an instruction, as the       *)
(* serialiser would have written it, from the front of the bytes.          *)
(***************************************************************************)
LEMMA NextIsParsed ==
    ASSUME NEW parsed \in Parsed, NEW k
    PROVE  /\ ParseNext(parsed, k) \in Parsed
           /\ ParseNext(parsed, k).ok => Follows(parsed, ParseNext(parsed, k))
  <1>1. CASE ~ parsed.ok \/ ~ FromBytes(parsed.rest).ok
    <2>1. ParseNext(parsed, k) = ParseError
      BY <1>1 DEF ParseNext
    <2> QED
      BY <2>1 DEF Parsed, ParseError
  <1>2. CASE parsed.ok /\ FromBytes(parsed.rest).ok
    <2>1. parsed \in [ok: {TRUE}, ixs: Seq(CompactInstructions), rest: Seq(U8)]
      <3>1. ParseError.ok = FALSE
        BY DEF ParseError
      <3>2. parsed # ParseError
        BY <1>2, <3>1
      <3> QED
        BY <3>2 DEF Parsed
    <2>2. PICK ixs \in Seq(CompactInstructions), before \in Seq(U8) :
            parsed = [ok |-> TRUE, ixs |-> ixs, rest |-> before]
      BY <2>1
    <2>3. FromBytes(before).ok
      BY <1>2, <2>2
    <2>4. PICK ix \in CompactInstructions, rest \in Seq(U8) :
            /\ FromBytes(before) = [ok |-> TRUE, ix |-> ix, rest |-> rest]
            /\ before = ToBytes(ix) \o rest
      BY <2>3, ReadIsWritten
    <2>5. ParseNext(parsed, k)
            = [ok |-> TRUE, ixs |-> Append(ixs, ix), rest |-> rest]
      <3>1. parsed.ok = TRUE /\ parsed.ixs = ixs /\ parsed.rest = before
        BY <2>2
      <3>2. PICK next : next = FromBytes(before)
        OBVIOUS
      <3>3. next.ok = TRUE /\ next.ix = ix /\ next.rest = rest
        BY <2>4, <3>2
      <3>4. ParseNext(parsed, k)
              = IF ~ parsed.ok \/ ~ next.ok
                THEN ParseError
                ELSE [ok |-> TRUE, ixs |-> Append(parsed.ixs, next.ix),
                      rest |-> next.rest]
        BY <3>1, <3>2 DEF ParseNext
      <3> QED
        BY <3>1, <3>3, <3>4
    <2>6. Append(ixs, ix) \in Seq(CompactInstructions)
      BY AppendProperties
    <2>7. ParseNext(parsed, k) \in Parsed
      BY <2>5, <2>6 DEF Parsed
    <2> QED
      BY <2>2, <2>4, <2>5, <2>7 DEF Follows
  <1> QED
    BY <1>1, <1>2

(***************************************************************************)
(* acc has what the parser has at each step of its loop.                   *)
(***************************************************************************)
IsParse(acc, n, base) ==
    /\ acc \in [0 .. n -> Parsed]
    /\ acc[0] = [ok |-> TRUE, ixs |-> <<>>, rest |-> base]
    /\ \A k \in 1 .. n : acc[k] = ParseNext(acc[k - 1], k)

(***************************************************************************)
(* The fold of the parser.                                                 *)
(***************************************************************************)
IsParsing(g, seq, base, D) ==
    g = [s \in SUBSET D |->
           IF s = {} THEN [ok |-> TRUE, ixs |-> <<>>, rest |-> base]
           ELSE ParseNext(g[s \ {Max(s)}], seq[Max(s)])]

(***************************************************************************)
(* The fold of the parser, as a loop.                                      *)
(***************************************************************************)
LEMMA ParsingIsLoop ==
    ASSUME NEW n \in Nat, NEW base \in Seq(U8), NEW seq, seq = [i \in 1 .. n |-> i]
    PROVE  \E acc : /\ IsParse(acc, n, base)
                    /\ acc[n] = FoldLeft(ParseNext,
                                         [ok |-> TRUE, ixs |-> <<>>, rest |-> base],
                                         seq)
  <1>0. PICK D : D = 1 .. n
    OBVIOUS
  <1>1. PICK first \in Parsed : first = [ok |-> TRUE, ixs |-> <<>>, rest |-> base]
    <2>1. <<>> \in Seq(CompactInstructions)
      BY EmptySeq
    <2> QED
      BY <2>1 DEF Parsed
  <1>2. FoldLeft(ParseNext, [ok |-> TRUE, ixs |-> <<>>, rest |-> base], seq)
          = (CHOOSE g : IsParsing(g, seq, base, D))[D]
    BY <1>0 DEF FoldLeft, MapThenFoldSet, IsParsing
  <1>3. \A s \in SUBSET D : s # {} => Max(s) \in s
    BY <1>0, Largest
  <1>4. PICK h : h = [vk \in Parsed \X D |-> ParseNext(vk[1], vk[2])]
    OBVIOUS
  <1>5. Combines(h, 1 .. n, Parsed)
    <2>1. \A v \in Parsed, k \in D : ParseNext(v, k) \in Parsed
      BY NextIsParsed
    <2> QED
      BY <1>0, <1>4, <2>1 DEF Combines
  <1>6. \E g : IsParsing(g, seq, base, D)
    <2>1. PICK g \in [SUBSET (1 .. n) -> Parsed] : IsFoldOf(g, 1 .. n, first, h)
      BY <1>5, FoldByMax
    <2>2. ASSUME NEW s \in SUBSET D
          PROVE  g[s] = IF s = {} THEN [ok |-> TRUE, ixs |-> <<>>, rest |-> base]
                        ELSE ParseNext(g[s \ {Max(s)}], seq[Max(s)])
      <3>1. CASE s = {}
        BY <1>0, <1>1, <2>1, <3>1 DEF IsFoldOf
      <3>2. CASE s # {}
        <4>1. PICK m \in D : m = Max(s)
          BY <1>3, <3>2
        <4>2. g[s] = h[<<g[s \ {m}], m>>]
          BY <1>0, <2>1, <3>2, <4>1 DEF IsFoldOf
        <4>3. PICK v \in Parsed : v = g[s \ {m}]
          BY <1>0, <2>1
        <4>4. h[<<v, m>>] = ParseNext(v, m)
          BY <1>4
        <4>5. seq[m] = m
          BY <1>0
        <4> QED
          BY <3>2, <4>1, <4>2, <4>3, <4>4, <4>5
      <3> QED
        BY <3>1, <3>2
    <2>3. IsParsing(g, seq, base, D)
      BY <1>0, <2>1, <2>2 DEF IsParsing
    <2> QED
      BY <2>3
  <1>7. PICK g : /\ g = (CHOOSE w : IsParsing(w, seq, base, D))
                 /\ IsParsing(g, seq, base, D)
    BY <1>6
  <1>8. g[{}] = first
    BY <1>1, <1>7 DEF IsParsing
  <1>9. ASSUME NEW k \in 1 .. n, g[1 .. k - 1] \in Parsed
        PROVE  g[1 .. k] = h[<<g[1 .. k - 1], k>>]
    <2>1. /\ 1 .. k \in SUBSET D /\ 1 .. k # {}
          /\ Max(1 .. k) = k /\ (1 .. k) \ {k} = 1 .. k - 1
      <3>1. k \in Nat /\ k # 0
        OBVIOUS
      <3>2. Max(1 .. k) = k /\ (1 .. k) \ {k} = 1 .. k - 1
        BY <3>1, LastOfFirst
      <3>3. 1 .. k \subseteq 1 .. n /\ k \in 1 .. k
        OBVIOUS
      <3> QED
        BY <1>0, <3>2, <3>3
    <2>2. g[1 .. k] = ParseNext(g[1 .. k - 1], seq[k])
      BY <1>7, <2>1 DEF IsParsing
    <2>3. seq[k] = k /\ k \in D
      BY <1>0
    <2>4. PICK v \in Parsed : v = g[1 .. k - 1]
      BY <1>9
    <2>5. h[<<v, k>>] = ParseNext(v, k)
      BY <1>4, <2>3
    <2> QED
      BY <2>2, <2>3, <2>4, <2>5
  <1>10. PICK acc : IsLoop(acc, n, Parsed, first, h) /\ acc[n] = g[1 .. n]
    <2>1. GoesOn(g, n, Parsed, h)
      BY <1>9 DEF GoesOn
    <2> QED
      BY <1>5, <1>8, <2>1, FoldIsLoop
  <1>11. ASSUME NEW k \in 1 .. n
         PROVE  acc[k] = ParseNext(acc[k - 1], k)
    <2>1. PICK v \in Parsed : v = acc[k - 1]
      BY <1>10 DEF IsLoop
    <2>2. acc[k] = h[<<acc[k - 1], k>>]
      BY <1>10 DEF IsLoop
    <2>3. h[<<v, k>>] = ParseNext(v, k)
      BY <1>0, <1>4
    <2> QED
      BY <2>1, <2>2, <2>3
  <1>12. IsParse(acc, n, base)
    BY <1>1, <1>10, <1>11 DEF IsParse, IsLoop
  <1> QED
    BY <1>0, <1>2, <1>7, <1>10, <1>12

(***************************************************************************)
(* The parser, as a loop.                                                  *)
(***************************************************************************)
LEMMA ParseIsLoop ==
    ASSUME NEW bytes \in Seq(U8), bytes # <<>>, bytes[1] <= MaxInstructions
    PROVE  /\ bytes[1] \in U8 /\ bytes[1] \in Nat /\ Tail(bytes) \in Seq(U8)
           /\ \E acc :
                 /\ IsParse(acc, bytes[1], Tail(bytes))
                 /\ Parse(bytes)
                      = IF ~ acc[bytes[1]].ok
                        THEN ParseError
                        ELSE [ok |-> TRUE, ixs |-> acc[bytes[1]].ixs,
                              consumed |-> Len(bytes) - Len(acc[bytes[1]].rest)]
  <1>1. bytes[1] \in U8
    <2>1. PICK S : S = U8
      OBVIOUS
    <2>2. bytes \in Seq(S)
      BY <2>1
    <2>3. bytes[1] \in S
      BY <2>2
    <2> QED
      BY <2>1, <2>3
  <1>2. PICK n \in Nat : n = bytes[1]
    BY <1>1, CompactAssumption DEF U8
  <1>3. Tail(bytes) \in Seq(U8)
    BY HeadTailProperties
  <1>4. PICK seq : seq = [i \in 1 .. n |-> i]
    OBVIOUS
  <1>5. PICK acc : /\ IsParse(acc, n, Tail(bytes))
                   /\ acc[n] = FoldLeft(ParseNext,
                                        [ok |-> TRUE, ixs |-> <<>>, rest |-> Tail(bytes)],
                                        seq)
    BY <1>3, <1>4, ParsingIsLoop
  <1>6. Parse(bytes) = IF ~ acc[n].ok
                       THEN ParseError
                       ELSE [ok |-> TRUE, ixs |-> acc[n].ixs,
                             consumed |-> Len(bytes) - Len(acc[n].rest)]
    <2>1. ~ (bytes = <<>> \/ bytes[1] > MaxInstructions)
      BY <1>2, CompactAssumption
    <2> QED
      BY <1>2, <1>4, <1>5, <2>1 DEF Parse
  <1> QED
    BY <1>1, <1>2, <1>3, <1>5, <1>6

-----------------------------------------------------------------------------
(* Written and read. *)

(***************************************************************************)
(* After k of the instructions, the parser has these, and the bytes behind *)
(* those of them are left.                                                 *)
(***************************************************************************)
ParsedUpTo(acc, con, ixs, k, bytes, S) ==
    \E r \in Seq(S) :
       /\ acc[k] = [ok |-> TRUE, ixs |-> SubSeq(ixs, 1, k), rest |-> r]
       /\ con[k] \o r = bytes

(***************************************************************************)
(* The program parses what a client wrote, whatever payload follows, and   *)
(* stops where the payload starts.                                         *)
(***************************************************************************)
LEMMA ParsesBack ==
    ASSUME NEW ixs \in Seq(CompactInstructions), Len(ixs) <= MaxInstructions,
           NEW end \in Seq(U8)
    PROVE  Parse(IntoBytes(ixs) \o end)
             = [ok |-> TRUE, ixs |-> ixs, consumed |-> Len(IntoBytes(ixs))]
  <1>1. PICK n \in Nat : n = Len(ixs) /\ DOMAIN ixs = 1 .. n
    OBVIOUS
  <1>2. n \in U8
    BY <1>1, CompactAssumption DEF U8
  <1>3. PICK S : S = U8
    OBVIOUS
  <1>4. <<n>> \in Seq(S)
    BY <1>2, <1>3
  <1>5. PICK p : p = [k \in 1 .. n |-> ToBytes(ixs[k])]
    OBVIOUS
  <1>6. \A k \in 1 .. n : ixs[k] \in CompactInstructions
    BY <1>1
  <1>7. \A k \in 1 .. n : p[k] = ToBytes(ixs[k]) /\ p[k] \in Seq(S)
    <2>1. \A ix \in CompactInstructions : ToBytes(ix) \in Seq(S)
      <3>1. <<>> \in Seq(U8)
        BY EmptySeq
      <3> QED
        BY <1>3, <3>1, WrittenIsRead
    <2> QED
      BY <1>5, <1>6, <2>1
  <1>8. PICK con : IsConcat(con, n, S, <<n>>, p) /\ con[n] = IntoBytes(ixs)
    BY <1>1, <1>4, <1>7, WritingIsConcat
  <1>9. \A k \in 0 .. n : con[k] \in Seq(S) /\ Starts(con[n], con[k], S)
    <2>1. AreLists(p, n, S)
      BY <1>7 DEF AreLists
    <2> QED
      BY <1>8, <2>1, ConcatStarts
  <1>10. end \in Seq(S)
    BY <1>3
  <1>11. PICK t0 \in Seq(S) : con[n] = <<n>> \o t0
    <2>1. 0 \in 0 .. n /\ con[0] = <<n>>
      BY <1>8 DEF IsConcat
    <2> QED
      BY <1>9, <2>1 DEF Starts
  <1>12. PICK base \in Seq(S) : base = t0 \o end
    BY <1>10, ConcatProperties
  <1>13. PICK bytes : bytes = con[n] \o end
    OBVIOUS
  <1>14. bytes = <<n>> \o base
    <2>1. (<<n>> \o t0) \o end = <<n>> \o (t0 \o end)
      BY <1>4, <1>10, ConcatAssociative
    <2> QED
      BY <1>11, <1>12, <1>13, <2>1
  <1>15. bytes \in Seq(U8) /\ bytes # <<>> /\ bytes[1] = n /\ Tail(bytes) = base
    <2>1. n \in S
      BY <1>2, <1>3
    <2>2. /\ <<n>> \o base \in Seq(S) /\ <<n>> \o base # <<>>
          /\ (<<n>> \o base)[1] = n /\ Tail(<<n>> \o base) = base
      BY <2>1, HeadAndTail
    <2> QED
      BY <1>3, <1>14, <2>2
  <1>16. PICK acc : /\ IsParse(acc, n, base)
                    /\ Parse(bytes)
                         = IF ~ acc[n].ok
                           THEN ParseError
                           ELSE [ok |-> TRUE, ixs |-> acc[n].ixs,
                                 consumed |-> Len(bytes) - Len(acc[n].rest)]
    <2>1. bytes[1] <= MaxInstructions
      BY <1>1, <1>15
    <2> QED
      BY <1>15, <2>1, ParseIsLoop
  <1> DEFINE Q == {k \in 0 .. n : ParsedUpTo(acc, con, ixs, k, bytes, S)}
  <1>17. 0 \in Q
    <2>1. acc[0] = [ok |-> TRUE, ixs |-> <<>>, rest |-> base]
      BY <1>16 DEF IsParse
    <2>2. SubSeq(ixs, 1, 0) = <<>>
      BY FirstEntries
    <2>3. con[0] \o base = bytes
      BY <1>8, <1>14 DEF IsConcat
    <2>4. ParsedUpTo(acc, con, ixs, 0, bytes, S)
      BY <2>1, <2>2, <2>3 DEF ParsedUpTo
    <2> QED
      BY <2>4
  <1>18. ASSUME NEW k \in 1 .. n, k - 1 \in Q
         PROVE  k \in Q
    <2>1. PICK j \in 0 .. n : j = k - 1
      OBVIOUS
    <2>2. PICK r \in Seq(S) :
            /\ acc[j] = [ok |-> TRUE, ixs |-> SubSeq(ixs, 1, j), rest |-> r]
            /\ con[j] \o r = bytes
      <3>1. ParsedUpTo(acc, con, ixs, j, bytes, S)
        BY <1>18, <2>1
      <3> QED
        BY <3>1 DEF ParsedUpTo
    <2> HIDE DEF Q
    <2>3. PICK t \in Seq(S) : con[n] = con[k] \o t
      <3>1. k \in 0 .. n
        OBVIOUS
      <3>2. Starts(con[n], con[k], S)
        BY <1>9, <3>1
      <3> QED
        BY <3>2 DEF Starts
    <2>4. PICK a \in Seq(S), b \in Seq(S) : a = con[j] /\ b = p[k]
      BY <1>7, <1>9
    <2>5. PICK ab, abt : ab = con[k] /\ abt = con[n]
      OBVIOUS
    <2>6. Cat(ab, a, b, S) /\ Cat(abt, ab, t, S)
      <3>1. con[k] = con[k - 1] \o p[k]
        BY <1>8 DEF IsConcat
      <3>2. k \in 0 .. n /\ n \in 0 .. n
        OBVIOUS
      <3>3. ab \in Seq(S) /\ abt \in Seq(S)
        BY <1>9, <2>5, <3>2
      <3> QED
        BY <2>1, <2>3, <2>4, <2>5, <3>1, <3>3 DEF Cat
    <2>7. Cat(bytes, a, r, S) /\ Cat(bytes, abt, end, S)
      <3>1. bytes \in Seq(S) /\ con[n] \in Seq(S)
        BY <1>3, <1>9, <1>15
      <3> QED
        BY <1>10, <1>13, <2>2, <2>4, <2>5, <3>1 DEF Cat
    <2>8. PICK rest \in Seq(S) : r = b \o rest /\ bytes = ab \o rest
      <3>1. PICK rest \in Seq(S) : Cat(r, b, rest, S) /\ Cat(bytes, ab, rest, S)
        BY <2>6, <2>7, NextPiece
      <3> QED
        BY <3>1 DEF Cat
    <2>9. PICK ix \in CompactInstructions : ix = ixs[k]
      BY <1>6
    <2>10. FromBytes(r) = [ok |-> TRUE, ix |-> ix, rest |-> rest]
      <3>1. b = ToBytes(ix)
        BY <1>7, <2>4, <2>9
      <3>2. FromBytes(ToBytes(ix) \o rest) = [ok |-> TRUE, ix |-> ix, rest |-> rest]
        BY <1>3, WrittenIsRead
      <3> QED
        BY <2>8, <3>1, <3>2
    <2>11. acc[k] = ParseNext(acc[j], k)
      BY <1>16, <2>1 DEF IsParse
    <2>12. acc[k] = [ok |-> TRUE, ixs |-> Append(SubSeq(ixs, 1, j), ix), rest |-> rest]
      <3>1. PICK now : now = acc[j]
        OBVIOUS
      <3>2. now.ok = TRUE /\ now.ixs = SubSeq(ixs, 1, j) /\ now.rest = r
        BY <2>2, <3>1
      <3>3. PICK next : next = FromBytes(r)
        OBVIOUS
      <3>4. next.ok = TRUE /\ next.ix = ix /\ next.rest = rest
        BY <2>10, <3>3
      <3>5. ParseNext(now, k)
              = IF ~ now.ok \/ ~ next.ok
                THEN ParseError
                ELSE [ok |-> TRUE, ixs |-> Append(now.ixs, next.ix), rest |-> next.rest]
        BY <3>2, <3>3 DEF ParseNext
      <3> QED
        BY <2>11, <3>1, <3>2, <3>4, <3>5
    <2>13. SubSeq(ixs, 1, k) = Append(SubSeq(ixs, 1, k - 1), ixs[k])
      BY <1>1, FirstEntries
    <2>14. ParsedUpTo(acc, con, ixs, k, bytes, S)
      BY <2>1, <2>5, <2>8, <2>9, <2>12, <2>13 DEF ParsedUpTo
    <2> QED
      BY <2>14 DEF Q
  <1>19. 0 .. n \subseteq Q
    <2> HIDE DEF Q
    <2> QED
      BY <1>17, <1>18, LoopInvariant
  <1>20. PICK r \in Seq(S) :
           /\ acc[n] = [ok |-> TRUE, ixs |-> SubSeq(ixs, 1, n), rest |-> r]
           /\ con[n] \o r = bytes
    <2>1. ParsedUpTo(acc, con, ixs, n, bytes, S)
      BY <1>19
    <2> QED
      BY <2>1 DEF ParsedUpTo
  <1>21. SubSeq(ixs, 1, n) = ixs
    BY <1>1, FirstEntries
  <1>22. Len(bytes) - Len(r) = Len(con[n])
    <2>1. PICK c \in Seq(S) : c = con[n]
      BY <1>9
    <2>2. PICK x \in Nat, y \in Nat : x = Len(c) /\ y = Len(r)
      OBVIOUS
    <2>3. Len(c \o r) = Len(c) + Len(r)
      BY ConcatProperties
    <2>4. Len(bytes) = x + y
      BY <1>20, <2>1, <2>2, <2>3
    <2> QED
      BY <2>1, <2>2, <2>4
  <1> HIDE DEF Q
  <1>23. acc[n].ok = TRUE /\ acc[n].ixs = ixs /\ acc[n].rest = r
    BY <1>20, <1>21
  <1>24. Parse(bytes) = [ok |-> TRUE, ixs |-> ixs, consumed |-> Len(con[n])]
    BY <1>16, <1>22, <1>23
  <1> QED
    BY <1>8, <1>13, <1>24

(***************************************************************************)
(* What the parser has left at each step is an instruction and what it has *)
(* left at the next one.                                                   *)
(***************************************************************************)
LeftAt(acc, ixs, k) ==
    /\ ixs[k] \in CompactInstructions
    /\ acc[k - 1].rest \in Seq(U8) /\ acc[k].rest \in Seq(U8)
    /\ acc[k - 1].rest = ToBytes(ixs[k]) \o acc[k].rest

(***************************************************************************)
(* A parse that succeeds has taken one instruction at each step.           *)
(***************************************************************************)
LEMMA ParsedInSteps ==
    ASSUME NEW n \in Nat, NEW base, NEW acc, IsParse(acc, n, base), acc[n].ok
    PROVE  /\ acc[n].ixs \in Seq(CompactInstructions) /\ Len(acc[n].ixs) = n
           /\ acc[n].rest \in Seq(U8)
           /\ \A k \in 1 .. n : LeftAt(acc, acc[n].ixs, k)
  <1>1. \A k \in 0 .. n : acc[k] \in Parsed
    BY DEF IsParse
  <1>2. ParseError.ok = FALSE
    BY DEF ParseError
  <1>3. \A k \in 1 .. n :
          acc[k].ok => Follows(acc[k - 1], acc[k])
    <2> TAKE k \in 1 .. n
    <2>1. PICK parsed \in Parsed : parsed = acc[k - 1]
      <3>1. k - 1 \in 0 .. n
        OBVIOUS
      <3> QED
        BY <1>1, <3>1
    <2>2. acc[k] = ParseNext(parsed, k)
      BY <2>1 DEF IsParse
    <2> QED
      BY <2>1, <2>2, NextIsParsed
  <1>4. PICK ixs \in Seq(CompactInstructions), left \in Seq(U8) :
          acc[n] = [ok |-> TRUE, ixs |-> ixs, rest |-> left]
    <2>1. acc[n] \in Parsed /\ acc[n] # ParseError
      BY <1>1, <1>2
    <2> QED
      BY <2>1 DEF Parsed
  <1> DEFINE Q == {k \in 0 .. n : acc[k].ok => Len(acc[k].ixs) = k}
  <1>5. 0 \in Q
    <2>1. acc[0].ixs = <<>>
      BY DEF IsParse
    <2> QED
      BY <2>1
  <1>6. ASSUME NEW k \in 1 .. n, k - 1 \in Q
        PROVE  k \in Q
    <2> SUFFICES ASSUME acc[k].ok PROVE Len(acc[k].ixs) = k
      OBVIOUS
    <2>1. PICK a \in Seq(CompactInstructions), ix \in CompactInstructions,
              before \in Seq(U8), rest \in Seq(U8) :
              /\ acc[k - 1] = [ok |-> TRUE, ixs |-> a, rest |-> before]
              /\ acc[k] = [ok |-> TRUE, ixs |-> Append(a, ix), rest |-> rest]
      BY <1>3 DEF Follows
    <2>2. Len(a) = k - 1
      BY <1>6, <2>1
    <2>3. Len(Append(a, ix)) = Len(a) + 1
      BY AppendProperties
    <2> QED
      BY <2>1, <2>2, <2>3
  <1>7. 0 .. n \subseteq Q
    <2> HIDE DEF Q
    <2> QED
      BY <1>5, <1>6, LoopInvariant
  <1>8. Len(ixs) = n
    <2>1. n \in Q
      BY <1>7
    <2> QED
      BY <1>4, <2>1
  <1> HIDE DEF Q
  <1>9. ASSUME NEW k \in 1 .. n, acc[k].ok, acc[k].ixs = SubSeq(ixs, 1, k)
         PROVE  /\ acc[k - 1].ok /\ acc[k - 1].ixs = SubSeq(ixs, 1, k - 1)
                /\ LeftAt(acc, ixs, k)
    <2>1. PICK a \in Seq(CompactInstructions), ix \in CompactInstructions,
              before \in Seq(U8), rest \in Seq(U8) :
              /\ acc[k - 1] = [ok |-> TRUE, ixs |-> a, rest |-> before]
              /\ before = ToBytes(ix) \o rest
              /\ acc[k] = [ok |-> TRUE, ixs |-> Append(a, ix), rest |-> rest]
      BY <1>3, <1>9 DEF Follows
    <2>2. PICK b \in Seq(CompactInstructions), e \in CompactInstructions :
            /\ b = SubSeq(ixs, 1, k - 1) /\ e = ixs[k]
            /\ SubSeq(ixs, 1, k) = Append(b, e)
      <3>1. k \in 1 .. Len(ixs)
        BY <1>8
      <3>2. /\ ixs[k] \in CompactInstructions
            /\ SubSeq(ixs, 1, k - 1) \in Seq(CompactInstructions)
        BY <3>1, FirstEntries
      <3>3. SubSeq(ixs, 1, k) = Append(SubSeq(ixs, 1, k - 1), ixs[k])
        BY <3>1, FirstEntries
      <3> QED
        BY <3>2, <3>3
    <2>3. Append(a, ix) = Append(b, e)
      <3>1. acc[k].ixs = Append(a, ix)
        BY <2>1
      <3>2. acc[k].ixs = Append(b, e)
        BY <1>9, <2>2
      <3> QED
        BY <3>1, <3>2
    <2>4. a = b /\ ix = e
      BY <2>3, AppendInjective
    <2> QED
      BY <2>1, <2>2, <2>4 DEF LeftAt
  <1> DEFINE P == {m \in 0 .. n : acc[n - m].ok /\ acc[n - m].ixs = SubSeq(ixs, 1, n - m)}
  <1>10. 0 \in P
    <2>1. n - 0 = n /\ SubSeq(ixs, 1, n) = ixs
      BY <1>8, FirstEntries
    <2> QED
      BY <1>4, <2>1
  <1>11. ASSUME NEW m \in 1 .. n, m - 1 \in P
         PROVE  m \in P
    <2>1. PICK k \in 1 .. n : k = n - (m - 1) /\ k - 1 = n - m
      OBVIOUS
    <2>2. acc[k].ok /\ acc[k].ixs = SubSeq(ixs, 1, k)
      BY <1>11, <2>1
    <2>3. acc[k - 1].ok /\ acc[k - 1].ixs = SubSeq(ixs, 1, k - 1)
      BY <1>9, <2>2
    <2> QED
      BY <2>1, <2>3
  <1>12. 0 .. n \subseteq P
    <2> HIDE DEF P
    <2> QED
      BY <1>10, <1>11, LoopInvariant
  <1>13. ASSUME NEW k \in 1 .. n
         PROVE  LeftAt(acc, ixs, k)
    <2>1. PICK m \in 0 .. n : n - m = k
      <3>1. n - k \in 0 .. n /\ n - (n - k) = k
        OBVIOUS
      <3> QED
        BY <3>1
    <2>2. m \in P
      BY <1>12
    <2>3. acc[k].ok /\ acc[k].ixs = SubSeq(ixs, 1, k)
      BY <2>1, <2>2
    <2> QED
      BY <1>9, <2>3
  <1> QED
    BY <1>4, <1>8, <1>13

(***************************************************************************)
(* What the parser takes in is what a client would have written for what   *)
(* it makes of it.                                                         *)
(***************************************************************************)
LEMMA ParsedIsWritten ==
    ASSUME NEW bytes \in Seq(U8), Parse(bytes).ok
    PROVE  /\ Parse(bytes).ixs \in Seq(CompactInstructions)
           /\ IntoBytes(Parse(bytes).ixs) = SubSeq(bytes, 1, Parse(bytes).consumed)
  <1>1. bytes # <<>> /\ bytes[1] <= MaxInstructions
    <2>1. ParseError.ok = FALSE
      BY DEF ParseError
    <2>2. ~ (bytes = <<>> \/ bytes[1] > MaxInstructions)
      <3>1. bytes = <<>> \/ bytes[1] > MaxInstructions => Parse(bytes) = ParseError
        BY DEF Parse
      <3> QED
        BY <2>1, <3>1
    <2>3. PICK S : S = U8
      OBVIOUS
    <2>4. bytes[1] \in S
      <3>1. bytes \in Seq(S)
        BY <2>3
      <3> QED
        BY <2>2, <3>1
    <2>5. bytes[1] \in Int /\ MaxInstructions \in Int
      BY <2>3, <2>4, CompactAssumption DEF U8
    <2> QED
      BY <2>2, <2>5
  <1>2. PICK n \in Nat : n = bytes[1]
    BY <1>1, ParseIsLoop
  <1>3. n \in U8 /\ Tail(bytes) \in Seq(U8)
    BY <1>1, <1>2, ParseIsLoop
  <1>4. PICK acc : /\ IsParse(acc, n, Tail(bytes))
                   /\ Parse(bytes)
                        = IF ~ acc[n].ok
                          THEN ParseError
                          ELSE [ok |-> TRUE, ixs |-> acc[n].ixs,
                                consumed |-> Len(bytes) - Len(acc[n].rest)]
    BY <1>1, <1>2, ParseIsLoop
  <1>5. acc[n].ok
    <2>1. ParseError.ok = FALSE
      BY DEF ParseError
    <2>2. ~ acc[n].ok => Parse(bytes) = ParseError
      BY <1>4
    <2> QED
      BY <2>1, <2>2
  <1>6. PICK ixs \in Seq(CompactInstructions), left \in Seq(U8) :
          /\ ixs = acc[n].ixs /\ left = acc[n].rest
          /\ Len(ixs) = n /\ \A k \in 1 .. n : LeftAt(acc, ixs, k)
    <2>1. /\ acc[n].ixs \in Seq(CompactInstructions) /\ Len(acc[n].ixs) = n
          /\ acc[n].rest \in Seq(U8)
          /\ \A k \in 1 .. n : LeftAt(acc, acc[n].ixs, k)
      BY <1>4, <1>5, ParsedInSteps
    <2> QED
      BY <2>1
  <1>7. Parse(bytes).ixs = ixs /\ Parse(bytes).consumed = Len(bytes) - Len(left)
    BY <1>4, <1>5, <1>6
  <1>8. PICK S : S = U8
    OBVIOUS
  <1>9. PICK p : p = [k \in 1 .. n |-> ToBytes(ixs[k])]
    OBVIOUS
  <1>10. \A k \in 1 .. n : p[k] = ToBytes(ixs[k]) /\ p[k] \in Seq(S)
    <2>1. \A ix \in CompactInstructions : ToBytes(ix) \in Seq(S)
      <3>1. <<>> \in Seq(U8)
        BY EmptySeq
      <3> QED
        BY <1>8, <3>1, WrittenIsRead
    <2> QED
      BY <1>6, <1>9, <2>1 DEF LeftAt
  <1>11. <<n>> \in Seq(S)
    BY <1>3, <1>8
  <1>12. DOMAIN ixs = 1 .. n
    BY <1>6
  <1>13. PICK con : IsConcat(con, n, S, <<n>>, p) /\ con[n] = IntoBytes(ixs)
    <2>1. Len(ixs) = n
      BY <1>6
    <2> QED
      BY <1>10, <1>11, <1>12, <2>1, WritingIsConcat
  <1>14. \A k \in 0 .. n : con[k] \in Seq(S)
    BY <1>13 DEF IsConcat
  <1> DEFINE Q == {k \in 0 .. n : Cat(bytes, con[k], acc[k].rest, S)}
  <1>15. 0 \in Q
    <2>1. con[0] = <<n>> /\ acc[0].rest = Tail(bytes)
      BY <1>4, <1>13 DEF IsConcat, IsParse
    <2>2. bytes = <<bytes[1]>> \o Tail(bytes)
      <3>1. 1 \in 1 .. Len(bytes) /\ Len(bytes) \in 1 .. Len(bytes)
        BY <1>1, EmptySeq
      <3>2. SubSeq(bytes, 1, Len(bytes))
              = <<bytes[1]>> \o SubSeq(bytes, 1 + 1, Len(bytes))
        BY <3>1, SubSeqRecursiveFirst
      <3>3. Tail(bytes) = SubSeq(bytes, 2, Len(bytes))
        BY <1>1, TailIsSubSeq
      <3>4. SubSeq(bytes, 1, Len(bytes)) = bytes
        BY SubSeqFull
      <3> QED
        BY <3>2, <3>3, <3>4
    <2>3. Cat(bytes, con[0], acc[0].rest, S)
      <3> HIDE DEF Q
      <3> QED
        BY <1>2, <1>3, <1>8, <1>11, <2>1, <2>2 DEF Cat
    <2> QED
      BY <2>3
  <1>16. ASSUME NEW k \in 1 .. n, k - 1 \in Q
         PROVE  k \in Q
    <2>1. Cat(bytes, con[k - 1], acc[k - 1].rest, S)
      BY <1>16
    <2> HIDE DEF Q
    <2>2. Cat(con[k], con[k - 1], p[k], S)
      <3>1. k \in 0 .. n /\ k - 1 \in 0 .. n
        OBVIOUS
      <3>2. con[k] = con[k - 1] \o p[k]
        BY <1>13 DEF IsConcat
      <3> QED
        BY <1>10, <1>14, <3>1, <3>2 DEF Cat
    <2>3. Cat(acc[k - 1].rest, p[k], acc[k].rest, S)
      BY <1>6, <1>8, <1>10 DEF Cat, LeftAt
    <2>4. Cat(bytes, con[k], acc[k].rest, S)
      BY <2>1, <2>2, <2>3, CatRegroups
    <2> QED
      BY <2>4 DEF Q
  <1>17. 0 .. n \subseteq Q
    <2> HIDE DEF Q
    <2> QED
      BY <1>15, <1>16, LoopInvariant
  <1>18. Cat(bytes, con[n], left, S)
    <2>1. n \in Q
      BY <1>17
    <2> QED
      BY <1>6, <2>1
  <1> HIDE DEF Q
  <1>19. PICK c \in Seq(S), r \in Seq(S) : c = con[n] /\ r = left
    BY <1>18 DEF Cat
  <1>20. Joined(bytes, c, r)
    <2>1. PICK w \in Seq(S) : Joined(w, c, r)
      BY JoinedExists
    <2>2. w = bytes
      BY <1>18, <1>19, <2>1 DEF Joined, Cat
    <2> QED
      BY <2>1, <2>2
  <1>21. PICK m \in Nat, q \in Nat : m = Len(c) /\ q = Len(r)
    OBVIOUS
  <1>22. Len(bytes) = m + q /\ \A i \in 1 .. m : bytes[i] = c[i]
    BY <1>20, <1>21 DEF Joined
  <1>23. SubSeq(bytes, 1, m) = c
    <2>1. 0 + Len(c) <= Len(bytes) /\ \A i \in 1 .. Len(c) : bytes[0 + i] = c[i]
      BY <1>21, <1>22
    <2>2. bytes \in Seq(S)
      BY <1>8
    <2>3. SubSeq(bytes, 0 + 1, 0 + Len(c)) = c
      BY <2>1, <2>2, PartIs
    <2> QED
      BY <1>21, <2>3
  <1>24. Parse(bytes).consumed = m
    BY <1>7, <1>19, <1>21, <1>22
  <1> QED
    BY <1>6, <1>7, <1>13, <1>19, <1>23, <1>24

-----------------------------------------------------------------------------
(* What the hash of the keys binds. *)

(***************************************************************************)
(* The keys that one instruction names.                                    *)
(***************************************************************************)
AreKeysOf(p, ix, accounts, S) ==
    /\ p \in Seq(S) /\ Len(p) = 1 + Len(ix.accounts)
    /\ p[1] = accounts[ix.program_id_index + 1]
    /\ \A i \in 1 .. Len(ix.accounts) : p[1 + i] = accounts[ix.accounts[i] + 1]

(***************************************************************************)
(* The keys hashed for one instruction are those it names.                 *)
(***************************************************************************)
LEMMA NamedByOne ==
    ASSUME NEW ix \in CompactInstructions, NEW S, NEW accounts \in Seq(S),
           InRange(ix, accounts), NEW p, p = Keys(Positions(ix), accounts)
    PROVE  AreKeysOf(p, ix, accounts, S)
  <1>0. PICK U : U = U8
    OBVIOUS
  <1>1. PICK pid \in U, accs \in Seq(U) :
          pid = ix.program_id_index /\ accs = ix.accounts
    BY <1>0 DEF CompactInstructions
  <1>2. PICK n \in Nat : n = Len(accs)
    OBVIOUS
  <1>3. PICK one \in Seq(U) : one = <<pid>> /\ Len(one) = 1 /\ one[1] = pid
    <2>1. <<pid>> \in Seq(U) /\ Len(<<pid>>) = 1 /\ <<pid>>[1] = pid
      OBVIOUS
    <2> QED
      BY <2>1
  <1>4. PICK at \in Seq(U) : Joined(at, one, accs)
    BY JoinedExists
  <1>5. /\ at = Positions(ix) /\ Len(at) = 1 + n /\ DOMAIN at = 1 .. 1 + n
        /\ at[1] = pid /\ \A i \in 1 .. n : at[1 + i] = accs[i]
    BY <1>1, <1>2, <1>3, <1>4 DEF Joined, Positions
  <1>6. PICK m \in Nat : m = Len(accounts)
    OBVIOUS
  <1>7. \A i \in 1 .. 1 + n : at[i] + 1 \in 1 .. m
    <2> TAKE i \in 1 .. 1 + n
    <2>1. PICK e \in U : e = at[i]
      BY <1>5
    <2>2. e \in Nat
      BY <1>0, CompactAssumption DEF U8
    <2>3. e < m
      BY <1>5, <1>6, <2>1 DEF InRange
    <2> QED
      BY <2>1, <2>2, <2>3
  <1>8. \A j \in 1 .. m : accounts[j] \in S
    BY <1>6
  <1>9. p = [i \in 1 .. 1 + n |-> accounts[at[i] + 1]]
    BY <1>5 DEF Keys
  <1>10. p \in Seq(S) /\ Len(p) = 1 + n
    <2>1. p \in [1 .. 1 + n -> S]
      BY <1>7, <1>8, <1>9
    <2>2. 1 + n \in Nat
      OBVIOUS
    <2> QED
      BY <2>1, <2>2
  <1>11. p[1] = accounts[pid + 1] /\ \A i \in 1 .. n : p[1 + i] = accounts[accs[i] + 1]
    <2>1. 1 \in 1 .. 1 + n /\ \A i \in 1 .. n : 1 + i \in 1 .. 1 + n
      OBVIOUS
    <2> QED
      BY <1>5, <1>9, <2>1
  <1> QED
    BY <1>1, <1>2, <1>10, <1>11 DEF AreKeysOf

(***************************************************************************)
(* What is hashed are the keys of all instructions behind one another.     *)
(***************************************************************************)
LEMMA NamedByAll ==
    ASSUME NEW ixs \in Seq(CompactInstructions), NEW n \in Nat, n = Len(ixs),
           NEW S, NEW accounts \in Seq(S), Valid(ixs, accounts)
    PROVE  \E p, acc :
              /\ \A k \in 1 .. n : AreKeysOf(p[k], ixs[k], accounts, S)
              /\ IsConcat(acc, n, S, <<>>, p) /\ acc[n] = NamedKeys(ixs, accounts)
  <1>1. DOMAIN ixs = 1 .. n /\ \A k \in 1 .. n : ixs[k] \in CompactInstructions
    OBVIOUS
  <1>2. PICK p : p = [k \in 1 .. n |-> Keys(Positions(ixs[k]), accounts)]
    OBVIOUS
  <1>3. ASSUME NEW k \in 1 .. n
        PROVE  AreKeysOf(p[k], ixs[k], accounts, S)
    <2>1. PICK ix \in CompactInstructions : ix = ixs[k]
      BY <1>1
    <2>2. InRange(ix, accounts)
      BY <1>1, <2>1 DEF Valid
    <2>3. PICK e : e = p[k] /\ e = Keys(Positions(ix), accounts)
      BY <1>2, <2>1
    <2>4. AreKeysOf(e, ix, accounts, S)
      BY <2>2, <2>3, NamedByOne
    <2> QED
      BY <2>1, <2>3, <2>4
  <1>4. ArePieces(p, ixs, n, accounts, S)
    BY <1>2, <1>3 DEF ArePieces, AreKeysOf
  <1>5. PICK acc : IsConcat(acc, n, S, <<>>, p) /\ acc[n] = NamedKeys(ixs, accounts)
    BY <1>1, <1>4, NamingIsConcat
  <1> QED
    BY <1>3, <1>5

(***************************************************************************)
(* Two lists of accounts in which the instructions name the same keys have *)
(* them make the same calls.                                               *)
(***************************************************************************)
LEMMA KeysBindCalls ==
    ASSUME NEW ixs \in Seq(CompactInstructions), NEW S,
           NEW signed \in Seq(S), NEW given \in Seq(S),
           Valid(ixs, signed), Valid(ixs, given),
           NamedKeys(ixs, signed) = NamedKeys(ixs, given)
    PROVE  Calls(ixs, signed) = Calls(ixs, given)
  <1>1. PICK n \in Nat : n = Len(ixs) /\ DOMAIN ixs = 1 .. n
    OBVIOUS
  <1>2. \A k \in 1 .. n : ixs[k] \in CompactInstructions
    BY <1>1
  <1>3. PICK p, first :
          /\ \A k \in 1 .. n : AreKeysOf(p[k], ixs[k], signed, S)
          /\ IsConcat(first, n, S, <<>>, p) /\ first[n] = NamedKeys(ixs, signed)
    BY <1>1, NamedByAll
  <1>4. PICK q, second :
          /\ \A k \in 1 .. n : AreKeysOf(q[k], ixs[k], given, S)
          /\ IsConcat(second, n, S, <<>>, q) /\ second[n] = NamedKeys(ixs, given)
    BY <1>1, NamedByAll
  <1>5. SameLengths(p, q, n, S)
    BY <1>3, <1>4 DEF AreKeysOf, SameLengths
  <1>6. \A k \in 1 .. n : p[k] = q[k]
    BY <1>3, <1>4, <1>5, SamePieces
  <1>7. ASSUME NEW k \in 1 .. n
        PROVE  Decompress(ixs[k], signed) = Decompress(ixs[k], given)
    <2>1. PICK ix \in CompactInstructions : ix = ixs[k]
      BY <1>2
    <2>2. PICK e : AreKeysOf(e, ix, signed, S) /\ AreKeysOf(e, ix, given, S)
      BY <1>3, <1>4, <1>6, <2>1
    <2>3. signed[ix.program_id_index + 1] = given[ix.program_id_index + 1]
      BY <2>2 DEF AreKeysOf
    <2>4. \A i \in 1 .. Len(ix.accounts) :
            signed[ix.accounts[i] + 1] = given[ix.accounts[i] + 1]
      BY <2>2 DEF AreKeysOf
    <2>5. DOMAIN ix.accounts = 1 .. Len(ix.accounts)
      BY DEF CompactInstructions
    <2>6. Keys(ix.accounts, signed) = Keys(ix.accounts, given)
      BY <2>4, <2>5 DEF Keys
    <2> QED
      BY <2>1, <2>3, <2>6 DEF Decompress
  <1> QED
    BY <1>1, <1>7 DEF Calls

-----------------------------------------------------------------------------
(* The client's program. *)

(***************************************************************************)
(* What an instruction adds to the size of the program.                    *)
(***************************************************************************)
Weight(ix) == 1 + Len(ix.accounts) + Len(ix.data)

(***************************************************************************)
(* acc has the size of the first instructions.                             *)
(***************************************************************************)
IsTotalWeight(acc, n, ixs) ==
    /\ acc \in [0 .. n -> Nat]
    /\ acc[0] = 0
    /\ \A k \in 1 .. n : acc[k] = acc[k - 1] + Weight(ixs[k])

(***************************************************************************)
(* The fold of the size.                                                   *)
(***************************************************************************)
IsSizing(g, ixs, D) ==
    g = [s \in SUBSET D |->
           IF s = {} THEN 0
           ELSE g[s \ {Max(s)}] + 1 + Len(ixs[Max(s)].accounts)
                  + Len(ixs[Max(s)].data)]

(***************************************************************************)
(* The size of a program, as a loop.                                       *)
(***************************************************************************)
LEMMA SizeIsSum ==
    ASSUME NEW ixs \in Seq(CompactInstructions), NEW n \in Nat, n = Len(ixs)
    PROVE  \E acc : IsTotalWeight(acc, n, ixs) /\ acc[n] = Size(ixs)
  <1>0. PICK D : D = 1 .. n
    OBVIOUS
  <1>1. DOMAIN ixs = D
    BY <1>0
  <1>2. Size(ixs) = (CHOOSE g : IsSizing(g, ixs, D))[D]
    BY <1>1 DEF Size, FoldLeft, MapThenFoldSet, IsSizing
  <1>3. \A s \in SUBSET D : s # {} => Max(s) \in s
    BY <1>0, Largest
  <1>4. PICK w \in [D -> Nat] : \A k \in D : w[k] = Weight(ixs[k])
    <2>1. \A k \in D : ixs[k] \in CompactInstructions
      BY <1>0
    <2>2. \A ix \in CompactInstructions : Weight(ix) \in Nat
      BY DEF CompactInstructions, Weight
    <2>3. [k \in D |-> Weight(ixs[k])] \in [D -> Nat]
      BY <2>1, <2>2
    <2> QED
      BY <2>3
  <1>5. PICK h : h = [vk \in Nat \X D |-> vk[1] + w[vk[2]]]
    OBVIOUS
  <1>6. Combines(h, 1 .. n, Nat)
    BY <1>0, <1>5 DEF Combines
  <1>7. ASSUME NEW s \in SUBSET D, s # {}, NEW g, g[s \ {Max(s)}] \in Nat
        PROVE  g[s \ {Max(s)}] + 1 + Len(ixs[Max(s)].accounts)
                  + Len(ixs[Max(s)].data) = h[<<g[s \ {Max(s)}], Max(s)>>]
    <2>1. PICK m \in D : m = Max(s)
      BY <1>3, <1>7
    <2>2. PICK v \in Nat : v = g[s \ {m}]
      BY <1>7, <2>1
    <2>3. PICK a \in Nat, b \in Nat : a = Len(ixs[m].accounts) /\ b = Len(ixs[m].data)
      <3>1. ixs[m] \in CompactInstructions
        BY <1>0
      <3> QED
        BY <3>1 DEF CompactInstructions
    <2>4. h[<<v, m>>] = v + w[m]
      BY <1>5
    <2>5. w[m] = 1 + a + b
      BY <1>4, <2>3 DEF Weight
    <2>6. h[<<v, m>>] = v + 1 + a + b
      BY <2>4, <2>5
    <2> QED
      BY <2>1, <2>2, <2>3, <2>6
  <1>8. \E g : IsSizing(g, ixs, D)
    <2>1. PICK g \in [SUBSET (1 .. n) -> Nat] : IsFoldOf(g, 1 .. n, 0, h)
      BY <1>6, FoldByMax
    <2>2. ASSUME NEW s \in SUBSET D
          PROVE  g[s] = IF s = {} THEN 0
                        ELSE g[s \ {Max(s)}] + 1 + Len(ixs[Max(s)].accounts)
                               + Len(ixs[Max(s)].data)
      <3>1. CASE s = {}
        BY <1>0, <2>1, <3>1 DEF IsFoldOf
      <3>2. CASE s # {}
        <4>1. g[s] = h[<<g[s \ {Max(s)}], Max(s)>>]
          BY <1>0, <2>1, <3>2 DEF IsFoldOf
        <4>2. g[s \ {Max(s)}] \in Nat
          BY <1>0, <2>1
        <4>3. g[s \ {Max(s)}] + 1 + Len(ixs[Max(s)].accounts)
                + Len(ixs[Max(s)].data) = h[<<g[s \ {Max(s)}], Max(s)>>]
          BY <1>7, <3>2, <4>2
        <4> QED
          BY <3>2, <4>1, <4>3
      <3> QED
        BY <3>1, <3>2
    <2>3. IsSizing(g, ixs, D)
      BY <1>0, <2>1, <2>2 DEF IsSizing
    <2> QED
      BY <2>3
  <1>9. PICK g : /\ g = (CHOOSE v : IsSizing(v, ixs, D))
                 /\ IsSizing(g, ixs, D)
    BY <1>8
  <1>10. g[{}] = 0
    BY <1>9 DEF IsSizing
  <1>11. ASSUME NEW k \in 1 .. n, g[1 .. k - 1] \in Nat
         PROVE  g[1 .. k] = h[<<g[1 .. k - 1], k>>]
    <2>1. /\ 1 .. k \in SUBSET D /\ 1 .. k # {}
          /\ Max(1 .. k) = k /\ (1 .. k) \ {k} = 1 .. k - 1
      <3>1. k \in Nat /\ k # 0
        OBVIOUS
      <3>2. Max(1 .. k) = k /\ (1 .. k) \ {k} = 1 .. k - 1
        BY <3>1, LastOfFirst
      <3>3. 1 .. k \subseteq 1 .. n /\ k \in 1 .. k
        OBVIOUS
      <3> QED
        BY <1>0, <3>2, <3>3
    <2>2. PICK s \in SUBSET D : s = 1 .. k
      BY <2>1
    <2>3. /\ s # {} /\ Max(s) = k /\ s \ {Max(s)} = 1 .. k - 1
      BY <2>1, <2>2
    <2>4. g[s] = g[s \ {Max(s)}] + 1 + Len(ixs[Max(s)].accounts)
                   + Len(ixs[Max(s)].data)
      BY <1>9, <2>3 DEF IsSizing
    <2>5. g[s \ {Max(s)}] \in Nat
      BY <1>11, <2>3
    <2>6. g[s] = h[<<g[s \ {Max(s)}], Max(s)>>]
      BY <1>7, <2>3, <2>4, <2>5
    <2>7. g[s] = h[<<g[1 .. k - 1], k>>]
      BY <2>3, <2>6
    <2> QED
      BY <2>2, <2>7
  <1>12. PICK acc : IsLoop(acc, n, Nat, 0, h) /\ acc[n] = g[1 .. n]
    <2>1. GoesOn(g, n, Nat, h)
      BY <1>11 DEF GoesOn
    <2>2. PICK X, zero : X = Nat /\ zero \in X /\ zero = 0
      OBVIOUS
    <2>3. /\ Combines(h, 1 .. n, X) /\ GoesOn(g, n, X, h)
          /\ g[{}] = zero /\ zero \in X
      BY <1>6, <1>10, <2>1, <2>2
    <2>4. \E acc : IsLoop(acc, n, X, zero, h) /\ acc[n] = g[1 .. n]
      BY <2>3, FoldIsLoop
    <2> QED
      BY <2>2, <2>4
  <1>13. ASSUME NEW k \in 1 .. n
         PROVE  acc[k] = acc[k - 1] + Weight(ixs[k])
    <2>1. PICK v \in Nat : v = acc[k - 1]
      BY <1>12 DEF IsLoop
    <2>2. acc[k] = h[<<v, k>>]
      BY <1>12, <2>1 DEF IsLoop
    <2>3. h[<<v, k>>] = v + w[k]
      BY <1>0, <1>5
    <2> QED
      BY <1>0, <1>4, <2>1, <2>2, <2>3
  <1>14. IsTotalWeight(acc, n, ixs)
    BY <1>12, <1>13 DEF IsTotalWeight, IsLoop
  <1> QED
    BY <1>0, <1>2, <1>9, <1>12, <1>14

(***************************************************************************)
(* The data of an instruction is shorter than the program.                 *)
(***************************************************************************)
LEMMA DataFits ==
    ASSUME NEW ixs \in Seq(CompactInstructions), NEW i \in 1 .. Len(ixs)
    PROVE  Size(ixs) \in Nat /\ Len(ixs[i].data) < Size(ixs)
  <1>1. PICK n \in Nat : n = Len(ixs) /\ i \in 1 .. n
    OBVIOUS
  <1>2. PICK acc : IsTotalWeight(acc, n, ixs) /\ acc[n] = Size(ixs)
    BY <1>1, SizeIsSum
  <1>3. PICK a \in [0 .. n -> Nat] :
           /\ a[n] = Size(ixs)
           /\ \A k \in 1 .. n : a[k] = a[k - 1] + Weight(ixs[k])
    BY <1>2 DEF IsTotalWeight
  <1>4. \A k \in 1 .. n :
           /\ Len(ixs[k].data) \in Nat /\ Weight(ixs[k]) \in Nat
           /\ Weight(ixs[k]) > Len(ixs[k].data)
    <2>1. \A k \in 1 .. n : ixs[k] \in CompactInstructions
      BY <1>1
    <2>2. \A ix \in CompactInstructions :
            /\ Len(ix.data) \in Nat /\ Weight(ix) \in Nat
            /\ Weight(ix) > Len(ix.data)
      BY DEF CompactInstructions, Weight
    <2> QED
      BY <2>1, <2>2
  <1>5. PICK d \in Nat : d = Len(ixs[i].data)
    BY <1>1, <1>4
  <1>6. PICK Q : Q = {k \in 0 .. n : k >= i => a[k] > d}
    OBVIOUS
  <1>7. 0 \in Q
    BY <1>1, <1>6
  <1>8. ASSUME NEW k \in 1 .. n, k - 1 \in Q
        PROVE  k \in Q
    <2>1. PICK x \in Nat, y \in Nat, w \in Nat :
             /\ x = a[k] /\ y = a[k - 1] /\ w = Weight(ixs[k]) /\ x = y + w
      <3>1. k - 1 \in 0 .. n /\ k \in 0 .. n
        OBVIOUS
      <3> QED
        BY <1>3, <1>4, <3>1, ZenonT(40)
    <2>2. k \in 0 .. n /\ (k >= i => x > d) => k \in Q
      BY <1>6, <2>1
    <2>3. ASSUME k = i
          PROVE  x > d
      BY <1>4, <1>5, <2>1, <2>3
    <2>4. ASSUME k > i
          PROVE  x > d
      <3>1. k - 1 >= i
        BY <1>1, <2>4
      <3>2. a[k - 1] > d
        BY <1>6, <1>8, <3>1
      <3> QED
        BY <2>1, <3>2
    <2>5. k >= i => x > d
      BY <1>1, <2>3, <2>4
    <2> QED
      BY <2>2, <2>5
  <1>9. n \in Q
    <2>1. 0 .. n \subseteq Q
      BY <1>7, <1>8, LoopInvariant
    <2> QED
      BY <2>1
  <1>10. a[n] \in Nat /\ a[n] > d
    BY <1>1, <1>3, <1>6, <1>9
  <1> QED
    BY <1>3, <1>5, <1>10

-----------------------------------------------------------------------------
(* The list of compact instructions. *)

(***************************************************************************)
(* What arrived are bytes, and the program is a list that fits the format. *)
(***************************************************************************)
CompactTypeOK ==
    /\ data \in Seq(U8)
    /\ program \in Seq(CompactInstructions)
    /\ Len(program) <= MaxInstructions

(***************************************************************************)
(* An instruction put together from three fields is one.                   *)
(***************************************************************************)
LEMMA FieldsMakeInstruction ==
    ASSUME NEW b \in U8, NEW a \in Seq(U8), NEW d \in Seq(U8),
           Len(a) < Base, Len(d) < Base * Base
    PROVE  [program_id_index |-> b, accounts |-> a, data |-> d]
             \in CompactInstructions
  BY DEF CompactInstructions

(***************************************************************************)
(* A field of an instruction is replaced.                                  *)
(***************************************************************************)
LEMMA ReplacedField ==
    ASSUME NEW ix \in [program_id_index: U8, accounts: Seq(U8), data: Seq(U8)],
           NEW e \in Seq(U8), NEW field \in {"accounts", "data"}
    PROVE  /\ [ix EXCEPT ![field] = e]
                \in [program_id_index: U8, accounts: Seq(U8), data: Seq(U8)]
           /\ [ix EXCEPT ![field] = e].accounts
                = IF field = "accounts" THEN e ELSE ix.accounts
           /\ [ix EXCEPT ![field] = e].data
                = IF field = "data" THEN e ELSE ix.data
  <1>1. CASE field = "accounts"
    BY <1>1
  <1>2. CASE field = "data"
    BY <1>2
  <1> QED
    BY <1>1, <1>2

(***************************************************************************)
(* A byte more can be counted.                                             *)
(***************************************************************************)
HasRoom(ix, field) ==
    /\ field = "accounts" => Len(ix.accounts) < Base - 1
    /\ field = "data" => Len(ix.data) + 1 < Base * Base

(***************************************************************************)
(* A field that grows by a byte leaves an instruction, if its counter has  *)
(* room for it.                                                            *)
(***************************************************************************)
LEMMA GrownIsInstruction ==
    ASSUME NEW ix \in CompactInstructions, NEW b \in U8,
           NEW field \in {"accounts", "data"},
           HasRoom(ix, field)
    PROVE  [ix EXCEPT ![field] = Append(@, b)] \in CompactInstructions
  <1>1. /\ ix \in [program_id_index: U8, accounts: Seq(U8), data: Seq(U8)]
        /\ ix.accounts \in Seq(U8) /\ ix.data \in Seq(U8)
    BY DEF CompactInstructions
  <1>2. ix[field] \in Seq(U8)
    BY <1>1
  <1>3. PICK e \in Seq(U8) : e = Append(ix[field], b) /\ Len(e) = Len(ix[field]) + 1
    <2>1. PICK f \in Seq(U8) : f = ix[field]
      BY <1>2
    <2>2. Append(f, b) \in Seq(U8) /\ Len(Append(f, b)) = Len(f) + 1
      BY AppendProperties
    <2> QED
      BY <2>1, <2>2
  <1>4. PICK next \in [program_id_index: U8, accounts: Seq(U8), data: Seq(U8)] :
          /\ next = [ix EXCEPT ![field] = e]
          /\ next.accounts = IF field = "accounts" THEN e ELSE ix.accounts
          /\ next.data = IF field = "data" THEN e ELSE ix.data
    <2>1. PICK X : X = [program_id_index: U8, accounts: Seq(U8), data: Seq(U8)]
      OBVIOUS
    <2>2. PICK new : new = [ix EXCEPT ![field] = e]
      OBVIOUS
    <2>3. /\ new \in X
          /\ new.accounts = IF field = "accounts" THEN e ELSE ix.accounts
          /\ new.data = IF field = "data" THEN e ELSE ix.data
      BY <1>1, <2>1, <2>2, ReplacedField
    <2> QED
      BY <2>1, <2>2, <2>3
  <1>5. Len(ix.accounts) < Base /\ Len(ix.data) < Base * Base
    BY DEF CompactInstructions
  <1>6. CASE field = "accounts"
    <2>1. PICK n \in Nat : n = Len(ix.accounts) /\ n < Base - 1
      BY <1>1, <1>6 DEF HasRoom
    <2>2. Len(next.accounts) = n + 1 /\ next.data = ix.data
      BY <1>3, <1>4, <1>6, <2>1
    <2>3. Len(next.accounts) < Base
      BY <2>1, <2>2, CompactAssumption
    <2>4. next \in CompactInstructions
      BY <1>5, <2>2, <2>3 DEF CompactInstructions
    <2> QED
      BY <1>3, <1>4, <2>4
  <1>7. CASE field = "data"
    <2>1. Len(next.data) = Len(ix.data) + 1 /\ next.accounts = ix.accounts
      BY <1>3, <1>4, <1>7
    <2>2. Len(next.data) < Base * Base
      BY <1>7, <2>1 DEF HasRoom
    <2>3. next \in CompactInstructions
      BY <1>5, <2>1, <2>2 DEF CompactInstructions
    <2> QED
      BY <1>3, <1>4, <2>3
  <1> QED
    BY <1>6, <1>7

(***************************************************************************)
(* Nothing has arrived and nothing has been put together.                  *)
(***************************************************************************)
LEMMA CompactTypeInit == CompactInit => CompactTypeOK
  <1> SUFFICES ASSUME CompactInit
               PROVE  CompactTypeOK
    OBVIOUS
  <1>1. <<>> \in Seq(U8) /\ <<>> \in Seq(CompactInstructions) /\ Len(<<>>) = 0
    BY EmptySeq
  <1> QED
    BY <1>1, CompactAssumption DEF CompactInit, CompactTypeOK

(***************************************************************************)
(* The serialiser's list counts with the digits that the format has.       *)
(***************************************************************************)
LEMMA CompactTypeNext == CompactTypeOK /\ [CompactNext]_cvars => CompactTypeOK'
  <1> SUFFICES ASSUME CompactTypeOK, [CompactNext]_cvars
               PROVE  CompactTypeOK'
    OBVIOUS
  <1>1. ASSUME NEW b \in U8, ArriveData(b)
        PROVE  CompactTypeOK'
    <2>1. Append(data, b) \in Seq(U8)
      BY AppendProperties DEF CompactTypeOK
    <2> QED
      BY <1>1, <2>1 DEF ArriveData, CompactTypeOK
  <1>2. ASSUME NEW b \in U8, AddCompact(b)
        PROVE  CompactTypeOK'
    <2>1. <<>> \in Seq(U8) /\ Len(<<>>) = 0
      BY EmptySeq
    <2>2. Len(<<>>) < Base /\ Len(<<>>) < Base * Base
      <3>1. 0 < Base /\ 0 < Base * Base
        BY CompactAssumption
      <3> QED
        BY <2>1, <3>1
    <2>3. PICK ix \in CompactInstructions :
            ix = [program_id_index |-> b, accounts |-> <<>>, data |-> <<>>]
      BY <2>1, <2>2, FieldsMakeInstruction
    <2>4. PICK p \in Seq(CompactInstructions) : p = program /\ Len(p) < MaxInstructions
      BY <1>2 DEF AddCompact, CompactTypeOK
    <2>5. /\ Append(p, ix) \in Seq(CompactInstructions)
          /\ Len(Append(p, ix)) = Len(p) + 1
      BY AppendProperties
    <2>6. Len(Append(p, ix)) <= MaxInstructions
      <3>1. PICK n \in Nat : n = Len(p)
        OBVIOUS
      <3> QED
        BY <2>4, <2>5, <3>1, CompactAssumption
    <2>7. program' = Append(p, ix) /\ data' = data
      BY <1>2, <2>3, <2>4 DEF AddCompact
    <2> QED
      BY <2>5, <2>6, <2>7 DEF CompactTypeOK
  <1>3. ASSUME NEW b \in U8, NEW field \in {"accounts", "data"},
               ExtendCompact(field, b)
        PROVE  CompactTypeOK'
    <2>1. PICK p \in Seq(CompactInstructions), n \in Nat :
            p = program /\ n = Len(p) /\ DOMAIN p = 1 .. n
      BY DEF CompactTypeOK
    <2>2. n \in 1 .. Len(p)
      BY <1>3, <2>1, EmptySeq DEF ExtendCompact
    <2>3. PICK ix \in CompactInstructions : ix = p[n]
      BY <2>1, <2>2
    <2>4. Last(program) = ix
      BY <2>1, <2>3 DEF Last
    <2>5. field = "accounts" => Len(ix.accounts) < Base - 1
      BY <1>3, <2>4 DEF ExtendCompact
    <2>6. Len(ix.data) + 1 < Base * Base
      <3>1. Size(p) \in Nat /\ Len(ix.data) < Size(p)
        BY <2>2, <2>3, DataFits
      <3>2. Size(p) < MaxProgram
        BY <1>3, <2>1 DEF ExtendCompact
      <3>3. PICK d \in Nat, z \in Nat : d = Len(ix.data) /\ z = Size(p)
        BY <3>1 DEF CompactInstructions
      <3>4. PICK bound \in Nat : bound = Base * Base
        BY CompactAssumption
      <3>5. MaxProgram \in Nat /\ MaxProgram < bound
        BY <3>4, ProgramAssumption
      <3> QED
        BY <3>1, <3>2, <3>3, <3>4, <3>5
    <2>7. PICK next \in CompactInstructions : next = [ix EXCEPT ![field] = Append(@, b)]
      BY <2>5, <2>6, GrownIsInstruction DEF HasRoom
    <2>8. program' = [p EXCEPT ![n] = next] /\ data' = data
      BY <1>3, <2>1, <2>3, <2>7 DEF ExtendCompact
    <2>9. /\ [p EXCEPT ![n] = next] \in Seq(CompactInstructions)
          /\ Len([p EXCEPT ![n] = next]) = Len(p)
      BY <2>2, ExceptSeq
    <2> QED
      BY <2>1, <2>8, <2>9 DEF CompactTypeOK
  <1>4. CASE UNCHANGED cvars
    BY <1>4 DEF cvars, CompactTypeOK
  <1>5. CASE CompactComplete
    BY <1>4, <1>5 DEF CompactComplete
  <1> QED
    BY <1>1, <1>2, <1>3, <1>4, <1>5 DEF CompactNext

(***************************************************************************)
(* Every state of the serialiser has a list that the format has bytes for. *)
(***************************************************************************)
THEOREM CompactTypeCorrect == CompactSpec => []CompactTypeOK
  BY CompactTypeInit, CompactTypeNext, PTL DEF CompactSpec

(***************************************************************************)
(* What a client serialises with into_bytes, Execute parses, whatever the  *)
(* payload of the authority behind it.                                     *)
(***************************************************************************)
THEOREM ProgramParsesBack == CompactSpec => []RoundTrip
  <1>1. CompactTypeOK => RoundTrip
    <2> SUFFICES ASSUME CompactTypeOK,
                        NEW rest \in {<<>>} \cup {<<b>> : b \in U8}
                 PROVE  Parse(IntoBytes(program) \o rest)
                          = [ok |-> TRUE, ixs |-> program,
                             consumed |-> Len(IntoBytes(program))]
      BY DEF RoundTrip
    <2>1. rest \in Seq(U8)
      <3>1. PICK S : S = U8
        OBVIOUS
      <3>2. <<>> \in Seq(S) /\ \A b \in S : <<b>> \in Seq(S)
        BY EmptySeq
      <3> QED
        BY <3>1, <3>2
    <2>2. PICK ixs \in Seq(CompactInstructions) :
            ixs = program /\ Len(ixs) <= MaxInstructions
      BY DEF CompactTypeOK
    <2> QED
      BY <2>1, <2>2, ParsesBack
  <1> QED
    BY <1>1, CompactTypeCorrect, PTL

(***************************************************************************)
(* Of any bytes at all, what parse_compact_instructions accepts is what    *)
(* into_bytes writes: ExecuteDeferred may hash the bytes it was given.     *)
(***************************************************************************)
THEOREM ParseStaysCanonical == CompactSpec => []ParseIsCanonical
  <1>1. CompactTypeOK => ParseIsCanonical
    <2> SUFFICES ASSUME CompactTypeOK, Parse(data).ok
                 PROVE  IntoBytes(Parse(data).ixs)
                          = SubSeq(data, 1, Parse(data).consumed)
      BY DEF ParseIsCanonical
    <2>1. PICK bytes \in Seq(U8) : bytes = data
      BY DEF CompactTypeOK
    <2> QED
      BY <2>1, ParsedIsWritten
  <1> QED
    BY <1>1, CompactTypeCorrect, PTL

(***************************************************************************)
(* Two lists of accounts with the same hash of the keys that the           *)
(* instructions name have Execute make the same calls.                     *)
(***************************************************************************)
THEOREM HashAlwaysBinds == CompactSpec => []HashBindsCalls
  <1>1. CompactTypeOK => HashBindsCalls
    <2> SUFFICES ASSUME CompactTypeOK, Parse(data).ok,
                        NEW signed \in AccountLists, NEW given \in AccountLists,
                        Valid(Parse(data).ixs, signed), Valid(Parse(data).ixs, given),
                        NamedKeys(Parse(data).ixs, signed)
                          = NamedKeys(Parse(data).ixs, given)
                 PROVE  Calls(Parse(data).ixs, signed) = Calls(Parse(data).ixs, given)
      BY DEF HashBindsCalls
    <2>1. PICK bytes \in Seq(U8) : bytes = data
      BY DEF CompactTypeOK
    <2>2. PICK ixs \in Seq(CompactInstructions) : ixs = Parse(data).ixs
      BY <2>1, ParsedIsWritten
    <2>3. PICK A, B : /\ A = {signed[i] : i \in DOMAIN signed} /\ signed \in Seq(A)
                      /\ B = {given[i] : i \in DOMAIN given} /\ given \in Seq(B)
      BY AccountsAssumption
    <2>4. \A l \in Seq(A) \cup Seq(B) : l \in Seq(A \cup B)
      OBVIOUS
    <2>5. PICK S : signed \in Seq(S) /\ given \in Seq(S)
      BY <2>3, <2>4
    <2> QED
      BY <2>2, <2>5, KeysBindCalls
  <1> QED
    BY <1>1, CompactTypeCorrect, PTL

-----------------------------------------------------------------------------
(* The scanner of clientDataJSON. *)

(***************************************************************************)
(* The bytes a text may have, and the states of the scanner.               *)
(***************************************************************************)
Bytes == Punctuation \cup {"1"} \cup (UNION {Range(s) : s \in Strings})

(***************************************************************************)
(* The loops of the scanner, and its two ends.                             *)
(***************************************************************************)
Modes == {"start", "main", "key", "colon", "value", "found", "string", "skip",
          "skip_string", "ok", "error"}

(***************************************************************************)
(* The states of the scanner.                                              *)
(***************************************************************************)
Scans == [mode: Modes, depth: Nat, nest: Nat, key: Seq(Bytes), value: Seq(Bytes)]

(***************************************************************************)
(* The scanner goes to another loop.                                       *)
(***************************************************************************)
LEMMA ModeTyping ==
    ASSUME NEW scan \in Scans, NEW mode \in Modes
    PROVE  To(scan, mode) \in Scans
  BY DEF To, Scans

(***************************************************************************)
(* The scanner counts a brace or a bracket.                                *)
(***************************************************************************)
LEMMA CountTyping ==
    ASSUME NEW scan \in Scans, NEW mode \in Modes, NEW n \in Nat
    PROVE  /\ [scan EXCEPT !.mode = mode, !.depth = n] \in Scans
           /\ [scan EXCEPT !.mode = mode, !.nest = n] \in Scans
           /\ [scan EXCEPT !.nest = n] \in Scans
  BY DEF Scans

(***************************************************************************)
(* The main loop never counts the depth below zero.                        *)
(***************************************************************************)
LEMMA MainTyping ==
    ASSUME NEW scan \in Scans, NEW b \in Bytes
    PROVE  MainByte(scan, b) \in Scans
  <1>1. scan.depth \in Nat /\ (scan.depth # 0 => scan.depth - 1 \in Nat)
    <2>1. PICK d \in Nat : d = scan.depth
      BY DEF Scans
    <2> QED
      BY <2>1
  <1>2. "main" \in Modes /\ "error" \in Modes /\ "key" \in Modes
    BY DEF Modes
  <1>3. scan.depth + 1 \in Nat
    BY <1>1
  <1>4. CASE b = "open_brace"
    <2>1. MainByte(scan, b) = [scan EXCEPT !.mode = "main", !.depth = scan.depth + 1]
      BY <1>4 DEF MainByte
    <2> QED
      BY <1>2, <1>3, <2>1, CountTyping, ZenonT(40)
  <1>5. CASE b = "close_brace" /\ scan.depth # 0
    <2>1. MainByte(scan, b) = [scan EXCEPT !.mode = "main", !.depth = scan.depth - 1]
      BY <1>5 DEF MainByte
    <2> QED
      <3>1. PICK n \in Nat : n = scan.depth - 1
        BY <1>1, <1>5
      <3>2. [scan EXCEPT !.mode = "main", !.depth = n] \in Scans
        BY <1>2, CountTyping
      <3> QED
        BY <2>1, <3>1, <3>2
  <1>6. CASE b = "quote" /\ scan.depth = 1
    <2>1. MainByte(scan, b) = [scan EXCEPT !.mode = "key", !.key = <<>>]
      BY <1>6 DEF MainByte
    <2>2. [scan EXCEPT !.mode = "key", !.key = <<>>] \in Scans
      <3>1. PICK S : S = Seq(Bytes)
        OBVIOUS
      <3>2. <<>> \in S
        BY <3>1
      <3> QED
        BY <1>2, <3>1, <3>2 DEF Scans
    <2> QED
      BY <2>1, <2>2
  <1>7. CASE /\ b # "open_brace"
             /\ ~ (b = "close_brace" /\ scan.depth # 0)
             /\ ~ (b = "quote" /\ scan.depth = 1)
    <2>1. MainByte(scan, b) \in {To(scan, "main"), To(scan, "error")}
      BY <1>7 DEF MainByte
    <2> QED
      BY <1>2, <2>1, ModeTyping
  <1> QED
    BY <1>4, <1>5, <1>6, <1>7

(***************************************************************************)
(* Nor does the loop over a value count the nesting below zero.            *)
(***************************************************************************)
LEMMA SkipTyping ==
    ASSUME NEW scan \in Scans, NEW b \in Bytes
    PROVE  SkipByte(scan, b) \in Scans
  <1>1. /\ scan.nest \in Nat /\ scan.nest + 1 \in Nat
        /\ scan.nest > 0 => scan.nest - 1 \in Nat
        /\ scan.nest > 0 <=> scan.nest # 0
    <2>1. PICK d \in Nat : d = scan.nest
      BY DEF Scans
    <2> QED
      BY <2>1
  <1>2. "skip" \in Modes /\ "skip_string" \in Modes
    BY DEF Modes
  <1>3. CASE b \in Openers
    <2>1. SkipByte(scan, b) = [scan EXCEPT !.mode = "skip", !.nest = scan.nest + 1]
      BY <1>3 DEF SkipByte, Openers, Closers
    <2> QED
      <3>1. PICK n \in Nat : n = scan.nest + 1
        BY <1>1
      <3>2. [scan EXCEPT !.mode = "skip", !.nest = n] \in Scans
        BY <1>2, CountTyping
      <3> QED
        BY <2>1, <3>1, <3>2
  <1>4. CASE b \in Closers /\ scan.nest > 0
    <2>1. SkipByte(scan, b) = [scan EXCEPT !.nest = scan.nest - 1]
      BY <1>1, <1>4 DEF SkipByte, Openers, Closers
    <2> QED
      <3>1. PICK n \in Nat : n = scan.nest - 1
        BY <1>1, <1>4
      <3>2. [scan EXCEPT !.nest = n] \in Scans
        BY <1>2, CountTyping
      <3> QED
        BY <2>1, <3>1, <3>2
  <1>5. CASE b \in Closers \cup {"comma"} /\ scan.nest = 0
    <2>1. SkipByte(scan, b) = MainByte(scan, b)
      BY <1>1, <1>5 DEF SkipByte
    <2> QED
      BY <2>1, MainTyping
  <1>6. CASE /\ b \notin Openers
             /\ ~ (b \in Closers /\ scan.nest > 0)
             /\ ~ (b \in Closers \cup {"comma"} /\ scan.nest = 0)
    <2>1. SkipByte(scan, b) \in {To(scan, "skip"), To(scan, "skip_string")}
      BY <1>6 DEF SkipByte
    <2> QED
      BY <1>2, <2>1, ModeTyping
  <1> QED
    BY <1>3, <1>4, <1>5, <1>6

(***************************************************************************)
(* Whatever byte it reads, the scanner is in one of its states.            *)
(***************************************************************************)
LEMMA ScanTyping ==
    ASSUME NEW scan \in Scans, NEW b \in Bytes, NEW field
    PROVE  ScanByte(scan, b, field) \in Scans
  <1>1. PICK S : S = Seq(Bytes)
    OBVIOUS
  <1>2. scan \in [mode: Modes, depth: Nat, nest: Nat, key: S, value: S]
    BY <1>1 DEF Scans
  <1>3. Append(scan.key, b) \in S /\ Append(scan.value, b) \in S /\ <<>> \in S
    BY <1>1, <1>2
  <1>4. MainByte(scan, b) \in Scans /\ SkipByte(scan, b) \in Scans
    BY MainTyping, SkipTyping
  <1>5. SkipByte([scan EXCEPT !.nest = 0], b) \in Scans
    <2>1. [scan EXCEPT !.nest = 0] \in Scans
      BY DEF Scans
    <2> QED
      BY <2>1, SkipTyping
  <1>6. \A mode \in Modes : To(scan, mode) \in Scans
    BY ModeTyping
  <1>7. ValueByte(scan, b, field) \in Scans
    <2>1. [scan EXCEPT !.mode = "found", !.value = <<>>] \in Scans
      BY <1>1, <1>2, <1>3 DEF Scans, Modes
    <2> QED
      BY <1>5, <1>6, <2>1 DEF ValueByte, Modes
  <1>8. ASSUME NEW grown \in Scans, NEW closed \in Scans
        PROVE  InString(b, grown, closed) \in Scans
    <2>1. [grown EXCEPT !.mode = "error"] \in Scans
      BY DEF Scans, Modes
    <2> QED
      BY <2>1 DEF InString
  <1>9. /\ [scan EXCEPT !.key = Append(@, b)] \in Scans
        /\ [scan EXCEPT !.value = Append(@, b)] \in Scans
    BY <1>1, <1>2, <1>3 DEF Scans
  <1>10. CASE scan.mode = "key"
    <2>1. ScanByte(scan, b, field)
            = InString(b, [scan EXCEPT !.key = Append(@, b)], To(scan, "colon"))
      BY <1>10 DEF ScanByte
    <2>2. To(scan, "colon") \in Scans
      BY <1>6 DEF Modes
    <2> QED
      BY <1>8, <1>9, <2>1, <2>2
  <1>11. CASE scan.mode = "found"
    <2>1. ScanByte(scan, b, field)
            = InString(b, [scan EXCEPT !.value = Append(@, b)], To(scan, "ok"))
      BY <1>11 DEF ScanByte
    <2>2. To(scan, "ok") \in Scans
      BY <1>6 DEF Modes
    <2> QED
      BY <1>8, <1>9, <2>1, <2>2
  <1>12. CASE scan.mode \in {"string", "skip_string"}
    <2>1. \/ ScanByte(scan, b, field) = InString(b, scan, To(scan, "main"))
          \/ ScanByte(scan, b, field) = InString(b, scan, To(scan, "skip"))
      BY <1>12 DEF ScanByte
    <2>2. To(scan, "main") \in Scans /\ To(scan, "skip") \in Scans
      BY <1>6 DEF Modes
    <2> QED
      BY <1>8, <2>1, <2>2
  <1>13. CASE scan.mode \in {"start", "main", "colon", "value", "skip", "ok", "error"}
    BY <1>4, <1>6, <1>7, <1>13 DEF ScanByte, Modes
  <1> QED
    BY <1>2, <1>10, <1>11, <1>12, <1>13 DEF Modes

-----------------------------------------------------------------------------
(* The scanner's run along a text. *)

(***************************************************************************)
(* acc has the states of the scanner along the text.                       *)
(***************************************************************************)
IsScanLoop(acc, n, t, field) ==
    /\ acc \in [0 .. n -> Scans]
    /\ acc[0] = ScanStart
    /\ \A k \in 1 .. n : acc[k] = ScanByte(acc[k - 1], t[k], field)

(***************************************************************************)
(* Having read the text the scanner is in this state.                      *)
(***************************************************************************)
Scanned(t, scan, field) ==
    \E acc : IsScanLoop(acc, Len(t), t, field) /\ scan = acc[Len(t)]

(***************************************************************************)
(* The fold in Extract, over the places of a text.                         *)
(***************************************************************************)
IsScanFold(g, t, field, D) ==
    g = [s \in SUBSET D |->
           IF s = {} THEN ScanStart ELSE ScanByte(g[s \ {Max(s)}], t[Max(s)], field)]

(***************************************************************************)
(* The scanner starts in one of its states.                                *)
(***************************************************************************)
LEMMA StartTyping == ScanStart \in Scans
  <1>1. PICK S : S = Seq(Bytes)
    OBVIOUS
  <1>2. <<>> \in S
    BY <1>1
  <1>3. ScanStart \in [mode: Modes, depth: Nat, nest: Nat, key: S, value: S]
    BY <1>2 DEF ScanStart, Modes
  <1> QED
    BY <1>1, <1>3 DEF Scans

(***************************************************************************)
(* Extract returns what a run along the text ends with.                    *)
(***************************************************************************)
LEMMA ScanIsLoop ==
    ASSUME NEW t \in Seq(Bytes), NEW field, NEW n \in Nat, n = Len(t)
    PROVE  \E acc : /\ IsScanLoop(acc, n, t, field)
                    /\ Extract(t, field)
                         = [ok |-> acc[n].mode = "ok", value |-> acc[n].value]
  <1>0. PICK D : D = 1 .. n
    OBVIOUS
  <1>1. PICK X : X = Scans
    OBVIOUS
  <1> DEFINE Folded == FoldLeft(LAMBDA s, b : ScanByte(s, b, field), ScanStart, t)
  <1>2. Folded = (CHOOSE g : IsScanFold(g, t, field, D))[D]
    <2>1. DOMAIN t = D
      BY <1>0
    <2> QED
      BY <2>1 DEF FoldLeft, MapThenFoldSet, IsScanFold
  <1>13. Extract(t, field) = [ok |-> Folded.mode = "ok", value |-> Folded.value]
    BY DEF Extract
  <1> HIDE DEF Folded
  <1>3. \A s \in SUBSET D : s # {} => Max(s) \in s
    BY <1>0, Largest
  <1>4. PICK h : h = [vk \in X \X D |-> ScanByte(vk[1], t[vk[2]], field)]
    OBVIOUS
  <1>14. \A k \in D : t[k] \in Bytes
    BY <1>0
  <1>15. ScanStart \in X
    BY <1>1, StartTyping
  <1>5. Combines(h, 1 .. n, X)
    <2>1. \A v \in X, k \in D : ScanByte(v, t[k], field) \in X
      BY <1>1, <1>14, ScanTyping
    <2> QED
      BY <1>0, <1>4, <2>1 DEF Combines
  <1>6. \E g : IsScanFold(g, t, field, D)
    <2>1. PICK g \in [SUBSET (1 .. n) -> X] : IsFoldOf(g, 1 .. n, ScanStart, h)
      BY <1>15, <1>5, FoldByMax
    <2>2. ASSUME NEW s \in SUBSET D
          PROVE  g[s] = IF s = {} THEN ScanStart
                        ELSE ScanByte(g[s \ {Max(s)}], t[Max(s)], field)
      <3>1. CASE s = {}
        BY <1>0, <2>1, <3>1 DEF IsFoldOf
      <3>2. CASE s # {}
        <4>1. PICK m \in D : m = Max(s)
          BY <1>3, <3>2
        <4>2. g[s] = h[<<g[s \ {m}], m>>]
          BY <1>0, <2>1, <3>2, <4>1 DEF IsFoldOf
        <4>3. PICK v \in X : v = g[s \ {m}]
          BY <1>0, <2>1
        <4>4. h[<<v, m>>] = ScanByte(v, t[m], field)
          BY <1>4
        <4> QED
          BY <3>2, <4>1, <4>2, <4>3, <4>4
      <3> QED
        BY <3>1, <3>2
    <2>3. IsScanFold(g, t, field, D)
      BY <1>0, <2>1, <2>2 DEF IsScanFold
    <2> QED
      BY <2>3
  <1>7. PICK g : /\ g = (CHOOSE w : IsScanFold(w, t, field, D))
                 /\ IsScanFold(g, t, field, D)
    BY <1>6
  <1>8. g[{}] = ScanStart
    BY <1>7 DEF IsScanFold
  <1>9. ASSUME NEW k \in 1 .. n, g[1 .. k - 1] \in X
        PROVE  g[1 .. k] = h[<<g[1 .. k - 1], k>>]
    <2>1. /\ 1 .. k \in SUBSET D /\ 1 .. k # {}
          /\ Max(1 .. k) = k /\ (1 .. k) \ {k} = 1 .. k - 1
      <3>1. k \in Nat /\ k # 0
        OBVIOUS
      <3>2. Max(1 .. k) = k /\ (1 .. k) \ {k} = 1 .. k - 1
        BY <3>1, LastOfFirst
      <3>3. 1 .. k \subseteq 1 .. n /\ k \in 1 .. k
        OBVIOUS
      <3> QED
        BY <1>0, <3>2, <3>3
    <2>2. g[1 .. k] = ScanByte(g[1 .. k - 1], t[k], field)
      BY <1>7, <2>1 DEF IsScanFold
    <2>3. k \in D
      BY <1>0
    <2>4. PICK v \in X : v = g[1 .. k - 1]
      BY <1>9
    <2>5. h[<<v, k>>] = ScanByte(v, t[k], field)
      BY <1>4, <2>3
    <2> QED
      BY <2>2, <2>4, <2>5
  <1>10. PICK acc : IsLoop(acc, n, X, ScanStart, h) /\ acc[n] = g[1 .. n]
    <2>1. GoesOn(g, n, X, h)
      BY <1>9 DEF GoesOn
    <2> QED
      BY <1>15, <1>5, <1>8, <2>1, FoldIsLoop
  <1>11. ASSUME NEW k \in 1 .. n
         PROVE  acc[k] = ScanByte(acc[k - 1], t[k], field)
    <2>1. PICK v \in X : v = acc[k - 1]
      BY <1>10 DEF IsLoop
    <2>2. acc[k] = h[<<acc[k - 1], k>>]
      BY <1>10 DEF IsLoop
    <2>3. h[<<v, k>>] = ScanByte(v, t[k], field)
      BY <1>0, <1>4
    <2> QED
      BY <2>1, <2>2, <2>3
  <1>12. IsScanLoop(acc, n, t, field)
    BY <1>1, <1>10, <1>11 DEF IsScanLoop, IsLoop
  <1> QED
    <2>1. Folded = acc[n]
      BY <1>0, <1>2, <1>7, <1>10
    <2>2. Extract(t, field) = [ok |-> acc[n].mode = "ok", value |-> acc[n].value]
      BY <1>13, <2>1
    <2> QED
      BY <1>12, <2>2

(***************************************************************************)
(* There is one such run, and Extract returns what it ends with.           *)
(***************************************************************************)
LEMMA ScannedIsExtracted ==
    ASSUME NEW t \in Seq(Bytes), NEW field, NEW scan, Scanned(t, scan, field)
    PROVE  Extract(t, field) = [ok |-> scan.mode = "ok", value |-> scan.value]
  <1>1. PICK n \in Nat : n = Len(t)
    OBVIOUS
  <1>2. PICK a : IsScanLoop(a, n, t, field) /\ scan = a[n]
    BY <1>1 DEF Scanned
  <1>3. PICK c : /\ IsScanLoop(c, n, t, field)
                 /\ Extract(t, field) = [ok |-> c[n].mode = "ok", value |-> c[n].value]
    BY <1>1, ScanIsLoop
  <1> DEFINE Q == {k \in 0 .. n : a[k] = c[k]}
  <1>4. 0 \in Q
    BY <1>2, <1>3 DEF IsScanLoop
  <1>5. ASSUME NEW k \in 1 .. n, k - 1 \in Q
        PROVE  k \in Q
    <2>1. a[k - 1] = c[k - 1]
      BY <1>5
    <2>2. a[k] = ScanByte(a[k - 1], t[k], field) /\ c[k] = ScanByte(c[k - 1], t[k], field)
      BY <1>2, <1>3 DEF IsScanLoop
    <2> QED
      BY <2>1, <2>2
  <1>6. 0 .. n \subseteq Q
    <2> HIDE DEF Q
    <2> QED
      BY <1>4, <1>5, LoopInvariant
  <1>7. scan = c[n]
    BY <1>2, <1>6
  <1> QED
    BY <1>3, <1>7

(***************************************************************************)
(* One more byte is one more step.                                         *)
(***************************************************************************)
LEMMA ScannedByte ==
    ASSUME NEW t \in Seq(Bytes), NEW field, NEW scan, Scanned(t, scan, field),
           NEW b \in Bytes
    PROVE  /\ Scanned(Append(t, b), ScanByte(scan, b, field), field)
           /\ scan \in Scans /\ ScanByte(scan, b, field) \in Scans
  <1>1. PICK n \in Nat : n = Len(t)
    OBVIOUS
  <1>2. PICK a : IsScanLoop(a, n, t, field) /\ scan = a[n]
    BY <1>1 DEF Scanned
  <1>3. scan \in Scans
    BY <1>2 DEF IsScanLoop
  <1>4. PICK next \in Scans : next = ScanByte(scan, b, field)
    BY <1>3, ScanTyping
  <1>5. PICK u : u = Append(t, b)
    OBVIOUS
  <1>6. u \in Seq(Bytes) /\ Len(u) = n + 1 /\ u[n + 1] = b
          /\ \A k \in 1 .. n : u[k] = t[k]
    BY <1>1, <1>5, AppendProperties
  <1>7. PICK c : c = [k \in 0 .. n + 1 |-> IF k = n + 1 THEN next ELSE a[k]]
    OBVIOUS
  <1>8. IsScanLoop(c, n + 1, u, field)
    <2>1. \A k \in 0 .. n : c[k] = a[k] /\ a[k] \in Scans
      BY <1>2, <1>7 DEF IsScanLoop
    <2>2. c[n + 1] = next
      BY <1>7
    <2>3. c \in [0 .. n + 1 -> Scans]
      <3>1. \A k \in 0 .. n + 1 : k = n + 1 \/ k \in 0 .. n
        OBVIOUS
      <3> QED
        BY <1>4, <1>7, <2>1, <3>1
    <2>4. c[0] = ScanStart
      BY <1>2, <2>1 DEF IsScanLoop
    <2>5. ASSUME NEW k \in 1 .. n + 1
          PROVE  c[k] = ScanByte(c[k - 1], u[k], field)
      <3>1. CASE k = n + 1
        <4>1. c[k - 1] = scan
          BY <1>2, <2>1, <3>1
        <4> QED
          BY <1>4, <1>6, <2>2, <3>1, <4>1
      <3>2. CASE k # n + 1
        <4>1. k \in 1 .. n /\ k - 1 \in 0 .. n /\ k \in 0 .. n
          BY <3>2
        <4>2. a[k] = ScanByte(a[k - 1], t[k], field)
          BY <1>2, <4>1 DEF IsScanLoop
        <4> QED
          BY <1>6, <2>1, <4>1, <4>2
      <3> QED
        BY <3>1, <3>2
    <2> QED
      BY <2>3, <2>4, <2>5 DEF IsScanLoop
  <1>9. c[n + 1] = next
    BY <1>7
  <1>10. Scanned(u, next, field)
    BY <1>6, <1>8, <1>9 DEF Scanned
  <1> QED
    BY <1>3, <1>4, <1>5, <1>10

(***************************************************************************)
(* Before the first byte the scanner is at its start.                      *)
(***************************************************************************)
LEMMA ScannedNothing ==
    ASSUME NEW field
    PROVE  Scanned(<<>>, ScanStart, field)
  <1>1. PICK acc : acc = [k \in 0 .. 0 |-> ScanStart]
    OBVIOUS
  <1>2. IsScanLoop(acc, 0, <<>>, field)
    BY <1>1, StartTyping DEF IsScanLoop
  <1>3. acc[0] = ScanStart /\ Len(<<>>) = 0
    BY <1>1
  <1> QED
    BY <1>2, <1>3 DEF Scanned

-----------------------------------------------------------------------------
(* What each loop of the scanner makes of a byte. *)

(***************************************************************************)
(* Going to another loop changes nothing else.                             *)
(***************************************************************************)
LEMMA ToReads ==
    ASSUME NEW scan \in Scans, NEW mode \in Modes
    PROVE  /\ To(scan, mode).mode = mode /\ To(scan, mode).depth = scan.depth
           /\ To(scan, mode).nest = scan.nest /\ To(scan, mode).key = scan.key
           /\ To(scan, mode).value = scan.value
  BY DEF To, Scans

(***************************************************************************)
(* Before the object there may be white space.                             *)
(***************************************************************************)
LEMMA StartReads ==
    ASSUME NEW scan \in Scans, scan.mode = "start", scan.depth = 0, NEW field
    PROVE  /\ ScanByte(scan, "space", field) = scan
           /\ ScanByte(scan, "open_brace", field).mode = "main"
           /\ ScanByte(scan, "open_brace", field).depth = 1
  <1>1. ScanByte(scan, "space", field) = scan
    BY DEF ScanByte
  <1>2. ScanByte(scan, "open_brace", field) = [scan EXCEPT !.mode = "main", !.depth = scan.depth + 1]
    BY DEF ScanByte, MainByte
  <1>3. PICK n \in Nat : n = scan.depth + 1 /\ n = 1
    OBVIOUS
  <1>4. ScanByte(scan, "open_brace", field) = [scan EXCEPT !.mode = "main", !.depth = n]
    BY <1>2, <1>3
  <1> QED
    BY <1>1, <1>3, <1>4 DEF Scans

(***************************************************************************)
(* The main loop passes commas and white space, takes a quote at depth 1   *)
(* for the start of a key, and counts a closing brace.                     *)
(***************************************************************************)
LEMMA MainReads ==
    ASSUME NEW scan \in Scans, scan.mode = "main", NEW field
    PROVE  /\ \A b \in {"comma", "space"} : ScanByte(scan, b, field) = To(scan, "main")
           /\ scan.depth = 1 =>
                /\ ScanByte(scan, "quote", field).mode = "key"
                /\ ScanByte(scan, "quote", field).key = <<>>
                /\ ScanByte(scan, "quote", field).depth = 1
                /\ ScanByte(scan, "close_brace", field).mode = "main"
                /\ ScanByte(scan, "close_brace", field).depth = 0
  <1>1. ASSUME NEW b \in {"comma", "space"}
        PROVE  ScanByte(scan, b, field) = To(scan, "main")
    BY DEF ScanByte, MainByte
  <1>2. ASSUME scan.depth = 1
        PROVE  /\ ScanByte(scan, "quote", field).mode = "key"
               /\ ScanByte(scan, "quote", field).key = <<>>
               /\ ScanByte(scan, "quote", field).depth = 1
    <2>1. ScanByte(scan, "quote", field) = [scan EXCEPT !.mode = "key", !.key = <<>>]
      BY <1>2 DEF ScanByte, MainByte
    <2> QED
      BY <1>2, <2>1 DEF Scans
  <1>3. ASSUME scan.depth = 1
        PROVE  /\ ScanByte(scan, "close_brace", field).mode = "main"
               /\ ScanByte(scan, "close_brace", field).depth = 0
    <2>1. ScanByte(scan, "close_brace", field)
            = [scan EXCEPT !.mode = "main", !.depth = scan.depth - 1]
      BY <1>3 DEF ScanByte, MainByte
    <2>2. PICK n \in Nat : n = scan.depth - 1 /\ n = 0
      BY <1>3
    <2>3. ScanByte(scan, "close_brace", field) = [scan EXCEPT !.mode = "main", !.depth = n]
      BY <2>1, <2>2
    <2> QED
      BY <2>2, <2>3 DEF Scans
  <1> QED
    BY <1>1, <1>2, <1>3

(***************************************************************************)
(* The loop over a value counts what opens and closes in it, and ends with *)
(* the comma or brace at its own level.                                    *)
(***************************************************************************)
LEMMA SkipReads ==
    ASSUME NEW scan \in Scans, scan.mode = "skip", scan.depth = 1, NEW field
    PROVE  /\ ScanByte(scan, "quote", field) = To(scan, "skip_string")
           /\ \A b \in {"colon", "space", "1"} : ScanByte(scan, b, field) = To(scan, "skip")
           /\ scan.nest # 0 => ScanByte(scan, "comma", field) = To(scan, "skip")
           /\ scan.nest = 0 => ScanByte(scan, "comma", field) = To(scan, "main")
           /\ \A b \in Openers : /\ ScanByte(scan, b, field).mode = "skip"
                                 /\ ScanByte(scan, b, field).depth = 1
                                 /\ ScanByte(scan, b, field).nest = scan.nest + 1
           /\ scan.nest # 0 =>
                \A b \in Closers : /\ ScanByte(scan, b, field).mode = "skip"
                                   /\ ScanByte(scan, b, field).depth = 1
                                   /\ ScanByte(scan, b, field).nest = scan.nest - 1
           /\ scan.nest = 0 =>
                /\ ScanByte(scan, "close_brace", field).mode = "main"
                /\ ScanByte(scan, "close_brace", field).depth = 0
  <1>0. \A b : ScanByte(scan, b, field) = SkipByte(scan, b)
    BY DEF ScanByte
  <1>1. SkipByte(scan, "quote") = To(scan, "skip_string")
    BY DEF SkipByte, Openers, Closers
  <1>2. \A b \in {"colon", "space", "1"} : SkipByte(scan, b) = To(scan, "skip")
    BY DEF SkipByte, Openers, Closers
  <1>3. scan.nest # 0 => scan.nest > 0
    <2>1. PICK n \in Nat : n = scan.nest
      BY DEF Scans
    <2> QED
      BY <2>1
  <1>4. scan.nest # 0 => SkipByte(scan, "comma") = To(scan, "skip")
    BY DEF SkipByte, Openers, Closers
  <1>5. scan.nest = 0 => SkipByte(scan, "comma") = To(scan, "main")
    BY DEF SkipByte, MainByte
  <1>6. ASSUME NEW b \in Openers
        PROVE  /\ SkipByte(scan, b).mode = "skip" /\ SkipByte(scan, b).depth = 1
               /\ SkipByte(scan, b).nest = scan.nest + 1
    <2>1. PICK m : m = scan.nest + 1
      OBVIOUS
    <2>2. SkipByte(scan, b) = [scan EXCEPT !.mode = "skip", !.nest = scan.nest + 1]
      BY DEF SkipByte, Openers, Closers
    <2>3. SkipByte(scan, b) = [scan EXCEPT !.mode = "skip", !.nest = m]
      BY <2>1, <2>2
    <2> QED
      BY <2>1, <2>3 DEF Scans
  <1>7. ASSUME scan.nest # 0, NEW b \in Closers
        PROVE  /\ SkipByte(scan, b).mode = "skip" /\ SkipByte(scan, b).depth = 1
               /\ SkipByte(scan, b).nest = scan.nest - 1
    <2>1. PICK m : m = scan.nest - 1
      OBVIOUS
    <2>2. SkipByte(scan, b) = [scan EXCEPT !.nest = scan.nest - 1]
      BY <1>3, <1>7 DEF SkipByte, Openers, Closers
    <2>3. SkipByte(scan, b) = [scan EXCEPT !.nest = m]
      BY <2>1, <2>2
    <2> QED
      BY <2>1, <2>3 DEF Scans
  <1>8. ASSUME scan.nest = 0
        PROVE  /\ SkipByte(scan, "close_brace").mode = "main"
               /\ SkipByte(scan, "close_brace").depth = 0
    <2>1. SkipByte(scan, "close_brace") = [scan EXCEPT !.mode = "main", !.depth = scan.depth - 1]
      BY <1>8 DEF SkipByte, MainByte, Openers, Closers
    <2>2. PICK m \in Nat : m = scan.depth - 1 /\ m = 0
      OBVIOUS
    <2>3. SkipByte(scan, "close_brace") = [scan EXCEPT !.mode = "main", !.depth = m]
      BY <2>1, <2>2
    <2> QED
      BY <2>2, <2>3 DEF Scans
  <1> QED
    BY <1>0, <1>1, <1>2, <1>4, <1>5, <1>6, <1>7, <1>8

(***************************************************************************)
(* Arithmetic for the next lemma, whose context has no room for it.        *)
(***************************************************************************)
LEMMA ZeroPlusOne == 0 + 1 = 1
  OBVIOUS

(***************************************************************************)
(* After the colon: the value of the name that is looked for must be a     *)
(* string, any other value is passed over.                                 *)
(***************************************************************************)
LEMMA ValueReads ==
    ASSUME NEW scan \in Scans, scan.mode = "value", scan.depth = 1, NEW field
    PROVE  /\ ScanByte(scan, "space", field) = scan
           /\ scan.key = field =>
                /\ ScanByte(scan, "quote", field).mode = "found"
                /\ ScanByte(scan, "quote", field).value = <<>>
                /\ \A b \in Openers \cup {"1"} : ScanByte(scan, b, field).mode = "error"
           /\ scan.key # field =>
                /\ ScanByte(scan, "quote", field) = To(scan, "string")
                /\ \A b \in Openers : /\ ScanByte(scan, b, field).mode = "skip"
                                      /\ ScanByte(scan, b, field).depth = 1
                                      /\ ScanByte(scan, b, field).nest = 1
                /\ ScanByte(scan, "1", field).mode = "skip"
                /\ ScanByte(scan, "1", field).depth = 1
                /\ ScanByte(scan, "1", field).nest = 0
  <1>0. \A b : ScanByte(scan, b, field) = ValueByte(scan, b, field)
    BY DEF ScanByte
  <1>1. ValueByte(scan, "space", field) = scan
    BY DEF ValueByte
  <1>2. ASSUME scan.key = field
        PROVE  /\ ValueByte(scan, "quote", field).mode = "found"
               /\ ValueByte(scan, "quote", field).value = <<>>
               /\ \A b \in Openers \cup {"1"} : ValueByte(scan, b, field).mode = "error"
    <2>1. ValueByte(scan, "quote", field)
            = [scan EXCEPT !.mode = "found", !.value = <<>>]
      BY <1>2 DEF ValueByte
    <2>2. \A b \in Openers \cup {"1"} : ValueByte(scan, b, field) = To(scan, "error")
      BY <1>2 DEF ValueByte, Openers, Closers
    <2>3. "error" \in Modes
      BY DEF Modes
    <2>4. To(scan, "error").mode = "error"
      BY <2>3, ToReads
    <2> QED
      BY <2>1, <2>2, <2>4 DEF Scans
  <1>3. ASSUME scan.key # field
        PROVE  /\ ValueByte(scan, "quote", field) = To(scan, "string")
               /\ \A b \in Openers : /\ ValueByte(scan, b, field).mode = "skip"
                                     /\ ValueByte(scan, b, field).depth = 1
                                     /\ ValueByte(scan, b, field).nest = 1
               /\ ValueByte(scan, "1", field).mode = "skip"
               /\ ValueByte(scan, "1", field).depth = 1
               /\ ValueByte(scan, "1", field).nest = 0
    <2>1. ValueByte(scan, "quote", field) = To(scan, "string")
      BY <1>3 DEF ValueByte
    <2>2. PICK z \in Scans : z = [scan EXCEPT !.nest = 0]
      BY DEF Scans
    <2>3. z.nest = 0 /\ z.depth = 1
      BY <2>2 DEF Scans
    <2>4. \A b \in Openers \cup {"1"} : ValueByte(scan, b, field) = SkipByte(z, b)
      BY <1>3, <2>2 DEF ValueByte, Openers, Closers
    <2>5. ASSUME NEW b \in Openers
          PROVE  /\ SkipByte(z, b).mode = "skip" /\ SkipByte(z, b).depth = 1
                 /\ SkipByte(z, b).nest = 1
      <3>1. SkipByte(z, b) = [z EXCEPT !.mode = "skip", !.nest = z.nest + 1]
        BY DEF SkipByte, Openers, Closers
      <3>2. PICK m : m = z.nest + 1 /\ m = 1
        BY <2>3, ZeroPlusOne
      <3>3. SkipByte(z, b) = [z EXCEPT !.mode = "skip", !.nest = m]
        BY <3>1, <3>2
      <3> QED
        BY <2>3, <3>2, <3>3 DEF Scans
    <2>6. SkipByte(z, "1") = To(z, "skip")
      BY DEF SkipByte, Openers, Closers
    <2>7. "skip" \in Modes
      BY DEF Modes
    <2>8. SkipByte(z, "1").mode = "skip" /\ SkipByte(z, "1").depth = 1
            /\ SkipByte(z, "1").nest = 0
      BY <2>3, <2>6, <2>7, ToReads
    <2> QED
      BY <2>1, <2>4, <2>5, <2>8
  <1> QED
    BY <1>0, <1>1, <1>2, <1>3

(***************************************************************************)
(* The same, for one byte that opens an object or a list.                  *)
(***************************************************************************)
LEMMA OpenReads ==
    ASSUME NEW scan \in Scans, scan.mode = "value", scan.depth = 1, NEW field,
           NEW b \in Openers
    PROVE  /\ scan.key = field => ScanByte(scan, b, field).mode = "error"
           /\ scan.key # field => /\ ScanByte(scan, b, field).mode = "skip"
                                 /\ ScanByte(scan, b, field).depth = 1
                                 /\ ScanByte(scan, b, field).nest = 1
  <1>1. ASSUME scan.key = field
        PROVE  ScanByte(scan, b, field).mode = "error"
    <2>1. \A c \in Openers \cup {"1"} : ScanByte(scan, c, field).mode = "error"
      BY <1>1, ValueReads
    <2> QED
      BY <2>1
  <1>2. ASSUME scan.key # field
        PROVE  /\ ScanByte(scan, b, field).mode = "skip"
               /\ ScanByte(scan, b, field).depth = 1
               /\ ScanByte(scan, b, field).nest = 1
    <2>1. \A c \in Openers : /\ ScanByte(scan, c, field).mode = "skip"
                             /\ ScanByte(scan, c, field).depth = 1
                             /\ ScanByte(scan, c, field).nest = 1
      BY <1>2, ValueReads
    <2> QED
      BY <2>1
  <1> QED
    BY <1>1, <1>2

(***************************************************************************)
(* After the key: white space and the colon.                               *)
(***************************************************************************)
LEMMA ColonReads ==
    ASSUME NEW scan \in Scans, scan.mode = "colon", NEW field
    PROVE  /\ ScanByte(scan, "space", field) = scan
           /\ ScanByte(scan, "colon", field) = To(scan, "value")
  BY DEF ScanByte

-----------------------------------------------------------------------------
(* Strings. *)

(***************************************************************************)
(* What lists built byte by byte are.                                      *)
(***************************************************************************)
LEMMA AppendInside ==
    ASSUME NEW S, NEW t \in Seq(S), NEW w \in Seq(S), NEW k \in 1 .. Len(w)
    PROVE  /\ SubSeq(w, 1, k - 1) \in Seq(S)
           /\ SubSeq(w, 1, k) = Append(SubSeq(w, 1, k - 1), w[k])
           /\ t \o SubSeq(w, 1, k) = Append(t \o SubSeq(w, 1, k - 1), w[k])
           /\ t \o SubSeq(w, 1, k - 1) \in Seq(S)
           /\ w[k] \in S
  <1>1. PICK n \in Nat : n = Len(w)
    OBVIOUS
  <1>2. PICK m \in Nat : m = Len(t)
    OBVIOUS
  <1>3. k \in 1 .. n /\ k \in Nat /\ k - 1 \in Nat /\ (k - 1) + 1 = k
    BY <1>1
  <1>11. SubSeq(w, 1, k - 1) \in Seq(S) /\ SubSeq(w, 1, k) \in Seq(S)
    OBVIOUS
  <1>4. PICK p \in Seq(S) : p = SubSeq(w, 1, k - 1)
    BY <1>11
  <1>5. Len(p) = k - 1 /\ \A i \in 1 .. k - 1 : p[i] = w[i]
    BY <1>1, <1>3, <1>4
  <1>6. PICK q \in Seq(S) : q = SubSeq(w, 1, k)
    BY <1>11
  <1>7. Len(q) = k /\ \A i \in 1 .. k : q[i] = w[i]
    BY <1>1, <1>3, <1>6
  <1>8. w[k] \in S
    BY <1>1, <1>3
  <1>9. q = Append(p, w[k])
    <2>0. Append(p, w[k]) \in Seq(S)
      BY <1>8, AppendProperties
    <2>1. PICK u \in Seq(S) : u = Append(p, w[k])
      BY <2>0
    <2>2. Len(u) = k /\ \A i \in 1 .. k : u[i] = w[i]
      <3>1. Len(u) = (k - 1) + 1 /\ u[(k - 1) + 1] = w[k]
        BY <1>5, <1>8, <2>1, AppendProperties
      <3>2. \A i \in 1 .. k - 1 : u[i] = p[i]
        BY <1>5, <1>8, <2>1, AppendProperties
      <3>3. \A i \in 1 .. k : i = k \/ i \in 1 .. k - 1
        BY <1>3
      <3> QED
        BY <1>3, <1>5, <3>1, <3>2, <3>3
    <2> QED
      BY <1>7, <2>1, <2>2
  <1>10. t \o Append(p, w[k]) = Append(t \o p, w[k])
    BY <1>8
  <1> QED
    BY <1>4, <1>6, <1>8, <1>9, <1>10

(***************************************************************************)
(* Reading a word byte by byte.  P has the pairs of a number of bytes read *)
(* and a state that is possible then.                                      *)
(***************************************************************************)
Reaches(t, w, k, field, P) ==
    \E s \in Scans : Scanned(t \o SubSeq(w, 1, k), s, field) /\ <<k, s>> \in P

(***************************************************************************)
(* If each byte of the word leads from a possible state to a possible      *)
(* state, so does the word.                                                *)
(***************************************************************************)
LEMMA ScannedAlong ==
    ASSUME NEW t \in Seq(Bytes), NEW w \in Seq(Bytes), NEW field,
           NEW scan \in Scans, Scanned(t, scan, field),
           NEW P, <<0, scan>> \in P,
           \A k \in 1 .. Len(w), s \in Scans :
              <<k - 1, s>> \in P => <<k, ScanByte(s, w[k], field)>> \in P
    PROVE  \E s \in Scans : Scanned(t \o w, s, field) /\ <<Len(w), s>> \in P
  <1>1. PICK n \in Nat : n = Len(w)
    OBVIOUS
  <1> DEFINE Q == {k \in 0 .. n : Reaches(t, w, k, field, P)}
  <1>2. 0 \in Q
    <2>1. t \o SubSeq(w, 1, 0) = t
      <3>1. SubSeq(w, 1, 0) = <<>>
        OBVIOUS
      <3> QED
        BY <3>1
    <2>2. Reaches(t, w, 0, field, P)
      BY <2>1 DEF Reaches
    <2> QED
      BY <2>2
  <1>3. ASSUME NEW k \in 1 .. n, k - 1 \in Q
        PROVE  k \in Q
    <2>1. PICK s \in Scans : /\ Scanned(t \o SubSeq(w, 1, k - 1), s, field)
                             /\ <<k - 1, s>> \in P
      BY <1>3 DEF Reaches
    <2>2. /\ t \o SubSeq(w, 1, k) = Append(t \o SubSeq(w, 1, k - 1), w[k])
          /\ t \o SubSeq(w, 1, k - 1) \in Seq(Bytes) /\ w[k] \in Bytes
      BY <1>1, AppendInside, SMTT(40)
    <2>3. PICK u \in Seq(Bytes) : u = t \o SubSeq(w, 1, k - 1)
      BY <2>2
    <2>4. /\ Scanned(Append(u, w[k]), ScanByte(s, w[k], field), field)
          /\ ScanByte(s, w[k], field) \in Scans
      BY <2>1, <2>2, <2>3, ScannedByte
    <2>5. <<k, ScanByte(s, w[k], field)>> \in P
      BY <1>1, <2>1
    <2>6. Reaches(t, w, k, field, P)
      BY <2>2, <2>3, <2>4, <2>5 DEF Reaches
    <2> QED
      BY <2>6
  <1>4. 0 .. n \subseteq Q
    <2> HIDE DEF Q
    <2> QED
      BY <1>2, <1>3, LoopInvariant
  <1>5. SubSeq(w, 1, n) = w
    BY <1>1
  <1>6. Reaches(t, w, n, field, P)
    BY <1>4
  <1> QED
    BY <1>1, <1>5, <1>6 DEF Reaches

(***************************************************************************)
(* A scanner that has found its string, or has given up, reads no more.    *)
(***************************************************************************)
LEMMA SettledScans ==
    ASSUME NEW t \in Seq(Bytes), NEW w \in Seq(Bytes), NEW field,
           NEW scan \in Scans, Scanned(t, scan, field), scan.mode \in {"ok", "error"}
    PROVE  Scanned(t \o w, scan, field)
  <1>1. PICK P : P = Nat \X {scan}
    OBVIOUS
  <1>2. <<0, scan>> \in P
    BY <1>1
  <1>3. ASSUME NEW k \in 1 .. Len(w), NEW s \in Scans, <<k - 1, s>> \in P
        PROVE  <<k, ScanByte(s, w[k], field)>> \in P
    <2>1. s = scan
      BY <1>1, <1>3
    <2>2. ScanByte(scan, w[k], field) = scan
      BY DEF ScanByte
    <2>3. k \in Nat
      OBVIOUS
    <2> QED
      BY <1>1, <2>1, <2>2, <2>3
  <1>4. PICK s \in Scans : Scanned(t \o w, s, field) /\ <<Len(w), s>> \in P
    BY <1>2, <1>3, ScannedAlong
  <1> QED
    BY <1>1, <1>4

(***************************************************************************)
(* The loops over a string.                                                *)
(***************************************************************************)
StringModes == {"key", "found", "string", "skip_string"}

(***************************************************************************)
(* The state after the bytes w of a string.                                *)
(***************************************************************************)
Grown(scan, w) ==
    IF scan.mode = "key" THEN [scan EXCEPT !.key = scan.key \o w]
    ELSE IF scan.mode = "found" THEN [scan EXCEPT !.value = scan.value \o w]
    ELSE scan

(***************************************************************************)
(* One more byte that is neither a quote nor an escape.                    *)
(***************************************************************************)
LEMMA GrownMore ==
    ASSUME NEW scan \in Scans, scan.mode \in StringModes, NEW p \in Seq(Bytes),
           NEW b \in Bytes, b \notin {"quote", "escape"}, NEW field
    PROVE  ScanByte(Grown(scan, p), b, field) = Grown(scan, Append(p, b))
  <1>1. CASE scan.mode = "key"
    <2>0. PICK c \in Seq(Bytes) : c = scan.key
      BY DEF Scans
    <2>9. scan.key \o p \in Seq(Bytes)
      BY <2>0, ConcatProperties
    <2>1. PICK q \in Seq(Bytes) : q = scan.key \o p
      BY <2>9
    <2>2. Append(q, b) = scan.key \o Append(p, b)
      <3>1. Append(c \o p, b) = c \o Append(p, b)
        BY SMTT(40)
      <3> QED
        BY <2>0, <2>1, <3>1
    <2>3. PICK g \in Scans : g = [scan EXCEPT !.key = q]
      BY DEF Scans
    <2>4. g.mode = "key" /\ g.key = q /\ Grown(scan, p) = g
      BY <1>1, <2>1, <2>3 DEF Scans, Grown
    <2>5. ScanByte(g, b, field) = [g EXCEPT !.key = Append(g.key, b)]
      BY <2>4 DEF ScanByte, InString
    <2>6. PICK q2 : q2 = Append(q, b)
      OBVIOUS
    <2>7. [g EXCEPT !.key = q2] = [scan EXCEPT !.key = q2]
      BY <2>3 DEF Scans
    <2>8. Grown(scan, Append(p, b)) = [scan EXCEPT !.key = q2]
      BY <1>1, <2>2, <2>6 DEF Grown
    <2> QED
      BY <2>4, <2>5, <2>6, <2>7, <2>8
  <1>2. CASE scan.mode = "found"
    <2>0. PICK c \in Seq(Bytes) : c = scan.value
      BY DEF Scans
    <2>9. scan.value \o p \in Seq(Bytes)
      BY <2>0, ConcatProperties
    <2>1. PICK q \in Seq(Bytes) : q = scan.value \o p
      BY <2>9
    <2>2. Append(q, b) = scan.value \o Append(p, b)
      <3>1. Append(c \o p, b) = c \o Append(p, b)
        BY SMTT(40)
      <3> QED
        BY <2>0, <2>1, <3>1
    <2>3. PICK g \in Scans : g = [scan EXCEPT !.value = q]
      BY DEF Scans
    <2>4. g.mode = "found" /\ g.value = q /\ Grown(scan, p) = g
      BY <1>2, <2>1, <2>3 DEF Scans, Grown
    <2>5. ScanByte(g, b, field) = [g EXCEPT !.value = Append(g.value, b)]
      BY <2>4 DEF ScanByte, InString
    <2>6. PICK q2 : q2 = Append(q, b)
      OBVIOUS
    <2>7. [g EXCEPT !.value = q2] = [scan EXCEPT !.value = q2]
      BY <2>3 DEF Scans
    <2>8. Grown(scan, Append(p, b)) = [scan EXCEPT !.value = q2]
      BY <1>2, <2>2, <2>6 DEF Grown
    <2> QED
      BY <2>4, <2>5, <2>6, <2>7, <2>8
  <1>3. CASE scan.mode \in {"string", "skip_string"}
    BY <1>3 DEF ScanByte, InString, Grown
  <1> QED
    BY <1>1, <1>2, <1>3 DEF StringModes

(***************************************************************************)
(* Within a string the scanner stays in its loop.                          *)
(***************************************************************************)
LEMMA GrownIn ==
    ASSUME NEW scan \in Scans, scan.mode \in StringModes, NEW p \in Seq(Bytes)
    PROVE  Grown(scan, p) \in Scans /\ Grown(scan, p).mode = scan.mode
  <1>1. scan.key \o p \in Seq(Bytes) /\ scan.value \o p \in Seq(Bytes)
    BY DEF Scans
  <1>2. PICK a \in Seq(Bytes) : a = scan.key \o p
    BY <1>1
  <1>3. PICK c \in Seq(Bytes) : c = scan.value \o p
    BY <1>1
  <1> QED
    BY <1>2, <1>3 DEF Grown, Scans

(***************************************************************************)
(* An escape ends the scan, wherever it is; so no quote inside a string is *)
(* taken for its end.                                                      *)
(***************************************************************************)
LEMMA StringIsRead ==
    ASSUME NEW t \in Seq(Bytes), NEW field, NEW scan \in Scans,
           Scanned(t, scan, field), scan.mode \in StringModes, NEW w \in Strings
    PROVE  \E s \in Scans :
              /\ Scanned(t \o w, s, field)
              /\ \/ Escaped(w) /\ s.mode = "error"
                 \/ ~ Escaped(w) /\ s = Grown(scan, w)
  <1>1. w \in Seq(Bytes) /\ \A i \in 1 .. Len(w) :
           w[i] = "quote" => \E j \in 1 .. i - 1 : w[j] = "escape"
    <2>1. w \in Seq(Range(w)) /\ Range(w) \subseteq Bytes
      BY ClientDataAssumption DEF Bytes
    <2>2. w \in Seq(Bytes)
      BY <2>1
    <2> QED
      BY <2>2, ClientDataAssumption
  <1>2. PICK n \in Nat : n = Len(w)
    BY <1>1
  <1> DEFINE Clean(k) == \A j \in 1 .. k : w[j] # "escape"
             P == {ks \in (0 .. n) \X Scans :
                     \/ ks[2].mode = "error" /\ ~ Clean(ks[1])
                     \/ Clean(ks[1]) /\ ks[2] = Grown(scan, SubSeq(w, 1, ks[1]))}
  <1>3. <<0, scan>> \in P
    <2>1. SubSeq(w, 1, 0) = <<>>
      BY <1>1
    <2>2. Grown(scan, <<>>) = scan
      <3>1. scan.key \o <<>> = scan.key /\ scan.value \o <<>> = scan.value
        BY DEF Scans
      <3> QED
        BY <3>1 DEF Grown, Scans
    <2>3. Clean(0) /\ 0 \in 0 .. n
      BY <1>2
    <2>4. scan = Grown(scan, SubSeq(w, 1, 0))
      BY <2>1, <2>2
    <2> QED
      BY <2>3, <2>4
  <1>4. ASSUME NEW k \in 1 .. Len(w), NEW s \in Scans, <<k - 1, s>> \in P
        PROVE  <<k, ScanByte(s, w[k], field)>> \in P
    <2>1. k \in 0 .. n /\ k \in 1 .. n /\ k - 1 \in 0 .. n
      BY <1>2
    <2>2. /\ SubSeq(w, 1, k - 1) \in Seq(Bytes)
          /\ SubSeq(w, 1, k) = Append(SubSeq(w, 1, k - 1), w[k])
          /\ w[k] \in Bytes
      BY <1>1, AppendInside
    <2>3. PICK p \in Seq(Bytes) : p = SubSeq(w, 1, k - 1)
      BY <2>2
    <2>4. ScanByte(s, w[k], field) \in Scans
      BY <2>2, ScanTyping
    <2>5. CASE s.mode = "error" /\ ~ Clean(k - 1)
      <3>1. ScanByte(s, w[k], field) = s
        BY <2>5 DEF ScanByte
      <3>2. ~ Clean(k)
        BY <2>5
      <3> QED
        BY <2>1, <2>5, <3>1, <3>2
    <2>6. CASE Clean(k - 1) /\ s = Grown(scan, p)
      <3>1. s.mode \in StringModes
        BY <2>6, GrownIn
      <3>2. CASE w[k] = "escape"
        <4>1. PICK e \in Modes : e = "error"
          BY DEF Modes
        <4>2. ScanByte(s, w[k], field).mode = "error"
          BY <3>1, <3>2 DEF ScanByte, InString, StringModes, Scans
        <4>3. ~ Clean(k)
          BY <2>1, <3>2
        <4> QED
          BY <2>1, <2>4, <4>2, <4>3
      <3>3. CASE w[k] # "escape"
        <4>1. Clean(k)
          <5>1. \A j \in 1 .. k : j = k \/ j \in 1 .. k - 1
            BY <2>1
          <5> QED
            BY <2>6, <3>3, <5>1
        <4>2. w[k] # "quote"
          BY <1>1, <2>6
        <4>3. ScanByte(s, w[k], field) = Grown(scan, Append(p, w[k]))
          BY <2>2, <2>6, <3>3, <4>2, GrownMore
        <4> QED
          BY <2>1, <2>2, <2>3, <2>4, <4>1, <4>3
      <3> QED
        BY <3>2, <3>3
    <2> QED
      BY <1>4, <2>3, <2>5, <2>6
  <1>5. PICK s \in Scans : Scanned(t \o w, s, field) /\ <<n, s>> \in P
    <2> HIDE DEF P
    <2> QED
      BY <1>1, <1>2, <1>3, <1>4, ScannedAlong
  <1>6. Clean(n) <=> ~ Escaped(w)
    BY <1>1, <1>2 DEF Escaped, Range
  <1>7. SubSeq(w, 1, n) = w
    BY <1>1, <1>2
  <1> QED
    BY <1>5, <1>6, <1>7

(***************************************************************************)
(* Punctuation and strings are made of the bytes of a text.                *)
(***************************************************************************)
LEMMA BytesAre ==
    /\ Punctuation \subseteq Bytes /\ "1" \in Bytes
    /\ \A w \in Strings : w \in Seq(Bytes)
  <1>1. ASSUME NEW w \in Strings
        PROVE  w \in Seq(Bytes)
    <2>1. w \in Seq(Range(w)) /\ Range(w) \subseteq Bytes
      BY ClientDataAssumption DEF Bytes
    <2> QED
      BY <2>1
  <1> QED
    BY <1>1 DEF Bytes

(***************************************************************************)
(* A text with a quoted string behind it, piece by piece.                  *)
(***************************************************************************)
LEMMA QuotedApart ==
    ASSUME NEW S, "quote" \in S, NEW t \in Seq(S), NEW w \in Seq(S)
    PROVE  /\ Quoted(w) \in Seq(S)
           /\ t \o Quoted(w) = Append(Append(t, "quote") \o w, "quote")
           /\ Append(t, "quote") \in Seq(S)
           /\ Append(t, "quote") \o w \in Seq(S)
  <1>0. <<"quote">> \in Seq(S)
    OBVIOUS
  <1>1. PICK q \in Seq(S) : q = <<"quote">>
    BY <1>0
  <1>2. PICK tq \in Seq(S) : tq = Append(t, "quote") /\ tq = t \o q
    <2>1. Append(t, "quote") = t \o <<"quote">> /\ Append(t, "quote") \in Seq(S)
      BY AppendIsConcat, AppendProperties
    <2> QED
      BY <1>1, <2>1
  <1>3. PICK qw \in Seq(S) : qw = q \o w
    BY ConcatProperties
  <1>4. Quoted(w) = qw \o q
    BY <1>1, <1>3 DEF Quoted
  <1>5. (t \o qw) \o q = t \o (qw \o q)
    BY ConcatAssociative, SMTT(40)
  <1>6. (t \o q) \o w = t \o (q \o w)
    BY ConcatAssociative, SMTT(40)
  <1>7. PICK x \in Seq(S) : x = tq \o w
    BY ConcatProperties
  <1>8. x \o q = Append(x, "quote")
    BY <1>1, AppendIsConcat
  <1>9. qw \o q \in Seq(S)
    BY ConcatProperties
  <1> QED
    BY <1>2, <1>3, <1>4, <1>5, <1>6, <1>7, <1>8, <1>9

(***************************************************************************)
(* With its quotes, a string is read to its end or refused for its escape. *)
(***************************************************************************)
LEMMA QuotedIsRead ==
    ASSUME NEW t \in Seq(Bytes), NEW field, NEW scan \in Scans,
           Scanned(t, scan, field), NEW w \in Strings,
           NEW opened \in Scans, opened = ScanByte(scan, "quote", field),
           opened.mode \in StringModes
    PROVE  \E s \in Scans :
              /\ Scanned(t \o Quoted(w), s, field)
              /\ \/ Escaped(w) /\ s.mode = "error"
                 \/ ~ Escaped(w) /\ s = ScanByte(Grown(opened, w), "quote", field)
  <1>1. "quote" \in Bytes /\ w \in Seq(Bytes)
    BY BytesAre DEF Punctuation
  <1>2. PICK u \in Seq(Bytes) : u = Append(t, "quote")
    BY <1>1, AppendProperties
  <1>3. Scanned(u, opened, field)
    BY <1>1, <1>2, ScannedByte
  <1>4. PICK g \in Scans : /\ Scanned(u \o w, g, field)
                           /\ \/ Escaped(w) /\ g.mode = "error"
                              \/ ~ Escaped(w) /\ g = Grown(opened, w)
    BY <1>3, StringIsRead
  <1>5. /\ t \o Quoted(w) = Append(u \o w, "quote") /\ u \o w \in Seq(Bytes)
    BY <1>1, <1>2, QuotedApart
  <1>6. PICK v \in Seq(Bytes) : v = u \o w
    BY <1>5
  <1>7. PICK s \in Scans : s = ScanByte(g, "quote", field)
    BY <1>1, ScanTyping
  <1>8. Scanned(Append(v, "quote"), s, field)
    BY <1>1, <1>4, <1>6, <1>7, ScannedByte
  <1>9. g.mode = "error" => s = g
    BY <1>7 DEF ScanByte
  <1> QED
    BY <1>4, <1>5, <1>6, <1>7, <1>8, <1>9

(***************************************************************************)
(* Where the closing quote leads.                                          *)
(***************************************************************************)
LEMMA ClosingReads ==
    ASSUME NEW scan \in Scans, NEW field
    PROVE  /\ scan.mode = "key" => ScanByte(scan, "quote", field) = To(scan, "colon")
           /\ scan.mode = "found" => ScanByte(scan, "quote", field) = To(scan, "ok")
           /\ scan.mode = "string" => ScanByte(scan, "quote", field) = To(scan, "main")
           /\ scan.mode = "skip_string" =>
                ScanByte(scan, "quote", field) = To(scan, "skip")
  BY DEF ScanByte, InString

(***************************************************************************)
(* What a string does not change, and what it leaves where the scanner     *)
(* keeps it.                                                               *)
(***************************************************************************)
LEMMA GrownFields ==
    ASSUME NEW scan \in Scans, NEW w \in Seq(Bytes)
    PROVE  /\ Grown(scan, w).depth = scan.depth /\ Grown(scan, w).nest = scan.nest
           /\ scan.mode # "key" => Grown(scan, w).key = scan.key
           /\ scan.mode = "key" /\ scan.key = <<>> => Grown(scan, w).key = w
           /\ scan.mode = "found" /\ scan.value = <<>> => Grown(scan, w).value = w
  <1>1. <<>> \o w = w
    OBVIOUS
  <1>2. PICK a : a = scan.key \o w
    OBVIOUS
  <1>3. PICK c : c = scan.value \o w
    OBVIOUS
  <1>4. Grown(scan, w) = IF scan.mode = "key" THEN [scan EXCEPT !.key = a]
                         ELSE IF scan.mode = "found" THEN [scan EXCEPT !.value = c]
                         ELSE scan
    BY <1>2, <1>3 DEF Grown
  <1>5. scan.key = <<>> => a = w
    BY <1>1, <1>2
  <1>6. scan.value = <<>> => c = w
    BY <1>1, <1>3
  <1> QED
    BY <1>4, <1>5, <1>6 DEF Scans

-----------------------------------------------------------------------------
(* The scanner and the grammar. *)

(***************************************************************************)
(* What can be open in a text.                                             *)
(***************************************************************************)
Containers == {"object", "array"}

(***************************************************************************)
(* The members of the object at the top.                                   *)
(***************************************************************************)
Members == [key: Seq(Bytes), string: BOOLEAN, value: Seq(Bytes)]

(***************************************************************************)
(* Where the scanner is while the browser is to write what e expects, in   *)
(* the containers o: at the top it follows members one by one; any value   *)
(* there that is not a string it skips, counting what is open in it.       *)
(***************************************************************************)
Position(scan, e, o, ks) ==
    \/ e = "start" /\ o = <<>> /\ scan.mode = "start" /\ scan.depth = 0
    \/ e = "end" /\ o = <<>> /\ scan.mode = "main" /\ scan.depth = 0
    \/ /\ Len(o) = 1 /\ scan.depth = 1
       /\ \/ e \in {"key", "key_or_close", "comma_or_close"} /\ scan.mode = "main"
          \/ e = "comma_or_close" /\ scan.mode = "skip" /\ scan.nest = 0
          \/ /\ e = "value" /\ scan.mode = "value"
             /\ ks # <<>> /\ scan.key = Last(ks) /\ ~ Escaped(scan.key)
    \/ /\ Len(o) > 1 /\ scan.depth = 1
       /\ scan.mode = "skip" /\ scan.nest = Len(o) - 1

(***************************************************************************)
(* No member so far has the name, or could have it.                        *)
(***************************************************************************)
Passed(field, ms) ==
    \A i \in DOMAIN ms : ms[i].key # field /\ ~ Escaped(ms[i].key)

(***************************************************************************)
(* The first member that has the name, or could have it, is a string,      *)
(* without escapes and with this value.                                    *)
(***************************************************************************)
FoundIn(value, field, ms) ==
    \E i \in DOMAIN ms :
       /\ ms[i].key = field /\ ms[i].string
       /\ ms[i].value = value /\ ~ Escaped(value)
       /\ \A j \in 1 .. i - 1 : ms[j].key # field /\ ~ Escaped(ms[j].key)

(***************************************************************************)
(* The text has an escape, or the first member of the name is no string.   *)
(***************************************************************************)
Refused(field, ms, t) ==
    \/ "escape" \in Range(t)
    \/ \E i \in DOMAIN ms :
          /\ ms[i].key = field /\ ~ ms[i].string
          /\ \A j \in DOMAIN ms : ms[j].key = field => i <= j

(***************************************************************************)
(* What the state of the scanner says of the text.                         *)
(***************************************************************************)
Tells(scan, field, e, o, ks, ms, t) ==
    \/ Position(scan, e, o, ks) /\ Passed(field, ms)
    \/ scan.mode = "ok" /\ FoundIn(scan.value, field, ms)
    \/ scan.mode = "error" /\ Refused(field, ms, t)

(***************************************************************************)
(* Along the text the scanner comes to a state that says something true.   *)
(***************************************************************************)
Told(t, field, e, o, ks, ms) ==
    \E scan \in Scans : /\ Scanned(t, scan, field)
                        /\ Tells(scan, field, e, o, ks, ms, t)

(***************************************************************************)
(* Once settled, nothing that is written changes it.                       *)
(***************************************************************************)
LEMMA SettledStays ==
    ASSUME NEW t \in Seq(Bytes), NEW w \in Seq(Bytes), NEW field,
           NEW ms \in Seq(Members), NEW m \in Members,
           NEW ms2 \in {ms, Append(ms, m)}
    PROVE  /\ \A value : FoundIn(value, field, ms) => FoundIn(value, field, ms2)
           /\ Refused(field, ms, t) => Refused(field, ms2, t \o w)
  <1>1. PICK n \in Nat : n = Len(ms)
    OBVIOUS
  <1>2. PICK n2 \in Nat : n2 = Len(ms2)
    <2>1. ms2 \in Seq(Members)
      OBVIOUS
    <2> QED
      BY <2>1
  <1>3. /\ DOMAIN ms = 1 .. n /\ DOMAIN ms2 = 1 .. n2 /\ n <= n2
        /\ \A i \in 1 .. n : ms2[i] = ms[i]
    <2>1. CASE ms2 = ms
      BY <1>1, <1>2, <2>1
    <2>2. CASE ms2 = Append(ms, m)
      BY <1>1, <1>2, <2>2, AppendProperties
    <2> QED
      BY <2>1, <2>2
  <1>4. ASSUME NEW value, FoundIn(value, field, ms)
        PROVE  FoundIn(value, field, ms2)
    <2>1. PICK i \in 1 .. n :
             /\ ms[i].key = field /\ ms[i].string
             /\ ms[i].value = value /\ ~ Escaped(value)
             /\ \A j \in 1 .. i - 1 : ms[j].key # field /\ ~ Escaped(ms[j].key)
      BY <1>3, <1>4 DEF FoundIn
    <2>2. i \in 1 .. n2 /\ \A j \in 1 .. i - 1 : j \in 1 .. n
      BY <1>3
    <2> QED
      BY <1>3, <2>1, <2>2 DEF FoundIn
  <1>5. ASSUME "escape" \in Range(t)
        PROVE  "escape" \in Range(t \o w)
    <2>1. PICK i \in 1 .. Len(t) : t[i] = "escape"
      BY <1>5 DEF Range
    <2>2. (t \o w)[i] = "escape" /\ i \in 1 .. Len(t \o w)
      BY <2>1
    <2>3. t \o w \in Seq(Bytes)
      BY ConcatProperties
    <2> QED
      BY <2>2, <2>3 DEF Range
  <1>6. ASSUME NEW i \in DOMAIN ms, ms[i].key = field, ~ ms[i].string,
               \A j \in DOMAIN ms : ms[j].key = field => i <= j
        PROVE  Refused(field, ms2, t \o w)
    <2>1. i \in 1 .. n2 /\ ms2[i] = ms[i]
      BY <1>3
    <2>2. ASSUME NEW j \in 1 .. n2, ms2[j].key = field
          PROVE  i <= j
      <3>1. CASE j \in 1 .. n
        BY <1>3, <1>6, <2>2, <3>1
      <3>2. CASE j > n
        BY <1>3, <3>2
      <3> QED
        BY <3>1, <3>2
    <2> QED
      BY <1>3, <1>6, <2>1, <2>2 DEF Refused
  <1> QED
    BY <1>4, <1>5, <1>6 DEF Refused

-----------------------------------------------------------------------------
(* One lexeme. *)

(***************************************************************************)
(* The scanner is on its way along the text so far.                        *)
(***************************************************************************)
OnItsWay(t, scan, field, e, o, ks, ms) ==
    /\ scan \in Scans /\ Scanned(t, scan, field)
    /\ Position(scan, e, o, ks) /\ Passed(field, ms)

(***************************************************************************)
(* A byte at the end of the text.                                          *)
(***************************************************************************)
LEMMA ByteIsRead ==
    ASSUME NEW t \in Seq(Bytes), NEW b \in Bytes, NEW scan, NEW field,
           Scanned(t, scan, field)
    PROVE  /\ ScanByte(scan, b, field) \in Scans
           /\ Scanned(t \o <<b>>, ScanByte(scan, b, field), field)
           /\ t \o <<b>> \in Seq(Bytes)
  <1>1. Append(t, b) = t \o <<b>> /\ Append(t, b) \in Seq(Bytes)
    BY AppendIsConcat, AppendProperties
  <1> QED
    BY <1>1, ScannedByte

(***************************************************************************)
(* The value read so far plays no part in the position.                    *)
(***************************************************************************)
LEMMA SamePlace ==
    ASSUME NEW scan, NEW s, NEW e, NEW o, NEW ks, Position(scan, e, o, ks),
           s.mode = scan.mode, s.depth = scan.depth, s.nest = scan.nest,
           s.key = scan.key
    PROVE  Position(s, e, o, ks)
  BY DEF Position

(***************************************************************************)
(* White space between two lexemes.                                        *)
(***************************************************************************)
LEMMA SpaceIsRead ==
    ASSUME NEW t \in Seq(Bytes), NEW field, NEW scan, NEW e, NEW o, NEW ks, NEW ms,
           OnItsWay(t, scan, field, e, o, ks, ms)
    PROVE  Told(t \o <<"space">>, field, e, o, ks, ms)
  <1>1. /\ scan \in Scans /\ Scanned(t, scan, field)
        /\ Position(scan, e, o, ks) /\ Passed(field, ms)
    BY DEF OnItsWay
  <1>2. "space" \in Bytes
    BY BytesAre DEF Punctuation
  <1>3. PICK s \in Scans : /\ s = ScanByte(scan, "space", field)
                           /\ Scanned(t \o <<"space">>, s, field)
    BY <1>1, <1>2, ByteIsRead
  <1>4. scan.mode \in Modes
    BY <1>1 DEF Scans
  <1>5. s = scan \/ s = To(scan, scan.mode)
    <2>1. CASE scan.mode = "start" /\ scan.depth = 0
      BY <1>1, <1>3, <2>1, StartReads
    <2>2. CASE scan.mode = "main"
      BY <1>1, <1>3, <2>2, MainReads
    <2>3. CASE scan.mode = "skip" /\ scan.depth = 1
      BY <1>1, <1>3, <2>3, SkipReads
    <2>4. CASE scan.mode = "value" /\ scan.depth = 1
      BY <1>1, <1>3, <2>4, ValueReads
    <2> QED
      BY <1>1, <2>1, <2>2, <2>3, <2>4 DEF Position
  <1>6. /\ s.mode = scan.mode /\ s.depth = scan.depth
        /\ s.nest = scan.nest /\ s.key = scan.key
    BY <1>1, <1>4, <1>5, ToReads
  <1>7. Position(s, e, o, ks)
    BY <1>1, <1>6, SamePlace
  <1> QED
    BY <1>1, <1>3, <1>7 DEF Told, Tells

(***************************************************************************)
(* A comma.                                                                *)
(***************************************************************************)
LEMMA CommaIsRead ==
    ASSUME NEW t \in Seq(Bytes), NEW field, NEW scan, NEW o \in Seq(Containers),
           NEW ks, NEW ms, NEW next, Len(o) = 1 => next = "key",
           OnItsWay(t, scan, field, "comma_or_close", o, ks, ms)
    PROVE  Told(t \o <<"comma">>, field, next, o, ks, ms)
  <1>1. /\ scan \in Scans /\ Scanned(t, scan, field)
        /\ Position(scan, "comma_or_close", o, ks) /\ Passed(field, ms)
    BY DEF OnItsWay
  <1>2. "comma" \in Bytes
    BY BytesAre DEF Punctuation
  <1>3. PICK s \in Scans : /\ s = ScanByte(scan, "comma", field)
                           /\ Scanned(t \o <<"comma">>, s, field)
    BY <1>1, <1>2, ByteIsRead
  <1>4. "main" \in Modes /\ "skip" \in Modes
    BY DEF Modes
  <1>5. Position(s, next, o, ks)
    <2>1. CASE Len(o) = 1 /\ scan.depth = 1 /\ scan.mode = "main"
      <3>1. s = To(scan, "main")
        BY <1>1, <1>3, <2>1, MainReads
      <3>2. s.mode = "main" /\ s.depth = 1
        BY <1>1, <1>4, <2>1, <3>1, ToReads
      <3> QED
        BY <2>1, <3>2 DEF Position
    <2>2. CASE Len(o) = 1 /\ scan.depth = 1 /\ scan.mode = "skip" /\ scan.nest = 0
      <3>1. s = To(scan, "main")
        BY <1>1, <1>3, <2>2, SkipReads
      <3>2. s.mode = "main" /\ s.depth = 1
        BY <1>1, <1>4, <2>2, <3>1, ToReads
      <3> QED
        BY <2>2, <3>2 DEF Position
    <2>3. CASE /\ Len(o) > 1 /\ scan.depth = 1
               /\ scan.mode = "skip" /\ scan.nest = Len(o) - 1
      <3>1. Len(o) - 1 # 0
        <4>1. PICK n \in Nat : n = Len(o) /\ n > 1
          BY <2>3
        <4>2. n - 1 # 0
          BY <4>1
        <4> QED
          BY <4>1, <4>2
      <3>2. s = To(scan, "skip")
        BY <1>1, <1>3, <2>3, <3>1, SkipReads
      <3>3. s.mode = "skip" /\ s.depth = 1 /\ s.nest = scan.nest
        BY <1>1, <1>4, <2>3, <3>2, ToReads
      <3> QED
        BY <2>3, <3>3 DEF Position
    <2> QED
      BY <1>1, <2>1, <2>2, <2>3 DEF Position
  <1> QED
    BY <1>1, <1>3, <1>5 DEF Told, Tells

(***************************************************************************)
(* The end of an object or a list: the scanner counts back, and leaves the *)
(* top when the browser does.                                              *)
(***************************************************************************)
LEMMA CloseIsRead ==
    ASSUME NEW t \in Seq(Bytes), NEW field, NEW scan, NEW o \in Seq(Containers),
           NEW ks, NEW ms, NEW e, o # <<>>,
           NEW b \in Closers,
           Len(o) = 1 => b = "close_brace" /\ e \in {"key_or_close", "comma_or_close"},
           OnItsWay(t, scan, field, e, o, ks, ms)
    PROVE  Told(t \o <<b>>, field, IF Len(o) = 1 THEN "end" ELSE "comma_or_close",
                Front(o), ks, ms)
  <1>1. /\ scan \in Scans /\ Scanned(t, scan, field)
        /\ Position(scan, e, o, ks) /\ Passed(field, ms)
    BY DEF OnItsWay
  <1>2. b \in Bytes
    <2>1. Closers \subseteq Punctuation
      BY DEF Closers, Punctuation
    <2> QED
      BY <2>1, BytesAre
  <1>3. PICK s \in Scans : /\ s = ScanByte(scan, b, field)
                           /\ Scanned(t \o <<b>>, s, field)
    BY <1>1, <1>2, ByteIsRead
  <1>4. PICK n \in Nat : n = Len(o) /\ n # 0
    OBVIOUS
  <1>5. PICK o2 \in Seq(Containers) : o2 = Front(o) /\ Len(o2) = n - 1
    <2>1. PICK f \in Seq(Containers) : f = SubSeq(o, 1, n - 1)
      <3>1. SubSeq(o, 1, n - 1) \in Seq(Containers)
        BY <1>4
      <3> QED
        BY <3>1
    <2>2. Len(f) = n - 1
      BY <1>4, <2>1
    <2>3. Front(o) = f
      BY <1>4, <2>1 DEF Front
    <2> QED
      BY <2>2, <2>3
  <1>6. PICK next : next = IF Len(o) = 1 THEN "end" ELSE "comma_or_close"
    OBVIOUS
  <1>7. Position(s, next, o2, ks)
    <2>1. CASE n = 1
      <3>1. o2 = <<>>
        BY <1>5, <2>1
      <3>2. /\ scan.depth = 1 /\ b = "close_brace"
            /\ \/ scan.mode = "main"
               \/ scan.mode = "skip" /\ scan.nest = 0
        <4>1. Len(o) = 1 /\ ~ (Len(o) > 1)
          BY <1>4, <2>1
        <4> QED
          BY <1>1, <4>1 DEF Position
      <3>3. s.mode = "main" /\ s.depth = 0
        BY <1>1, <1>3, <3>2, MainReads, SkipReads
      <3>4. next = "end"
        BY <1>4, <1>6, <2>1
      <3> QED
        BY <3>1, <3>3, <3>4 DEF Position
    <2>2. CASE n > 1
      <3>1. /\ scan.depth = 1 /\ scan.mode = "skip" /\ scan.nest = n - 1
        <4>1. ~ (Len(o) = 1)
          BY <1>4, <2>2
        <4>2. scan.depth = 1 /\ scan.mode = "skip" /\ scan.nest = Len(o) - 1
          BY <1>1, <4>1 DEF Position
        <4> QED
          BY <1>4, <4>2
      <3>2. n - 1 # 0
        BY <2>2
      <3>3. /\ s.mode = "skip" /\ s.depth = 1 /\ s.nest = scan.nest - 1
        BY <1>1, <1>3, <3>1, <3>2, SkipReads
      <3>4. next = "comma_or_close"
        BY <1>4, <1>6, <2>2
      <3>5. PICK k \in Nat : k = n - 1
        BY <2>2
      <3>6. s.nest = k - 1
        BY <3>1, <3>3, <3>5
      <3>7. CASE k = 1
        <4>1. k - 1 = 0
          BY <3>7
        <4> QED
          BY <1>5, <3>3, <3>4, <3>5, <3>6, <3>7, <4>1 DEF Position
      <3>8. CASE k > 1
        BY <1>5, <3>3, <3>4, <3>5, <3>6, <3>8 DEF Position
      <3> QED
        BY <2>2, <3>5, <3>7, <3>8
    <2> QED
      BY <1>4, <2>1, <2>2
  <1> QED
    BY <1>1, <1>3, <1>5, <1>6, <1>7 DEF Told, Tells

(***************************************************************************)
(* What a new member says of a name that no member had.                    *)
(***************************************************************************)
LEMMA MemberAdded ==
    ASSUME NEW ms \in Seq(Members), NEW m \in Members, NEW field, NEW t,
           Passed(field, ms)
    PROVE  /\ m.key # field /\ ~ Escaped(m.key) => Passed(field, Append(ms, m))
           /\ m.key = field /\ m.string /\ ~ Escaped(m.value) =>
                FoundIn(m.value, field, Append(ms, m))
           /\ m.key = field /\ ~ m.string => Refused(field, Append(ms, m), t)
  <1>1. PICK n \in Nat : n = Len(ms)
    OBVIOUS
  <1>2. PICK ms2 : ms2 = Append(ms, m)
    OBVIOUS
  <1>3. /\ DOMAIN ms2 = 1 .. n + 1 /\ ms2[n + 1] = m /\ DOMAIN ms = 1 .. n
        /\ \A i \in 1 .. n : ms2[i] = ms[i]
    BY <1>1, <1>2, AppendProperties
  <1>4. n + 1 \in 1 .. n + 1 /\ (n + 1) - 1 = n
    OBVIOUS
  <1>5. \A i \in 1 .. n : ms2[i].key # field /\ ~ Escaped(ms2[i].key)
    BY <1>3 DEF Passed
  <1>6. \A i \in 1 .. n + 1 : i = n + 1 \/ i \in 1 .. n
    OBVIOUS
  <1>7. ASSUME m.key # field, ~ Escaped(m.key)
        PROVE  Passed(field, ms2)
    BY <1>3, <1>5, <1>6, <1>7 DEF Passed
  <1>8. ASSUME m.key = field, m.string, ~ Escaped(m.value)
        PROVE  FoundIn(m.value, field, ms2)
    <2>1. /\ ms2[n + 1].key = field /\ ms2[n + 1].string
          /\ ms2[n + 1].value = m.value
          /\ \A j \in 1 .. (n + 1) - 1 :
               ms2[j].key # field /\ ~ Escaped(ms2[j].key)
      BY <1>3, <1>4, <1>5, <1>8
    <2> QED
      BY <1>3, <1>4, <1>8, <2>1 DEF FoundIn
  <1>9. ASSUME m.key = field, ~ m.string
        PROVE  Refused(field, ms2, t)
    <2>1. \A j \in 1 .. n + 1 : ms2[j].key = field => n + 1 <= j
      BY <1>5, <1>6
    <2>2. ms2[n + 1].key = field /\ ~ ms2[n + 1].string
      BY <1>3, <1>9
    <2> QED
      BY <1>3, <1>4, <2>1, <2>2 DEF Refused
  <1> QED
    BY <1>2, <1>7, <1>8, <1>9

(***************************************************************************)
(* The start of an object or a list.                                       *)
(***************************************************************************)
LEMMA OpenIsRead ==
    ASSUME NEW t \in Seq(Bytes), NEW field, NEW scan, NEW o \in Seq(Containers),
           NEW ks \in Seq(Seq(Bytes)), NEW ms \in Seq(Members), NEW e, NEW next,
           NEW b \in Openers, NEW c \in Containers,
           o = <<>> => /\ e = "start" /\ b = "open_brace"
                       /\ next = "key_or_close",
           Len(o) = 1 => e = "value",
           NEW m, Len(o) = 1 => m \in Members,
           m = [key |-> Last(ks), string |-> FALSE, value |-> <<>>],
           OnItsWay(t, scan, field, e, o, ks, ms)
    PROVE  Told(t \o <<b>>, field, next, Append(o, c), ks,
                IF Len(o) = 1 THEN Append(ms, m) ELSE ms)
  <1>1. /\ scan \in Scans /\ Scanned(t, scan, field)
        /\ Position(scan, e, o, ks) /\ Passed(field, ms)
    BY DEF OnItsWay
  <1>2. b \in Bytes
    <2>1. Openers \subseteq Punctuation
      BY DEF Openers, Punctuation
    <2> QED
      BY <2>1, BytesAre
  <1>3. PICK s \in Scans : /\ s = ScanByte(scan, b, field)
                           /\ Scanned(t \o <<b>>, s, field)
    BY <1>1, <1>2, ByteIsRead
  <1>4. PICK n \in Nat : n = Len(o)
    OBVIOUS
  <1>5. PICK o2 \in Seq(Containers) : o2 = Append(o, c) /\ Len(o2) = n + 1
    BY <1>4, AppendProperties, ZenonT(40)
  <1>6. CASE n = 0
    <2>1. o = <<>> /\ Len(o2) = 1 /\ ~ (Len(o) = 1) /\ ~ (Len(o) > 1)
      BY <1>4, <1>5, <1>6, EmptySeq
    <2>2. scan.mode = "start" /\ scan.depth = 0
      BY <1>1, <2>1 DEF Position
    <2>3. s.mode = "main" /\ s.depth = 1
      BY <1>1, <1>3, <2>1, <2>2, StartReads
    <2>4. Position(s, next, o2, ks)
      BY <2>1, <2>3 DEF Position
    <2> QED
      BY <1>1, <1>3, <1>5, <2>1, <2>4 DEF Told, Tells
  <1>7. CASE n = 1
    <2>1. Len(o) = 1 /\ Len(o2) = 2 /\ o # <<>> /\ ~ (Len(o) > 1)
      BY <1>4, <1>5, <1>7, EmptySeq
    <2>2. /\ scan.mode = "value" /\ scan.depth = 1
          /\ scan.key = Last(ks) /\ ~ Escaped(scan.key)
      BY <1>1, <2>1 DEF Position
    <2>3. m \in Members /\ m.key = scan.key /\ ~ m.string
      BY <2>1, <2>2
    <2>4. CASE scan.key = field
      <3>1. s.mode = "error"
        <4>1. ScanByte(scan, b, field).mode = "error"
          BY <1>1, <2>2, <2>4, OpenReads
        <4> QED
          BY <1>3, <4>1
      <3>2. Refused(field, Append(ms, m), t \o <<b>>)
        BY <1>1, <2>3, <2>4, MemberAdded
      <3> QED
        BY <1>3, <1>5, <2>1, <3>1, <3>2 DEF Told, Tells
    <2>5. CASE scan.key # field
      <3>1. s.mode = "skip" /\ s.depth = 1 /\ s.nest = 1
        <4>1. /\ ScanByte(scan, b, field).mode = "skip"
              /\ ScanByte(scan, b, field).depth = 1
              /\ ScanByte(scan, b, field).nest = 1
          BY <1>1, <2>2, <2>5, OpenReads
        <4> QED
          BY <1>3, <4>1
      <3>2. Passed(field, Append(ms, m))
        BY <1>1, <2>2, <2>3, <2>5, MemberAdded
      <3>3. Position(s, next, o2, ks)
        <4>1. Len(o2) > 1 /\ Len(o2) - 1 = 1
          BY <2>1
        <4> QED
          BY <3>1, <4>1 DEF Position
      <3> QED
        BY <1>3, <1>5, <2>1, <3>2, <3>3 DEF Told, Tells
    <2> QED
      BY <2>4, <2>5
  <1>8. CASE n > 1
    <2>1. o # <<>> /\ ~ (Len(o) = 1)
      <3>1. o = <<>> => Len(o) = 0
        OBVIOUS
      <3>2. n # 0 /\ n # 1
        BY <1>8
      <3> QED
        BY <1>4, <3>1, <3>2
    <2>2. scan.depth = 1 /\ scan.mode = "skip" /\ scan.nest = n - 1
      BY <1>1, <1>4, <2>1 DEF Position
    <2>3. s.mode = "skip" /\ s.depth = 1 /\ s.nest = scan.nest + 1
      BY <1>1, <1>3, <2>2, SkipReads, ZenonT(40)
    <2>4. Position(s, next, o2, ks)
      <3>1. Len(o2) > 1 /\ Len(o2) - 1 = (n - 1) + 1
        BY <1>5, <1>8
      <3> QED
        BY <2>2, <2>3, <3>1 DEF Position
    <2> QED
      BY <1>1, <1>3, <1>5, <2>1, <2>4 DEF Told, Tells
  <1> QED
    BY <1>6, <1>7, <1>8

(***************************************************************************)
(* A number, or another value of no structure.                             *)
(***************************************************************************)
LEMMA LiteralIsRead ==
    ASSUME NEW t \in Seq(Bytes), NEW field, NEW scan, NEW o \in Seq(Containers),
           NEW ks \in Seq(Seq(Bytes)), NEW ms \in Seq(Members), NEW e,
           o # <<>>, Len(o) = 1 => e = "value",
           NEW m, Len(o) = 1 => m \in Members,
           m = [key |-> Last(ks), string |-> FALSE, value |-> <<>>],
           OnItsWay(t, scan, field, e, o, ks, ms)
    PROVE  Told(t \o <<"1">>, field, "comma_or_close", o, ks,
                IF Len(o) = 1 THEN Append(ms, m) ELSE ms)
  <1>1. /\ scan \in Scans /\ Scanned(t, scan, field)
        /\ Position(scan, e, o, ks) /\ Passed(field, ms)
    BY DEF OnItsWay
  <1>2. "1" \in Bytes
    BY BytesAre
  <1>3. PICK s \in Scans : /\ s = ScanByte(scan, "1", field)
                           /\ Scanned(t \o <<"1">>, s, field)
    BY <1>1, <1>2, ByteIsRead
  <1>4. CASE Len(o) = 1
    <2>1. ~ (Len(o) > 1)
      BY <1>4
    <2>2. /\ scan.mode = "value" /\ scan.depth = 1
          /\ scan.key = Last(ks) /\ ~ Escaped(scan.key)
      BY <1>1, <1>4, <2>1 DEF Position
    <2>3. m \in Members /\ m.key = scan.key /\ ~ m.string
      BY <1>4, <2>2
    <2>4. CASE scan.key = field
      <3>1. s.mode = "error"
        <4>1. \A b \in Openers \cup {"1"} : ScanByte(scan, b, field).mode = "error"
          BY <1>1, <2>2, <2>4, ValueReads
        <4> QED
          BY <1>3, <4>1
      <3>2. Refused(field, Append(ms, m), t \o <<"1">>)
        BY <1>1, <2>3, <2>4, MemberAdded
      <3> QED
        BY <1>3, <1>4, <3>1, <3>2 DEF Told, Tells
    <2>5. CASE scan.key # field
      <3>1. s.mode = "skip" /\ s.depth = 1 /\ s.nest = 0
        BY <1>1, <1>3, <2>2, <2>5, ValueReads
      <3>2. Passed(field, Append(ms, m))
        BY <1>1, <2>2, <2>3, <2>5, MemberAdded
      <3>3. Position(s, "comma_or_close", o, ks)
        BY <1>4, <3>1 DEF Position
      <3> QED
        BY <1>3, <1>4, <3>2, <3>3 DEF Told, Tells
    <2> QED
      BY <2>4, <2>5
  <1>5. CASE Len(o) # 1
    <2>1. Len(o) > 1 /\ scan.depth = 1 /\ scan.mode = "skip" /\ scan.nest = Len(o) - 1
      BY <1>1, <1>5 DEF Position
    <2>2. "skip" \in Modes
      BY DEF Modes
    <2>3. s = To(scan, "skip")
      <3>1. \A b \in {"colon", "space", "1"} : ScanByte(scan, b, field) = To(scan, "skip")
        BY <1>1, <2>1, SkipReads
      <3> QED
        BY <1>3, <3>1
    <2>4. s.mode = "skip" /\ s.depth = 1 /\ s.nest = scan.nest
      BY <1>1, <2>1, <2>2, <2>3, ToReads
    <2>5. Position(s, "comma_or_close", o, ks)
      BY <2>1, <2>4 DEF Position
    <2> QED
      BY <1>1, <1>3, <1>5, <2>5 DEF Told, Tells
  <1> QED
    BY <1>4, <1>5

(***************************************************************************)
(* What is in one of two lists is in both together.                        *)
(***************************************************************************)
LEMMA RangeOfConcat ==
    ASSUME NEW S, NEW t \in Seq(S), NEW w \in Seq(S), NEW x
    PROVE  /\ x \in Range(t) => x \in Range(t \o w)
           /\ x \in Range(w) => x \in Range(t \o w)
  <1>1. PICK n \in Nat : n = Len(t)
    OBVIOUS
  <1>2. PICK k \in Nat : k = Len(w)
    OBVIOUS
  <1>3. PICK u \in Seq(S) : /\ u = t \o w /\ Len(u) = n + k
                            /\ \A i \in 1 .. n : u[i] = t[i]
                            /\ \A i \in 1 .. k : u[n + i] = w[i]
    <2>1. t \o w \in Seq(S) /\ Len(t \o w) = n + k
      BY <1>1, <1>2, ConcatProperties
    <2>2. \A i \in 1 .. n + k : (t \o w)[i] = IF i <= n THEN t[i] ELSE w[i - n]
      BY <1>1, <1>2, ConcatProperties
    <2>3. PICK u \in Seq(S) : u = t \o w
      BY <2>1
    <2>4. ASSUME NEW i \in 1 .. n
          PROVE  u[i] = t[i]
      <3>1. i \in 1 .. n + k /\ i <= n
        OBVIOUS
      <3> QED
        BY <2>2, <2>3, <3>1
    <2>5. ASSUME NEW i \in 1 .. k
          PROVE  u[n + i] = w[i]
      <3>1. n + i \in 1 .. n + k /\ ~ (n + i <= n) /\ (n + i) - n = i
        OBVIOUS
      <3> QED
        BY <2>2, <2>3, <3>1
    <2> QED
      BY <2>1, <2>3, <2>4, <2>5
  <1>4. DOMAIN u = 1 .. n + k /\ DOMAIN t = 1 .. n /\ DOMAIN w = 1 .. k
    BY <1>1, <1>2, <1>3
  <1>5. (\A i \in 1 .. n : i \in 1 .. n + k) /\ (\A i \in 1 .. k : n + i \in 1 .. n + k)
    OBVIOUS
  <1> QED
    BY <1>3, <1>4, <1>5, ZenonT(40) DEF Range

(***************************************************************************)
(* The escape of a string is in the text.                                  *)
(***************************************************************************)
LEMMA EscapeStays ==
    ASSUME NEW t \in Seq(Bytes), NEW w \in Strings, Escaped(w)
    PROVE  "escape" \in Range(t \o Quoted(w))
  <1>1. w \in Seq(Bytes) /\ "quote" \in Bytes /\ "escape" \in Range(w)
    BY BytesAre DEF Punctuation, Escaped
  <1>2. PICK u \in Seq(Bytes) : u = Append(t, "quote")
    BY <1>1, AppendProperties
  <1>3. PICK v \in Seq(Bytes) : v = u \o w
    BY <1>1, ConcatProperties
  <1>4. "escape" \in Range(v)
    BY <1>1, <1>3, RangeOfConcat
  <1>5. <<"quote">> \in Seq(Bytes)
    BY <1>1
  <1>6. PICK q \in Seq(Bytes) : q = <<"quote">>
    BY <1>5
  <1>7. "escape" \in Range(v \o q)
    BY <1>4, RangeOfConcat
  <1>8. t \o Quoted(w) = Append(v, "quote")
    BY <1>1, <1>2, <1>3, QuotedApart, SMTT(40)
  <1>9. Append(v, "quote") = v \o q
    BY <1>6, AppendIsConcat
  <1> QED
    BY <1>7, <1>8, <1>9

(***************************************************************************)
(* A string as a value: at the top it is found, or passed over.            *)
(***************************************************************************)
LEMMA StringValueIsRead ==
    ASSUME NEW t \in Seq(Bytes), NEW field, NEW scan, NEW o \in Seq(Containers),
           NEW ks \in Seq(Seq(Bytes)), NEW ms \in Seq(Members), NEW e,
           o # <<>>, Len(o) = 1 => e = "value", NEW w \in Strings,
           NEW m, Len(o) = 1 => m \in Members,
           m = [key |-> Last(ks), string |-> TRUE, value |-> w],
           OnItsWay(t, scan, field, e, o, ks, ms)
    PROVE  Told(t \o Quoted(w), field, "comma_or_close", o, ks,
                IF Len(o) = 1 THEN Append(ms, m) ELSE ms)
  <1>1. /\ scan \in Scans /\ Scanned(t, scan, field)
        /\ Position(scan, e, o, ks) /\ Passed(field, ms)
    BY DEF OnItsWay
  <1>2. "quote" \in Bytes /\ w \in Seq(Bytes)
    BY BytesAre DEF Punctuation
  <1>3. PICK opened \in Scans : opened = ScanByte(scan, "quote", field)
    BY <1>1, <1>2, ScanTyping
  <1>4. ASSUME opened.mode \in StringModes
        PROVE  \E s \in Scans :
                  /\ Scanned(t \o Quoted(w), s, field)
                  /\ \/ Escaped(w) /\ s.mode = "error"
                     \/ ~ Escaped(w) /\ s = ScanByte(Grown(opened, w), "quote", field)
    BY <1>1, <1>3, <1>4, QuotedIsRead
  <1>5. \A ms2 : Escaped(w) => Refused(field, ms2, t \o Quoted(w))
    BY EscapeStays DEF Refused
  <1>6. PICK g \in Scans : g = Grown(opened, w)
                           /\ (opened.mode \in StringModes => g.mode = opened.mode)
    <2>1. Grown(opened, w) \in Scans
      <3>1. CASE opened.mode \in StringModes
        BY <1>2, <3>1, GrownIn
      <3>2. CASE opened.mode \notin StringModes
        BY <3>2 DEF Grown, StringModes
      <3> QED
        BY <3>1, <3>2
    <2> QED
      BY <1>2, <2>1, GrownIn
  <1>7. g.depth = opened.depth /\ g.nest = opened.nest
    BY <1>2, <1>6, GrownFields
  <1>8. /\ "main" \in Modes /\ "skip" \in Modes /\ "ok" \in Modes
        /\ "string" \in Modes /\ "skip_string" \in Modes
    BY DEF Modes
  <1>9. CASE Len(o) = 1
    <2>1. ~ (Len(o) > 1)
      BY <1>9
    <2>2. /\ scan.mode = "value" /\ scan.depth = 1
          /\ scan.key = Last(ks) /\ ~ Escaped(scan.key)
      BY <1>1, <1>9, <2>1 DEF Position
    <2>3. m \in Members /\ m.key = scan.key /\ m.string /\ m.value = w
      BY <1>9, <2>2
    <2>4. CASE scan.key = field
      <3>1. opened.mode = "found" /\ opened.value = <<>>
        BY <1>1, <1>3, <2>2, <2>4, ValueReads
      <3>2. PICK s \in Scans :
               /\ Scanned(t \o Quoted(w), s, field)
               /\ \/ Escaped(w) /\ s.mode = "error"
                  \/ ~ Escaped(w) /\ s = ScanByte(g, "quote", field)
        BY <1>4, <1>6, <3>1 DEF StringModes
      <3>3. CASE Escaped(w)
        BY <1>5, <1>9, <3>2, <3>3 DEF Told, Tells
      <3>4. CASE ~ Escaped(w)
        <4>1. g.mode = "found" /\ g.value = w
          BY <1>2, <1>6, <3>1, GrownFields DEF StringModes
        <4>2. s = To(g, "ok")
          BY <3>2, <3>4, <4>1, ClosingReads
        <4>3. s.mode = "ok" /\ s.value = w
          BY <1>8, <4>1, <4>2, ToReads
        <4>4. FoundIn(w, field, Append(ms, m))
          <5>1. FoundIn(m.value, field, Append(ms, m))
            BY <1>1, <2>3, <2>4, <3>4, MemberAdded
          <5> QED
            BY <2>3, <5>1
        <4> QED
          BY <1>9, <3>2, <4>3, <4>4 DEF Told, Tells
      <3> QED
        BY <3>3, <3>4
    <2>5. CASE scan.key # field
      <3>1. opened = To(scan, "string")
        BY <1>1, <1>3, <2>2, <2>5, ValueReads
      <3>2. opened.mode = "string" /\ opened.depth = 1
        BY <1>1, <1>8, <2>2, <3>1, ToReads
      <3>3. PICK s \in Scans :
               /\ Scanned(t \o Quoted(w), s, field)
               /\ \/ Escaped(w) /\ s.mode = "error"
                  \/ ~ Escaped(w) /\ s = ScanByte(g, "quote", field)
        BY <1>4, <1>6, <3>2 DEF StringModes
      <3>4. CASE Escaped(w)
        BY <1>5, <1>9, <3>3, <3>4 DEF Told, Tells
      <3>5. CASE ~ Escaped(w)
        <4>1. g.mode = "string" /\ g.depth = 1
          BY <1>6, <1>7, <3>2 DEF StringModes
        <4>2. s = To(g, "main")
          BY <3>3, <3>5, <4>1, ClosingReads
        <4>3. s.mode = "main" /\ s.depth = 1
          BY <1>8, <4>1, <4>2, ToReads
        <4>4. Passed(field, Append(ms, m))
          BY <1>1, <2>2, <2>3, <2>5, MemberAdded
        <4>5. Position(s, "comma_or_close", o, ks)
          BY <1>9, <4>3 DEF Position
        <4> QED
          BY <1>9, <3>3, <4>4, <4>5 DEF Told, Tells
      <3> QED
        BY <3>4, <3>5
    <2> QED
      BY <2>4, <2>5
  <1>10. CASE Len(o) # 1
    <2>1. Len(o) > 1 /\ scan.depth = 1 /\ scan.mode = "skip" /\ scan.nest = Len(o) - 1
      BY <1>1, <1>10 DEF Position
    <2>2. opened = To(scan, "skip_string")
      BY <1>1, <1>3, <2>1, SkipReads
    <2>3. opened.mode = "skip_string" /\ opened.depth = 1 /\ opened.nest = scan.nest
      BY <1>1, <1>8, <2>1, <2>2, ToReads
    <2>4. PICK s \in Scans :
             /\ Scanned(t \o Quoted(w), s, field)
             /\ \/ Escaped(w) /\ s.mode = "error"
                \/ ~ Escaped(w) /\ s = ScanByte(g, "quote", field)
      BY <1>4, <1>6, <2>3 DEF StringModes
    <2>5. CASE Escaped(w)
      BY <1>5, <1>10, <2>4, <2>5 DEF Told, Tells
    <2>6. CASE ~ Escaped(w)
      <3>1. g.mode = "skip_string" /\ g.depth = 1 /\ g.nest = scan.nest
        BY <1>6, <1>7, <2>3 DEF StringModes
      <3>2. s = To(g, "skip")
        BY <2>4, <2>6, <3>1, ClosingReads
      <3>3. s.mode = "skip" /\ s.depth = 1 /\ s.nest = scan.nest
        BY <1>8, <3>1, <3>2, ToReads
      <3>4. Position(s, "comma_or_close", o, ks)
        BY <2>1, <3>3 DEF Position
      <3> QED
        BY <1>1, <1>10, <2>4, <3>4 DEF Told, Tells
    <2> QED
      BY <2>5, <2>6
  <1> QED
    BY <1>9, <1>10

(***************************************************************************)
(* White space within a member.                                            *)
(***************************************************************************)
Between(scan) ==
    \/ scan.mode \in {"colon", "error"}
    \/ scan.mode \in {"value", "skip"} /\ scan.depth = 1

(***************************************************************************)
(* The white space that a key may have around its colon.                   *)
(***************************************************************************)
Gaps == {<<>>, <<"space">>}

(***************************************************************************)
(* It moves the scanner nowhere.                                           *)
(***************************************************************************)
LEMMA GapIsRead ==
    ASSUME NEW t \in Seq(Bytes), NEW field, NEW scan \in Scans,
           Scanned(t, scan, field), Between(scan), NEW gap \in Gaps
    PROVE  /\ t \o gap \in Seq(Bytes)
           /\ \E s \in Scans : /\ Scanned(t \o gap, s, field)
                               /\ s.mode = scan.mode /\ s.depth = scan.depth
                               /\ s.nest = scan.nest /\ s.key = scan.key
  <1>1. CASE gap = <<>>
    <2>1. t \o gap = t
      BY <1>1
    <2> QED
      BY <2>1
  <1>2. CASE gap = <<"space">>
    <2>1. "space" \in Bytes
      BY BytesAre DEF Punctuation
    <2>2. PICK s \in Scans : /\ s = ScanByte(scan, "space", field)
                             /\ Scanned(t \o <<"space">>, s, field)
      BY <2>1, ByteIsRead
    <2>3. \/ s = scan
          \/ s = To(scan, "skip") /\ scan.mode = "skip"
      <3>1. CASE scan.mode = "colon"
        BY <2>2, <3>1, ColonReads
      <3>2. CASE scan.mode = "error"
        BY <2>2, <3>2 DEF ScanByte
      <3>3. CASE scan.mode = "value" /\ scan.depth = 1
        BY <2>2, <3>3, ValueReads
      <3>4. CASE scan.mode = "skip" /\ scan.depth = 1
        <4>1. \A b \in {"colon", "space", "1"} :
                ScanByte(scan, b, field) = To(scan, "skip")
          BY <3>4, SkipReads
        <4> QED
          BY <2>2, <3>4, <4>1
      <3> QED
        BY <3>1, <3>2, <3>3, <3>4 DEF Between
    <2>4. "skip" \in Modes
      BY DEF Modes
    <2>5. /\ s.mode = scan.mode /\ s.depth = scan.depth
          /\ s.nest = scan.nest /\ s.key = scan.key
      BY <2>3, <2>4, ToReads
    <2>6. t \o <<"space">> \in Seq(Bytes)
      BY <2>1, <2>2, ByteIsRead
    <2> QED
      BY <1>2, <2>2, <2>5, <2>6
  <1> QED
    BY <1>1, <1>2 DEF Gaps

(***************************************************************************)
(* A colon after a key leads to the value, and nowhere else does it        *)
(* matter.                                                                 *)
(***************************************************************************)
LEMMA ColonIsRead ==
    ASSUME NEW t \in Seq(Bytes), NEW field, NEW scan \in Scans,
           Scanned(t, scan, field),
           \/ scan.mode \in {"colon", "error"}
           \/ scan.mode = "skip" /\ scan.depth = 1
    PROVE  /\ t \o <<"colon">> \in Seq(Bytes)
           /\ \E s \in Scans :
                 /\ Scanned(t \o <<"colon">>, s, field)
                 /\ s.mode = IF scan.mode = "colon" THEN "value" ELSE scan.mode
                 /\ s.depth = scan.depth /\ s.nest = scan.nest /\ s.key = scan.key
  <1>1. "colon" \in Bytes
    BY BytesAre DEF Punctuation
  <1>2. PICK s \in Scans : /\ s = ScanByte(scan, "colon", field)
                           /\ Scanned(t \o <<"colon">>, s, field)
    BY <1>1, ByteIsRead
  <1>3. t \o <<"colon">> \in Seq(Bytes)
    BY <1>1, ByteIsRead
  <1>4. "skip" \in Modes /\ "value" \in Modes
    BY DEF Modes
  <1>5. /\ s.mode = IF scan.mode = "colon" THEN "value" ELSE scan.mode
        /\ s.depth = scan.depth /\ s.nest = scan.nest /\ s.key = scan.key
    <2>1. CASE scan.mode = "colon"
      <3>1. s = To(scan, "value")
        BY <1>2, <2>1, ColonReads
      <3> QED
        BY <1>4, <2>1, <3>1, ToReads
    <2>2. CASE scan.mode = "error"
      <3>1. s = scan
        BY <1>2, <2>2 DEF ScanByte
      <3> QED
        BY <2>2, <3>1
    <2>3. CASE scan.mode = "skip" /\ scan.depth = 1
      <3>1. \A b \in {"colon", "space", "1"} :
              ScanByte(scan, b, field) = To(scan, "skip")
        BY <2>3, SkipReads
      <3>2. s = To(scan, "skip")
        BY <1>2, <3>1
      <3> QED
        BY <1>4, <2>3, <3>2, ToReads
    <2> QED
      BY <2>1, <2>2, <2>3
  <1> QED
    BY <1>2, <1>3, <1>5

(***************************************************************************)
(* The colon and the white space around it.                                *)
(***************************************************************************)
LEMMA ColonAndGaps ==
    ASSUME NEW t \in Seq(Bytes), NEW field, NEW scan \in Scans,
           Scanned(t, scan, field), NEW gap \in Gaps,
           \/ scan.mode \in {"colon", "error"}
           \/ scan.mode = "skip" /\ scan.depth = 1,
           scan.mode = "colon" => scan.depth = 1
    PROVE  \E s \in Scans :
              /\ Scanned(t \o gap \o <<"colon">> \o gap, s, field)
              /\ s.mode = IF scan.mode = "colon" THEN "value" ELSE scan.mode
              /\ s.depth = scan.depth /\ s.nest = scan.nest /\ s.key = scan.key
  <1>1. Between(scan)
    BY DEF Between
  <1>2. t \o gap \in Seq(Bytes)
    BY <1>1, GapIsRead
  <1>3. PICK s1 \in Scans : /\ Scanned(t \o gap, s1, field)
                            /\ s1.mode = scan.mode /\ s1.depth = scan.depth
                            /\ s1.nest = scan.nest /\ s1.key = scan.key
    BY <1>1, GapIsRead
  <1>4. PICK t1 \in Seq(Bytes) : t1 = t \o gap
    BY <1>2
  <1>5. Scanned(t1, s1, field)
    BY <1>3, <1>4
  <1>6. \/ s1.mode \in {"colon", "error"}
        \/ s1.mode = "skip" /\ s1.depth = 1
    BY <1>3
  <1>7. t1 \o <<"colon">> \in Seq(Bytes)
    BY <1>5, <1>6, ColonIsRead
  <1>8. PICK s2 \in Scans :
           /\ Scanned(t1 \o <<"colon">>, s2, field)
           /\ s2.mode = IF s1.mode = "colon" THEN "value" ELSE s1.mode
           /\ s2.depth = s1.depth /\ s2.nest = s1.nest /\ s2.key = s1.key
    BY <1>5, <1>6, ColonIsRead
  <1>9. PICK t2 \in Seq(Bytes) : t2 = t1 \o <<"colon">>
    BY <1>7
  <1>10. Scanned(t2, s2, field) /\ Between(s2)
    BY <1>3, <1>6, <1>8, <1>9 DEF Between
  <1>11. PICK s3 \in Scans : /\ Scanned(t2 \o gap, s3, field)
                             /\ s3.mode = s2.mode /\ s3.depth = s2.depth
                             /\ s3.nest = s2.nest /\ s3.key = s2.key
    BY <1>10, GapIsRead
  <1>12. t2 \o gap = t \o gap \o <<"colon">> \o gap
    BY <1>4, <1>9
  <1> QED
    BY <1>3, <1>8, <1>11, <1>12

(***************************************************************************)
(* They take nothing from the text.                                        *)
(***************************************************************************)
LEMMA GapsAdd ==
    ASSUME NEW t \in Seq(Bytes), NEW gap \in Gaps
    PROVE  /\ t \o gap \o <<"colon">> \o gap \in Seq(Bytes)
           /\ "escape" \in Range(t) =>
                "escape" \in Range(t \o gap \o <<"colon">> \o gap)
  <1>1. gap \in Seq(Bytes) /\ <<"colon">> \in Seq(Bytes)
    <2>1. "space" \in Bytes /\ "colon" \in Bytes
      BY BytesAre DEF Punctuation
    <2>2. <<>> \in Seq(Bytes) /\ <<"space">> \in Seq(Bytes) /\ <<"colon">> \in Seq(Bytes)
      BY <2>1
    <2> QED
      BY <2>2 DEF Gaps
  <1>2. PICK c \in Seq(Bytes) : c = <<"colon">>
    BY <1>1
  <1>3. PICK t1 \in Seq(Bytes) : t1 = t \o gap
    BY <1>1, ConcatProperties
  <1>4. PICK t2 \in Seq(Bytes) : t2 = t1 \o c
    BY <1>1, ConcatProperties
  <1>5. t2 \o gap \in Seq(Bytes)
    BY <1>1, ConcatProperties
  <1>6. "escape" \in Range(t) => "escape" \in Range(t1)
    BY <1>1, <1>3, RangeOfConcat
  <1>7. "escape" \in Range(t1) => "escape" \in Range(t2)
    BY <1>4, RangeOfConcat
  <1>8. "escape" \in Range(t2) => "escape" \in Range(t2 \o gap)
    BY <1>1, RangeOfConcat
  <1> QED
    BY <1>2, <1>3, <1>4, <1>5, <1>6, <1>7, <1>8

(***************************************************************************)
(* A key, with its colon.                                                  *)
(***************************************************************************)
LEMMA KeyIsRead ==
    ASSUME NEW t \in Seq(Bytes), NEW field, NEW scan, NEW o \in Seq(Containers),
           NEW ks \in Seq(Seq(Bytes)), NEW ms, NEW e, o # <<>>,
           e \in {"key", "key_or_close"}, NEW w \in Strings, NEW gap \in Gaps,
           OnItsWay(t, scan, field, e, o, ks, ms)
    PROVE  Told(t \o Quoted(w) \o gap \o <<"colon">> \o gap, field, "value", o,
                IF Len(o) = 1 THEN Append(ks, w) ELSE ks, ms)
  <1>1. /\ scan \in Scans /\ Scanned(t, scan, field)
        /\ Position(scan, e, o, ks) /\ Passed(field, ms)
    BY DEF OnItsWay
  <1>2. "quote" \in Bytes /\ w \in Seq(Bytes)
    BY BytesAre DEF Punctuation
  <1>3. PICK opened \in Scans : opened = ScanByte(scan, "quote", field)
    BY <1>1, <1>2, ScanTyping
  <1>4. PICK t1 \in Seq(Bytes) : t1 = t \o Quoted(w)
    <2>1. Quoted(w) \in Seq(Bytes)
      BY <1>2, QuotedApart
    <2> QED
      BY <2>1, ConcatProperties
  <1>5. PICK t2 \in Seq(Bytes) : t2 = t1 \o gap \o <<"colon">> \o gap
    BY GapsAdd
  <1>6. /\ "colon" \in Modes /\ "skip" \in Modes /\ "skip_string" \in Modes
    BY DEF Modes
  <1>7. ASSUME NEW s \in Scans, Scanned(t1, s, field),
                \/ s.mode \in {"colon", "error"}
                \/ s.mode = "skip" /\ s.depth = 1,
                s.mode = "colon" => s.depth = 1
         PROVE  \E s3 \in Scans :
                   /\ Scanned(t2, s3, field)
                   /\ s3.mode = IF s.mode = "colon" THEN "value" ELSE s.mode
                   /\ s3.depth = s.depth /\ s3.nest = s.nest /\ s3.key = s.key
    <2>1. PICK s3 \in Scans :
             /\ Scanned(t1 \o gap \o <<"colon">> \o gap, s3, field)
             /\ s3.mode = IF s.mode = "colon" THEN "value" ELSE s.mode
             /\ s3.depth = s.depth /\ s3.nest = s.nest /\ s3.key = s.key
      BY <1>7, ColonAndGaps
    <2> QED
      BY <1>5, <2>1
  <1>8. /\ \/ Len(o) = 1 /\ scan.mode = "main"
           \/ /\ Len(o) # 1 /\ Len(o) > 1
              /\ scan.mode = "skip" /\ scan.nest = Len(o) - 1
        /\ scan.depth = 1
    <2>1. Len(o) = 1 => ~ (Len(o) > 1)
      OBVIOUS
    <2> QED
      BY <1>1, <2>1 DEF Position
  <1>9. CASE Len(o) = 1
    <2>1. scan.mode = "main" /\ scan.depth = 1
      BY <1>8, <1>9
    <2>2. opened.mode = "key" /\ opened.key = <<>> /\ opened.depth = 1
      BY <1>1, <1>3, <2>1, MainReads
    <2>3. PICK g \in Scans : g = Grown(opened, w)
      BY <1>2, <2>2, GrownIn DEF StringModes
    <2>4. g.mode = "key" /\ g.key = w /\ g.depth = 1
      BY <1>2, <2>2, <2>3, GrownIn, GrownFields DEF StringModes
    <2>5. PICK s \in Scans :
             /\ Scanned(t1, s, field)
             /\ \/ Escaped(w) /\ s.mode = "error"
                \/ ~ Escaped(w) /\ s = ScanByte(g, "quote", field)
      BY <1>1, <1>3, <1>4, <2>2, <2>3, QuotedIsRead DEF StringModes
    <2>6. CASE Escaped(w)
      <3>1. PICK s3 \in Scans : Scanned(t2, s3, field) /\ s3.mode = "error"
        BY <1>7, <2>5, <2>6
      <3>2. "escape" \in Range(t2)
        BY <1>4, <1>5, <2>6, EscapeStays, GapsAdd
      <3> QED
        BY <1>4, <1>5, <3>1, <3>2 DEF Told, Tells, Refused
    <2>7. CASE ~ Escaped(w)
      <3>1. s = To(g, "colon")
        BY <2>4, <2>5, <2>7, ClosingReads
      <3>2. s.mode = "colon" /\ s.depth = 1 /\ s.key = w
        BY <1>6, <2>4, <3>1, ToReads
      <3>3. PICK s3 \in Scans :
               /\ Scanned(t2, s3, field)
               /\ s3.mode = "value" /\ s3.depth = 1 /\ s3.key = w
        <4>1. Scanned(t1, s, field)
          BY <2>5
        <4>2. PICK s3 \in Scans :
                 /\ Scanned(t2, s3, field)
                 /\ s3.mode = IF s.mode = "colon" THEN "value" ELSE s.mode
                 /\ s3.depth = s.depth /\ s3.nest = s.nest /\ s3.key = s.key
          BY <1>7, <3>2, <4>1
        <4>3. s3.mode = "value" /\ s3.depth = 1 /\ s3.key = w
          BY <3>2, <4>2
        <4> QED
          BY <4>2, <4>3
      <3>4. PICK ks2 \in Seq(Seq(Bytes)) :
               ks2 = Append(ks, w) /\ ks2 # <<>> /\ Last(ks2) = w
        <4>1. PICK S : S = Seq(Bytes)
          OBVIOUS
        <4>2. w \in S /\ ks \in Seq(S)
          BY <1>2, <4>1
        <4>3. PICK n \in Nat : n = Len(ks)
          BY <4>2
        <4>4. PICK k2 \in Seq(S) : k2 = Append(ks, w)
          BY <4>2, AppendProperties
        <4>5. Len(k2) = n + 1 /\ k2[n + 1] = w
          BY <4>2, <4>3, <4>4, AppendProperties
        <4>6. k2 # <<>>
          <5>1. Len(<<>>) = 0 /\ n + 1 # 0
            OBVIOUS
          <5> QED
            BY <4>5, <5>1
        <4>7. Last(k2) = w
          BY <4>5 DEF Last
        <4> QED
          BY <4>1, <4>4, <4>6, <4>7
      <3>5. Position(s3, "value", o, ks2)
        BY <1>9, <2>7, <3>3, <3>4 DEF Position
      <3> QED
        BY <1>1, <1>4, <1>5, <1>9, <3>3, <3>4, <3>5 DEF Told, Tells
    <2> QED
      BY <2>6, <2>7
  <1>10. CASE Len(o) # 1
    <2>1. Len(o) > 1 /\ scan.mode = "skip" /\ scan.nest = Len(o) - 1 /\ scan.depth = 1
      BY <1>8, <1>10
    <2>2. opened = To(scan, "skip_string")
      BY <1>1, <1>3, <2>1, SkipReads
    <2>3. opened.mode = "skip_string" /\ opened.depth = 1 /\ opened.nest = scan.nest
      BY <1>1, <1>6, <2>1, <2>2, ToReads
    <2>4. PICK g \in Scans : g = Grown(opened, w)
      BY <1>2, <2>3, GrownIn DEF StringModes
    <2>5. g.mode = "skip_string" /\ g.depth = 1 /\ g.nest = scan.nest
      BY <1>2, <2>3, <2>4, GrownIn, GrownFields DEF StringModes
    <2>6. PICK s \in Scans :
             /\ Scanned(t1, s, field)
             /\ \/ Escaped(w) /\ s.mode = "error"
                \/ ~ Escaped(w) /\ s = ScanByte(g, "quote", field)
      BY <1>1, <1>3, <1>4, <2>3, <2>4, QuotedIsRead DEF StringModes
    <2>7. CASE Escaped(w)
      <3>1. PICK s3 \in Scans : Scanned(t2, s3, field) /\ s3.mode = "error"
        BY <1>7, <2>6, <2>7
      <3>2. "escape" \in Range(t2)
        BY <1>4, <1>5, <2>7, EscapeStays, GapsAdd
      <3> QED
        BY <1>4, <1>5, <3>1, <3>2 DEF Told, Tells, Refused
    <2>8. CASE ~ Escaped(w)
      <3>1. s = To(g, "skip")
        BY <2>5, <2>6, <2>8, ClosingReads
      <3>2. s.mode = "skip" /\ s.depth = 1 /\ s.nest = scan.nest
        BY <1>6, <2>5, <3>1, ToReads
      <3>3. PICK s3 \in Scans :
               /\ Scanned(t2, s3, field)
               /\ s3.mode = "skip" /\ s3.depth = 1 /\ s3.nest = scan.nest
        <4>1. Scanned(t1, s, field)
          BY <2>6
        <4>2. PICK s3 \in Scans :
                 /\ Scanned(t2, s3, field)
                 /\ s3.mode = IF s.mode = "colon" THEN "value" ELSE s.mode
                 /\ s3.depth = s.depth /\ s3.nest = s.nest /\ s3.key = s.key
          BY <1>7, <3>2, <4>1
        <4>3. s3.mode = "skip" /\ s3.depth = 1 /\ s3.nest = scan.nest
          BY <3>2, <4>2
        <4> QED
          BY <4>2, <4>3
      <3>4. Position(s3, "value", o, ks)
        BY <2>1, <3>3 DEF Position
      <3> QED
        BY <1>1, <1>4, <1>5, <1>10, <3>3, <3>4 DEF Told, Tells
    <2> QED
      BY <2>7, <2>8
  <1> QED
    BY <1>9, <1>10

(***************************************************************************)
(* A settled scanner stays so, whatever follows.                           *)
(***************************************************************************)
Settled(t, scan, field, ms) ==
    /\ scan \in Scans /\ Scanned(t, scan, field)
    /\ \/ scan.mode = "ok" /\ FoundIn(scan.value, field, ms)
       \/ scan.mode = "error" /\ Refused(field, ms, t)

(***************************************************************************)
(* So what it says stays true.                                             *)
(***************************************************************************)
LEMMA SettledIsTold ==
    ASSUME NEW t \in Seq(Bytes), NEW w \in Seq(Bytes), NEW field, NEW scan,
           NEW ms \in Seq(Members), NEW m \in Members, NEW ms2 \in {ms, Append(ms, m)},
           Settled(t, scan, field, ms), NEW e, NEW o, NEW ks
    PROVE  Told(t \o w, field, e, o, ks, ms2)
  <1>1. /\ scan \in Scans /\ Scanned(t, scan, field)
        /\ \/ scan.mode = "ok" /\ FoundIn(scan.value, field, ms)
           \/ scan.mode = "error" /\ Refused(field, ms, t)
    BY DEF Settled
  <1>2. Scanned(t \o w, scan, field)
    BY <1>1, SettledScans
  <1>3. \/ scan.mode = "ok" /\ FoundIn(scan.value, field, ms2)
        \/ scan.mode = "error" /\ Refused(field, ms2, t \o w)
    BY <1>1, SettledStays
  <1> QED
    BY <1>1, <1>2, <1>3 DEF Told, Tells

-----------------------------------------------------------------------------
(* The browser's steps. *)

(***************************************************************************)
(* What the grammar can expect.                                            *)
(***************************************************************************)
Expectations == {"start", "end", "key", "key_or_close", "comma_or_close",
                 "value", "value_or_close"}

(***************************************************************************)
(* What the grammar can expect in the containers o: an object is at the    *)
(* top, and a value is expected there only after a key.                    *)
(***************************************************************************)
Fit(e, o, ks) ==
    /\ e \in Expectations
    /\ o = <<>> => e \in {"start", "end"}
    /\ o # <<>> => o[1] = "object" /\ e \notin {"start", "end"}
    /\ Len(o) = 1 => /\ e # "value_or_close"
                     /\ e = "value" => ks # <<>>

(***************************************************************************)
(* The inductive invariant: the text follows the grammar, and for each     *)
(* name the scanner, having read the text, is where the grammar is or is   *)
(* settled with reason.                                                    *)
(***************************************************************************)
ClientInv ==
    /\ text \in Seq(Bytes)
    /\ grammar \in [expect: Expectations, open: Seq(Containers)]
    /\ keys \in Seq(Seq(Bytes)) /\ members \in Seq(Members)
    /\ Fit(grammar.expect, grammar.open, keys)
    /\ \A field \in Fields :
          Told(text, field, grammar.expect, grammar.open, keys, members)

(***************************************************************************)
(* A state, as values: what the invariant says of it.                      *)
(***************************************************************************)
Holds(t, e, o, ks, ms) ==
    /\ t \in Seq(Bytes) /\ e \in Expectations /\ o \in Seq(Containers)
    /\ ks \in Seq(Seq(Bytes)) /\ ms \in Seq(Members)
    /\ Fit(e, o, ks)
    /\ \A field \in Fields : Told(t, field, e, o, ks, ms)

(***************************************************************************)
(* The state as values.                                                    *)
(***************************************************************************)
LEMMA InvView ==
    ASSUME ClientInv
    PROVE  \E t, e, o, ks, ms :
              /\ Holds(t, e, o, ks, ms)
              /\ text = t /\ grammar = [expect |-> e, open |-> o]
              /\ keys = ks /\ members = ms
  <1>1. PICK S : S = Seq(Containers)
    OBVIOUS
  <1>2. grammar \in [expect: Expectations, open: S]
    BY <1>1 DEF ClientInv
  <1>3. /\ grammar = [expect |-> grammar.expect, open |-> grammar.open]
        /\ grammar.expect \in Expectations /\ grammar.open \in S
    BY <1>2
  <1>4. Holds(text, grammar.expect, grammar.open, keys, members)
    BY <1>1, <1>3 DEF ClientInv, Holds
  <1> QED
    BY <1>3, <1>4

(***************************************************************************)
(* Values that fit make the invariant hold in the next state.              *)
(***************************************************************************)
LEMMA InvAfter ==
    ASSUME NEW t, NEW e, NEW o, NEW ks, NEW ms, Holds(t, e, o, ks, ms),
           text' = t, grammar' = [expect |-> e, open |-> o], keys' = ks, members' = ms
    PROVE  ClientInv'
  <1>1. grammar'.expect = e /\ grammar'.open = o
    OBVIOUS
  <1>2. PICK S : S = Seq(Containers)
    OBVIOUS
  <1>3. grammar' \in [expect: Expectations, open: S]
    BY <1>2 DEF Holds
  <1> QED
    BY <1>1, <1>2, <1>3 DEF Holds, ClientInv

(***************************************************************************)
(* The object at the top.                                                  *)
(***************************************************************************)
LEMMA TopObject ==
    ASSUME NEW o \in Seq(Containers), NEW e, NEW ks, Fit(e, o, ks)
    PROVE  /\ o = <<"object">> <=> Len(o) = 1
           /\ Len(o) = 1 => Last(o) = "object" /\ o # <<>>
  <1>1. Len(o) = 1 => o # <<>> /\ o = <<o[1]>>
    OBVIOUS
  <1>2. o = <<"object">> => Len(o) = 1
    OBVIOUS
  <1>3. Len(o) = 1 => Last(o) = o[1]
    BY DEF Last
  <1> QED
    BY <1>1, <1>2, <1>3 DEF Fit

(***************************************************************************)
(* The last entry of a list.                                               *)
(***************************************************************************)
LEMMA LastIn ==
    ASSUME NEW S, NEW ks \in Seq(S), ks # <<>>
    PROVE  Last(ks) \in S
  <1>1. PICK n \in Nat : n = Len(ks) /\ n # 0
    OBVIOUS
  <1>2. ks[n] \in S
    BY <1>1
  <1> QED
    BY <1>1, <1>2 DEF Last

(***************************************************************************)
(* At the top, what is written is a member under the last key.             *)
(***************************************************************************)
LEMMA MemberIs ==
    ASSUME NEW o \in Seq(Containers), NEW e, NEW ks \in Seq(Seq(Bytes)),
           Fit(e, o, ks), Len(o) = 1 => e = "value",
           NEW isString \in BOOLEAN, NEW value \in Seq(Bytes)
    PROVE  Len(o) = 1 =>
             [key |-> Last(ks), string |-> isString, value |-> value] \in Members
  <1>1. PICK S : S = Seq(Bytes)
    OBVIOUS
  <1>2. Len(o) = 1 => Last(ks) \in S
    BY <1>1, LastIn DEF Fit
  <1> QED
    BY <1>1, <1>2 DEF Members

(***************************************************************************)
(* Settled or not, the scanner reads what is written next.                 *)
(***************************************************************************)
LEMMA ReadOrSettled ==
    ASSUME NEW t \in Seq(Bytes), NEW w \in Seq(Bytes), NEW field,
           NEW e, NEW o, NEW ks, NEW ms \in Seq(Members),
           Told(t, field, e, o, ks, ms),
           NEW e2, NEW o2, NEW ks2, NEW ms2,
           ms2 = ms \/ \E m \in Members : ms2 = Append(ms, m),
           \A scan : OnItsWay(t, scan, field, e, o, ks, ms) =>
                       Told(t \o w, field, e2, o2, ks2, ms2)
    PROVE  Told(t \o w, field, e2, o2, ks2, ms2)
  <1>1. PICK scan \in Scans : /\ Scanned(t, scan, field)
                              /\ Tells(scan, field, e, o, ks, ms, t)
    BY DEF Told
  <1>2. OnItsWay(t, scan, field, e, o, ks, ms) \/ Settled(t, scan, field, ms)
    BY <1>1 DEF Tells, OnItsWay, Settled
  <1>3. CASE Settled(t, scan, field, ms)
    <2>1. [key |-> <<>>, string |-> FALSE, value |-> <<>>] \in Members
      <3>1. PICK S : S = Seq(Bytes)
        OBVIOUS
      <3>2. <<>> \in S
        BY <3>1
      <3> QED
        BY <3>1, <3>2 DEF Members
    <2>2. PICK m \in Members : ms2 = ms \/ ms2 = Append(ms, m)
      BY <2>1
    <2> QED
      BY <1>3, <2>2, SettledIsTold
  <1> QED
    BY <1>2, <1>3

(***************************************************************************)
(* An object or a list is opened.                                          *)
(***************************************************************************)
LEMMA OpenHolds ==
    ASSUME NEW t, NEW e, NEW o, NEW ks, NEW ms, Holds(t, e, o, ks, ms),
           NEW b \in Openers, NEW c \in Containers,
           NEW next \in {"key_or_close", "value_or_close"},
           o = <<>> => /\ e = "start" /\ b = "open_brace" /\ c = "object"
                       /\ next = "key_or_close",
           o # <<>> => e \in {"value", "value_or_close"},
           NEW m, m = [key |-> Last(ks), string |-> FALSE, value |-> <<>>]
    PROVE  Holds(t \o <<b>>, next, Append(o, c), ks,
                 IF Len(o) = 1 THEN Append(ms, m) ELSE ms)
  <1>1. /\ t \in Seq(Bytes) /\ o \in Seq(Containers) /\ Fit(e, o, ks)
        /\ ks \in Seq(Seq(Bytes)) /\ ms \in Seq(Members)
        /\ \A field \in Fields : Told(t, field, e, o, ks, ms)
    BY DEF Holds
  <1>2. Len(o) = 1 => e = "value"
    BY <1>1, TopObject DEF Fit
  <1>3. <<>> \in Seq(Bytes)
    OBVIOUS
  <1>4. Len(o) = 1 => m \in Members
    BY <1>1, <1>2, <1>3, MemberIs
  <1>5. PICK ms2 \in Seq(Members) :
           /\ ms2 = IF Len(o) = 1 THEN Append(ms, m) ELSE ms
           /\ ms2 = ms \/ \E x \in Members : ms2 = Append(ms, x)
    BY <1>1, <1>4, AppendProperties
  <1>6. <<b>> \in Seq(Bytes)
    <2>1. b \in Bytes
      BY BytesAre DEF Openers, Punctuation
    <2> QED
      BY <2>1
  <1>7. PICK w \in Seq(Bytes) : w = <<b>>
    BY <1>6
  <1>8. PICK o2 \in Seq(Containers) : o2 = Append(o, c)
    BY <1>1, AppendProperties
  <1>9. ASSUME NEW field \in Fields
        PROVE  Told(t \o w, field, next, o2, ks, ms2)
    <2>1. Told(t, field, e, o, ks, ms)
      BY <1>1
    <2>2. ASSUME NEW scan, OnItsWay(t, scan, field, e, o, ks, ms)
          PROVE  Told(t \o w, field, next, o2, ks, ms2)
      <3>1. Told(t \o <<b>>, field, next, Append(o, c), ks,
                 IF Len(o) = 1 THEN Append(ms, m) ELSE ms)
        BY <1>1, <1>2, <1>4, <2>2, OpenIsRead
      <3> QED
        BY <1>5, <1>7, <1>8, <3>1
    <2> QED
      BY <1>1, <1>5, <2>1, <2>2, ReadOrSettled
  <1>10. Fit(next, o2, ks)
    <2>1. PICK n \in Nat : n = Len(o)
      BY <1>1
    <2>2. /\ Len(o2) = n + 1 /\ o2[n + 1] = c
          /\ n # 0 => o2[1] = o[1]
      BY <1>1, <1>8, <2>1, AppendProperties
    <2>3. o2 # <<>>
      <3>1. Len(<<>>) = 0 /\ n + 1 # 0
        OBVIOUS
      <3> QED
        BY <2>2, <3>1
    <2>4. o = <<>> <=> n = 0
      BY <1>1, <2>1
    <2>5. o2[1] = "object"
      BY <1>1, <2>2, <2>4 DEF Fit
    <2>6. Len(o2) = 1 => next # "value_or_close"
      <3>1. n + 1 = 1 => n = 0
        OBVIOUS
      <3> QED
        BY <2>2, <2>4, <3>1
    <2>7. next \in Expectations /\ next \notin {"start", "end", "value"}
      BY DEF Expectations
    <2> QED
      BY <2>3, <2>5, <2>6, <2>7 DEF Fit
  <1>11. t \o w \in Seq(Bytes) /\ next \in Expectations
    BY <1>1, ConcatProperties DEF Expectations
  <1>12. Holds(t \o w, next, o2, ks, ms2)
    BY <1>1, <1>9, <1>10, <1>11 DEF Holds
  <1> QED
    BY <1>5, <1>7, <1>8, <1>12

(***************************************************************************)
(* A string or a literal is written.                                       *)
(***************************************************************************)
LEMMA ValueHolds ==
    ASSUME NEW t, NEW e, NEW o, NEW ks, NEW ms, Holds(t, e, o, ks, ms),
           e \in {"value", "value_or_close"},
           NEW w, NEW isString \in BOOLEAN, NEW value \in Seq(Bytes),
           \/ w = <<"1">> /\ ~ isString /\ value = <<>>
           \/ w = Quoted(value) /\ isString /\ value \in Strings,
           NEW m, m = [key |-> Last(ks), string |-> isString, value |-> value]
    PROVE  Holds(t \o w, "comma_or_close", o, ks,
                 IF Len(o) = 1 THEN Append(ms, m) ELSE ms)
  <1>1. /\ t \in Seq(Bytes) /\ o \in Seq(Containers) /\ Fit(e, o, ks)
        /\ ks \in Seq(Seq(Bytes)) /\ ms \in Seq(Members)
        /\ \A field \in Fields : Told(t, field, e, o, ks, ms)
    BY DEF Holds
  <1>2. o # <<>> /\ (Len(o) = 1 => e = "value")
    BY <1>1 DEF Fit
  <1>3. Len(o) = 1 => m \in Members
    BY <1>1, <1>2, MemberIs
  <1>4. PICK ms2 \in Seq(Members) :
           /\ ms2 = IF Len(o) = 1 THEN Append(ms, m) ELSE ms
           /\ ms2 = ms \/ \E x \in Members : ms2 = Append(ms, x)
    BY <1>1, <1>3, AppendProperties
  <1>5. w \in Seq(Bytes)
    <2>1. "1" \in Bytes /\ "quote" \in Bytes
      BY BytesAre DEF Punctuation
    <2>2. <<"1">> \in Seq(Bytes)
      BY <2>1
    <2>3. Quoted(value) \in Seq(Bytes)
      BY <1>1, <2>1, QuotedApart
    <2> QED
      BY <2>2, <2>3
  <1>6. ASSUME NEW field \in Fields
        PROVE  Told(t \o w, field, "comma_or_close", o, ks, ms2)
    <2>1. Told(t, field, e, o, ks, ms)
      BY <1>1
    <2>2. ASSUME NEW scan, OnItsWay(t, scan, field, e, o, ks, ms)
          PROVE  Told(t \o w, field, "comma_or_close", o, ks, ms2)
      <3>1. CASE w = <<"1">> /\ ~ isString /\ value = <<>>
        <4>1. m = [key |-> Last(ks), string |-> FALSE, value |-> <<>>]
          BY <3>1
        <4>2. Told(t \o <<"1">>, field, "comma_or_close", o, ks,
                   IF Len(o) = 1 THEN Append(ms, m) ELSE ms)
          BY <1>1, <1>2, <1>3, <2>2, <4>1, LiteralIsRead
        <4> QED
          BY <1>4, <3>1, <4>2
      <3>2. CASE w = Quoted(value) /\ isString /\ value \in Strings
        <4>1. m = [key |-> Last(ks), string |-> TRUE, value |-> value]
          BY <3>2
        <4>2. Told(t \o Quoted(value), field, "comma_or_close", o, ks,
                   IF Len(o) = 1 THEN Append(ms, m) ELSE ms)
          BY <1>1, <1>2, <1>3, <2>2, <3>2, <4>1, StringValueIsRead
        <4> QED
          BY <1>4, <3>2, <4>2
      <3> QED
        BY <3>1, <3>2
    <2> QED
      BY <1>1, <1>4, <1>5, <2>1, <2>2, ReadOrSettled
  <1>7. Fit("comma_or_close", o, ks) /\ "comma_or_close" \in Expectations
    BY <1>1, <1>2 DEF Fit, Expectations
  <1>8. t \o w \in Seq(Bytes)
    BY <1>1, <1>5, ConcatProperties
  <1>9. Holds(t \o w, "comma_or_close", o, ks, ms2)
    BY <1>1, <1>6, <1>7, <1>8 DEF Holds
  <1> QED
    BY <1>4, <1>9

(***************************************************************************)
(* A key and its colon, piece by piece.                                    *)
(***************************************************************************)
LEMMA GapsApart ==
    ASSUME NEW t \in Seq(Bytes), NEW q \in Seq(Bytes), NEW gap \in Gaps
    PROVE  t \o (q \o gap \o <<"colon">> \o gap) = t \o q \o gap \o <<"colon">> \o gap
  <1>1. gap \in Seq(Bytes) /\ <<"colon">> \in Seq(Bytes)
    <2>1. "space" \in Bytes /\ "colon" \in Bytes
      BY BytesAre DEF Punctuation
    <2>2. <<>> \in Seq(Bytes) /\ <<"space">> \in Seq(Bytes)
            /\ <<"colon">> \in Seq(Bytes)
      BY <2>1
    <2> QED
      BY <2>2 DEF Gaps
  <1>2. PICK c \in Seq(Bytes) : c = <<"colon">>
    BY <1>1
  <1>3. PICK g \in Seq(Bytes) : g = gap
    BY <1>1
  <1>4. PICK q1 \in Seq(Bytes) : q1 = q \o g
    BY ConcatProperties
  <1>5. PICK q2 \in Seq(Bytes) : q2 = q1 \o c
    BY ConcatProperties
  <1>6. (t \o q2) \o g = t \o (q2 \o g)
    BY ConcatAssociative, SMTT(40)
  <1>7. (t \o q1) \o c = t \o (q1 \o c)
    BY ConcatAssociative, SMTT(40)
  <1>8. (t \o q) \o g = t \o (q \o g)
    BY ConcatAssociative, SMTT(40)
  <1> QED
    BY <1>2, <1>3, <1>4, <1>5, <1>6, <1>7, <1>8

(***************************************************************************)
(* A key is written.                                                       *)
(***************************************************************************)
LEMMA KeyHolds ==
    ASSUME NEW t, NEW e, NEW o, NEW ks, NEW ms, Holds(t, e, o, ks, ms),
           e \in {"key", "key_or_close"}, NEW w \in Strings, NEW gap \in Gaps
    PROVE  Holds(t \o Quoted(w) \o gap \o <<"colon">> \o gap, "value", o,
                 IF Len(o) = 1 THEN Append(ks, w) ELSE ks, ms)
  <1>1. /\ t \in Seq(Bytes) /\ o \in Seq(Containers) /\ Fit(e, o, ks)
        /\ ks \in Seq(Seq(Bytes)) /\ ms \in Seq(Members)
        /\ \A field \in Fields : Told(t, field, e, o, ks, ms)
    BY DEF Holds
  <1>2. o # <<>>
    BY <1>1 DEF Fit
  <1>3. w \in Seq(Bytes) /\ "quote" \in Bytes
    BY BytesAre DEF Punctuation
  <1>4. PICK q \in Seq(Bytes) : q = Quoted(w)
    BY <1>1, <1>3, QuotedApart
  <1>5. PICK x \in Seq(Bytes) : x = q \o gap \o <<"colon">> \o gap
    BY GapsAdd
  <1>6. t \o x = t \o Quoted(w) \o gap \o <<"colon">> \o gap
    <2>1. t \o x = t \o q \o gap \o <<"colon">> \o gap
      BY <1>1, <1>5, GapsApart
    <2> QED
      BY <1>4, <2>1
  <1>7. PICK ks2 \in Seq(Seq(Bytes)) :
           /\ ks2 = IF Len(o) = 1 THEN Append(ks, w) ELSE ks
           /\ Len(o) = 1 => ks2 # <<>>
    <2>1. PICK S : S = Seq(Bytes)
      OBVIOUS
    <2>2. PICK k2 \in Seq(S) : k2 = Append(ks, w)
      BY <1>1, <1>3, <2>1, AppendProperties
    <2>3. PICK n \in Nat : n = Len(ks)
      BY <1>1
    <2>4. Len(k2) = n + 1
      BY <1>1, <1>3, <2>1, <2>2, <2>3, AppendProperties
    <2>5. k2 # <<>>
      <3>1. Len(<<>>) = 0 /\ n + 1 # 0
        OBVIOUS
      <3> QED
        BY <2>4, <3>1
    <2> QED
      BY <1>1, <2>1, <2>2, <2>5
  <1>8. ASSUME NEW field \in Fields
        PROVE  Told(t \o x, field, "value", o, ks2, ms)
    <2>1. Told(t, field, e, o, ks, ms)
      BY <1>1
    <2>2. ASSUME NEW scan, OnItsWay(t, scan, field, e, o, ks, ms)
          PROVE  Told(t \o x, field, "value", o, ks2, ms)
      <3>1. Told(t \o Quoted(w) \o gap \o <<"colon">> \o gap, field, "value", o,
                 IF Len(o) = 1 THEN Append(ks, w) ELSE ks, ms)
        BY <1>1, <1>2, <2>2, KeyIsRead
      <3> QED
        BY <1>6, <1>7, <3>1
    <2> QED
      BY <1>1, <2>1, <2>2, ReadOrSettled
  <1>9. Fit("value", o, ks2) /\ "value" \in Expectations
    BY <1>1, <1>2, <1>7 DEF Fit, Expectations
  <1>10. t \o x \in Seq(Bytes)
    BY <1>1, ConcatProperties
  <1>11. Holds(t \o x, "value", o, ks2, ms)
    BY <1>1, <1>8, <1>9, <1>10 DEF Holds
  <1> QED
    BY <1>6, <1>7, <1>11

(***************************************************************************)
(* White space is written.                                                 *)
(***************************************************************************)
LEMMA SpaceHolds ==
    ASSUME NEW t, NEW e, NEW o, NEW ks, NEW ms, Holds(t, e, o, ks, ms)
    PROVE  Holds(t \o <<"space">>, e, o, ks, ms)
  <1>1. /\ t \in Seq(Bytes) /\ ms \in Seq(Members)
        /\ \A field \in Fields : Told(t, field, e, o, ks, ms)
    BY DEF Holds
  <1>2. <<"space">> \in Seq(Bytes)
    <2>1. "space" \in Bytes
      BY BytesAre DEF Punctuation
    <2> QED
      BY <2>1
  <1>3. PICK w \in Seq(Bytes) : w = <<"space">>
    BY <1>2
  <1>4. ASSUME NEW field \in Fields
        PROVE  Told(t \o w, field, e, o, ks, ms)
    <2>1. Told(t, field, e, o, ks, ms)
      BY <1>1
    <2>2. ASSUME NEW scan, OnItsWay(t, scan, field, e, o, ks, ms)
          PROVE  Told(t \o w, field, e, o, ks, ms)
      BY <1>1, <1>3, <2>2, SpaceIsRead
    <2> QED
      BY <1>1, <2>1, <2>2, ReadOrSettled
  <1>5. t \o w \in Seq(Bytes)
    BY <1>1, ConcatProperties
  <1> QED
    BY <1>3, <1>4, <1>5 DEF Holds

(***************************************************************************)
(* A comma is written.                                                     *)
(***************************************************************************)
LEMMA CommaHolds ==
    ASSUME NEW t, NEW e, NEW o, NEW ks, NEW ms, Holds(t, e, o, ks, ms),
           e = "comma_or_close",
           NEW next, next = IF Last(o) = "object" THEN "key" ELSE "value"
    PROVE  Holds(t \o <<"comma">>, next, o, ks, ms)
  <1>1. /\ t \in Seq(Bytes) /\ o \in Seq(Containers) /\ Fit(e, o, ks)
        /\ ms \in Seq(Members)
        /\ \A field \in Fields : Told(t, field, e, o, ks, ms)
    BY DEF Holds
  <1>2. <<"comma">> \in Seq(Bytes)
    <2>1. "comma" \in Bytes
      BY BytesAre DEF Punctuation
    <2> QED
      BY <2>1
  <1>3. PICK w \in Seq(Bytes) : w = <<"comma">>
    BY <1>2
  <1>4. Len(o) = 1 => next = "key"
    BY <1>1, TopObject
  <1>5. ASSUME NEW field \in Fields
        PROVE  Told(t \o w, field, next, o, ks, ms)
    <2>1. Told(t, field, "comma_or_close", o, ks, ms)
      BY <1>1
    <2>2. ASSUME NEW scan, OnItsWay(t, scan, field, "comma_or_close", o, ks, ms)
          PROVE  Told(t \o w, field, next, o, ks, ms)
      BY <1>1, <1>3, <1>4, <2>2, CommaIsRead
    <2> QED
      BY <1>1, <2>1, <2>2, ReadOrSettled
  <1>6. t \o w \in Seq(Bytes)
    BY <1>1, ConcatProperties
  <1>7. Fit(next, o, ks) /\ next \in Expectations
    BY <1>1, <1>4 DEF Fit, Expectations
  <1> QED
    BY <1>3, <1>5, <1>6, <1>7 DEF Holds

(***************************************************************************)
(* An object or a list is closed.                                          *)
(***************************************************************************)
LEMMA CloseHolds ==
    ASSUME NEW t, NEW e, NEW o, NEW ks, NEW ms, Holds(t, e, o, ks, ms),
           o # <<>>, NEW b, b = IF Last(o) = "object" THEN "close_brace"
                                ELSE "close_bracket",
           \/ e = "comma_or_close"
           \/ Last(o) = "object" /\ e = "key_or_close"
           \/ Last(o) = "array" /\ e = "value_or_close",
           NEW next, next = IF Len(o) = 1 THEN "end" ELSE "comma_or_close"
    PROVE  Holds(t \o <<b>>, next, Front(o), ks, ms)
  <1>1. /\ t \in Seq(Bytes) /\ o \in Seq(Containers) /\ Fit(e, o, ks)
        /\ ms \in Seq(Members)
        /\ \A field \in Fields : Told(t, field, e, o, ks, ms)
    BY DEF Holds
  <1>2. b \in Closers
    BY DEF Closers
  <1>3. <<b>> \in Seq(Bytes)
    <2>1. b \in Bytes
      BY <1>2, BytesAre DEF Closers, Punctuation
    <2> QED
      BY <2>1
  <1>4. PICK w \in Seq(Bytes) : w = <<b>>
    BY <1>3
  <1>5. Len(o) = 1 => b = "close_brace" /\ e \in {"key_or_close", "comma_or_close"}
    <2>1. Len(o) = 1 => Last(o) = "object"
      BY <1>1, TopObject
    <2> QED
      BY <2>1
  <1>6. PICK n \in Nat : n = Len(o) /\ n # 0
    BY <1>1
  <1>7. PICK o2 \in Seq(Containers) :
           /\ o2 = Front(o) /\ Len(o2) = n - 1
           /\ \A i \in 1 .. n - 1 : o2[i] = o[i]
    <2>1. SubSeq(o, 1, n - 1) \in Seq(Containers)
      BY <1>1, <1>6
    <2>2. PICK f \in Seq(Containers) : f = SubSeq(o, 1, n - 1)
      BY <2>1
    <2>3. Len(f) = n - 1 /\ \A i \in 1 .. n - 1 : f[i] = o[i]
      BY <1>1, <1>6, <2>2
    <2>4. Front(o) = f
      BY <1>6, <2>2 DEF Front
    <2> QED
      BY <2>2, <2>3, <2>4
  <1>8. ASSUME NEW field \in Fields
        PROVE  Told(t \o w, field, next, o2, ks, ms)
    <2>1. Told(t, field, e, o, ks, ms)
      BY <1>1
    <2>2. ASSUME NEW scan, OnItsWay(t, scan, field, e, o, ks, ms)
          PROVE  Told(t \o w, field, next, o2, ks, ms)
      <3>1. Told(t \o <<b>>, field, IF Len(o) = 1 THEN "end" ELSE "comma_or_close",
                 Front(o), ks, ms)
        BY <1>1, <1>2, <1>5, <2>2, CloseIsRead
      <3> QED
        BY <1>4, <1>7, <3>1
    <2> QED
      BY <1>1, <2>1, <2>2, ReadOrSettled
  <1>9. t \o w \in Seq(Bytes)
    BY <1>1, ConcatProperties
  <1>10. Fit(next, o2, ks) /\ next \in Expectations
    <2>1. CASE n = 1
      <3>1. next = "end"
        BY <1>6, <2>1
      <3>2. Len(o2) = 0
        BY <1>7, <2>1
      <3>3. o2 = <<>> /\ Len(o2) # 1
        BY <3>2
      <3> QED
        BY <3>1, <3>3 DEF Fit, Expectations
    <2>2. CASE n > 1
      <3>1. next = "comma_or_close"
        BY <1>6, <2>2
      <3>2. 1 \in 1 .. n - 1 /\ n - 1 # 0
        BY <2>2
      <3>3. o2 # <<>> /\ o2[1] = o[1]
        BY <1>7, <3>2
      <3> QED
        BY <1>1, <3>1, <3>3 DEF Fit, Expectations
    <2> QED
      BY <1>6, <2>1, <2>2
  <1> QED
    BY <1>1, <1>4, <1>7, <1>8, <1>9, <1>10 DEF Holds

(***************************************************************************)
(* RecordMember, in terms of how many containers are open.                 *)
(***************************************************************************)
LEMMA NewMember ==
    ASSUME NEW o \in Seq(Containers), NEW e, NEW ks, NEW ms, Fit(e, o, ks),
           NEW isString, NEW value,
           grammar = [expect |-> e, open |-> o], keys = ks, members = ms,
           RecordMember(isString, value)
    PROVE  members' = IF Len(o) = 1
                      THEN Append(ms, [key |-> Last(ks), string |-> isString,
                                       value |-> value])
                      ELSE ms
  <1>1. o = <<"object">> <=> Len(o) = 1
    BY TopObject
  <1>2. grammar.open = o
    OBVIOUS
  <1> QED
    BY <1>1, <1>2 DEF RecordMember

(***************************************************************************)
(* WriteLexeme, in terms of what the grammar expects.                      *)
(***************************************************************************)
LEMMA Written ==
    ASSUME NEW e, NEW o, grammar = [expect |-> e, open |-> o],
           NEW bytes, NEW next, NEW open, WriteLexeme(bytes, next, open)
    PROVE  /\ text' = text \o bytes /\ keys' = keys
           /\ grammar' = [expect |-> next, open |-> open]
  BY DEF WriteLexeme

(***************************************************************************)
(* A text that is not begun has no member, and the scanner is at rest.     *)
(***************************************************************************)
LEMMA ClientInitHolds == ClientDataInit => ClientInv
  <1> SUFFICES ASSUME ClientDataInit
               PROVE  ClientInv
    OBVIOUS
  <1>1. /\ text = <<>> /\ grammar = [expect |-> "start", open |-> <<>>]
        /\ keys = <<>> /\ members = <<>>
    BY DEF ClientDataInit
  <1>2. grammar.expect = "start" /\ grammar.open = <<>>
    BY <1>1
  <1>3. ASSUME NEW field \in Fields
        PROVE  Told(<<>>, field, "start", <<>>, <<>>, <<>>)
    <2>1. ScanStart \in Scans /\ Scanned(<<>>, ScanStart, field)
      BY StartTyping, ScannedNothing
    <2>2. Position(ScanStart, "start", <<>>, <<>>)
      BY DEF Position, ScanStart
    <2>3. Passed(field, <<>>)
      BY DEF Passed
    <2> QED
      BY <2>1, <2>2, <2>3 DEF Told, Tells
  <1>4. Fit("start", <<>>, <<>>)
    <2>1. Len(<<>>) # 1
      OBVIOUS
    <2> QED
      BY <2>1 DEF Fit, Expectations
  <1>5. grammar \in [expect: Expectations, open: Seq(Containers)]
    <2>1. PICK S : S = Seq(Containers)
      OBVIOUS
    <2>2. <<>> \in S
      BY <2>1
    <2> QED
      BY <1>1, <2>1, <2>2 DEF Expectations
  <1>6. <<>> \in Seq(Bytes) /\ <<>> \in Seq(Seq(Bytes)) /\ <<>> \in Seq(Members)
    OBVIOUS
  <1> QED
    BY <1>1, <1>2, <1>3, <1>4, <1>5, <1>6 DEF ClientInv

(***************************************************************************)
(* Each step of the browser keeps the invariant.                           *)
(***************************************************************************)
LEMMA ClientNextKeeps ==
    ASSUME ClientInv, ClientDataNext
    PROVE  ClientInv'
  <1>1. PICK t, e, o, ks, ms :
           /\ Holds(t, e, o, ks, ms)
           /\ text = t /\ grammar = [expect |-> e, open |-> o]
           /\ keys = ks /\ members = ms
    BY InvView
  <1>2. grammar.expect = e /\ grammar.open = o
    BY <1>1
  <1>3. /\ o \in Seq(Containers) /\ Fit(e, o, ks)
        /\ ks \in Seq(Seq(Bytes)) /\ ms \in Seq(Members)
    BY <1>1 DEF Holds
  <1>4. AtValue <=> e \in {"value", "value_or_close"}
    BY <1>2 DEF AtValue
  <1>5. e \in {"value", "value_or_close"} => o # <<>>
    BY <1>3 DEF Fit
  <1>6. e = "start" => o = <<>>
    BY <1>3 DEF Fit
  <1>7. CASE OpenObject
    <2>1. PICK m : m = [key |-> Last(ks), string |-> FALSE, value |-> <<>>]
      OBVIOUS
    <2>2. /\ e \in {"value", "value_or_close"} \/ e = "start"
          /\ WriteLexeme(<<"open_brace">>, "key_or_close", Append(o, "object"))
          /\ RecordMember(FALSE, <<>>)
      BY <1>2, <1>4, <1>7 DEF OpenObject
    <2>3. members' = IF Len(o) = 1 THEN Append(ms, m) ELSE ms
      BY <1>1, <1>3, <2>1, <2>2, NewMember
    <2>4. /\ text' = t \o <<"open_brace">> /\ keys' = ks
          /\ grammar' = [expect |-> "key_or_close", open |-> Append(o, "object")]
      BY <1>1, <2>2, Written
    <2>5. "open_brace" \in Openers /\ "object" \in Containers
      BY DEF Openers, Containers
    <2>6. Holds(t \o <<"open_brace">>, "key_or_close", Append(o, "object"), ks,
                IF Len(o) = 1 THEN Append(ms, m) ELSE ms)
      BY <1>1, <1>5, <1>6, <2>1, <2>2, <2>5, OpenHolds
    <2> QED
      BY <2>3, <2>4, <2>6, InvAfter
  <1>8. CASE OpenArray
    <2>1. PICK m : m = [key |-> Last(ks), string |-> FALSE, value |-> <<>>]
      OBVIOUS
    <2>2. /\ e \in {"value", "value_or_close"}
          /\ WriteLexeme(<<"open_bracket">>, "value_or_close", Append(o, "array"))
          /\ RecordMember(FALSE, <<>>)
      BY <1>2, <1>4, <1>8 DEF OpenArray
    <2>3. members' = IF Len(o) = 1 THEN Append(ms, m) ELSE ms
      BY <1>1, <1>3, <2>1, <2>2, NewMember
    <2>4. /\ text' = t \o <<"open_bracket">> /\ keys' = ks
          /\ grammar' = [expect |-> "value_or_close", open |-> Append(o, "array")]
      BY <1>1, <2>2, Written
    <2>5. "open_bracket" \in Openers /\ "array" \in Containers
      BY DEF Openers, Containers
    <2>6. Holds(t \o <<"open_bracket">>, "value_or_close", Append(o, "array"), ks,
                IF Len(o) = 1 THEN Append(ms, m) ELSE ms)
      BY <1>1, <1>5, <2>1, <2>2, <2>5, OpenHolds
    <2> QED
      BY <2>3, <2>4, <2>6, InvAfter
  <1>9. CASE CloseContainer
    <2>1. PICK b : b = IF Last(o) = "object" THEN "close_brace" ELSE "close_bracket"
      OBVIOUS
    <2>2. PICK next : next = IF Len(o) = 1 THEN "end" ELSE "comma_or_close"
      OBVIOUS
    <2>3. /\ o # <<>> /\ members' = ms
          /\ \/ e = "comma_or_close"
             \/ Last(o) = "object" /\ e = "key_or_close"
             \/ Last(o) = "array" /\ e = "value_or_close"
          /\ WriteLexeme(<<b>>, next, Front(o))
      BY <1>1, <1>2, <1>9, <2>1, <2>2 DEF CloseContainer, AtClose, Top
    <2>4. /\ text' = t \o <<b>> /\ keys' = ks
          /\ grammar' = [expect |-> next, open |-> Front(o)]
      BY <1>1, <2>3, Written
    <2>5. Holds(t \o <<b>>, next, Front(o), ks, ms)
      BY <1>1, <2>1, <2>2, <2>3, CloseHolds
    <2> QED
      BY <2>3, <2>4, <2>5, InvAfter
  <1>10. CASE Comma
    <2>1. PICK next : next = IF Last(o) = "object" THEN "key" ELSE "value"
      OBVIOUS
    <2>2. /\ e = "comma_or_close" /\ members' = ms
          /\ WriteLexeme(<<"comma">>, next, o)
      BY <1>1, <1>2, <1>10, <2>1 DEF Comma, Top
    <2>3. /\ text' = t \o <<"comma">> /\ keys' = ks
          /\ grammar' = [expect |-> next, open |-> o]
      BY <1>1, <2>2, Written
    <2>4. Holds(t \o <<"comma">>, next, o, ks, ms)
      BY <1>1, <2>1, <2>2, CommaHolds
    <2> QED
      BY <2>2, <2>3, <2>4, InvAfter
  <1>11. CASE Literal
    <2>1. PICK m : m = [key |-> Last(ks), string |-> FALSE, value |-> <<>>]
      OBVIOUS
    <2>2. /\ e \in {"value", "value_or_close"}
          /\ WriteLexeme(<<"1">>, "comma_or_close", o)
          /\ RecordMember(FALSE, <<>>)
      BY <1>2, <1>4, <1>11 DEF Literal
    <2>3. members' = IF Len(o) = 1 THEN Append(ms, m) ELSE ms
      BY <1>1, <1>3, <2>1, <2>2, NewMember
    <2>4. /\ text' = t \o <<"1">> /\ keys' = ks
          /\ grammar' = [expect |-> "comma_or_close", open |-> o]
      BY <1>1, <2>2, Written
    <2>5. <<>> \in Seq(Bytes)
      OBVIOUS
    <2>6. Holds(t \o <<"1">>, "comma_or_close", o, ks,
                IF Len(o) = 1 THEN Append(ms, m) ELSE ms)
      BY <1>1, <2>1, <2>2, <2>5, ValueHolds
    <2> QED
      BY <2>3, <2>4, <2>6, InvAfter
  <1>12. CASE Space
    <2>1. members' = ms /\ WriteLexeme(<<"space">>, e, o)
      BY <1>1, <1>2, <1>12 DEF Space
    <2>2. /\ text' = t \o <<"space">> /\ keys' = ks
          /\ grammar' = [expect |-> e, open |-> o]
      BY <1>1, <2>1, Written
    <2>3. Holds(t \o <<"space">>, e, o, ks, ms)
      BY <1>1, SpaceHolds
    <2> QED
      BY <2>1, <2>2, <2>3, InvAfter
  <1>13. ASSUME NEW w \in Strings, StringValue(w)
         PROVE  ClientInv'
    <2>1. PICK m : m = [key |-> Last(ks), string |-> TRUE, value |-> w]
      OBVIOUS
    <2>2. /\ e \in {"value", "value_or_close"}
          /\ WriteLexeme(Quoted(w), "comma_or_close", o)
          /\ RecordMember(TRUE, w)
      BY <1>2, <1>4, <1>13 DEF StringValue
    <2>3. members' = IF Len(o) = 1 THEN Append(ms, m) ELSE ms
      BY <1>1, <1>3, <2>1, <2>2, NewMember
    <2>4. /\ text' = t \o Quoted(w) /\ keys' = ks
          /\ grammar' = [expect |-> "comma_or_close", open |-> o]
      BY <1>1, <2>2, Written
    <2>5. w \in Seq(Bytes)
      BY BytesAre
    <2>6. Holds(t \o Quoted(w), "comma_or_close", o, ks,
                IF Len(o) = 1 THEN Append(ms, m) ELSE ms)
      BY <1>1, <2>1, <2>2, <2>5, ValueHolds
    <2> QED
      BY <2>3, <2>4, <2>6, InvAfter
  <1>14. ASSUME NEW w \in Strings, NEW gap \in {<<>>, <<"space">>}, Key(w, gap)
         PROVE  ClientInv'
    <2>1. /\ e \in {"key", "key_or_close"} /\ members' = ms
          /\ text' = t \o Quoted(w) \o gap \o <<"colon">> \o gap
          /\ grammar' = [expect |-> "value", open |-> o]
          /\ keys' = IF Len(o) = 1 THEN Append(ks, w) ELSE ks
      BY <1>1, <1>2, <1>14 DEF Key
    <2>2. gap \in Gaps
      BY DEF Gaps
    <2>3. Holds(t \o Quoted(w) \o gap \o <<"colon">> \o gap, "value", o,
                IF Len(o) = 1 THEN Append(ks, w) ELSE ks, ms)
      BY <1>1, <2>1, <2>2, KeyHolds
    <2> QED
      BY <2>1, <2>3, InvAfter
  <1>15. CASE (\E b \in DigestBytes : GrowDigest(b)) \/ ClientDataComplete
    <2>1. text' = t /\ grammar' = [expect |-> e, open |-> o] /\ keys' = ks /\ members' = ms
      BY <1>1, <1>15 DEF GrowDigest, ClientDataComplete, jvars
    <2> QED
      BY <1>1, <2>1, InvAfter
  <1> QED
    BY <1>7, <1>8, <1>9, <1>10, <1>11, <1>12, <1>13, <1>14, <1>15 DEF ClientDataNext

(***************************************************************************)
(* The scanner of extract_top_level_string_field follows the object at the *)
(* top, for strings, names and texts of any number and length.             *)
(***************************************************************************)
THEOREM ScannerFollowsGrammar == ClientDataSpec => []ClientInv
  <1>1. ClientInv /\ UNCHANGED jvars => ClientInv'
    <2> SUFFICES ASSUME ClientInv, UNCHANGED jvars
                 PROVE  ClientInv'
      OBVIOUS
    <2>1. PICK t, e, o, ks, ms :
             /\ Holds(t, e, o, ks, ms)
             /\ text = t /\ grammar = [expect |-> e, open |-> o]
             /\ keys = ks /\ members = ms
      BY InvView
    <2>2. text' = t /\ grammar' = [expect |-> e, open |-> o] /\ keys' = ks /\ members' = ms
      BY <2>1 DEF jvars
    <2> QED
      BY <2>1, <2>2, InvAfter
  <1>2. ClientInv /\ [ClientDataNext]_jvars => ClientInv'
    BY <1>1, ClientNextKeeps
  <1> QED
    BY <1>2, ClientInitHolds, PTL DEF ClientDataSpec

(***************************************************************************)
(* What the scanner has found is a member, the first that could have the   *)
(* name.                                                                   *)
(***************************************************************************)
LEMMA FoundIsSound == ClientInv => ExtractIsSound
  <1> SUFFICES ASSUME ClientInv, NEW field \in Fields, Extract(text, field).ok
               PROVE  \E i \in Named(field) :
                         /\ members[i].string
                         /\ members[i].value = Extract(text, field).value
                         /\ ~ Escaped(Extract(text, field).value)
                         /\ \A j \in 1 .. i - 1 :
                              members[j].key # field /\ ~ Escaped(members[j].key)
    BY DEF ExtractIsSound
  <1>1. PICK t, e, o, ks, ms :
           /\ Holds(t, e, o, ks, ms) /\ text = t /\ members = ms
    BY InvView
  <1>2. t \in Seq(Bytes) /\ Told(t, field, e, o, ks, ms)
    BY <1>1 DEF Holds
  <1>3. PICK scan \in Scans : Scanned(t, scan, field) /\ Tells(scan, field, e, o, ks, ms, t)
    BY <1>2 DEF Told
  <1>4. Extract(t, field) = [ok |-> scan.mode = "ok", value |-> scan.value]
    BY <1>2, <1>3, ScannedIsExtracted
  <1>5. Extract(text, field).ok <=> scan.mode = "ok"
    <2>1. PICK found \in BOOLEAN : found <=> scan.mode = "ok"
      OBVIOUS
    <2>2. Extract(t, field) = [ok |-> found, value |-> scan.value]
      BY <1>4, <2>1
    <2>3. Extract(t, field).ok = found
      BY <2>2
    <2> QED
      BY <1>1, <2>1, <2>3
  <1>6. Extract(text, field).value = scan.value
    BY <1>1, <1>4
  <1>7. scan.mode = "ok"
    BY <1>5
  <1>8. FoundIn(scan.value, field, ms)
    <2>1. ~ Position(scan, e, o, ks)
      BY <1>7 DEF Position
    <2> QED
      BY <1>3, <1>7, <2>1 DEF Tells
  <1>9. PICK i \in DOMAIN ms :
           /\ ms[i].key = field /\ ms[i].string
           /\ ms[i].value = scan.value /\ ~ Escaped(scan.value)
           /\ \A j \in 1 .. i - 1 : ms[j].key # field /\ ~ Escaped(ms[j].key)
    BY <1>8 DEF FoundIn
  <1>10. i \in Named(field)
    BY <1>1, <1>9 DEF Named
  <1> QED
    BY <1>1, <1>6, <1>9, <1>10

(***************************************************************************)
(* A scanner that has not found the member is not at its end without       *)
(* reason.                                                                 *)
(***************************************************************************)
LEMMA FoundIsComplete == ClientInv => ExtractIsComplete
  <1> SUFFICES ASSUME ClientInv, "escape" \notin Range(text), NEW field \in Fields,
                      NEW i \in Named(field), members[i].string,
                      \A j \in Named(field) : i <= j
               PROVE  Extract(text, field).ok
    BY DEF ExtractIsComplete
  <1>1. PICK t, e, o, ks, ms :
           /\ Holds(t, e, o, ks, ms) /\ text = t /\ members = ms
    BY InvView
  <1>2. t \in Seq(Bytes) /\ ms \in Seq(Members) /\ Told(t, field, e, o, ks, ms)
    BY <1>1 DEF Holds
  <1>3. PICK scan \in Scans : Scanned(t, scan, field) /\ Tells(scan, field, e, o, ks, ms, t)
    BY <1>2 DEF Told
  <1>4. Extract(t, field) = [ok |-> scan.mode = "ok", value |-> scan.value]
    BY <1>2, <1>3, ScannedIsExtracted
  <1>5. i \in DOMAIN ms /\ ms[i].key = field /\ ms[i].string
    BY <1>1 DEF Named
  <1>6. ~ Passed(field, ms)
    BY <1>5 DEF Passed
  <1>7. ~ Refused(field, ms, t)
    <2>1. ASSUME NEW k \in DOMAIN ms, ms[k].key = field, ~ ms[k].string,
                 \A j \in DOMAIN ms : ms[j].key = field => k <= j
          PROVE  FALSE
      <3>1. k \in Named(field)
        BY <1>1, <2>1 DEF Named
      <3>2. i <= k /\ k <= i
        BY <1>5, <2>1, <3>1
      <3>3. i \in Nat /\ k \in Nat
        <4>1. PICK n \in Nat : DOMAIN ms = 1 .. n
          BY <1>2
        <4> QED
          BY <1>5, <4>1
      <3>4. i = k
        BY <3>2, <3>3
      <3> QED
        BY <1>5, <2>1, <3>4
    <2>2. "escape" \notin Range(t)
      BY <1>1
    <2> QED
      BY <2>1, <2>2 DEF Refused
  <1>8. scan.mode = "ok"
    BY <1>3, <1>6, <1>7 DEF Tells
  <1>9. Extract(t, field) = [ok |-> TRUE, value |-> scan.value]
    BY <1>4, <1>8
  <1>10. Extract(t, field).ok
    BY <1>9
  <1> QED
    BY <1>1, <1>10

(***************************************************************************)
(* What extract_top_level_string_field returns for a name is the value of  *)
(* the first member of that name, whatever the strings, the nested values  *)
(* and the other members around it hold.                                   *)
(***************************************************************************)
THEOREM ExtractStaysSound == ClientDataSpec => []ExtractIsSound
  BY ScannerFollowsGrammar, FoundIsSound, PTL

(***************************************************************************)
(* It refuses no text without escapes whose first member of the name is a  *)
(* string.                                                                 *)
(***************************************************************************)
THEOREM ExtractStaysComplete == ClientDataSpec => []ExtractIsComplete
  BY ScannerFollowsGrammar, FoundIsComplete, PTL

-----------------------------------------------------------------------------
(* base64url_encode_no_pad *)

(***************************************************************************)
(* What a byte is worth.                                                   *)
(***************************************************************************)
Octets == 0 .. 255

(***************************************************************************)
(* The digits of 24 bits, from those of its three bytes.                   *)
(***************************************************************************)
LEMMA DigitsOfBytes ==
    ASSUME NEW x \in Octets, NEW y \in Octets, NEW z \in Octets,
           NEW b, b = 65536 * x + 256 * y + z
    PROVE  /\ (b \div 262144) % 64 = x \div 4
           /\ (b \div 4096) % 64 = 16 * (x % 4) + y \div 16
           /\ (b \div 64) % 64 = 4 * (y % 16) + z \div 64
           /\ b % 64 = z % 64
  BY SMTT(60) DEF Octets

(***************************************************************************)
(* Bytes are read back from such digits.                                   *)
(***************************************************************************)
LEMMA BytesOfDigits ==
    ASSUME NEW x \in Octets, NEW y \in Octets, NEW z \in Octets
    PROVE  /\ x = 4 * (x \div 4) + (16 * (x % 4) + y \div 16) \div 16
           /\ y = 16 * ((16 * (x % 4) + y \div 16) % 16) + (4 * (y % 16) + z \div 64) \div 4
           /\ z = 64 * ((4 * (y % 16) + z \div 64) % 4) + (z % 64)
  BY SMTT(60) DEF Octets

(***************************************************************************)
(* The digits of a chunk of three bytes.                                   *)
(***************************************************************************)
LEMMA ChunkOfThree ==
    ASSUME NEW x \in Octets, NEW y \in Octets, NEW z \in Octets
    PROVE  EncodeChunk(<<x, y, z>>)
             = <<x \div 4, 16 * (x % 4) + y \div 16, 4 * (y % 16) + z \div 64, z % 64>>
  <1>1. PICK b : b = 65536 * x + 256 * y + z
    OBVIOUS
  <1>2. Bits24(<<x, y, z>>) = b
    BY <1>1 DEF Bits24
  <1>3. Digits24(b)
          = <<x \div 4, 16 * (x % 4) + y \div 16, 4 * (y % 16) + z \div 64, z % 64>>
    BY <1>1, DigitsOfBytes DEF Digits24
  <1>4. Len(<<x, y, z>>) + 1 = 4
    OBVIOUS
  <1>5. EncodeChunk(<<x, y, z>>) = SubSeq(Digits24(b), 1, 4)
    BY <1>2, <1>4 DEF EncodeChunk
  <1>6. PICK d \in Int, e \in Int, f \in Int, g \in Int :
           /\ d = x \div 4 /\ e = 16 * (x % 4) + y \div 16
           /\ f = 4 * (y % 16) + z \div 64 /\ g = z % 64
    BY DEF Octets
  <1> QED
    BY <1>3, <1>5, <1>6, FirstOfFour

(***************************************************************************)
(* Of two, where the third digit ends in zeros.                            *)
(***************************************************************************)
LEMMA ChunkOfTwo ==
    ASSUME NEW x \in Octets, NEW y \in Octets
    PROVE  EncodeChunk(<<x, y>>)
             = <<x \div 4, 16 * (x % 4) + y \div 16, 4 * (y % 16)>>
  <1>1. PICK b : b = 65536 * x + 256 * y
    OBVIOUS
  <1>2. Bits24(<<x, y>>) = b
    BY <1>1 DEF Bits24
  <1>3. PICK h \in Int :
           Digits24(b) = <<x \div 4, 16 * (x % 4) + y \div 16, 4 * (y % 16), h>>
    <2>1. PICK z \in Octets : z = 0
      BY DEF Octets
    <2>2. b = 65536 * x + 256 * y + z /\ z \div 64 = 0
      BY <1>1, <2>1 DEF Octets
    <2>3. /\ (b \div 262144) % 64 = x \div 4
          /\ (b \div 4096) % 64 = 16 * (x % 4) + y \div 16
          /\ (b \div 64) % 64 = 4 * (y % 16) + z \div 64
      BY <2>2, DigitsOfBytes
    <2>4. 4 * (y % 16) + z \div 64 = 4 * (y % 16)
      BY <2>1, <2>2 DEF Octets
    <2>5. (b \div 64) % 64 \in Int /\ b % 64 \in Int
      BY <1>1 DEF Octets
    <2> QED
      BY <2>3, <2>4, <2>5 DEF Digits24
  <1>4. Len(<<x, y>>) + 1 = 3
    OBVIOUS
  <1>5. EncodeChunk(<<x, y>>) = SubSeq(Digits24(b), 1, 3)
    BY <1>2, <1>4 DEF EncodeChunk
  <1>6. PICK d \in Int, e \in Int, f \in Int :
           /\ d = x \div 4 /\ e = 16 * (x % 4) + y \div 16 /\ f = 4 * (y % 16)
    BY DEF Octets
  <1> QED
    BY <1>3, <1>5, <1>6, FirstOfFour

(***************************************************************************)
(* Of one.                                                                 *)
(***************************************************************************)
LEMMA ChunkOfOne ==
    ASSUME NEW x \in Octets
    PROVE  EncodeChunk(<<x>>) = <<x \div 4, 16 * (x % 4)>>
  <1>1. PICK b : b = 65536 * x
    OBVIOUS
  <1>2. Bits24(<<x>>) = b
    BY <1>1 DEF Bits24
  <1>3. PICK g \in Int, h \in Int :
           Digits24(b) = <<x \div 4, 16 * (x % 4), g, h>>
    <2>1. PICK y \in Octets : y = 0
      BY DEF Octets
    <2>2. b = 65536 * x + 256 * y + y /\ y \div 16 = 0
      BY <1>1, <2>1 DEF Octets
    <2>3. /\ (b \div 262144) % 64 = x \div 4
          /\ (b \div 4096) % 64 = 16 * (x % 4) + y \div 16
      BY <2>2, DigitsOfBytes
    <2>4. 16 * (x % 4) + y \div 16 = 16 * (x % 4)
      BY <2>1, <2>2 DEF Octets
    <2>5. (b \div 64) % 64 \in Int /\ b % 64 \in Int
      BY <1>1 DEF Octets
    <2> QED
      BY <2>3, <2>4, <2>5 DEF Digits24
  <1>4. Len(<<x>>) + 1 = 2
    OBVIOUS
  <1>5. EncodeChunk(<<x>>) = SubSeq(Digits24(b), 1, 2)
    BY <1>2, <1>4 DEF EncodeChunk
  <1>6. PICK d \in Int, e \in Int : d = x \div 4 /\ e = 16 * (x % 4)
    BY DEF Octets
  <1> QED
    BY <1>3, <1>5, <1>6, FirstOfFour

(***************************************************************************)
(* The j-th byte of a chunk is read back from its digits j and j + 1.      *)
(***************************************************************************)
ReadsBack(chunk, digits, c) ==
    /\ Len(digits) = c + 1
    /\ \A j \in 1 .. c : DecodedByte(j, digits[j], digits[j + 1]) = chunk[j]

(***************************************************************************)
(* So it is for chunks of one, two and three bytes.                        *)
(***************************************************************************)
LEMMA ChunkReadsBack ==
    ASSUME NEW chunk \in Seq(Octets), NEW c \in 1 .. 3, Len(chunk) = c
    PROVE  /\ EncodeChunk(chunk) \in Seq(Int)
           /\ ReadsBack(chunk, EncodeChunk(chunk), c)
  <1>1. CASE c = 3
    <2>1. PICK x \in Octets, y \in Octets, z \in Octets :
             x = chunk[1] /\ y = chunk[2] /\ z = chunk[3]
      <3>1. chunk[1] \in Octets /\ chunk[2] \in Octets /\ chunk[3] \in Octets
        BY <1>1
      <3> QED
        BY <3>1
    <2>2. chunk = <<x, y, z>>
      BY <1>1, <2>1
    <2>3. PICK d \in Int, e \in Int, f \in Int, g \in Int :
             /\ d = x \div 4 /\ e = 16 * (x % 4) + y \div 16
             /\ f = 4 * (y % 16) + z \div 64 /\ g = z % 64
      BY DEF Octets
    <2>4. EncodeChunk(chunk) = <<d, e, f, g>>
      BY <2>2, <2>3, ChunkOfThree
    <2>5. /\ x = 4 * d + e \div 16
          /\ y = 16 * (e % 16) + f \div 4
          /\ z = 64 * (f % 4) + g
      BY <2>3, BytesOfDigits
    <2>6. /\ DecodedByte(1, d, e) = x
          /\ DecodedByte(2, e, f) = y
          /\ DecodedByte(3, f, g) = z
      BY <2>5 DEF DecodedByte
    <2>7. 1 .. c = {1, 2, 3}
      BY <1>1
    <2>8. PICK o : o = EncodeChunk(chunk)
      OBVIOUS
    <2>9. /\ o \in Seq(Int) /\ Len(o) = 4
          /\ o[1] = d /\ o[2] = e /\ o[3] = f /\ o[4] = g
      BY <2>4, <2>8, QuadIsSeq
    <2>10. ASSUME NEW j \in 1 .. c
           PROVE  DecodedByte(j, o[j], o[j + 1]) = chunk[j]
      <3>1. j = 1 \/ j = 2 \/ j = 3
        BY <2>7
      <3>2. 1 + 1 = 2 /\ 2 + 1 = 3 /\ 3 + 1 = 4
        OBVIOUS
      <3> QED
        BY <2>1, <2>6, <2>9, <3>1, <3>2
    <2>11. Len(o) = c + 1
      BY <1>1, <2>9
    <2>12. ReadsBack(chunk, o, c)
      BY <2>10, <2>11 DEF ReadsBack
    <2> QED
      BY <2>8, <2>9, <2>12
  <1>2. CASE c = 2
    <2>1. PICK x \in Octets, y \in Octets : x = chunk[1] /\ y = chunk[2]
      <3>1. chunk[1] \in Octets /\ chunk[2] \in Octets
        <4>1. 1 \in 1 .. Len(chunk) /\ 2 \in 1 .. Len(chunk)
          BY <1>2
        <4>2. \A i \in 1 .. Len(chunk) : chunk[i] \in Octets
          OBVIOUS
        <4> QED
          BY <4>1, <4>2
      <3> QED
        BY <3>1
    <2>2. chunk = <<x, y>>
      BY <1>2, <2>1
    <2>3. PICK d \in Int, e \in Int, f \in Int :
             /\ d = x \div 4 /\ e = 16 * (x % 4) + y \div 16 /\ f = 4 * (y % 16)
      BY DEF Octets
    <2>4. EncodeChunk(chunk) = <<d, e, f>>
      BY <2>2, <2>3, ChunkOfTwo
    <2>5. /\ x = 4 * d + e \div 16
          /\ y = 16 * (e % 16) + f \div 4
      BY <2>3, SMTT(60) DEF Octets
    <2>6. DecodedByte(1, d, e) = x /\ DecodedByte(2, e, f) = y
      BY <2>5 DEF DecodedByte
    <2>7. 1 .. c = {1, 2}
      BY <1>2
    <2> QED
      BY <1>2, <2>1, <2>4, <2>6, <2>7 DEF ReadsBack
  <1>3. CASE c = 1
    <2>1. PICK x \in Octets : x = chunk[1]
      BY <1>3
    <2>2. chunk = <<x>>
      BY <1>3, <2>1
    <2>3. PICK d \in Int, e \in Int : d = x \div 4 /\ e = 16 * (x % 4)
      BY DEF Octets
    <2>4. EncodeChunk(chunk) = <<d, e>>
      BY <2>2, <2>3, ChunkOfOne
    <2>5. x = 4 * d + e \div 16
      BY <2>3, SMTT(60) DEF Octets
    <2>6. DecodedByte(1, d, e) = x
      BY <2>5 DEF DecodedByte
    <2>7. 1 .. c = {1}
      BY <1>3
    <2> QED
      BY <1>3, <2>1, <2>4, <2>6, <2>7 DEF ReadsBack
  <1> QED
    BY <1>1, <1>2, <1>3

(***************************************************************************)
(* The fold of base64url_encode_no_pad.                                    *)
(***************************************************************************)
IsEncoding(g, chunks, D) ==
    g = [s \in SUBSET D |->
           IF s = {} THEN <<>>
           ELSE g[s \ {Max(s)}] \o EncodeChunk(chunks[Max(s)])]

(***************************************************************************)
(* p has the digits of each of the chunks.                                 *)
(***************************************************************************)
AreDigits(p, chunks, n) ==
    \A k \in 1 .. n : p[k] = EncodeChunk(chunks[k]) /\ p[k] \in Seq(Int)

(***************************************************************************)
(* It puts the digits of one chunk behind those of another.                *)
(***************************************************************************)
LEMMA EncodingIsConcat ==
    ASSUME NEW bytes, NEW n \in Nat, DOMAIN Chunks(bytes) = 1 .. n,
           NEW p, AreDigits(p, Chunks(bytes), n)
    PROVE  \E acc : IsConcat(acc, n, Int, <<>>, p) /\ acc[n] = Base64(bytes)
  <1>0. PICK D : D = 1 .. n
    OBVIOUS
  <1>1. PICK base \in Seq(Int) : base = <<>>
    BY EmptySeq
  <1>20. PICK chunks : chunks = Chunks(bytes)
    OBVIOUS
  <1>2. Base64(bytes) = (CHOOSE g : IsEncoding(g, chunks, D))[D]
    BY <1>0, <1>20 DEF Base64, FoldLeft, MapThenFoldSet, IsEncoding
  <1>3. \A s \in SUBSET D : s # {} => Max(s) \in s
    BY <1>0, Largest
  <1>4. \E g : IsEncoding(g, chunks, D)
    <2>1. PICK g \in [SUBSET D -> Seq(Int)] : IsJoin(g, D, base, p)
      <3>1. AreLists(p, n, Int)
        BY DEF AreDigits, AreLists
      <3> QED
        BY <1>0, <3>1, JoinExists
    <2>2. IsEncoding(g, chunks, D)
      <3>1. ASSUME NEW s \in SUBSET D
            PROVE  g[s] = IF s = {} THEN <<>>
                          ELSE g[s \ {Max(s)}] \o EncodeChunk(chunks[Max(s)])
        <4>1. CASE s = {}
          BY <1>1, <2>1, <4>1 DEF IsJoin
        <4>2. CASE s # {}
          <5>1. PICK m \in D : m = Max(s)
            BY <1>3, <4>2
          <5>2. g[s] = g[s \ {m}] \o p[m]
            BY <2>1, <4>2, <5>1 DEF IsJoin
          <5>3. p[m] = EncodeChunk(chunks[m])
            BY <1>0, <1>20 DEF AreDigits
          <5> QED
            BY <4>2, <5>1, <5>2, <5>3
        <4> QED
          BY <4>1, <4>2
      <3> QED
        BY <2>1, <3>1 DEF IsEncoding
    <2> QED
      BY <2>2
  <1>5. PICK g : /\ g = (CHOOSE w : IsEncoding(w, chunks, D))
                 /\ IsEncoding(g, chunks, D)
    BY <1>4
  <1>6. IsJoin(g, D, base, p)
    <2>1. ASSUME NEW s \in SUBSET D
          PROVE  g[s] = IF s = {} THEN base ELSE g[s \ {Max(s)}] \o p[Max(s)]
      <3>1. g[s] = IF s = {} THEN <<>>
                   ELSE g[s \ {Max(s)}] \o EncodeChunk(chunks[Max(s)])
        BY <1>5 DEF IsEncoding
      <3>2. CASE s = {}
        BY <1>1, <3>1, <3>2
      <3>3. CASE s # {}
        <4>1. PICK m \in D : m = Max(s)
          BY <1>3, <3>3
        <4>2. p[m] = EncodeChunk(chunks[m])
          BY <1>0, <1>20 DEF AreDigits
        <4> QED
          BY <3>1, <3>3, <4>1, <4>2
      <3> QED
        BY <3>2, <3>3
    <2> QED
      BY <2>1 DEF IsJoin
  <1>7. \E acc : IsConcat(acc, n, Int, base, p) /\ acc[n] = g[1 .. n]
    <2>1. AreLists(p, n, Int)
      BY DEF AreDigits, AreLists
    <2>2. IsJoin(g, 1 .. n, base, p)
      BY <1>0, <1>6
    <2> QED
      BY <2>1, <2>2, JoinIsConcat
  <1> QED
    BY <1>0, <1>1, <1>2, <1>5, <1>7

(***************************************************************************)
(* The length of the p-th of q chunks of n bytes: only the last is short.  *)
(***************************************************************************)
ChunkLen(n, q, p) == IF p < q THEN 3 ELSE n - 3 * (q - 1)

(***************************************************************************)
(* The chunks cover the n bytes, and no more.                              *)
(***************************************************************************)
Counted(n, q) ==
    /\ q \in Nat /\ 3 * q >= n /\ 3 * q <= n + 2
    /\ \A p \in 1 .. q :
          /\ ChunkLen(n, q, p) \in 1 .. 3
          /\ 3 * (p - 1) + ChunkLen(n, q, p) <= n
          /\ 3 * p < n => 3 * p = 3 * (p - 1) + ChunkLen(n, q, p)
          /\ ~ (3 * p < n) => n = 3 * (p - 1) + ChunkLen(n, q, p)

(***************************************************************************)
(* So they do if q is n / 3, rounded up.                                   *)
(***************************************************************************)
LEMMA ChunkCount ==
    ASSUME NEW n \in Nat
    PROVE  Counted(n, (n + 2) \div 3)
  <1>0. PICK q : q = (n + 2) \div 3
    OBVIOUS
  <1>1. q \in Nat /\ 3 * q >= n /\ 3 * q <= n + 2
    BY <1>0
  <1>2. ASSUME NEW p \in 1 .. q
        PROVE  /\ ChunkLen(n, q, p) \in 1 .. 3
               /\ 3 * (p - 1) + ChunkLen(n, q, p) <= n
               /\ 3 * p < n => 3 * p = 3 * (p - 1) + ChunkLen(n, q, p)
               /\ ~ (3 * p < n) => n = 3 * (p - 1) + ChunkLen(n, q, p)
    <2>1. p < q => 3 * p <= 3 * (q - 1)
      BY <1>1
    <2>2. ~ (p < q) => p = q
      BY <1>1
    <2> QED
      BY <1>1, <2>1, <2>2 DEF ChunkLen
  <1>3. Counted(n, q)
    BY <1>1, <1>2 DEF Counted
  <1> QED
    BY <1>0, <1>3

(***************************************************************************)
(* The bytes of the p-th chunk.                                            *)
(***************************************************************************)
LEMMA ChunkEntries ==
    ASSUME NEW bytes \in Seq(Octets), NEW n \in Nat, n = Len(bytes),
           NEW q \in Nat, Counted(n, q), DOMAIN Chunks(bytes) = 1 .. q,
           NEW p \in 1 .. q, NEW c \in 1 .. 3, c = ChunkLen(n, q, p)
    PROVE  /\ Chunks(bytes)[p] \in Seq(Octets) /\ Len(Chunks(bytes)[p]) = c
           /\ \A j \in 1 .. c : Chunks(bytes)[p][j] = bytes[3 * (p - 1) + j]
  <1>1. PICK from \in Nat : from = 3 * (p - 1)
    OBVIOUS
  <1>2. /\ from + c <= n
        /\ 3 * p < n => 3 * p = from + c
        /\ ~ (3 * p < n) => n = from + c
    <2>2. /\ 3 * (p - 1) + c <= n
          /\ 3 * p < n => 3 * p = 3 * (p - 1) + c
          /\ ~ (3 * p < n) => n = 3 * (p - 1) + c
      BY Zenon DEF Counted
    <2> QED
      BY <1>1, <2>2
  <1>3. Chunks(bytes)[p] = SubSeq(bytes, from + 1, from + c)
    <2>1. 3 * p - 2 = from + 1
      BY <1>1
    <2>2. Chunks(bytes)[p] = SubSeq(bytes, 3 * p - 2, IF 3 * p < n THEN 3 * p ELSE n)
      <3>1. p \in DOMAIN Chunks(bytes)
        OBVIOUS
      <3> QED
        BY <3>1 DEF Chunks
    <2> QED
      BY <1>2, <2>1, <2>2
  <1>4. PICK m \in Nat \ {0}, last \in Nat :
           m = from + 1 /\ last = from + c /\ last <= n /\ m <= last + 1
    <2>1. from + 1 \in Nat \ {0} /\ from + c \in Nat /\ from + 1 <= (from + c) + 1
      OBVIOUS
    <2> QED
      BY <1>2, <2>1
  <1>5. PICK part : part = SubSeq(bytes, m, last)
    OBVIOUS
  <1>6. part \in Seq(Octets) /\ Len(part) = last - m + 1
    BY <1>4, <1>5, PartIn
  <1>7. ASSUME NEW j \in 1 .. c
        PROVE  part[j] = bytes[from + j]
    <2>1. j \in 1 .. last - m + 1 /\ m + j - 1 = from + j
      BY <1>4
    <2>2. part[j] = bytes[m + j - 1]
      BY <1>4, <1>5, <2>1, SubSeqProperties
    <2> QED
      BY <2>1, <2>2
  <1>8. last - m + 1 = c
    BY <1>4
  <1>9. part = Chunks(bytes)[p]
    BY <1>3, <1>4, <1>5
  <1> QED
    BY <1>1, <1>6, <1>7, <1>8, <1>9

(***************************************************************************)
(* Each chunk has one digit more than it has bytes.                        *)
(***************************************************************************)
OneMore(digits, n, q) ==
    \A k \in 1 .. q : /\ digits[k] \in Seq(Int)
                      /\ Len(digits[k]) = ChunkLen(n, q, k) + 1

(***************************************************************************)
(* The digits of the p-th chunk start behind 4 * (p - 1) others.           *)
(***************************************************************************)
LEMMA DigitsLaidOut ==
    ASSUME NEW n \in Nat, NEW q \in Nat, Counted(n, q), NEW digits, NEW acc,
           IsConcat(acc, q, Int, <<>>, digits),
           OneMore(digits, n, q)
    PROVE  /\ acc[q] \in Seq(Int) /\ Len(acc[q]) = n + q
           /\ \A p \in 1 .. q : \A i \in 1 .. ChunkLen(n, q, p) + 1 :
                 acc[q][4 * (p - 1) + i] = digits[p][i]
  <1>1. PICK c \in [1 .. q -> 1 .. 3] : \A p \in 1 .. q : c[p] = ChunkLen(n, q, p)
    <2>1. \A p \in 1 .. q : ChunkLen(n, q, p) \in 1 .. 3
      BY DEF Counted
    <2>2. PICK c : c = [p \in 1 .. q |-> ChunkLen(n, q, p)]
      OBVIOUS
    <2> QED
      BY <2>1, <2>2
  <1>2. \A p \in 1 .. q : c[p] \in 1 .. 3 /\ (p < q => c[p] = 3)
    BY <1>1 DEF ChunkLen
  <1>3. q # 0 => c[q] = n - 3 * (q - 1)
    <2>1. ~ (q < q)
      OBVIOUS
    <2>2. q # 0 => q \in 1 .. q
      OBVIOUS
    <2> QED
      BY <1>1, <2>1, <2>2 DEF ChunkLen
  <1>4. q = 0 => n = 0
    BY DEF Counted
  <1> DEFINE LenAt(k) == IF k < q THEN 4 * k ELSE n + q
  <1> DEFINE Q ==
        {k \in 0 .. q :
           /\ Len(acc[k]) = LenAt(k)
           /\ \A p \in 1 .. k : \A i \in 1 .. c[p] + 1 :
                 acc[k][4 * (p - 1) + i] = digits[p][i]}
  <1>5. 0 \in Q
    <2>1. acc[0] = <<>> /\ 0 \in 0 .. q
      BY DEF IsConcat
    <2>2. Len(acc[0]) = 0
      BY <2>1
    <2>3. LenAt(0) = 0
      BY <1>4
    <2>4. 1 .. 0 = {}
      OBVIOUS
    <2> QED
      BY <2>1, <2>2, <2>3, <2>4
  <1>6. ASSUME NEW k \in 1 .. q, k - 1 \in Q
        PROVE  k \in Q
    <2>1. PICK a \in Seq(Int), b \in Seq(Int) : a = acc[k - 1] /\ b = acc[k]
      BY SMTT(40) DEF IsConcat
    <2>2. PICK e \in Seq(Int) : e = digits[k]
      BY DEF OneMore
    <2>3. PICK d \in 1 .. 3 : d = c[k]
      BY <1>2
    <2>4. b = a \o e
      BY <2>1, <2>2 DEF IsConcat
    <2>5. PICK from \in Nat : from = 4 * (k - 1)
      OBVIOUS
    <2>6. Len(a) = from
      <3>1. k - 1 < q
        OBVIOUS
      <3>2. LenAt(k - 1) = 4 * (k - 1)
        BY <3>1
      <3> QED
        BY <1>6, <2>1, <2>5, <3>2
    <2>7. Len(e) = d + 1
      BY <1>1, <2>2, <2>3 DEF OneMore
    <2>8. /\ Len(b) = from + (d + 1)
          /\ \A i \in 1 .. from : b[i] = a[i]
          /\ \A i \in 1 .. d + 1 : b[from + i] = e[i]
      <3>1. /\ Len(a \o e) = Len(a) + Len(e)
            /\ \A i \in 1 .. Len(a) : (a \o e)[i] = a[i]
            /\ \A i \in 1 .. Len(e) : (a \o e)[Len(a) + i] = e[i]
        BY ConcatProperties
      <3> QED
        BY <2>4, <2>6, <2>7, <3>1
    <2>9. Len(acc[k]) = LenAt(k)
      <3>1. CASE k < q
        <4>1. d = 3
          BY <1>2, <2>3, <3>1
        <4>2. LenAt(k) = 4 * k
          BY <3>1
        <4> QED
          BY <2>1, <2>5, <2>8, <4>1, <4>2
      <3>2. CASE ~ (k < q)
        <4>1. k = q
          BY <3>2
        <4>2. d = n - 3 * (k - 1)
          BY <1>3, <2>3, <4>1
        <4>3. LenAt(k) = n + k
          BY <4>1
        <4> QED
          BY <2>1, <2>5, <2>8, <4>2, <4>3
      <3> QED
        BY <3>1, <3>2
    <2>10. ASSUME NEW p \in 1 .. k, NEW i \in 1 .. c[p] + 1
           PROVE  acc[k][4 * (p - 1) + i] = digits[p][i]
      <3>1. CASE p = k
        BY <2>1, <2>2, <2>3, <2>5, <2>8, <3>1
      <3>2. CASE p # k
        <4>1. p \in 1 .. k - 1
          BY <3>2
        <4>2. PICK x \in 1 .. 3 : x = c[p]
          BY <1>2
        <4>3. 4 * (p - 1) + i \in 1 .. from
          BY <2>5, <4>1, <4>2
        <4>4. a[4 * (p - 1) + i] = digits[p][i]
          BY <1>6, <2>1, <4>1
        <4> QED
          BY <2>1, <2>8, <4>3, <4>4
      <3> QED
        BY <3>1, <3>2
    <2> QED
      BY <2>9, <2>10
  <1>7. q \in Q
    <2> HIDE DEF Q
    <2>1. 0 .. q \subseteq Q
      BY <1>5, <1>6, LoopInvariant
    <2> QED
      BY <2>1
  <1>8. acc[q] \in Seq(Int)
    BY DEF IsConcat
  <1>9. Len(acc[q]) = n + q
    <2>1. LenAt(q) = n + q
      OBVIOUS
    <2> QED
      BY <1>7, <2>1
  <1>10. ASSUME NEW p \in 1 .. q, NEW i \in 1 .. ChunkLen(n, q, p) + 1
         PROVE  acc[q][4 * (p - 1) + i] = digits[p][i]
    BY <1>1, <1>7
  <1> QED
    BY <1>8, <1>9, <1>10

(***************************************************************************)
(* The k-th byte is the j-th of the p-th chunk.                            *)
(***************************************************************************)
LEMMA ByteInChunk ==
    ASSUME NEW n \in Nat, NEW q \in Nat, Counted(n, q), NEW k \in 1 .. n
    PROVE  \E p \in 1 .. q : \E j \in 1 .. ChunkLen(n, q, p) :
              /\ j \in 1 .. 3 /\ k = 3 * (p - 1) + j /\ k % 3 = j % 3
              /\ (4 * (k - 1)) \div 3 = 4 * (p - 1) + (j - 1)
  <1>1. PICK p \in Nat, j \in 1 .. 3 : k = 3 * (p - 1) + j /\ p # 0
    <2>1. PICK p \in Nat : p = (k + 2) \div 3
      OBVIOUS
    <2>2. PICK j \in Int : j = k - 3 * (p - 1)
      OBVIOUS
    <2>3. j \in 1 .. 3 /\ k = 3 * (p - 1) + j /\ p # 0
      BY <2>1, <2>2
    <2> QED
      BY <2>3
  <1>2. p \in 1 .. q
    <2>1. 3 * q >= n
      BY DEF Counted
    <2> QED
      BY <1>1, <2>1
  <1>3. j \in 1 .. ChunkLen(n, q, p)
    <2>1. CASE p < q
      BY <2>1 DEF ChunkLen
    <2>2. CASE ~ (p < q)
      <3>1. p = q
        BY <1>2, <2>2
      <3>2. j \in 1 .. n - 3 * (q - 1)
        BY <1>1, <3>1
      <3> QED
        BY <2>2, <3>2 DEF ChunkLen
    <2> QED
      BY <2>1, <2>2
  <1>4. PICK r \in Nat : r = p - 1
    BY <1>1
  <1>5. k % 3 = j % 3 /\ (4 * (k - 1)) \div 3 = 4 * r + (j - 1)
    <2>1. k = 3 * r + j
      BY <1>1, <1>4
    <2>2. CASE j = 1
      BY <2>1, <2>2
    <2>3. CASE j = 2
      BY <2>1, <2>3
    <2>4. CASE j = 3
      BY <2>1, <2>4
    <2> QED
      BY <2>2, <2>3, <2>4
  <1> QED
    BY <1>1, <1>2, <1>3, <1>4, <1>5

(***************************************************************************)
(* Every list of bytes is read back from its digits.                       *)
(***************************************************************************)
LEMMA DigestReadsBack ==
    ASSUME NEW bytes \in Seq(Octets)
    PROVE  Decode(Base64(bytes)) = bytes
  <1>1. PICK n \in Nat : n = Len(bytes)
    OBVIOUS
  <1>2. PICK q : q = (n + 2) \div 3
    OBVIOUS
  <1>3. q \in Nat /\ Counted(n, q)
    BY <1>2, ChunkCount DEF Counted
  <1>4. PICK chunks : chunks = Chunks(bytes)
    OBVIOUS
  <1>5. DOMAIN chunks = 1 .. q
    BY <1>1, <1>2, <1>4 DEF Chunks
  <1>6. ASSUME NEW p \in 1 .. q
        PROVE  /\ EncodeChunk(chunks[p]) \in Seq(Int)
               /\ ReadsBack(chunks[p], EncodeChunk(chunks[p]), ChunkLen(n, q, p))
               /\ \A j \in 1 .. ChunkLen(n, q, p) : chunks[p][j] = bytes[3 * (p - 1) + j]
    <2>1. PICK c \in 1 .. 3 : c = ChunkLen(n, q, p)
      BY <1>3 DEF Counted
    <2>2. /\ chunks[p] \in Seq(Octets) /\ Len(chunks[p]) = c
          /\ \A j \in 1 .. c : chunks[p][j] = bytes[3 * (p - 1) + j]
      <3>1. DOMAIN Chunks(bytes) = 1 .. q
        BY <1>4, <1>5
      <3>2. /\ Chunks(bytes)[p] \in Seq(Octets) /\ Len(Chunks(bytes)[p]) = c
            /\ \A j \in 1 .. c : Chunks(bytes)[p][j] = bytes[3 * (p - 1) + j]
        BY <1>1, <1>3, <2>1, <3>1, ChunkEntries, ZenonT(40)
      <3> QED
        BY <1>4, <3>2
    <2>3. /\ EncodeChunk(chunks[p]) \in Seq(Int)
          /\ ReadsBack(chunks[p], EncodeChunk(chunks[p]), c)
      BY <2>2, ChunkReadsBack
    <2> QED
      BY <2>1, <2>2, <2>3
  <1>7. PICK digits : digits = [p \in 1 .. q |-> EncodeChunk(chunks[p])]
    OBVIOUS
  <1>8. \A p \in 1 .. q : /\ digits[p] = EncodeChunk(chunks[p])
                          /\ digits[p] \in Seq(Int)
                          /\ Len(digits[p]) = ChunkLen(n, q, p) + 1
    BY <1>6, <1>7 DEF ReadsBack
  <1>9. PICK acc : IsConcat(acc, q, Int, <<>>, digits) /\ acc[q] = Base64(bytes)
    <2>1. AreDigits(digits, Chunks(bytes), q)
      BY <1>4, <1>8 DEF AreDigits
    <2>2. DOMAIN Chunks(bytes) = 1 .. q
      BY <1>4, <1>5
    <2> QED
      BY <1>3, <2>1, <2>2, EncodingIsConcat
  <1>10. PICK d \in Seq(Int) :
            /\ d = Base64(bytes) /\ Len(d) = n + q
            /\ \A p \in 1 .. q : \A i \in 1 .. ChunkLen(n, q, p) + 1 :
                  d[4 * (p - 1) + i] = digits[p][i]
    <2>1. /\ acc[q] \in Seq(Int) /\ Len(acc[q]) = n + q
          /\ \A p \in 1 .. q : \A i \in 1 .. ChunkLen(n, q, p) + 1 :
                acc[q][4 * (p - 1) + i] = digits[p][i]
      <3>1. OneMore(digits, n, q)
        BY <1>8 DEF OneMore
      <3>2. IsConcat(acc, q, Int, <<>>, digits)
        BY <1>9
      <3> QED
        BY <1>3, <3>1, <3>2, DigitsLaidOut
    <2> QED
      BY <1>9, <2>1
  <1>11. (6 * Len(d)) \div 8 = n
    <2>1. 3 * q >= n /\ 3 * q <= n + 2
      BY <1>3 DEF Counted
    <2>2. PICK m \in Nat : m = n + q
      BY <1>3
    <2>3. (6 * m) \div 8 = n
      BY <1>3, <2>1, <2>2
    <2> QED
      BY <1>10, <2>2, <2>3
  <1>12. ASSUME NEW k \in 1 .. n
         PROVE  DecodedByte(k, d[(4 * (k - 1)) \div 3 + 1], d[(4 * (k - 1)) \div 3 + 2])
                  = bytes[k]
    <2>9. PICK p \in 1 .. q : \E j \in 1 .. ChunkLen(n, q, p) :
             /\ j \in 1 .. 3 /\ k = 3 * (p - 1) + j /\ k % 3 = j % 3
             /\ (4 * (k - 1)) \div 3 = 4 * (p - 1) + (j - 1)
      BY <1>3, ByteInChunk
    <2>1. PICK j \in 1 .. ChunkLen(n, q, p) :
             /\ j \in 1 .. 3 /\ k = 3 * (p - 1) + j /\ k % 3 = j % 3
             /\ (4 * (k - 1)) \div 3 = 4 * (p - 1) + (j - 1)
      BY <2>9
    <2>2. PICK c \in 1 .. 3 : c = ChunkLen(n, q, p)
      BY <1>3 DEF Counted
    <2>3. /\ (4 * (k - 1)) \div 3 + 1 = 4 * (p - 1) + j
          /\ (4 * (k - 1)) \div 3 + 2 = 4 * (p - 1) + (j + 1)
      BY <2>1
    <2>4. j \in 1 .. c + 1 /\ j + 1 \in 1 .. c + 1
      BY <2>1, <2>2
    <2>5. /\ d[4 * (p - 1) + j] = digits[p][j]
          /\ d[4 * (p - 1) + (j + 1)] = digits[p][j + 1]
      BY <1>10, <2>2, <2>4
    <2>6. DecodedByte(j, digits[p][j], digits[p][j + 1]) = chunks[p][j]
      BY <1>6, <1>8, <2>1, SMTT(40) DEF ReadsBack
    <2>7. chunks[p][j] = bytes[k]
      BY <1>6, <2>1
    <2>8. \A first, next : DecodedByte(k, first, next) = DecodedByte(j, first, next)
      BY <2>1 DEF DecodedByte
    <2> QED
      BY <2>3, <2>5, <2>6, <2>7, <2>8
  <1>13. Decode(d) = [k \in 1 .. n |-> bytes[k]]
    BY <1>11, <1>12 DEF Decode
  <1>14. bytes = [k \in 1 .. n |-> bytes[k]]
    BY <1>1
  <1> QED
    BY <1>10, <1>13, <1>14

(***************************************************************************)
(* The digest consists of bytes.                                           *)
(***************************************************************************)
DigestIsBytes == digest \in Seq(Octets)

(***************************************************************************)
(* No step puts anything else into it.                                     *)
(***************************************************************************)
LEMMA DigestStaysBytes == ClientDataSpec => []DigestIsBytes
  <1>1. ClientDataInit => DigestIsBytes
    BY DEF ClientDataInit, DigestIsBytes
  <1>2. DigestIsBytes /\ [ClientDataNext]_jvars => DigestIsBytes'
    <2> SUFFICES ASSUME DigestIsBytes, [ClientDataNext]_jvars
                 PROVE  DigestIsBytes'
      OBVIOUS
    <2>1. CASE UNCHANGED digest
      BY <2>1 DEF DigestIsBytes
    <2>2. ASSUME NEW b \in DigestBytes, GrowDigest(b)
          PROVE  DigestIsBytes'
      <3>1. b \in Octets
        BY ClientDataAssumption DEF Octets
      <3>2. digest' = Append(digest, b)
        BY <2>2 DEF GrowDigest
      <3> QED
        BY <3>1, <3>2, AppendProperties DEF DigestIsBytes
    <2>3. ASSUME NEW s \in Strings, StringValue(s)
          PROVE  UNCHANGED digest
      BY <2>3 DEF StringValue, WriteLexeme
    <2>4. ASSUME NEW s \in Strings, NEW gap \in {<<>>, <<"space">>}, Key(s, gap)
          PROVE  UNCHANGED digest
      BY <2>4 DEF Key
    <2>5. CASE OpenObject \/ OpenArray \/ CloseContainer \/ Comma \/ Literal \/ Space
      <3>1. UNCHANGED digest
        BY <2>5 DEF OpenObject, OpenArray, CloseContainer, Comma, Literal, Space,
                    WriteLexeme
      <3> QED
        BY <2>1, <3>1
    <2>6. CASE ClientDataComplete \/ UNCHANGED jvars
      <3>1. UNCHANGED digest
        BY <2>6 DEF ClientDataComplete, jvars
      <3> QED
        BY <2>1, <3>1
    <2> QED
      BY <2>1, <2>2, <2>3, <2>4, <2>5, <2>6 DEF ClientDataNext
  <1> QED
    BY <1>1, <1>2, PTL DEF ClientDataSpec

(***************************************************************************)
(* base64url_encode_no_pad loses nothing of a digest of any length, so the *)
(* challenge in the text is the expected one only if the digests agree.    *)
(***************************************************************************)
THEOREM EncodingStaysFaithful == ClientDataSpec => []EncodingIsFaithful
  <1>1. DigestIsBytes => EncodingIsFaithful
    BY DigestReadsBack DEF DigestIsBytes, EncodingIsFaithful
  <1> QED
    BY <1>1, DigestStaysBytes, PTL

-----------------------------------------------------------------------------
(* The transaction and the payload of a passkey. *)

Instructions ==
    {[program |-> called, num |-> d.num, offsets |-> d.offsets,
      cells |-> d.cells] :
       called \in {"secp256r1", "other"}, d \in OtherData \cup PrecompileData}

PasskeyTypeOK ==
    /\ tx \in Seq(Instructions)
    /\ payload \in Seq(0 .. PayloadBase - 1)

(***************************************************************************)
(* An instruction joins the end of the transaction, a byte the end of the  *)
(* payload.                                                                *)
(***************************************************************************)
LEMMA PasskeyTyping == PasskeySpec => []PasskeyTypeOK
  <1>1. PasskeyInit => PasskeyTypeOK
    BY DEF PasskeyInit, PasskeyTypeOK
  <1>2. PasskeyTypeOK /\ [PasskeyNext]_kvars => PasskeyTypeOK'
    <2> SUFFICES ASSUME PasskeyTypeOK, [PasskeyNext]_kvars
                 PROVE  PasskeyTypeOK'
      OBVIOUS
    <2>1. ASSUME NEW called \in {"secp256r1", "other"},
                 NEW d \in OtherData \cup PrecompileData, AddBefore(called, d)
          PROVE  PasskeyTypeOK'
      <3>1. PICK ix \in Instructions : tx' = Append(tx, ix)
        BY <2>1 DEF AddBefore, Instructions
      <3> QED
        BY <2>1, <3>1 DEF AddBefore, PasskeyTypeOK
    <2>2. ASSUME NEW b \in 0 .. PayloadBase - 1, ArrivePayload(b)
          PROVE  PasskeyTypeOK'
      BY <2>2 DEF ArrivePayload, PasskeyTypeOK
    <2>3. CASE UNCHANGED kvars
      BY <2>3 DEF kvars, PasskeyTypeOK
    <2> QED
      BY <2>1, <2>2, <2>3 DEF PasskeyNext, PasskeyComplete
  <1> QED
    BY <1>1, <1>2, PTL DEF PasskeySpec

-----------------------------------------------------------------------------
(* What the precompile read is what the program read. *)

(***************************************************************************)
(* A part of a list, cell by cell.                                         *)
(***************************************************************************)
LEMMA PartOf ==
    ASSUME NEW s, IsList(s), NEW m \in Nat \ {0}, NEW n \in Nat, n <= Len(s)
    PROVE  /\ SubSeq(s, m, n) \in Seq({s[i] : i \in DOMAIN s})
           /\ Len(SubSeq(s, m, n)) = IF m <= n THEN n - m + 1 ELSE 0
           /\ \A i \in 1 .. n - m + 1 : SubSeq(s, m, n)[i] = s[m + i - 1]
  <1>1. \A i \in m .. n : s[i] \in {s[j] : j \in DOMAIN s}
    BY DEF IsList
  <1> QED
    BY <1>1, SubSeqProperties

(***************************************************************************)
(* With the offsets that the program insists on, the precompile took the   *)
(* first cell of this instruction for the signature, the second for the    *)
(* key and those from the third on for the message.                        *)
(***************************************************************************)
LEMMA PrecompileReads ==
    ASSUME NEW at, NEW authData, IsList(authData), IsList(tx[at].cells),
           OffsetsFixed(tx[at].offsets, authData), tx[at].num = 1, Verifies(at)
    PROVE  LET cells == tx[at].cells
               end   == 2 + Len(authData) + 1
           IN  /\ end <= Len(cells)
               /\ cells[1] \in Signatures
               /\ Says[cells[1]].key = cells[2]
               /\ Says[cells[1]].msg = SubSeq(cells, 3, end)
  <1>1. PICK cells, o : cells = tx[at].cells /\ o = tx[at].offsets
    OBVIOUS
  <1>2. /\ o.sigIx = Here /\ o.keyIx = Here /\ o.msgIx = Here
        /\ o.sig = 0 /\ o.key = 1 /\ o.msg = 2 /\ o.size = Len(authData) + 1
    BY <1>1 DEF OffsetsFixed, SignatureAt, PubkeyAt, MessageAt
  <1>3. CellsIn(at, Here) = cells
    BY <1>1 DEF CellsIn
  <1>4. Len(cells) \in Nat /\ Len(authData) \in Nat /\ IsList(cells)
    BY <1>1 DEF IsList
  <1>5. /\ 2 + (Len(authData) + 1) <= Len(cells)
        /\ LET sig == SubSeq(cells, 0 + 1, 0 + 1)[1]
           IN  /\ sig \in Signatures
               /\ Says[sig].key = SubSeq(cells, 1 + 1, 1 + 1)[1]
               /\ Says[sig].msg
                    = SubSeq(cells, 2 + 1, 2 + (Len(authData) + 1))
    BY <1>1, <1>2, <1>3 DEF Verifies, Fits, Read
  <1>6. SubSeq(cells, 1, 1)[1] = cells[1] /\ SubSeq(cells, 2, 2)[1] = cells[2]
    BY <1>4, <1>5, PartOf
  <1> QED
    BY <1>1, <1>4, <1>5, <1>6

(***************************************************************************)
(* The message the program compares, part by part, is the whole message.   *)
(***************************************************************************)
LEMMA MessageRead ==
    ASSUME NEW cells, IsList(cells), NEW authData, IsList(authData), NEW hash,
           2 + Len(authData) + 1 <= Len(cells),
           SubSeq(cells, 3, 2 + Len(authData)) = authData,
           cells[2 + Len(authData) + 1] = hash
    PROVE  SubSeq(cells, 3, 2 + Len(authData) + 1) = Message(authData, hash)
  <1>1. PICK n \in Nat : n = Len(authData)
    <2>1. Len(authData) \in Nat
      BY DEF IsList
    <2> QED
      BY <2>1
  <1>2. Len(cells) \in Nat
    BY DEF IsList
  <1> DEFINE S == {cells[i] : i \in DOMAIN cells}
             read == SubSeq(cells, 3, 2 + n + 1)
             said == Message(authData, hash)
  <1>3. /\ read \in Seq(S) /\ Len(read) = n + 1
        /\ \A i \in 1 .. n + 1 : read[i] = cells[3 + i - 1]
    BY <1>1, <1>2, PartOf
  <1>4. \A i \in 1 .. n : authData[i] = cells[3 + i - 1]
    BY <1>1, <1>2, PartOf
  <1>5. /\ said \in Seq({authData[i] : i \in DOMAIN authData} \cup {hash})
        /\ Len(said) = n + 1 /\ said[n + 1] = hash
        /\ \A i \in 1 .. n : said[i] = authData[i]
    BY <1>1 DEF IsList, Message
  <1>6. \A i \in 1 .. n + 1 : read[i] = said[i]
    BY <1>1, <1>3, <1>4, <1>5
  <1> HIDE DEF S, read, said
  <1>7. PICK A : said \in Seq(A)
    BY <1>5
  <1>8. \A l \in Seq(S) \cup Seq(A) : l \in Seq(S \cup A)
    OBVIOUS
  <1>9. read = said
    BY <1>3, <1>5, <1>6, <1>7, <1>8, SeqEqual
  <1> QED
    BY <1>1, <1>9 DEF read, said

(***************************************************************************)
(* When the precompiles of a transaction passed and the program accepts    *)
(* its assertion, the authority's own key signed the authenticator data of *)
(* the payload and the hash of its client data, with the user present and  *)
(* for the stored relying party: whatever the other instructions are and   *)
(* wherever the offsets of the precompile point.                           *)
(***************************************************************************)
THEOREM AcceptedWasSigned == PasskeySpec => []AcceptedMeansSigned
  <1>1. PasskeyTypeOK => AcceptedMeansSigned
    <2> SUFFICES ASSUME PasskeyTypeOK, PrecompilePassed,
                        NEW authData \in AuthDatas, NEW hash \in Hashes,
                        Authenticates(authData, hash)
                 PROVE  \E s \in Signatures :
                           /\ Says[s].key = StoredKey
                           /\ Says[s].msg = Message(authData, hash)
                           /\ Says[s].msg[1] = StoredRp
                           /\ Says[s].msg[2] \in Present
      BY DEF AcceptedMeansSigned
    <2>1. PICK at : at = Len(tx)
      OBVIOUS
    <2>2. at \in DOMAIN tx /\ tx[at] \in Instructions
      BY <2>1 DEF Authenticates, PasskeyTypeOK
    <2>3. IsList(authData) /\ IsList(tx[at].cells)
      BY <2>2, PasskeyAssumption DEF Instructions
    <2>4. /\ tx[at].program = "secp256r1"
          /\ VerifyInstructionData(tx[at], authData, hash)
          /\ Len(authData) >= 2
          /\ authData[1] = StoredRp /\ authData[2] \in Present
      BY <2>1 DEF Authenticates, Preceding, AuthDataValid
    <2>5. Verifies(at)
      BY <2>2, <2>4 DEF PrecompilePassed
    <2>6. PICK cells : cells = tx[at].cells
      OBVIOUS
    <2>7. /\ cells[2] = StoredKey
          /\ SubSeq(cells, 3, 2 + Len(authData)) = authData
          /\ cells[2 + Len(authData) + 1] = hash
          /\ tx[at].num = 1 /\ OffsetsFixed(tx[at].offsets, authData)
      BY <2>4, <2>6 DEF VerifyInstructionData, PubkeyAt, MessageAt
    <2>8. /\ 2 + Len(authData) + 1 <= Len(cells)
          /\ cells[1] \in Signatures
          /\ Says[cells[1]].key = cells[2]
          /\ Says[cells[1]].msg = SubSeq(cells, 3, 2 + Len(authData) + 1)
      BY <2>3, <2>5, <2>6, <2>7, PrecompileReads
    <2>9. Says[cells[1]].msg = Message(authData, hash)
      BY <2>3, <2>6, <2>7, <2>8, MessageRead, SMTT(40)
    <2>10. /\ Message(authData, hash)[1] = authData[1]
           /\ Message(authData, hash)[2] = authData[2]
      BY <2>3, <2>4 DEF Message, IsList
    <2> QED
      BY <2>4, <2>7, <2>8, <2>9, <2>10
  <1> QED
    BY <1>1, PasskeyTyping, PTL

-----------------------------------------------------------------------------
(* The payload of a passkey's authority. *)

(***************************************************************************)
(* A list cut at four places is its five parts in a row.                   *)
(***************************************************************************)
LEMMA FiveParts ==
    ASSUME NEW S, NEW p \in Seq(S),
           NEW a \in Nat, 3 <= a, a + 2 <= Len(p)
    PROVE  p = <<p[1]>> \o <<p[2], p[3]>> \o SubSeq(p, 4, a)
                 \o <<p[a + 1], p[a + 2]>> \o SubSeq(p, a + 3, Len(p))
  <1>1. SubSeq(p, 1, 1) \o SubSeq(p, 2, 3) = SubSeq(p, 1, 3)
    BY ConcatAdjacentSubSeq
  <1>2. SubSeq(p, 1, 3) \o SubSeq(p, 4, a) = SubSeq(p, 1, a)
    BY ConcatAdjacentSubSeq
  <1>3. SubSeq(p, 1, a) \o SubSeq(p, a + 1, a + 2) = SubSeq(p, 1, a + 2)
    BY ConcatAdjacentSubSeq
  <1>4. SubSeq(p, 1, a + 2) \o SubSeq(p, a + 3, Len(p)) = p
    <2>1. /\ 1 \in 1 .. Len(p) + 1 /\ a + 2 \in 1 - 1 .. Len(p)
          /\ Len(p) \in a + 2 .. Len(p) /\ a + 2 + 1 = a + 3
      OBVIOUS
    <2>2. SubSeq(p, 1, a + 2) \o SubSeq(p, a + 2 + 1, Len(p))
            = SubSeq(p, 1, Len(p))
      BY <2>1, ConcatAdjacentSubSeq
    <2> QED
      BY <2>1, <2>2, SubSeqFull
  <1>5. SubSeq(p, 1, 1) = <<p[1]>>
    BY ShortParts
  <1>6. SubSeq(p, 2, 3) = <<p[2], p[3]>>
    BY ShortParts
  <1>7. SubSeq(p, a + 1, a + 2) = <<p[a + 1], p[a + 2]>>
    BY ShortParts
  <1> QED
    BY <1>1, <1>2, <1>3, <1>4, <1>5, <1>6, <1>7

(***************************************************************************)
(* An accepted payload is the fixed part, the two parts it parses into and *)
(* their lengths, with nothing behind and nothing between.                 *)
(***************************************************************************)
THEOREM PayloadStaysExact == PasskeySpec => []PayloadIsExact
  <1>1. PasskeyTypeOK => PayloadIsExact
    <2> DEFINE U16(k) == <<k % PayloadBase, k \div PayloadBase>>
    <2> SUFFICES ASSUME NEW p \in Seq(0 .. PayloadBase - 1),
                        ParsePayload(p).ok
                 PROVE  p = <<ParsePayload(p).fixed>>
                              \o U16(Len(ParsePayload(p).authData))
                              \o ParsePayload(p).authData
                              \o U16(Len(ParsePayload(p).cdj))
                              \o ParsePayload(p).cdj
      BY DEF PasskeyTypeOK, PayloadIsExact
    <2>1. PayloadBase \in Nat \ {0, 1}
      BY PasskeyAssumption
    <2>2. Len(p) \in Nat /\ Len(p) >= 5
      BY DEF ParsePayload
    <2>3. p[2] \in 0 .. PayloadBase - 1 /\ p[3] \in 0 .. PayloadBase - 1
      BY <2>1, <2>2
    <2>4. PICK authLen \in Nat : authLen = p[2] + PayloadBase * p[3]
      BY <2>1, <2>3, TwoDigits
    <2>5. Len(p) >= authLen + 5
      BY <2>2, <2>4 DEF ParsePayload
    <2>6. /\ p[authLen + 4] \in 0 .. PayloadBase - 1
          /\ p[authLen + 5] \in 0 .. PayloadBase - 1
      BY <2>1, <2>5
    <2>7. PICK cdjLen \in Nat :
            cdjLen = p[authLen + 4] + PayloadBase * p[authLen + 5]
      BY <2>1, <2>6, TwoDigits
    <2>8. 3 + authLen + 2 = authLen + 5 /\ authLen + 5 - 1 = authLen + 4
      BY <2>4
    <2>9. /\ Len(p) = authLen + 5 + cdjLen
          /\ ParsePayload(p).fixed = p[1]
          /\ ParsePayload(p).authData = SubSeq(p, 4, 3 + authLen)
          /\ ParsePayload(p).cdj
               = SubSeq(p, authLen + 6, authLen + 5 + cdjLen)
      <3>1. PICK cdjAt \in Nat : cdjAt = 3 + authLen + 2
        OBVIOUS
      <3>2. p[cdjAt - 1] = p[authLen + 4] /\ p[cdjAt] = p[authLen + 5]
        BY <2>8, <3>1
      <3>3. PICK fits \in BOOLEAN :
              fits <=> ~ \/ Len(p) < 5 \/ Len(p) < cdjAt
                         \/ cdjLen = 0 \/ Len(p) # cdjAt + cdjLen
        OBVIOUS
      <3>4. ParsePayload(p)
              = IF fits
                THEN [ok |-> TRUE, fixed |-> p[1],
                      authData |-> SubSeq(p, 4, 3 + authLen),
                      cdj |-> SubSeq(p, cdjAt + 1, cdjAt + cdjLen)]
                ELSE [ok |-> FALSE]
        BY <2>4, <2>7, <3>1, <3>2, <3>3 DEF ParsePayload
      <3>5. fits
        BY <3>4
      <3>6. cdjAt = authLen + 5 /\ cdjAt + 1 = authLen + 6
        BY <3>1
      <3> QED
        BY <3>3, <3>4, <3>5, <3>6
    <2>10. /\ Len(SubSeq(p, 4, 3 + authLen)) = authLen
           /\ Len(SubSeq(p, authLen + 6, authLen + 5 + cdjLen)) = cdjLen
      <3>1. \A i \in 1 .. Len(p) : p[i] \in 0 .. PayloadBase - 1
        <4>1. PICK Byte : Byte = 0 .. PayloadBase - 1
          OBVIOUS
        <4>2. p \in Seq(Byte)
          BY <4>1, Zenon
        <4> HIDE DEF U16
        <4>3. \A i \in 1 .. Len(p) : p[i] \in Byte
          BY <4>2
        <4> QED
          BY <4>1, <4>3
      <3>2. \A i \in 4 .. 3 + authLen : p[i] \in 0 .. PayloadBase - 1
        BY <3>1, <2>2, <2>4, <2>5
      <3>3. \A i \in authLen + 6 .. authLen + 5 + cdjLen :
              p[i] \in 0 .. PayloadBase - 1
        BY <3>1, <2>2, <2>4, <2>7, <2>9, SMTT(40)
      <3> QED
        BY <3>2, <3>3, SubSeqProperties
    <2>11. U16(authLen) = <<p[2], p[3]>>
      BY <2>1, <2>3, <2>4, TwoDigits
    <2>12. U16(cdjLen) = <<p[authLen + 4], p[authLen + 5]>>
      BY <2>1, <2>6, <2>7, TwoDigits
    <2>13. PICK a \in Nat : a = 3 + authLen
      OBVIOUS
    <2>14. 3 <= a /\ a + 2 <= Len(p)
      BY <2>2, <2>5, <2>13
    <2>15. p = <<p[1]>> \o <<p[2], p[3]>> \o SubSeq(p, 4, a)
                 \o <<p[a + 1], p[a + 2]>> \o SubSeq(p, a + 3, Len(p))
      BY <2>14, FiveParts
    <2>16. a + 1 = authLen + 4 /\ a + 2 = authLen + 5 /\ a + 3 = authLen + 6
      BY <2>13
    <2> HIDE DEF U16
    <2> QED
      BY <2>9, <2>10, <2>11, <2>12, <2>13, <2>15, <2>16
  <1> QED
    BY <1>1, PasskeyTyping, PTL
=============================================================================
