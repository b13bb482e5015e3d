---------------------------- MODULE BufferProofs ----------------------------
(***************************************************************************)
(* Proofs about the actions buffer of a session: what the program accepts  *)
(* is a list of actions end to end, what it reads and writes in place are  *)
(* the fields of these actions, and so every session's buffer holds, at    *)
(* any time, the records that SessionActions describes.                    *)
(***************************************************************************)
EXTENDS ActionBuffer, DataInduction

-----------------------------------------------------------------------------
(* The parser of the actions buffer. *)

Types == {1, 2, 3, 4, 5, 6, 10, 11}

Views == [type: Types, expiresAt: Nat, offset: Nat, len: Nat]

(***************************************************************************)
(* The view is that of the action behind c cells.                          *)
(***************************************************************************)
IsEntry(buf, view, c) ==
    /\ view = [type |-> buf[c + 1], expiresAt |-> buf[c + 3],
               offset |-> c + 3, len |-> buf[c + 2]]
    /\ view.type \in Types
    /\ view.offset + view.len <= Len(buf)

(***************************************************************************)
(* Where the action behind the k-th starts; the first one starts behind c  *)
(* cells.                                                                  *)
(***************************************************************************)
Border(c, views, k) ==
    IF k = 0 THEN c ELSE views[k].offset + views[k].len

(***************************************************************************)
(* The views are the actions from c on to the end of the buffer.           *)
(***************************************************************************)
IsLayout(buf, c, views) ==
    /\ views \in Seq(Views)
    /\ \A k \in 1 .. Len(views) : IsEntry(buf, views[k], Border(c, views, k - 1))
    /\ Border(c, views, Len(views)) = Len(buf)

(***************************************************************************)
(* What the parser makes of the cells from c on, f of those further back.  *)
(***************************************************************************)
ParsedAt(f, buf, c) ==
    LET offset == c + HeaderSize
        end    == offset + buf[c + 2]
        rest   == f[end]
    IN  IF c = Len(buf) THEN [ok |-> TRUE, views |-> <<>>]
        ELSE IF \/ offset > Len(buf)
                \/ buf[c + 1] \notin DOMAIN KindOf
                \/ end > Len(buf)
        THEN BufferError
        ELSE IF ~ rest.ok THEN BufferError
        ELSE [ok |-> TRUE,
              views |-> <<[type |-> buf[c + 1], expiresAt |-> buf[c + 3],
                           offset |-> offset, len |-> buf[c + 2]]>>
                        \o rest.views]

IsParser(f, buf, m) == f = [c \in m .. Len(buf) |-> ParsedAt(f, buf, c)]

(***************************************************************************)
(* The numbers of the types.                                               *)
(***************************************************************************)
LEMMA TypesOfKinds == DOMAIN KindOf = Types
  BY DEF KindOf, Types

(***************************************************************************)
(* ParseActions starts the parser at the front.                            *)
(***************************************************************************)
LEMMA ParseIsParser ==
    ASSUME NEW buf
    PROVE  ParseActions(buf)
             = LET from == CHOOSE f : IsParser(f, buf, 0)
               IN  IF from[0].ok /\ Len(from[0].views) <= MAX_ACTIONS THEN from[0]
                   ELSE BufferError
  BY DEF ParseActions, IsParser, ParsedAt

(***************************************************************************)
(* The parser only looks further back.                                     *)
(***************************************************************************)
LEMMA ParserLooksBack ==
    ASSUME NEW buf \in Seq(Nat), NEW f, NEW g, NEW c \in 0 .. Len(buf),
           \A e \in c + 1 .. Len(buf) : f[e] = g[e]
    PROVE  ParsedAt(f, buf, c) = ParsedAt(g, buf, c)
  <1>1. PICK n \in Nat : n = Len(buf)
    OBVIOUS
  <1>2. CASE c = n
    BY <1>1, <1>2 DEF ParsedAt
  <1>3. CASE c # n
    <2>1. c + 3 <= n => buf[c + 2] \in Nat
      BY <1>1
    <2>2. CASE c + 3 <= n /\ c + 3 + buf[c + 2] <= n
      <3>1. f[c + 3 + buf[c + 2]] = g[c + 3 + buf[c + 2]]
        BY <1>1, <2>1, <2>2
      <3> QED
        BY <1>1, <1>3, <2>1, <2>2, <3>1 DEF ParsedAt, HeaderSize
    <2>3. CASE ~ (c + 3 <= n /\ c + 3 + buf[c + 2] <= n)
      <3>1. c + 3 > n \/ c + 3 + buf[c + 2] > n
        BY <1>1, <2>1, <2>3
      <3> QED
        BY <1>1, <1>3, <3>1 DEF ParsedAt, HeaderSize
    <2> QED
      BY <2>2, <2>3
  <1> QED
    BY <1>2, <1>3

(***************************************************************************)
(* There is such a parser: it is made from the back to the front.          *)
(***************************************************************************)
LEMMA ParserExists ==
    ASSUME NEW buf \in Seq(Nat)
    PROVE  \E f : IsParser(f, buf, 0)
  <1>1. PICK n \in Nat : n = Len(buf)
    OBVIOUS
  <1> DEFINE S == {k \in Nat : k <= n => \E f : IsParser(f, buf, n - k)}
  <1>2. 0 \in S
    <2>1. PICK f : f = [c \in n .. n |-> [ok |-> TRUE, views |-> <<>>]]
      OBVIOUS
    <2>2. \A c \in n .. n : ParsedAt(f, buf, c) = [ok |-> TRUE, views |-> <<>>]
      BY <1>1 DEF ParsedAt
    <2>3. f = [c \in n .. n |-> ParsedAt(f, buf, c)]
      BY <2>1, <2>2
    <2>4. n - 0 = n
      OBVIOUS
    <2>5. IsParser(f, buf, n - 0)
      BY <1>1, <2>3, <2>4 DEF IsParser
    <2> QED
      BY <2>5
  <1>3. ASSUME NEW k \in Nat, k \in S
        PROVE  k + 1 \in S
    <2> SUFFICES ASSUME k + 1 <= n
                 PROVE  \E g : IsParser(g, buf, n - (k + 1))
      OBVIOUS
    <2>1. PICK f : IsParser(f, buf, n - k)
      BY <1>3
    <2>2. PICK m \in Nat : m = n - (k + 1) /\ m + 1 = n - k /\ m <= n
      OBVIOUS
    <2>3. f = [c \in m + 1 .. n |-> ParsedAt(f, buf, c)]
      BY <1>1, <2>1, <2>2 DEF IsParser
    <2>4. PICK g : g = [c \in m .. n |-> ParsedAt(f, buf, c)]
      OBVIOUS
    <2>5. \A e \in m + 1 .. n : f[e] = g[e]
      BY <2>3, <2>4
    <2>6. ASSUME NEW c \in m .. n
          PROVE  ParsedAt(f, buf, c) = ParsedAt(g, buf, c)
      <3>1. c \in 0 .. n /\ \A e \in c + 1 .. n : e \in m + 1 .. n
        OBVIOUS
      <3>2. \A e \in c + 1 .. n : f[e] = g[e]
        BY <2>5, <3>1
      <3> QED
        BY <1>1, <3>1, <3>2, ParserLooksBack
    <2>7. g = [c \in m .. n |-> ParsedAt(g, buf, c)]
      BY <2>4, <2>6
    <2>8. IsParser(g, buf, m)
      BY <1>1, <2>7 DEF IsParser
    <2> QED
      BY <2>2, <2>8
  <1>4. Nat \subseteq S
    <2> HIDE DEF S
    <2> QED
      BY <1>2, <1>3, Induction
  <1>5. n \in S
    <2> HIDE DEF S
    <2> QED
      BY <1>4
  <1>6. n - n = 0 /\ n <= n
    OBVIOUS
  <1> QED
    BY <1>5, <1>6

(***************************************************************************)
(* An entry, in numbers.                                                   *)
(***************************************************************************)
EntryIs(buf, view, c, type, len, expiry) ==
    /\ view = [type |-> type, expiresAt |-> expiry, offset |-> c + 3, len |-> len]
    /\ buf[c + 1] = type /\ buf[c + 2] = len /\ buf[c + 3] = expiry
    /\ c + 3 + len <= Len(buf)
    /\ view.type = type /\ view.len = len /\ view.expiresAt = expiry
    /\ view.offset = c + 3
    /\ view.offset + view.len = c + 3 + len

LEMMA EntryInNumbers ==
    ASSUME NEW buf \in Seq(Nat), NEW c \in Nat, NEW view \in Views,
           IsEntry(buf, view, c)
    PROVE  \E type \in Types, len \in Nat, expiry \in Nat :
              EntryIs(buf, view, c, type, len, expiry)
  <1>1. PICK type \in Types, expiry \in Nat, offset \in Nat, len \in Nat :
          view = [type |-> type, expiresAt |-> expiry, offset |-> offset, len |-> len]
    BY DEF Views
  <1>2. PICK t, e, l : t = buf[c + 1] /\ l = buf[c + 2] /\ e = buf[c + 3]
    OBVIOUS
  <1>3. view = [type |-> t, expiresAt |-> e, offset |-> c + 3, len |-> l]
    BY <1>2 DEF IsEntry
  <1>4. t = type /\ e = expiry /\ c + 3 = offset /\ l = len
    BY <1>1, <1>3
  <1>5. offset + len <= Len(buf)
    BY <1>1 DEF IsEntry
  <1>6. EntryIs(buf, view, c, type, len, expiry)
    BY <1>1, <1>2, <1>4, <1>5 DEF EntryIs
  <1> QED
    BY <1>6

(***************************************************************************)
(* The parser reads an entry, if what is behind it can be parsed.          *)
(***************************************************************************)
LEMMA EntryIsParsed ==
    ASSUME NEW buf \in Seq(Nat), NEW c \in Nat, NEW view \in Views,
           IsEntry(buf, view, c), NEW f, NEW rest,
           f[view.offset + view.len] = [ok |-> TRUE, views |-> rest]
    PROVE  ParsedAt(f, buf, c) = [ok |-> TRUE, views |-> <<view>> \o rest]
  <1>1. PICK type \in Types, len \in Nat, expiry \in Nat :
          EntryIs(buf, view, c, type, len, expiry)
    BY EntryInNumbers
  <1>2. PICK n \in Nat : n = Len(buf)
    OBVIOUS
  <1>3. c # n /\ ~ (c + 3 > n) /\ ~ (c + 3 + len > n)
    BY <1>1, <1>2 DEF EntryIs
  <1>4. buf[c + 1] \in DOMAIN KindOf
    BY <1>1, TypesOfKinds DEF EntryIs
  <1>5. PICK behind : behind = f[c + 3 + buf[c + 2]]
    OBVIOUS
  <1>6. behind.ok = TRUE /\ behind.views = rest
    <2>1. behind = [ok |-> TRUE, views |-> rest]
      BY <1>1, <1>5 DEF EntryIs
    <2> QED
      BY <2>1
  <1>7. view = [type |-> buf[c + 1], expiresAt |-> buf[c + 3],
                offset |-> c + 3, len |-> buf[c + 2]]
    BY <1>1 DEF EntryIs
  <1>8. buf[c + 2] = len
    BY <1>1 DEF EntryIs
  <1>9. ParsedAt(f, buf, c)
          = [ok |-> TRUE, views |-> <<view>> \o behind.views]
    BY <1>2, <1>3, <1>4, <1>5, <1>6, <1>7, <1>8 DEF ParsedAt, HeaderSize
  <1> QED
    BY <1>6, <1>9

(***************************************************************************)
(* What the parser accepts is the end of the buffer or an entry, and what  *)
(* it accepts behind that.                                                 *)
(***************************************************************************)
LEMMA ParsedIsEntry ==
    ASSUME NEW buf \in Seq(Nat), NEW c \in 0 .. Len(buf), NEW f,
           ParsedAt(f, buf, c).ok
    PROVE  \/ c = Len(buf) /\ ParsedAt(f, buf, c) = [ok |-> TRUE, views |-> <<>>]
           \/ \E view \in Views :
                 /\ IsEntry(buf, view, c)
                 /\ f[view.offset + view.len].ok
                 /\ ParsedAt(f, buf, c)
                      = [ok |-> TRUE,
                         views |-> <<view>> \o f[view.offset + view.len].views]
  <1>1. PICK n \in Nat : n = Len(buf)
    OBVIOUS
  <1>2. CASE c = n
    BY <1>1, <1>2 DEF ParsedAt
  <1>3. CASE c # n
    <2>1. ParsedAt(f, buf, c) # BufferError
      <3>1. BufferError.ok = FALSE
        BY DEF BufferError
      <3>2. PICK x : x = ParsedAt(f, buf, c)
        OBVIOUS
      <3>3. x.ok
        BY <3>2
      <3>4. x # BufferError
        BY <3>1, <3>3
      <3> QED
        BY <3>2, <3>4
    <2>2. /\ ~ (c + 3 > n) /\ buf[c + 1] \in DOMAIN KindOf
          /\ ~ (c + 3 + buf[c + 2] > n) /\ f[c + 3 + buf[c + 2]].ok
      BY <1>1, <1>3, <2>1 DEF ParsedAt, HeaderSize
    <2>3. PICK type \in Types : type = buf[c + 1]
      BY <2>2, TypesOfKinds
    <2>4. PICK len \in Nat, expiry \in Nat : len = buf[c + 2] /\ expiry = buf[c + 3]
      <3>1. c + 2 \in 1 .. n /\ c + 3 \in 1 .. n
        BY <1>1, <2>2
      <3> QED
        BY <1>1, <3>1
    <2>5. PICK offset \in Nat : offset = c + 3
      OBVIOUS
    <2>6. PICK view \in Views :
            /\ view = [type |-> type, expiresAt |-> expiry, offset |-> offset, len |-> len]
            /\ view.type = type /\ view.offset = offset /\ view.len = len
      <3>1. PICK view : view = [type |-> type, expiresAt |-> expiry, offset |-> offset,
                                len |-> len]
        OBVIOUS
      <3>2. view \in Views
        BY <3>1 DEF Views
      <3> QED
        BY <3>1, <3>2
    <2>7. IsEntry(buf, view, c)
      BY <1>1, <2>2, <2>3, <2>4, <2>5, <2>6 DEF IsEntry
    <2>8. f[view.offset + view.len].ok
      BY <2>2, <2>4, <2>5, <2>6
    <2>9. ParsedAt(f, buf, c)
            = [ok |-> TRUE, views |-> <<view>> \o f[view.offset + view.len].views]
      BY <1>1, <1>3, <2>2, <2>3, <2>4, <2>5, <2>6 DEF ParsedAt, HeaderSize
    <2> QED
      BY <2>7, <2>8, <2>9
  <1> QED
    BY <1>2, <1>3

-----------------------------------------------------------------------------
(* The layout of the buffer. *)

(***************************************************************************)
(* The borders of a layout, as numbers.                                    *)
(***************************************************************************)
AreBorders(b, buf, c, views, n) ==
    /\ b \in [0 .. n -> Nat]
    /\ b[0] = c /\ b[n] = Len(buf)
    /\ \A k \in 1 .. n : /\ views[k] \in Views
                         /\ IsEntry(buf, views[k], b[k - 1])
                         /\ b[k] = views[k].offset + views[k].len
                         /\ b[k - 1] + 3 <= b[k]

LEMMA LayoutHasBorders ==
    ASSUME NEW buf \in Seq(Nat), NEW c \in Nat, NEW views, IsLayout(buf, c, views)
    PROVE  \E b : AreBorders(b, buf, c, views, Len(views))
  <1>0. PICK V : V = Views
    OBVIOUS
  <1>1. PICK n \in Nat : n = Len(views)
    BY DEF IsLayout
  <1>2. \A k \in 1 .. n : views[k] \in Views
    <2>1. views \in Seq(V)
      BY <1>0 DEF IsLayout
    <2>2. \A k \in 1 .. n : views[k] \in V
      BY <1>1, <2>1
    <2> QED
      BY <1>0, <2>2
  <1>3. PICK b : b = [k \in 0 .. n |-> Border(c, views, k)]
    OBVIOUS
  <1>4. ASSUME NEW k \in 1 .. n
        PROVE  b[k] = views[k].offset + views[k].len /\ b[k] \in Nat
    <2>1. b[k] = views[k].offset + views[k].len
      BY <1>3 DEF Border
    <2>2. PICK view \in Views : view = views[k]
      BY <1>2
    <2>3. view.offset \in Nat /\ view.len \in Nat
      BY DEF Views
    <2> QED
      BY <2>1, <2>2, <2>3
  <1>5. b[0] = c
    BY <1>3 DEF Border
  <1>6. b \in [0 .. n -> Nat]
    <2>1. \A k \in 0 .. n : k = 0 \/ k \in 1 .. n
      OBVIOUS
    <2>2. \A k \in 0 .. n : b[k] \in Nat
      BY <1>4, <1>5, <2>1
    <2> QED
      BY <1>3, <2>2
  <1>7. b[n] = Len(buf)
    BY <1>1, <1>3 DEF IsLayout
  <1>8. ASSUME NEW k \in 1 .. n
        PROVE  IsEntry(buf, views[k], b[k - 1]) /\ b[k - 1] + 3 <= b[k]
    <2>1. k - 1 \in 0 .. n
      OBVIOUS
    <2>2. PICK a \in Nat : a = b[k - 1]
      BY <1>6, <2>1
    <2>3. IsEntry(buf, views[k], a)
      <3>1. a = Border(c, views, k - 1)
        BY <1>3, <2>1, <2>2
      <3> QED
        BY <1>1, <3>1 DEF IsLayout
    <2>4. PICK view \in Views : view = views[k]
      BY <1>2
    <2>5. PICK type \in Types, len \in Nat, expiry \in Nat :
            EntryIs(buf, view, a, type, len, expiry)
      BY <2>3, <2>4, EntryInNumbers
    <2>6. b[k] = a + 3 + len
      BY <1>4, <2>4, <2>5 DEF EntryIs
    <2> QED
      BY <2>2, <2>3, <2>6
  <1>9. AreBorders(b, buf, c, views, n)
    BY <1>2, <1>4, <1>5, <1>6, <1>7, <1>8 DEF AreBorders
  <1> QED
    BY <1>1, <1>9

(***************************************************************************)
(* An entry before a layout.                                               *)
(***************************************************************************)
LEMMA EntryBefore ==
    ASSUME NEW buf \in Seq(Nat), NEW c \in Nat, NEW view \in Views,
           IsEntry(buf, view, c), NEW views,
           IsLayout(buf, view.offset + view.len, views)
    PROVE  IsLayout(buf, c, <<view>> \o views)
  <1>1. PICK V : V = Views
    OBVIOUS
  <1>2. PICK n \in Nat : n = Len(views)
    BY DEF IsLayout
  <1>3. PICK one \in Seq(V) : one = <<view>> /\ Len(one) = 1 /\ one[1] = view
    <2>1. view \in V
      BY <1>1
    <2>2. <<view>> \in Seq(V) /\ Len(<<view>>) = 1 /\ <<view>>[1] = view
      BY <2>1
    <2> QED
      BY <2>2
  <1>4. views \in Seq(V)
    BY <1>1 DEF IsLayout
  <1>5. PICK w \in Seq(V) : Joined(w, one, views)
    BY <1>4, JoinedExists
  <1>6. w = <<view>> \o views /\ Len(w) = n + 1 /\ w[1] = view
        /\ \A i \in 1 .. n : w[i + 1] = views[i]
    <2>1. \A i \in 1 .. n : 1 + i = i + 1
      OBVIOUS
    <2> QED
      BY <1>2, <1>3, <1>5, <2>1 DEF Joined
  <1>7. PICK e : e = view.offset + view.len
    OBVIOUS
  <1>8. ASSUME NEW i \in 0 .. n
        PROVE  Border(c, w, i + 1) = Border(e, views, i)
    <2>1. CASE i = 0
      BY <1>6, <1>7, <2>1 DEF Border
    <2>2. CASE i # 0
      BY <1>6, <2>2 DEF Border
    <2> QED
      BY <2>1, <2>2
  <1>9. ASSUME NEW k \in 1 .. n + 1
        PROVE  IsEntry(buf, w[k], Border(c, w, k - 1))
    <2>1. CASE k = 1
      BY <1>6, <2>1 DEF Border
    <2>2. CASE k # 1
      <3>1. PICK i \in 1 .. n : i = k - 1 /\ i + 1 = k
        BY <2>2
      <3>2. IsEntry(buf, views[i], Border(e, views, i - 1))
        BY <1>2, <1>7 DEF IsLayout
      <3>3. i - 1 \in 0 .. n /\ (i - 1) + 1 = i
        OBVIOUS
      <3>4. Border(c, w, i) = Border(e, views, i - 1)
        BY <1>8, <3>3
      <3> QED
        BY <1>6, <3>1, <3>2, <3>4
    <2> QED
      BY <2>1, <2>2
  <1>10. Border(c, w, n + 1) = Len(buf)
    <2>1. Border(e, views, n) = Len(buf)
      BY <1>2, <1>7 DEF IsLayout
    <2>2. n \in 0 .. n
      OBVIOUS
    <2> QED
      BY <1>8, <2>1, <2>2
  <1>11. IsLayout(buf, c, w)
    BY <1>1, <1>6, <1>9, <1>10 DEF IsLayout
  <1> QED
    BY <1>6, <1>11

(***************************************************************************)
(* Every layout from c on is what the parser makes of the buffer.          *)
(***************************************************************************)
LEMMA LayoutIsParsed ==
    ASSUME NEW buf \in Seq(Nat), NEW f, IsParser(f, buf, 0), NEW views,
           IsLayout(buf, 0, views)
    PROVE  f[0] = [ok |-> TRUE, views |-> views]
  <1>1. PICK n \in Nat : n = Len(views)
    BY DEF IsLayout
  <1>2. PICK b : AreBorders(b, buf, 0, views, n)
    BY <1>1, LayoutHasBorders
  <1>3. PICK V : V = Views
    OBVIOUS
  <1>4. views \in Seq(V)
    BY <1>3 DEF IsLayout
  <1>5. PICK m \in Nat : m = Len(buf)
    OBVIOUS
  <1> DEFINE Q == {j \in 0 .. n :
                     f[b[n - j]] = [ok |-> TRUE, views |-> SubSeq(views, n - j + 1, n)]}
  <1>6. 0 \in Q
    <2>1. n - 0 = n
      OBVIOUS
    <2>2. b[n] = m
      BY <1>2, <1>5 DEF AreBorders
    <2>3. f[m] = ParsedAt(f, buf, m)
      BY <1>5 DEF IsParser
    <2>4. ParsedAt(f, buf, m) = [ok |-> TRUE, views |-> <<>>]
      BY <1>5 DEF ParsedAt
    <2>5. SubSeq(views, n + 1, n) = <<>>
      BY SubSeqEmpty
    <2>6. f[b[n]] = [ok |-> TRUE, views |-> SubSeq(views, n + 1, n)]
      BY <2>2, <2>3, <2>4, <2>5
    <2> QED
      BY <2>1, <2>6
  <1>7. ASSUME NEW j \in 1 .. n, j - 1 \in Q
        PROVE  j \in Q
    <2>1. PICK k \in 1 .. n : k = n - (j - 1) /\ k - 1 = n - j /\ k = n - j + 1
                              /\ k + 1 = n - (j - 1) + 1
      OBVIOUS
    <2>2. f[b[k]] = [ok |-> TRUE, views |-> SubSeq(views, k + 1, n)]
      BY <1>7, <2>1
    <2>3. PICK view \in Views : view = views[k]
      BY <1>2 DEF AreBorders
    <2>4. PICK a \in Nat : a = b[k - 1]
      <3>1. k - 1 \in 0 .. n
        OBVIOUS
      <3> QED
        BY <1>2, <3>1 DEF AreBorders
    <2>5. IsEntry(buf, view, a) /\ b[k] = view.offset + view.len
      BY <1>2, <2>3, <2>4 DEF AreBorders
    <2>6. f[view.offset + view.len] = [ok |-> TRUE, views |-> SubSeq(views, k + 1, n)]
      BY <2>2, <2>5
    <2>7. ParsedAt(f, buf, a) = [ok |-> TRUE, views |-> <<view>> \o SubSeq(views, k + 1, n)]
      <3>1. PICK rest : rest = SubSeq(views, k + 1, n)
        OBVIOUS
      <3>2. f[view.offset + view.len] = [ok |-> TRUE, views |-> rest]
        BY <2>6, <3>1
      <3>3. ParsedAt(f, buf, a) = [ok |-> TRUE, views |-> <<view>> \o rest]
        BY <2>5, <3>2, EntryIsParsed, SMTT(40)
      <3> QED
        BY <3>1, <3>3
    <2>8. f[a] = ParsedAt(f, buf, a)
      <3>1. PICK type \in Types, len \in Nat, expiry \in Nat :
              EntryIs(buf, view, a, type, len, expiry)
        BY <2>5, EntryInNumbers
      <3>2. a \in 0 .. m
        BY <1>5, <3>1 DEF EntryIs
      <3> QED
        BY <1>5, <3>2 DEF IsParser
    <2>9. SubSeq(views, k, n) = <<views[k]>> \o SubSeq(views, k + 1, n)
      <3>1. k \in 1 .. Len(views) /\ n \in k .. Len(views)
        BY <1>1
      <3> QED
        BY <1>4, <3>1, SubSeqRecursiveFirst
    <2>10. f[b[k - 1]] = [ok |-> TRUE, views |-> SubSeq(views, k, n)]
      BY <2>3, <2>4, <2>7, <2>8, <2>9
    <2> QED
      BY <2>1, <2>10
  <1>8. 0 .. n \subseteq Q
    <2> HIDE DEF Q
    <2> QED
      BY <1>6, <1>7, LoopInvariant
  <1>9. f[b[0]] = [ok |-> TRUE, views |-> SubSeq(views, 1, n)]
    <2>1. n \in Q
      <3> HIDE DEF Q
      <3> QED
        BY <1>8
    <2>2. n - n = 0 /\ 0 + 1 = 1
      OBVIOUS
    <2> QED
      BY <2>1, <2>2
  <1>10. SubSeq(views, 1, n) = views
    BY <1>1, <1>4, FirstEntries
  <1>11. b[0] = 0
    BY <1>2 DEF AreBorders
  <1> QED
    BY <1>9, <1>10, <1>11

(***************************************************************************)
(* What the parser makes of the cells from c on, when it accepts them, is  *)
(* a layout of them.                                                       *)
(***************************************************************************)
HasLayout(parsed, buf, c) ==
    \E views : /\ IsLayout(buf, c, views)
               /\ parsed = [ok |-> TRUE, views |-> views]

LEMMA ParsedIsLayout ==
    ASSUME NEW buf \in Seq(Nat), NEW f, IsParser(f, buf, 0), f[0].ok
    PROVE  HasLayout(f[0], buf, 0)
  <1>1. PICK n \in Nat : n = Len(buf)
    OBVIOUS
  <1> DEFINE S == {k \in Nat : \A c \in 0 .. n :
                                  c >= n - k /\ f[c].ok => HasLayout(f[c], buf, c)}
  <1>2. \A c \in 0 .. n : f[c] = ParsedAt(f, buf, c)
    BY <1>1 DEF IsParser
  <1>3. HasLayout([ok |-> TRUE, views |-> <<>>], buf, n)
    <2>1. <<>> \in Seq(Views) /\ Len(<<>>) = 0
      BY EmptySeq
    <2>2. IsLayout(buf, n, <<>>)
      BY <1>1, <2>1 DEF IsLayout, Border
    <2> QED
      BY <2>2 DEF HasLayout
  <1>4. 0 \in S
    <2>1. ASSUME NEW c \in 0 .. n, c >= n - 0
          PROVE  HasLayout(f[c], buf, c)
      <3>1. c = n
        BY <2>1
      <3>2. f[c] = [ok |-> TRUE, views |-> <<>>]
        BY <1>1, <1>2, <3>1 DEF ParsedAt
      <3> QED
        BY <1>3, <3>1, <3>2
    <2> QED
      BY <2>1
  <1>5. ASSUME NEW k \in Nat, k \in S
        PROVE  k + 1 \in S
    <2> SUFFICES ASSUME NEW c \in 0 .. n, c >= n - (k + 1), f[c].ok
                 PROVE  HasLayout(f[c], buf, c)
      OBVIOUS
    <2>1. ParsedAt(f, buf, c).ok
      BY <1>2
    <2>2. CASE c = n /\ ParsedAt(f, buf, c) = [ok |-> TRUE, views |-> <<>>]
      BY <1>2, <1>3, <2>2
    <2>3. ASSUME NEW view \in Views, IsEntry(buf, view, c), f[view.offset + view.len].ok,
                 ParsedAt(f, buf, c)
                   = [ok |-> TRUE, views |-> <<view>> \o f[view.offset + view.len].views]
          PROVE  HasLayout(f[c], buf, c)
      <3>1. PICK type \in Types, len \in Nat, expiry \in Nat :
              EntryIs(buf, view, c, type, len, expiry)
        BY <2>3, EntryInNumbers
      <3>2. PICK e \in 0 .. n : e = view.offset + view.len /\ e >= n - k
        BY <1>1, <3>1 DEF EntryIs
      <3>3. HasLayout(f[e], buf, e)
        BY <1>5, <2>3, <3>2
      <3>4. PICK views : IsLayout(buf, e, views) /\ f[e] = [ok |-> TRUE, views |-> views]
        BY <3>3 DEF HasLayout
      <3>5. f[e].views = views
        BY <3>4
      <3>6. IsLayout(buf, c, <<view>> \o views)
        BY <2>3, <3>2, <3>4, EntryBefore
      <3>7. f[c] = [ok |-> TRUE, views |-> <<view>> \o views]
        BY <1>2, <2>3, <3>2, <3>5
      <3> QED
        BY <3>6, <3>7 DEF HasLayout
    <2> QED
      BY <1>1, <2>1, <2>2, <2>3, ParsedIsEntry
  <1>6. Nat \subseteq S
    <2> HIDE DEF S
    <2> QED
      BY <1>4, <1>5, Induction
  <1>7. n \in S
    <2> HIDE DEF S
    <2> QED
      BY <1>6
  <1>8. 0 \in 0 .. n /\ 0 >= n - n
    OBVIOUS
  <1> QED
    BY <1>7, <1>8

(***************************************************************************)
(* parse_actions accepts just the buffers that are actions end to end, at  *)
(* most MAX_ACTIONS, and returns these.                                    *)
(***************************************************************************)
LEMMA ParseIsLayout ==
    ASSUME NEW buf \in Seq(Nat)
    PROVE  /\ ParseActions(buf).ok =>
                \E views : /\ IsLayout(buf, 0, views) /\ Len(views) <= MAX_ACTIONS
                           /\ ParseActions(buf) = [ok |-> TRUE, views |-> views]
           /\ \A views : IsLayout(buf, 0, views) /\ Len(views) <= MAX_ACTIONS
                           => ParseActions(buf) = [ok |-> TRUE, views |-> views]
  <1>1. PICK f : f = (CHOOSE g : IsParser(g, buf, 0)) /\ IsParser(f, buf, 0)
    BY ParserExists
  <1>2. ParseActions(buf) = IF f[0].ok /\ Len(f[0].views) <= MAX_ACTIONS THEN f[0]
                            ELSE BufferError
    BY <1>1, ParseIsParser
  <1>3. ASSUME ParseActions(buf).ok
        PROVE  \E views : /\ IsLayout(buf, 0, views) /\ Len(views) <= MAX_ACTIONS
                          /\ ParseActions(buf) = [ok |-> TRUE, views |-> views]
    <2>1. BufferError.ok = FALSE
      BY DEF BufferError
    <2>2. f[0].ok /\ Len(f[0].views) <= MAX_ACTIONS /\ ParseActions(buf) = f[0]
      BY <1>2, <1>3, <2>1
    <2>3. PICK views : IsLayout(buf, 0, views) /\ f[0] = [ok |-> TRUE, views |-> views]
      BY <1>1, <2>2, ParsedIsLayout DEF HasLayout
    <2>4. f[0].views = views
      BY <2>3
    <2> QED
      BY <2>2, <2>3, <2>4
  <1>4. ASSUME NEW views, IsLayout(buf, 0, views), Len(views) <= MAX_ACTIONS
        PROVE  ParseActions(buf) = [ok |-> TRUE, views |-> views]
    <2>1. f[0] = [ok |-> TRUE, views |-> views]
      BY <1>1, <1>4, LayoutIsParsed
    <2>2. f[0].ok = TRUE /\ f[0].views = views
      BY <2>1
    <2> QED
      BY <1>2, <1>4, <2>1, <2>2
  <1> QED
    BY <1>3, <1>4

-----------------------------------------------------------------------------
(* The types of actions. *)

(***************************************************************************)
(* What each type limits.                                                  *)
(***************************************************************************)
LEMMA KindsOfTypes ==
    /\ KindOf[1] = "Limit" /\ KindOf[4] = "Limit"
    /\ KindOf[2] = "Recurring" /\ KindOf[5] = "Recurring"
    /\ KindOf[3] = "MaxPerTx" /\ KindOf[6] = "MaxPerTx"
    /\ KindOf[10] = "Whitelist" /\ KindOf[11] = "Blacklist"
  BY DEF KindOf

(***************************************************************************)
(* What the size of an action's data is made of.                           *)
(***************************************************************************)
LEMMA SizeOfType ==
    ASSUME NEW t \in Types
    PROVE  /\ KeySize(t) = IF t \in SolTypes THEN 0 ELSE 1
           /\ KindOf[t] = "Recurring" => ExpectedSize(t) = KeySize(t) + 4
           /\ KindOf[t] \in {"Limit", "MaxPerTx"} => ExpectedSize(t) = KeySize(t) + 1
           /\ KindOf[t] \in {"Whitelist", "Blacklist"} =>
                t \notin SolTypes /\ ExpectedSize(t) = 1
           /\ KindOf[t] \in LimitKinds \cup {"Whitelist", "Blacklist"}
  <1>1. KeySize(t) = IF t \in SolTypes THEN 0 ELSE 1
    BY DEF KeySize
  <1>2. t \in {1, 2, 3} <=> t \in SolTypes
    BY DEF SolTypes
  <1>3. CASE t \in {1, 3, 4, 6}
    <2>1. KindOf[t] \in {"Limit", "MaxPerTx"}
      BY <1>3, KindsOfTypes
    <2>2. ExpectedSize(t) = KeySize(t) + 1
      BY <2>1 DEF ExpectedSize
    <2> QED
      BY <1>1, <2>1, <2>2 DEF LimitKinds
  <1>4. CASE t \in {2, 5}
    <2>1. KindOf[t] = "Recurring"
      BY <1>4, KindsOfTypes
    <2>2. ExpectedSize(t) = KeySize(t) + 4
      BY <2>1 DEF ExpectedSize
    <2> QED
      BY <1>1, <2>1, <2>2 DEF LimitKinds
  <1>5. CASE t \in {10, 11}
    <2>1. KindOf[t] \in {"Whitelist", "Blacklist"}
      BY <1>5, KindsOfTypes
    <2>2. t \notin SolTypes
      BY <1>5 DEF SolTypes
    <2>3. KeySize(t) = 1
      BY <1>1, <2>2
    <2>4. ExpectedSize(t) = KeySize(t) + 0
      BY <2>1 DEF ExpectedSize
    <2> QED
      BY <1>1, <2>1, <2>2, <2>3, <2>4
  <1> QED
    BY <1>3, <1>4, <1>5 DEF Types

(***************************************************************************)
(* Kind and asset or program give the type.                                *)
(***************************************************************************)
LEMMA TypeIsUnique ==
    ASSUME NEW t \in Types, NEW u \in Types, KindOf[t] = KindOf[u],
           t \in SolTypes <=> u \in SolTypes
    PROVE  t = u
  BY KindsOfTypes DEF Types, SolTypes

-----------------------------------------------------------------------------
(* Writing in place. *)

U64 == 0 .. U64Max

(***************************************************************************)
(* Later borders are further back.                                         *)
(***************************************************************************)
LEMMA BordersRise ==
    ASSUME NEW n \in Nat, NEW b, NEW buf, NEW c, NEW views,
           AreBorders(b, buf, c, views, n)
    PROVE  \A j \in 0 .. n : \A i \in 0 .. j : b[i] \in Nat /\ b[j] \in Nat /\ b[i] <= b[j]
  <1>1. b \in [0 .. n -> Nat]
    BY DEF AreBorders
  <1> DEFINE Q == {j \in 0 .. n : \A i \in 0 .. j : b[i] <= b[j]}
  <1>2. 0 \in Q
    <2>1. b[0] \in Nat
      BY <1>1
    <2>2. \A i \in 0 .. 0 : i = 0
      OBVIOUS
    <2>3. b[0] <= b[0]
      BY <2>1
    <2> QED
      BY <2>2, <2>3
  <1>3. ASSUME NEW j \in 1 .. n, j - 1 \in Q
        PROVE  j \in Q
    <2>1. b[j - 1] + 3 <= b[j]
      BY DEF AreBorders
    <2>2. ASSUME NEW i \in 0 .. j
          PROVE  b[i] <= b[j]
      <3>1. PICK x \in Nat, y \in Nat, z \in Nat : x = b[i] /\ y = b[j - 1] /\ z = b[j]
        BY <1>1
      <3>2. CASE i = j
        BY <3>1, <3>2
      <3>3. CASE i # j
        <4>1. i \in 0 .. j - 1
          BY <3>3
        <4>2. b[i] <= b[j - 1]
          BY <1>3, <4>1
        <4> QED
          BY <2>1, <3>1, <4>2
      <3> QED
        BY <3>2, <3>3
    <2> QED
      BY <2>2
  <1>4. 0 .. n \subseteq Q
    <2> HIDE DEF Q
    <2> QED
      BY <1>2, <1>3, LoopInvariant
  <1> QED
    BY <1>1, <1>4

(***************************************************************************)
(* One cell of a list is replaced.                                         *)
(***************************************************************************)
LEMMA CellReplaced ==
    ASSUME NEW S, NEW buf \in Seq(S), NEW p \in 1 .. Len(buf), NEW v \in S
    PROVE  /\ [buf EXCEPT ![p] = v] \in Seq(S)
           /\ Len([buf EXCEPT ![p] = v]) = Len(buf)
           /\ \A i \in 1 .. Len(buf) :
                 [buf EXCEPT ![p] = v][i] = IF i = p THEN v ELSE buf[i]
  BY ExceptSeq

(***************************************************************************)
(* A list of u64 is a list of numbers.                                     *)
(***************************************************************************)
LEMMA NumbersInBuffer ==
    ASSUME NEW buf \in Seq(U64)
    PROVE  buf \in Seq(Nat)
  <1>1. PICK S, T : S = U64 /\ T = Nat
    OBVIOUS
  <1>2. S \subseteq T
    BY <1>1, BufferAssumption DEF U64
  <1>3. buf \in Seq(T)
    BY <1>1, <1>2, SeqMonotonic
  <1> QED
    BY <1>1, <1>3

(***************************************************************************)
(* The cells of an action's data are the same in both buffers.             *)
(***************************************************************************)
SameCells(buf, new, view) ==
    \A a \in 0 .. view.len - 1 : Cell(new, view, a) = Cell(buf, view, a)

(***************************************************************************)
(* The new buffer has the same layout, and all actions but the k-th the    *)
(* same data.                                                              *)
(***************************************************************************)
OthersKept(buf, new, views, k) ==
    /\ new \in Seq(U64)
    /\ IsLayout(new, 0, views)
    /\ \A j \in 1 .. Len(views) : j # k => SameCells(buf, new, views[j])

(***************************************************************************)
(* The data of the view are the len cells behind its header, which is      *)
(* behind the first cells.                                                 *)
(***************************************************************************)
DataAt(buf, view, from, len) ==
    /\ len = view.len /\ from + 3 + len <= Len(buf)
    /\ \A a \in 0 .. len - 1 : /\ view.offset + a + 1 = from + 4 + a
                               /\ Cell(buf, view, a) = buf[from + 4 + a]
                               /\ Cell(buf, view, a) \in U64

(***************************************************************************)
(* A cell of an action's data is a u64, at a place between its borders.    *)
(***************************************************************************)
LEMMA CellsInPlace ==
    ASSUME NEW buf \in Seq(U64), NEW views, IsLayout(buf, 0, views),
           NEW b, NEW n \in Nat, AreBorders(b, buf, 0, views, n),
           NEW j \in 1 .. n
    PROVE  \E len \in Nat, from \in Nat :
              /\ from = b[j - 1] /\ b[j] = from + 3 + len
              /\ DataAt(buf, views[j], from, len)
  <1>1. buf \in Seq(Nat)
    BY NumbersInBuffer
  <1>2. PICK view \in Views : view = views[j]
    BY DEF AreBorders
  <1>3. PICK from \in Nat : from = b[j - 1]
    <2>1. j - 1 \in 0 .. n
      OBVIOUS
    <2> QED
      BY <2>1 DEF AreBorders
  <1>4. IsEntry(buf, view, from)
    BY <1>2, <1>3 DEF AreBorders
  <1>5. PICK type \in Types, len \in Nat, expiry \in Nat :
          EntryIs(buf, view, from, type, len, expiry)
    BY <1>1, <1>4, EntryInNumbers
  <1>6. b[j] = from + 3 + len /\ len = views[j].len
    BY <1>2, <1>5 DEF AreBorders, EntryIs
  <1>7. from + 3 + len <= Len(buf)
    BY <1>5 DEF EntryIs
  <1>8. ASSUME NEW a \in 0 .. len - 1
        PROVE  /\ views[j].offset + a + 1 = from + 4 + a
               /\ Cell(buf, views[j], a) = buf[from + 4 + a]
               /\ Cell(buf, views[j], a) \in U64
    <2>1. view.offset = from + 3
      BY <1>5 DEF EntryIs
    <2>2. view.offset + a + 1 = from + 4 + a
      BY <2>1
    <2>3. Cell(buf, view, a) = buf[from + 4 + a]
      BY <2>2 DEF Cell
    <2>4. from + 4 + a \in 1 .. Len(buf)
      BY <1>7
    <2>5. PICK S : S = U64
      OBVIOUS
    <2>6. buf[from + 4 + a] \in S
      BY <2>4, <2>5
    <2> QED
      BY <1>2, <2>2, <2>3, <2>5, <2>6
  <1>9. DataAt(buf, views[j], from, len)
    BY <1>6, <1>7, <1>8 DEF DataAt
  <1> QED
    BY <1>3, <1>6, <1>9

(***************************************************************************)
(* write_u64 changes the one cell, and no header and no other action.      *)
(***************************************************************************)
LEMMA WriteInPlace ==
    ASSUME NEW buf \in Seq(U64), NEW views, IsLayout(buf, 0, views),
           NEW k \in 1 .. Len(views), NEW at \in 0 .. views[k].len - 1,
           NEW value \in U64, NEW new, new = WriteCell(buf, views[k], at, value)
    PROVE  /\ OthersKept(buf, new, views, k)
           /\ \A a \in 0 .. views[k].len - 1 :
                 Cell(new, views[k], a) = IF a = at THEN value ELSE Cell(buf, views[k], a)
  <1>1. PICK n \in Nat : n = Len(views)
    BY DEF IsLayout
  <1>2. PICK b : AreBorders(b, buf, 0, views, n)
    BY <1>1, NumbersInBuffer, LayoutHasBorders
  <1>3. \A j \in 0 .. n : \A i \in 0 .. j : b[i] \in Nat /\ b[j] \in Nat /\ b[i] <= b[j]
    BY <1>2, BordersRise
  <1>4. k \in 1 .. n
    BY <1>1
  <1>5. PICK len \in Nat, from \in Nat :
              /\ from = b[k - 1] /\ b[k] = from + 3 + len
              /\ DataAt(buf, views[k], from, len)
    BY <1>2, <1>4, CellsInPlace
  <1>6. PICK m \in Nat : m = Len(buf) /\ from + 3 + len <= m
    <2>1. Len(buf) \in Nat
      OBVIOUS
    <2> QED
      BY <1>5, <2>1 DEF DataAt
  <1>7. PICK p \in 1 .. m : p = from + 4 + at /\ from + 3 < p /\ p <= from + 3 + len
    <2>1. at \in 0 .. len - 1
      BY <1>5 DEF DataAt
    <2> QED
      BY <1>6, <2>1
  <1>8. /\ new \in Seq(U64) /\ Len(new) = m
        /\ \A i \in 1 .. m : new[i] = IF i = p THEN value ELSE buf[i]
    <2>1. new = [buf EXCEPT ![p] = value]
      <3>1. views[k].offset + at + 1 = p
        <4>1. at \in 0 .. len - 1
          BY <1>5 DEF DataAt
        <4> QED
          BY <1>5, <1>7, <4>1 DEF DataAt
      <3> QED
        BY <3>1 DEF WriteCell
    <2>2. PICK S : S = U64
      OBVIOUS
    <2>3. buf \in Seq(S) /\ value \in S /\ p \in 1 .. Len(buf)
      BY <1>6, <2>2
    <2>4. /\ [buf EXCEPT ![p] = value] \in Seq(S)
          /\ Len([buf EXCEPT ![p] = value]) = Len(buf)
          /\ \A i \in 1 .. Len(buf) :
                [buf EXCEPT ![p] = value][i] = IF i = p THEN value ELSE buf[i]
      BY <2>3, CellReplaced
    <2> QED
      BY <1>6, <2>1, <2>2, <2>4
  <1>9. ASSUME NEW j \in 1 .. n
        PROVE  /\ IsEntry(new, views[j], b[j - 1])
               /\ j # k => SameCells(buf, new, views[j])
    <2>1. PICK l \in Nat, f \in Nat :
              /\ f = b[j - 1] /\ b[j] = f + 3 + l
              /\ DataAt(buf, views[j], f, l)
      BY <1>2, CellsInPlace
    <2>0. f + 3 + l <= m
      BY <1>6, <2>1 DEF DataAt
    <2>2. \/ j < k /\ f + 3 + l <= from
          \/ j = k /\ f = from
          \/ k < j /\ from + 3 + len <= f
      <3>1. CASE j < k
        <4>1. k - 1 \in 0 .. n /\ j \in 0 .. k - 1
          BY <1>4, <3>1
        <4>2. b[j] <= b[k - 1]
          BY <1>3, <4>1
        <4> QED
          BY <1>5, <2>1, <3>1, <4>2
      <3>2. CASE j = k
        BY <1>5, <2>1, <3>2
      <3>3. CASE k < j
        <4>1. j - 1 \in 0 .. n /\ k \in 0 .. j - 1
          BY <1>4, <3>3
        <4>2. b[k] <= b[j - 1]
          BY <1>3, <4>1
        <4> QED
          BY <1>5, <2>1, <3>3, <4>2
      <3> QED
        BY <1>4, <3>1, <3>2, <3>3
    <2>3. new[f + 1] = buf[f + 1] /\ new[f + 2] = buf[f + 2] /\ new[f + 3] = buf[f + 3]
      <3>1. f + 1 \in 1 .. m /\ f + 2 \in 1 .. m /\ f + 3 \in 1 .. m
        BY <2>0
      <3>2. p # f + 1 /\ p # f + 2 /\ p # f + 3
        BY <1>7, <2>2
      <3> QED
        BY <1>8, <3>1, <3>2
    <2>4. IsEntry(buf, views[j], f)
      BY <1>2, <2>1 DEF AreBorders
    <2>5. IsEntry(new, views[j], f)
      BY <1>6, <1>8, <2>3, <2>4 DEF IsEntry
    <2>6. ASSUME j # k, NEW a \in 0 .. l - 1
          PROVE  Cell(new, views[j], a) = Cell(buf, views[j], a)
      <3>1. f + 4 + a \in 1 .. m /\ f + 4 + a # p
        <4>1. j < k \/ k < j => f + 4 + a # p
          BY <1>7, <2>2
        <4>2. j < k \/ k < j
          BY <1>4, <2>6
        <4> QED
          BY <2>0, <4>1, <4>2
      <3>2. new[f + 4 + a] = buf[f + 4 + a]
        BY <1>8, <3>1
      <3>3. views[j].offset + a + 1 = f + 4 + a
        BY <2>1 DEF DataAt
      <3> QED
        BY <3>2, <3>3 DEF Cell
    <2> QED
      <3>1. l = views[j].len
        BY <2>1 DEF DataAt
      <3> QED
        BY <2>1, <2>5, <2>6, <3>1 DEF SameCells
  <1>10. ASSUME NEW a \in 0 .. len - 1
         PROVE  Cell(new, views[k], a) = IF a = at THEN value ELSE Cell(buf, views[k], a)
    <2>1. views[k].offset + a + 1 = from + 4 + a
      BY <1>5 DEF DataAt
    <2>2. from + 4 + a \in 1 .. m
      BY <1>6
    <2>3. from + 4 + a = p <=> a = at
      <3>1. at \in 0 .. len - 1
        BY <1>5 DEF DataAt
      <3> QED
        BY <1>7, <3>1
    <2>4. new[from + 4 + a] = IF a = at THEN value ELSE buf[from + 4 + a]
      BY <1>8, <2>2, <2>3
    <2> QED
      BY <2>1, <2>4 DEF Cell
  <1>11. IsLayout(new, 0, views)
    <2>1. \A j \in 0 .. n : b[j] = Border(0, views, j)
      <3>1. ASSUME NEW j \in 0 .. n
            PROVE  b[j] = Border(0, views, j)
        <4>1. CASE j = 0
          BY <1>2, <4>1 DEF AreBorders, Border
        <4>2. CASE j # 0
          <5>1. j \in 1 .. n
            BY <4>2
          <5> QED
            BY <1>2, <4>2, <5>1 DEF AreBorders, Border
        <4> QED
          BY <4>1, <4>2
      <3> QED
        BY <3>1
    <2>2. \A j \in 1 .. n : IsEntry(new, views[j], Border(0, views, j - 1))
      <3>1. \A j \in 1 .. n : j - 1 \in 0 .. n
        OBVIOUS
      <3> QED
        BY <1>9, <2>1, <3>1
    <2>3. Border(0, views, n) = Len(new)
      BY <1>1, <1>6, <1>8 DEF IsLayout
    <2> QED
      BY <1>1, <2>2, <2>3 DEF IsLayout
  <1>12. OthersKept(buf, new, views, k)
    BY <1>1, <1>8, <1>9, <1>11 DEF OthersKept
  <1> QED
    BY <1>5, <1>10, <1>12 DEF DataAt

(***************************************************************************)
(* What two writes to an action keep.                                      *)
(***************************************************************************)
LEMMA KeptTwice ==
    ASSUME NEW buf, NEW mid, NEW new, NEW views, NEW k,
           OthersKept(buf, mid, views, k), OthersKept(mid, new, views, k)
    PROVE  OthersKept(buf, new, views, k)
  BY DEF OthersKept, SameCells

-----------------------------------------------------------------------------
(* What the program relies on in the data of an action. *)

(***************************************************************************)
(* An action's data has the size of its type; its key is that of a mint or *)
(* of a program, its limit is one, and its window is not empty.            *)
(***************************************************************************)
Sound(buf, view) ==
    /\ view.len = ExpectedSize(view.type)
    /\ view.type \notin SolTypes => Cell(buf, view, 0) \in Cells
    /\ IsLimit(view) => Cell(buf, view, AmountAt(view.type)) \in Cells
    /\ KindOf[view.type] = "Recurring" => Cell(buf, view, WindowAt(view.type)) > 0

(***************************************************************************)
(* Where an action of type t has its data, key being the size of its key.  *)
(***************************************************************************)
Places(t, key) ==
    /\ KeySize(t) = key /\ (key = 0 <=> t \in SolTypes)
    /\ AmountAt(t) = key /\ SpentAt(t) = key + 1
    /\ WindowAt(t) = key + 2 /\ ResetAt(t) = key + 3
    /\ KindOf[t] = "Recurring" => ExpectedSize(t) = key + 4
    /\ KindOf[t] \in {"Limit", "MaxPerTx"} => ExpectedSize(t) = key + 1
    /\ KindOf[t] \in {"Whitelist", "Blacklist"} => key = 1 /\ ExpectedSize(t) = 1

LEMMA PlacesOfType ==
    ASSUME NEW t \in Types
    PROVE  \E key \in {0, 1} : Places(t, key)
  <1>1. PICK key \in {0, 1} : KeySize(t) = key /\ (key = 0 <=> t \in SolTypes)
    BY SizeOfType
  <1>2. /\ KindOf[t] = "Recurring" => ExpectedSize(t) = key + 4
        /\ KindOf[t] \in {"Limit", "MaxPerTx"} => ExpectedSize(t) = key + 1
        /\ KindOf[t] \in {"Whitelist", "Blacklist"} => key = 1 /\ ExpectedSize(t) = 1
    BY <1>1, SizeOfType
  <1>3. Places(t, key)
    BY <1>1, <1>2 DEF Places, AmountAt, SpentAt, WindowAt, ResetAt
  <1> QED
    BY <1>3

(***************************************************************************)
(* The cells of an action are u64.                                         *)
(***************************************************************************)
LEMMA CellsOfView ==
    ASSUME NEW buf \in Seq(U64), NEW views, IsLayout(buf, 0, views),
           NEW k \in 1 .. Len(views)
    PROVE  /\ views[k] \in Views /\ views[k].type \in Types
           /\ views[k].len \in Nat /\ views[k].expiresAt \in Nat
           /\ \A a \in 0 .. views[k].len - 1 : Cell(buf, views[k], a) \in U64
  <1>1. PICK n \in Nat : n = Len(views)
    BY DEF IsLayout
  <1>2. PICK b : AreBorders(b, buf, 0, views, n)
    BY <1>1, NumbersInBuffer, LayoutHasBorders
  <1>3. views[k] \in Views
    BY <1>1, <1>2 DEF AreBorders
  <1>4. views[k].type \in Types /\ views[k].len \in Nat /\ views[k].expiresAt \in Nat
    BY <1>3 DEF Views
  <1>5. PICK len \in Nat, from \in Nat : DataAt(buf, views[k], from, len)
    BY <1>1, <1>2, CellsInPlace
  <1>6. \A a \in 0 .. views[k].len - 1 : Cell(buf, views[k], a) \in U64
    BY <1>5 DEF DataAt
  <1> QED
    BY <1>3, <1>4, <1>6

(***************************************************************************)
(* Which cells an action has.                                              *)
(***************************************************************************)
HasCells(view, key) ==
    /\ Places(view.type, key)
    /\ key = 1 => 0 \in 0 .. view.len - 1
    /\ IsLimit(view) => key \in 0 .. view.len - 1
    /\ KindOf[view.type] = "Recurring" =>
         /\ key + 1 \in 0 .. view.len - 1 /\ key + 2 \in 0 .. view.len - 1
         /\ key + 3 \in 0 .. view.len - 1

LEMMA CellsOfSound ==
    ASSUME NEW buf, NEW view \in Views, Sound(buf, view)
    PROVE  \E key \in {0, 1} : HasCells(view, key)
  <1>1. PICK t \in Types, len \in Nat : t = view.type /\ len = view.len
    BY DEF Views
  <1>2. PICK key \in {0, 1} : Places(t, key)
    BY PlacesOfType
  <1>3. len = ExpectedSize(t)
    BY <1>1 DEF Sound
  <1>4. KindOf[t] \in LimitKinds \cup {"Whitelist", "Blacklist"}
    BY SizeOfType
  <1>5. KindOf[t] \in LimitKinds => len \in {key + 1, key + 4}
    BY <1>2, <1>3 DEF Places, LimitKinds
  <1>6. key = 1 => len \in {1, 2, 5}
    BY <1>2, <1>3, <1>4 DEF Places, LimitKinds
  <1>7. KindOf[t] = "Recurring" => len = key + 4
    BY <1>2, <1>3 DEF Places
  <1>8. key = 1 => 0 \in 0 .. len - 1
    BY <1>6
  <1>9. KindOf[t] \in LimitKinds => key \in 0 .. len - 1
    BY <1>5
  <1>10. KindOf[t] = "Recurring" =>
           key + 1 \in 0 .. len - 1 /\ key + 2 \in 0 .. len - 1 /\ key + 3 \in 0 .. len - 1
    BY <1>7
  <1>11. HasCells(view, key)
    BY <1>1, <1>2, <1>8, <1>9, <1>10 DEF HasCells, IsLimit
  <1> QED
    BY <1>11

(***************************************************************************)
(* What an action limits, or lists.                                        *)
(***************************************************************************)
KeyOf(buf, view) ==
    IF view.type \in SolTypes THEN "SOL" ELSE TargetOf(Cell(buf, view, 0))

LEMMA ActionInCells ==
    ASSUME NEW buf, NEW view
    PROVE  ActionOf(buf, view)
             = [kind |-> KindOf[view.type], target |-> KeyOf(buf, view),
                amount |-> IF IsLimit(view) THEN Cell(buf, view, AmountAt(view.type)) ELSE 0,
                spent |-> IF KindOf[view.type] = "Recurring"
                          THEN Cell(buf, view, SpentAt(view.type)) ELSE 0,
                window |-> IF KindOf[view.type] = "Recurring"
                           THEN Cell(buf, view, WindowAt(view.type)) ELSE 0,
                lastReset |-> IF KindOf[view.type] = "Recurring"
                              THEN Cell(buf, view, ResetAt(view.type)) ELSE 0,
                expiresAt |-> view.expiresAt]
  BY DEF ActionOf, KeyOf, IsLimit, AmountAt, SpentAt, WindowAt, ResetAt

(***************************************************************************)
(* Where the data are the same, so is what the program makes of them.      *)
(***************************************************************************)
LEMMA SameAction ==
    ASSUME NEW buf, NEW new, NEW view \in Views, Sound(buf, view),
           SameCells(buf, new, view)
    PROVE  /\ Sound(new, view) /\ ActionOf(new, view) = ActionOf(buf, view)
           /\ \A spent : SpendSeen(new, view, spent) = SpendSeen(buf, view, spent)
           /\ IsLimit(view) =>
                \A spend : ViewAllows(new, view, spend) <=> ViewAllows(buf, view, spend)
  <1>1. PICK key \in {0, 1} : HasCells(view, key)
    BY CellsOfSound
  <1>2. PICK t \in Types : t = view.type
    BY DEF Views
  <1>3. Places(t, key)
    BY <1>1, <1>2 DEF HasCells
  <1>4. t \notin SolTypes => Cell(new, view, 0) = Cell(buf, view, 0)
    <2>1. t \notin SolTypes => 0 \in 0 .. view.len - 1
      BY <1>1, <1>2, <1>3 DEF HasCells, Places
    <2> QED
      BY <2>1 DEF SameCells
  <1>5. IsLimit(view) => Cell(new, view, AmountAt(t)) = Cell(buf, view, AmountAt(t))
    BY <1>1, <1>3 DEF HasCells, Places, SameCells
  <1>6. KindOf[t] = "Recurring" =>
          /\ Cell(new, view, SpentAt(t)) = Cell(buf, view, SpentAt(t))
          /\ Cell(new, view, WindowAt(t)) = Cell(buf, view, WindowAt(t))
          /\ Cell(new, view, ResetAt(t)) = Cell(buf, view, ResetAt(t))
    BY <1>1, <1>2, <1>3 DEF HasCells, Places, SameCells
  <1>7. Sound(new, view)
    BY <1>2, <1>4, <1>5, <1>6 DEF Sound
  <1>8. ActionOf(new, view) = ActionOf(buf, view)
    BY <1>2, <1>4, <1>5, <1>6, ActionInCells DEF KeyOf
  <1>9. \A spent : SpendSeen(new, view, spent) = SpendSeen(buf, view, spent)
    BY <1>2, <1>4 DEF SpendSeen, SolTypes
  <1>10. IsLimit(view) =>
           \A spend : ViewAllows(new, view, spend) <=> ViewAllows(buf, view, spend)
    <2>1. CASE KindOf[t] = "Recurring"
      <3>1. IsLimit(view)
        BY <1>2, <2>1 DEF IsLimit, LimitKinds
      <3> QED
        BY <1>2, <1>5, <1>6, <2>1, <3>1 DEF ViewAllows, Elapsed
    <2>2. CASE KindOf[t] # "Recurring" /\ IsLimit(view)
      BY <1>2, <1>5, <2>2 DEF ViewAllows
    <2> QED
      BY <2>1, <2>2
  <1> QED
    BY <1>7, <1>8, <1>9, <1>10

-----------------------------------------------------------------------------
(* Writing back what was spent. *)

(***************************************************************************)
(* A window starts at most at the slot it is aligned to.                   *)
(***************************************************************************)
LEMMA AlignedBelow ==
    ASSUME NEW s \in Nat, NEW w \in Nat \ {0}
    PROVE  (s \div w) * w \in 0 .. s
  <1>1. PICK q \in Nat, r \in Nat : q = s \div w /\ s = w * q + r
    <2>1. s \div w \in Nat /\ (s % w) \in Nat /\ s = w * (s \div w) + (s % w)
      OBVIOUS
    <2> QED
      BY <2>1
  <1>2. PICK x \in Nat : x = q * w /\ x = w * q
    OBVIOUS
  <1>3. x \in 0 .. s
    BY <1>1, <1>2
  <1> QED
    BY <1>1, <1>2, <1>3

(***************************************************************************)
(* What WriteBack must do with the action of the k-th view.                *)
(***************************************************************************)
WellWritten(buf, new, views, k, spend) ==
    /\ OthersKept(buf, new, views, k)
    /\ Sound(new, views[k])
    /\ ViewAllows(buf, views[k], spend) =>
         ActionOf(new, views[k]) = Charge(ActionOf(buf, views[k]), spend, slot)

(***************************************************************************)
(* Nothing is written for an action that expired, or of which nothing was  *)
(* spent, and for a limit per transaction.                                 *)
(***************************************************************************)
LEMMA NothingWritten ==
    ASSUME NEW buf \in Seq(U64), NEW views, IsLayout(buf, 0, views),
           NEW k \in 1 .. Len(views), Sound(buf, views[k]), NEW spend,
           \/ ViewExpired(views[k]) \/ spend = 0
           \/ KindOf[views[k].type] \notin {"Limit", "Recurring"}
    PROVE  /\ WriteBack(buf, views[k], spend) = buf
           /\ WellWritten(buf, buf, views, k, spend)
  <1>1. WriteBack(buf, views[k], spend) = buf
    BY DEF WriteBack
  <1>2. OthersKept(buf, buf, views, k)
    BY DEF OthersKept, SameCells
  <1>3. PICK a : a = ActionOf(buf, views[k])
    OBVIOUS
  <1>4. a.kind = KindOf[views[k].type] /\ a.expiresAt = views[k].expiresAt
    BY <1>3, ActionInCells
  <1>5. Charge(a, spend, slot) = a
    BY <1>4 DEF Charge, IsExpired, ViewExpired
  <1> QED
    BY <1>1, <1>2, <1>3, <1>5 DEF WellWritten

(***************************************************************************)
(* A lifetime limit is lowered.                                            *)
(***************************************************************************)
LEMMA LimitWritten ==
    ASSUME NEW buf \in Seq(U64), NEW views, IsLayout(buf, 0, views),
           NEW k \in 1 .. Len(views), Sound(buf, views[k]), NEW spend \in U64,
           ~ ViewExpired(views[k]), spend # 0,
           KindOf[views[k].type] = "Limit"
    PROVE  WellWritten(buf, WriteBack(buf, views[k], spend), views, k, spend)
  <1>1. PICK view \in Views : view = views[k]
    BY CellsOfView
  <1>2. PICK t \in Types : t = view.type
    BY DEF Views
  <1>3. PICK key \in {0, 1} : HasCells(view, key)
    BY <1>1, CellsOfSound
  <1>4. Places(t, key)
    BY <1>2, <1>3 DEF HasCells
  <1>5. IsLimit(view)
    BY <1>1 DEF IsLimit, LimitKinds
  <1>6. PICK amount \in Cells : amount = Cell(buf, view, key)
    BY <1>1, <1>2, <1>4, <1>5 DEF Sound, Places
  <1>7. PICK value \in Cells : value = SaturatingSub(amount, spend)
    <2>1. U64Max \in Nat
      BY BufferAssumption
    <2>2. PICK x \in Nat, y \in Nat : x = amount /\ y = spend /\ x < U64Max
      BY <2>1 DEF Cells, U64
    <2>3. (IF x > y THEN x - y ELSE 0) \in 0 .. U64Max - 1
      BY <2>1, <2>2
    <2> QED
      BY <2>2, <2>3 DEF SaturatingSub, Cells
  <1>8. PICK new : new = WriteCell(buf, view, key, value)
    OBVIOUS
  <1>9. WriteBack(buf, view, spend) = new
    BY <1>1, <1>2, <1>4, <1>6, <1>7, <1>8 DEF WriteBack, Places
  <1>10. key \in 0 .. view.len - 1
    BY <1>3, <1>5 DEF HasCells
  <1>11. value \in U64
    BY <1>7, BufferAssumption DEF Cells, U64
  <1>12. /\ OthersKept(buf, new, views, k)
         /\ \A a \in 0 .. view.len - 1 :
               Cell(new, view, a) = IF a = key THEN value ELSE Cell(buf, view, a)
    BY <1>1, <1>8, <1>10, <1>11, WriteInPlace
  <1>13. Cell(new, view, key) = value
    BY <1>10, <1>12
  <1>14. t \notin SolTypes => Cell(new, view, 0) = Cell(buf, view, 0)
    <2>1. t \notin SolTypes => key = 1
      BY <1>4 DEF Places
    <2>2. t \notin SolTypes => 0 \in 0 .. view.len - 1 /\ key # 0
      BY <1>3, <2>1 DEF HasCells
    <2> QED
      BY <1>12, <2>2
  <1>15. Sound(new, view)
    BY <1>1, <1>2, <1>4, <1>7, <1>13, <1>14 DEF Sound, Places
  <1>16. PICK target : target = KeyOf(buf, view) /\ target = KeyOf(new, view)
    BY <1>2, <1>14 DEF KeyOf
  <1>17. PICK a : a = [kind |-> "Limit", target |-> target, amount |-> amount,
                       spent |-> 0, window |-> 0, lastReset |-> 0,
                       expiresAt |-> view.expiresAt]
    OBVIOUS
  <1>18. ActionOf(buf, view) = a
    BY <1>1, <1>2, <1>4, <1>5, <1>6, <1>16, <1>17, ActionInCells DEF Places
  <1>19. ActionOf(new, view) = [kind |-> "Limit", target |-> target, amount |-> value,
                                spent |-> 0, window |-> 0, lastReset |-> 0,
                                expiresAt |-> view.expiresAt]
    BY <1>1, <1>2, <1>4, <1>5, <1>13, <1>16, ActionInCells DEF Places
  <1>20. a.kind = "Limit" /\ a.expiresAt = view.expiresAt /\ a.amount = amount
    BY <1>17
  <1>21. ~ IsExpired(a, slot)
    BY <1>1, <1>20 DEF IsExpired, ViewExpired
  <1>22. Charge(a, spend, slot) = [a EXCEPT !.amount = value]
    BY <1>7, <1>20, <1>21 DEF Charge
  <1>23. [a EXCEPT !.amount = value]
           = [kind |-> "Limit", target |-> target, amount |-> value,
              spent |-> 0, window |-> 0, lastReset |-> 0, expiresAt |-> view.expiresAt]
    BY <1>17
  <1> QED
    BY <1>1, <1>9, <1>12, <1>15, <1>18, <1>19, <1>22, <1>23 DEF WellWritten

(***************************************************************************)
(* What is written for a recurring limit: u64, and, where the limit allows *)
(* the spend, what Charge says.                                            *)
(***************************************************************************)
NewSpent(sofar, window, reset, spend) ==
    IF SaturatingSub(slot, reset) > window THEN spend ELSE SaturatingAdd(sofar, spend)

NewReset(window, reset) ==
    IF SaturatingSub(slot, reset) > window THEN (slot \div window) * window ELSE reset

LEMMA NewSpentIs ==
    ASSUME NEW sofar \in U64, NEW window \in U64, NEW reset \in U64, NEW spend \in U64,
           NEW amount \in Cells
    PROVE  /\ NewSpent(sofar, window, reset, spend) \in U64
           /\ SaturatingAdd(IF SaturatingSub(slot, reset) > window THEN 0 ELSE sofar, spend)
                <= amount
              => NewSpent(sofar, window, reset, spend)
                   = (IF SaturatingSub(slot, reset) > window THEN 0 ELSE sofar) + spend
  <1>1. PICK x \in Nat, y \in Nat, m \in Nat, top \in Nat :
          /\ x = sofar /\ y = spend /\ m = amount /\ top = U64Max
          /\ x <= top /\ y <= top /\ m < top
    BY BufferAssumption DEF U64, Cells
  <1>2. CASE SaturatingSub(slot, reset) > window
    <2>1. NewSpent(sofar, window, reset, spend) = y
      BY <1>1, <1>2 DEF NewSpent
    <2>2. 0 + y = y /\ y \in 0 .. top
      BY <1>1
    <2> QED
      BY <1>1, <1>2, <2>1, <2>2 DEF U64
  <1>3. CASE ~ (SaturatingSub(slot, reset) > window)
    <2>1. NewSpent(sofar, window, reset, spend) = IF x + y > top THEN top ELSE x + y
      BY <1>1, <1>3 DEF NewSpent, SaturatingAdd
    <2>2. SaturatingAdd(IF SaturatingSub(slot, reset) > window THEN 0 ELSE sofar, spend)
            = IF x + y > top THEN top ELSE x + y
      BY <1>1, <1>3 DEF SaturatingAdd
    <2>3. (IF x + y > top THEN top ELSE x + y) \in 0 .. top
      BY <1>1
    <2>4. (IF x + y > top THEN top ELSE x + y) <= m
            => (IF x + y > top THEN top ELSE x + y) = x + y
      BY <1>1
    <2> QED
      BY <1>1, <1>3, <2>1, <2>2, <2>3, <2>4 DEF U64
  <1> QED
    BY <1>2, <1>3

LEMMA NewResetIs ==
    ASSUME slot \in 0 .. MaxSlot, NEW window \in U64, window > 0, NEW reset \in U64
    PROVE  NewReset(window, reset) \in U64
  <1>1. PICK s \in Nat, w \in Nat \ {0}, top \in Nat :
          s = slot /\ w = window /\ top = U64Max /\ s <= top
    BY BufferAssumption DEF U64, Cells
  <1>2. (s \div w) * w \in 0 .. s
    BY AlignedBelow
  <1>3. (s \div w) * w \in 0 .. top
    BY <1>1, <1>2
  <1> QED
    BY <1>1, <1>3 DEF NewReset, U64

(***************************************************************************)
(* A recurring limit counts what was spent, in a new window when the old   *)
(* one is over.                                                            *)
(***************************************************************************)
LEMMA RecurringWritten ==
    ASSUME NEW buf \in Seq(U64), NEW views, IsLayout(buf, 0, views),
           NEW k \in 1 .. Len(views), Sound(buf, views[k]), NEW spend \in U64,
           ~ ViewExpired(views[k]), spend # 0, slot \in 0 .. MaxSlot,
           KindOf[views[k].type] = "Recurring"
    PROVE  WellWritten(buf, WriteBack(buf, views[k], spend), views, k, spend)
  <1>1. PICK view \in Views : view = views[k]
    BY CellsOfView
  <1>2. PICK t \in Types : t = view.type
    BY DEF Views
  <1>3. PICK key \in {0, 1} : HasCells(view, key)
    BY <1>1, CellsOfSound
  <1>4. Places(t, key)
    BY <1>2, <1>3 DEF HasCells
  <1>5. IsLimit(view)
    BY <1>1 DEF IsLimit, LimitKinds
  <1>6. PICK amount \in Cells : amount = Cell(buf, view, key)
    BY <1>1, <1>2, <1>4, <1>5 DEF Sound, Places
  <1>7. /\ key \in 0 .. view.len - 1 /\ key + 1 \in 0 .. view.len - 1
        /\ key + 2 \in 0 .. view.len - 1 /\ key + 3 \in 0 .. view.len - 1
    BY <1>1, <1>3, <1>5 DEF HasCells
  <1>8. PICK sofar \in U64, window \in U64, reset \in U64 :
          /\ sofar = Cell(buf, view, key + 1) /\ window = Cell(buf, view, key + 2)
          /\ reset = Cell(buf, view, key + 3)
    BY <1>1, <1>7, CellsOfView
  <1>9. window > 0
    BY <1>1, <1>2, <1>4, <1>8 DEF Sound, Places
  <1>10. PICK spent \in U64, start \in U64 :
           /\ spent = NewSpent(sofar, window, reset, spend)
           /\ start = NewReset(window, reset)
    BY <1>6, <1>9, NewSpentIs, NewResetIs
  <1>11. PICK mid, new : /\ mid = WriteCell(buf, view, key + 1, spent)
                         /\ new = WriteCell(mid, view, key + 3, start)
    OBVIOUS
  <1>12. WriteBack(buf, view, spend) = new
    BY <1>1, <1>2, <1>4, <1>8, <1>10, <1>11
       DEF WriteBack, Places, Elapsed, NewSpent, NewReset
  <1>13. /\ OthersKept(buf, mid, views, k)
         /\ \A a \in 0 .. view.len - 1 :
               Cell(mid, view, a) = IF a = key + 1 THEN spent ELSE Cell(buf, view, a)
    BY <1>1, <1>7, <1>11, WriteInPlace
  <1>14. mid \in Seq(U64) /\ IsLayout(mid, 0, views)
    BY <1>13 DEF OthersKept
  <1>15. /\ OthersKept(mid, new, views, k)
         /\ \A a \in 0 .. view.len - 1 :
               Cell(new, view, a) = IF a = key + 3 THEN start ELSE Cell(mid, view, a)
    BY <1>1, <1>7, <1>11, <1>14, WriteInPlace
  <1>16. OthersKept(buf, new, views, k)
    BY <1>13, <1>15, KeptTwice
  <1>17. /\ Cell(new, view, key) = amount /\ Cell(new, view, key + 1) = spent
         /\ Cell(new, view, key + 2) = window /\ Cell(new, view, key + 3) = start
    <2>1. /\ key # key + 1 /\ key # key + 3 /\ key + 1 # key + 3
          /\ key + 2 # key + 1 /\ key + 2 # key + 3
      OBVIOUS
    <2> QED
      BY <1>6, <1>7, <1>8, <1>13, <1>15, <2>1
  <1>18. t \notin SolTypes => Cell(new, view, 0) = Cell(buf, view, 0)
    <2>1. t \notin SolTypes => key = 1
      BY <1>4 DEF Places
    <2>2. t \notin SolTypes => 0 \in 0 .. view.len - 1 /\ 0 # key + 1 /\ 0 # key + 3
      BY <1>3, <2>1 DEF HasCells
    <2> QED
      BY <1>13, <1>15, <2>2
  <1>19. Sound(new, view)
    BY <1>1, <1>2, <1>4, <1>6, <1>9, <1>17, <1>18 DEF Sound, Places
  <1>20. PICK target : target = KeyOf(buf, view) /\ target = KeyOf(new, view)
    BY <1>2, <1>18 DEF KeyOf
  <1>21. PICK a : a = [kind |-> "Recurring", target |-> target, amount |-> amount,
                       spent |-> sofar, window |-> window, lastReset |-> reset,
                       expiresAt |-> view.expiresAt]
    OBVIOUS
  <1>22. ActionOf(buf, view) = a
    BY <1>1, <1>2, <1>4, <1>5, <1>6, <1>8, <1>20, <1>21, ActionInCells DEF Places
  <1>23. ActionOf(new, view)
           = [kind |-> "Recurring", target |-> target, amount |-> amount,
              spent |-> spent, window |-> window, lastReset |-> start,
              expiresAt |-> view.expiresAt]
    BY <1>1, <1>2, <1>4, <1>5, <1>17, <1>20, ActionInCells DEF Places
  <1>24. /\ a.kind = "Recurring" /\ a.expiresAt = view.expiresAt
         /\ a.spent = sofar /\ a.window = window /\ a.lastReset = reset
    BY <1>21
  <1>25. ~ IsExpired(a, slot)
    BY <1>1, <1>24 DEF IsExpired, ViewExpired
  <1>26. ASSUME ViewAllows(buf, view, spend)
         PROVE  Charge(a, spend, slot) = [a EXCEPT !.spent = spent, !.lastReset = start]
    <2>1. SaturatingAdd(IF SaturatingSub(slot, reset) > window THEN 0 ELSE sofar, spend)
            <= amount
      <3>1. spend > 0
        BY BufferAssumption DEF U64
      <3> QED
        BY <1>1, <1>2, <1>4, <1>6, <1>8, <1>26, <3>1 DEF ViewAllows, Places, Elapsed
    <2>2. spent = SpentSoFar(a, slot) + spend
      BY <1>6, <1>10, <1>24, <2>1, NewSpentIs DEF SpentSoFar, WindowElapsed
    <2>3. start = AlignedReset(a, slot)
      BY <1>10, <1>24 DEF AlignedReset, WindowElapsed, NewReset
    <2> QED
      BY <1>24, <1>25, <2>2, <2>3 DEF Charge
  <1>27. [a EXCEPT !.spent = spent, !.lastReset = start]
           = [kind |-> "Recurring", target |-> target, amount |-> amount,
              spent |-> spent, window |-> window, lastReset |-> start,
              expiresAt |-> view.expiresAt]
    <2>1. PICK c : c = [kind |-> "Recurring", target |-> target, amount |-> amount,
                        spent |-> spent, window |-> window, lastReset |-> reset,
                        expiresAt |-> view.expiresAt]
      OBVIOUS
    <2>2. [a EXCEPT !.spent = spent] = c
      BY <1>21, <2>1
    <2>3. [c EXCEPT !.lastReset = start]
            = [kind |-> "Recurring", target |-> target, amount |-> amount,
               spent |-> spent, window |-> window, lastReset |-> start,
               expiresAt |-> view.expiresAt]
      BY <2>1
    <2>4. [[a EXCEPT !.spent = spent] EXCEPT !.lastReset = start]
            = [c EXCEPT !.lastReset = start]
      BY <2>2, Zenon
    <2> QED
      BY <2>3, <2>4, Zenon
  <1> QED
    BY <1>1, <1>12, <1>16, <1>19, <1>22, <1>23, <1>26, <1>27 DEF WellWritten

(***************************************************************************)
(* Phase 2 of evaluate_post_actions does for one action what Charge says.  *)
(***************************************************************************)
LEMMA WriteBackCharges ==
    ASSUME NEW buf \in Seq(U64), NEW views, IsLayout(buf, 0, views),
           NEW k \in 1 .. Len(views), Sound(buf, views[k]), NEW spend \in U64,
           slot \in 0 .. MaxSlot
    PROVE  WellWritten(buf, WriteBack(buf, views[k], spend), views, k, spend)
  <1>1. CASE \/ ViewExpired(views[k]) \/ spend = 0
             \/ KindOf[views[k].type] \notin {"Limit", "Recurring"}
    BY <1>1, NothingWritten
  <1>2. CASE /\ ~ ViewExpired(views[k]) /\ spend # 0
             /\ KindOf[views[k].type] = "Limit"
    BY <1>2, LimitWritten
  <1>3. CASE /\ ~ ViewExpired(views[k]) /\ spend # 0
             /\ KindOf[views[k].type] = "Recurring"
    BY <1>3, RecurringWritten
  <1> QED
    BY <1>1, <1>2, <1>3

-----------------------------------------------------------------------------
(* The checks of evaluate_post_actions. *)

(***************************************************************************)
(* Every key has the one number, and every cell is the number of a key.    *)
(***************************************************************************)
LEMMA KeyOfCell ==
    ASSUME NEW cell \in Cells
    PROVE  /\ TargetOf(cell) \in DOMAIN KeyCell /\ KeyCell[TargetOf(cell)] = cell
           /\ \A k \in DOMAIN KeyCell : KeyCell[k] = cell => TargetOf(cell) = k
  <1>1. \E k \in DOMAIN KeyCell : KeyCell[k] = cell
    BY KeysAssumption
  <1>2. TargetOf(cell) \in DOMAIN KeyCell /\ KeyCell[TargetOf(cell)] = cell
    BY <1>1 DEF TargetOf
  <1> QED
    BY <1>2, KeysAssumption

LEMMA SpendIsU64 ==
    ASSUME NEW spent \in Spends, NEW m \in Assets
    PROVE  spent.gross \in U64 /\ spent.net[m] \in U64
  <1>1. PICK S : S = 0 .. MaxSpend
    OBVIOUS
  <1>2. S \subseteq U64
    BY <1>1, BufferAssumption DEF U64
  <1>3. spent.gross \in S /\ spent.net \in [Assets -> S]
    BY <1>1 DEF Spends
  <1> QED
    BY <1>2, <1>3

(***************************************************************************)
(* An action of the buffer sees the same spend as its record.              *)
(***************************************************************************)
LEMMA SpendIsSeen ==
    ASSUME NEW buf, NEW view \in Views, Sound(buf, view), NEW spent \in Spends
    PROVE  /\ SpendSeen(buf, view, spent) = Seen(ActionOf(buf, view), spent)
           /\ SpendSeen(buf, view, spent) \in U64
  <1>1. PICK t \in Types : t = view.type
    BY DEF Views
  <1>2. PICK a : a = ActionOf(buf, view)
    OBVIOUS
  <1>3. a.kind = KindOf[t] /\ a.target = KeyOf(buf, view)
    BY <1>1, <1>2, ActionInCells
  <1>4. "SOL" \in Assets
    BY ActionsAssumption
  <1>5. CASE t = 3
    <2>1. a.kind = "MaxPerTx" /\ a.target = "SOL"
      BY <1>1, <1>3, <1>5, KindsOfTypes DEF KeyOf, SolTypes
    <2>2. SpendSeen(buf, view, spent) = spent.gross
      BY <1>1, <1>5 DEF SpendSeen
    <2> QED
      BY <1>2, <1>4, <2>1, <2>2, SpendIsU64 DEF Seen
  <1>6. CASE t \in {1, 2}
    <2>1. a.kind # "MaxPerTx" /\ a.target = "SOL"
      BY <1>1, <1>3, <1>6, KindsOfTypes DEF KeyOf, SolTypes
    <2>2. SpendSeen(buf, view, spent) = spent.net["SOL"]
      BY <1>1, <1>6 DEF SpendSeen, SolTypes
    <2> QED
      BY <1>2, <1>4, <2>1, <2>2, SpendIsU64 DEF Seen
  <1>7. CASE t \notin SolTypes
    <2>1. PICK cell \in Cells : cell = Cell(buf, view, 0)
      BY <1>1, <1>7 DEF Sound
    <2>2. PICK k \in DOMAIN KeyCell : k = TargetOf(cell) /\ KeyCell[k] = cell
      BY KeyOfCell
    <2>3. a.target = k /\ k # "SOL"
      BY <1>1, <1>3, <1>7, <2>1, <2>2, KeysAssumption DEF KeyOf, Mints
    <2>4. t # 3
      BY <1>7 DEF SolTypes
    <2>5. SpendSeen(buf, view, spent)
            = IF \E m \in Mints : KeyCell[m] = cell
              THEN spent.net[CHOOSE m \in Mints : KeyCell[m] = cell] ELSE 0
      BY <1>1, <1>7, <2>1, <2>4 DEF SpendSeen
    <2>6. CASE k \in Mints
      <3>1. (CHOOSE m \in Mints : KeyCell[m] = cell) = k
        BY <2>2, <2>6, KeysAssumption
      <3>2. SpendSeen(buf, view, spent) = spent.net[k]
        BY <2>2, <2>5, <2>6, <3>1
      <3>3. k \in Assets
        BY <2>6 DEF Mints
      <3> QED
        BY <1>2, <2>3, <3>2, <3>3, SpendIsU64 DEF Seen
    <2>7. CASE k \notin Mints
      <3>1. ~ \E m \in Mints : KeyCell[m] = cell
        BY <2>2, <2>7, KeysAssumption
      <3>2. k \notin Assets
        BY <2>3, <2>7 DEF Mints
      <3>3. 0 \in U64
        BY BufferAssumption DEF U64
      <3> QED
        BY <1>2, <2>3, <2>5, <3>1, <3>2, <3>3 DEF Seen
    <2> QED
      BY <2>6, <2>7
  <1> QED
    BY <1>5, <1>6, <1>7 DEF SolTypes

(***************************************************************************)
(* Phase 1 of evaluate_post_actions allows what Allows does: no limit is   *)
(* so high that the saturated sum passes it.                               *)
(***************************************************************************)
LEMMA ChecksAreAllows ==
    ASSUME NEW buf \in Seq(U64), NEW views, IsLayout(buf, 0, views),
           NEW k \in 1 .. Len(views), Sound(buf, views[k]), IsLimit(views[k]),
           NEW spend \in U64
    PROVE  ViewAllows(buf, views[k], spend) <=> Allows(ActionOf(buf, views[k]), spend, slot)
  <1>1. PICK view \in Views : view = views[k]
    BY CellsOfView
  <1>2. PICK t \in Types : t = view.type
    BY DEF Views
  <1>3. PICK key \in {0, 1} : HasCells(view, key)
    BY <1>1, CellsOfSound
  <1>4. Places(t, key)
    BY <1>2, <1>3 DEF HasCells
  <1>5. PICK amount \in Cells : amount = Cell(buf, view, AmountAt(t))
    BY <1>1, <1>2 DEF Sound
  <1>6. PICK a : a = ActionOf(buf, view)
    OBVIOUS
  <1>7. /\ a.kind = KindOf[t] /\ a.amount = amount /\ a.expiresAt = view.expiresAt
        /\ IsExpired(a, slot) <=> ViewExpired(view)
    BY <1>1, <1>2, <1>5, <1>6, ActionInCells DEF IsExpired, ViewExpired
  <1>8. CASE KindOf[t] # "Recurring"
    BY <1>1, <1>2, <1>5, <1>6, <1>7, <1>8 DEF ViewAllows, Allows
  <1>9. CASE KindOf[t] = "Recurring"
    <2>1. key + 1 \in 0 .. view.len - 1
      BY <1>2, <1>3, <1>9 DEF HasCells
    <2>2. PICK sofar \in U64 : sofar = Cell(buf, view, SpentAt(t))
      BY <1>1, <1>4, <2>1, CellsOfView DEF Places
    <2>3. PICK window, reset : /\ window = Cell(buf, view, WindowAt(t))
                               /\ reset = Cell(buf, view, ResetAt(t))
      OBVIOUS
    <2>4. a.spent = sofar /\ a.window = window /\ a.lastReset = reset
      BY <1>2, <1>6, <1>9, <2>2, <2>3, ActionInCells
    <2>5. PICK x \in U64 : x = IF SaturatingSub(slot, reset) > window THEN 0 ELSE sofar
      BY BufferAssumption DEF U64
    <2>6. SpentSoFar(a, slot) = x
      BY <2>4, <2>5 DEF SpentSoFar, WindowElapsed
    <2>7. SaturatingAdd(x, spend) <= amount <=> x + spend <= amount
      <3>1. PICK u \in Nat, v \in Nat, m \in Nat, top \in Nat :
              /\ u = x /\ v = spend /\ m = amount /\ top = U64Max
              /\ u <= top /\ v <= top /\ m < top
        BY BufferAssumption DEF U64, Cells
      <3>2. (IF u + v > top THEN top ELSE u + v) <= m <=> u + v <= m
        BY <3>1
      <3> QED
        BY <3>1, <3>2 DEF SaturatingAdd
    <2>8. ViewAllows(buf, view, spend)
            <=> (spend > 0 => ~ ViewExpired(view) /\ SaturatingAdd(x, spend) <= amount)
      BY <1>2, <1>5, <1>9, <2>2, <2>3, <2>5 DEF ViewAllows, Elapsed
    <2>9. Allows(a, spend, slot)
            <=> (spend > 0 => ~ ViewExpired(view) /\ x + spend <= amount)
      BY <1>7, <1>9, <2>6 DEF Allows
    <2> QED
      BY <1>1, <1>6, <2>7, <2>8, <2>9
  <1> QED
    BY <1>8, <1>9

-----------------------------------------------------------------------------
(* Phase 2 of evaluate_post_actions, for all actions. *)

(***************************************************************************)
(* Buffers with this layout, whose actions are sound.                      *)
(***************************************************************************)
Writable(views) ==
    {b \in Seq(U64) : /\ IsLayout(b, 0, views)
                      /\ \A k \in 1 .. Len(views) : Sound(b, views[k])}

WriteOne(b, view, spent) ==
    IF IsLimit(view) THEN WriteBack(b, view, SpendSeen(b, view, spent)) ELSE b

ChargedAction(a, spent) ==
    IF a.kind \in LimitKinds THEN Charge(a, Seen(a, spent), slot) ELSE a

(***************************************************************************)
(* What the k-th step of the loop does.                                    *)
(***************************************************************************)
OneWritten(b, new, views, k, spent) ==
    /\ new \in Writable(views)
    /\ \A j \in 1 .. Len(views) : j # k => SameCells(b, new, views[j])
    /\ (IsLimit(views[k]) => ViewAllows(b, views[k], SpendSeen(b, views[k], spent)))
         => ActionOf(new, views[k]) = ChargedAction(ActionOf(b, views[k]), spent)

LEMMA WriteOneKeeps ==
    ASSUME NEW views, NEW b \in Writable(views), NEW k \in 1 .. Len(views),
           NEW spent \in Spends, slot \in 0 .. MaxSlot
    PROVE  OneWritten(b, WriteOne(b, views[k], spent), views, k, spent)
  <1>1. b \in Seq(U64) /\ IsLayout(b, 0, views) /\ Sound(b, views[k])
    BY DEF Writable
  <1>2. views[k] \in Views
    BY <1>1, CellsOfView
  <1>3. PICK a : a = ActionOf(b, views[k]) /\ a.kind = KindOf[views[k].type]
    BY ActionInCells
  <1>4. CASE ~ IsLimit(views[k])
    <2>1. WriteOne(b, views[k], spent) = b
      BY <1>4 DEF WriteOne
    <2>2. ChargedAction(a, spent) = a
      BY <1>3, <1>4 DEF ChargedAction, IsLimit
    <2> QED
      BY <1>3, <2>1, <2>2 DEF OneWritten, SameCells
  <1>5. CASE IsLimit(views[k])
    <2>1. PICK spend \in U64 : /\ spend = SpendSeen(b, views[k], spent)
                               /\ spend = Seen(a, spent)
      BY <1>1, <1>2, <1>3, SpendIsSeen
    <2>2. PICK new : new = WriteBack(b, views[k], spend)
      OBVIOUS
    <2>3. WriteOne(b, views[k], spent) = new
      BY <1>5, <2>1, <2>2 DEF WriteOne
    <2>4. WellWritten(b, new, views, k, spend)
      BY <1>1, <2>2, WriteBackCharges
    <2>5. OthersKept(b, new, views, k) /\ Sound(new, views[k])
      BY <2>4 DEF WellWritten
    <2>6. /\ new \in Seq(U64) /\ IsLayout(new, 0, views)
          /\ \A j \in 1 .. Len(views) : j # k => SameCells(b, new, views[j])
      BY <2>5 DEF OthersKept
    <2>7. \A j \in 1 .. Len(views) : Sound(new, views[j])
      <3>1. ASSUME NEW j \in 1 .. Len(views), j # k
            PROVE  Sound(new, views[j])
        <4>1. views[j] \in Views
          BY <1>1, CellsOfView
        <4>2. Sound(b, views[j])
          BY DEF Writable
        <4> QED
          BY <2>6, <3>1, <4>1, <4>2, SameAction
      <3> QED
        BY <2>5, <3>1
    <2>8. new \in Writable(views)
      BY <2>6, <2>7 DEF Writable
    <2>9. ViewAllows(b, views[k], spend) => ActionOf(new, views[k]) = Charge(a, spend, slot)
      BY <1>3, <2>4 DEF WellWritten
    <2>10. ChargedAction(a, spent) = Charge(a, spend, slot)
      BY <1>3, <1>5, <2>1 DEF ChargedAction, IsLimit
    <2> QED
      BY <1>3, <1>5, <2>1, <2>3, <2>6, <2>8, <2>9, <2>10 DEF OneWritten
  <1> QED
    BY <1>4, <1>5

(***************************************************************************)
(* The fold of WriteAll, and its loop.                                     *)
(***************************************************************************)
IsWritingAll(g, views, buf, spent, D) ==
    g = [s \in SUBSET D |->
           IF s = {} THEN buf ELSE WriteOne(g[s \ {Max(s)}], views[Max(s)], spent)]

IsWriteLoop(acc, n, views, buf, spent) ==
    /\ acc \in [0 .. n -> Writable(views)]
    /\ acc[0] = buf
    /\ \A k \in 1 .. n : acc[k] = WriteOne(acc[k - 1], views[k], spent)

LEMMA WritingIsLoop ==
    ASSUME NEW views, NEW buf \in Writable(views), Len(views) <= MAX_ACTIONS,
           NEW spent \in Spends, slot \in 0 .. MaxSlot,
           NEW n \in Nat, n = Len(views)
    PROVE  \E acc : /\ IsWriteLoop(acc, n, views, buf, spent)
                    /\ acc[n] = WriteAll(buf, spent)
  <1>0. PICK D : D = 1 .. n
    OBVIOUS
  <1>1. PICK X : X = Writable(views)
    OBVIOUS
  <1>2. WriteAll(buf, spent) = (CHOOSE g : IsWritingAll(g, views, buf, spent, D))[D]
    <2>1. ParseActions(buf) = [ok |-> TRUE, views |-> views]
      BY NumbersInBuffer, ParseIsLayout DEF Writable
    <2>2. ParseActions(buf).views = views
      BY <2>1
    <2>3. DOMAIN views = D
      BY <1>0 DEF Writable, IsLayout
    <2> QED
      BY <2>2, <2>3 DEF WriteAll, WriteOne, FoldLeft, MapThenFoldSet, IsWritingAll
  <1>3. \A s \in SUBSET D : s # {} => Max(s) \in s
    BY <1>0, Largest
  <1>4. PICK h : h = [vk \in X \X D |-> WriteOne(vk[1], views[vk[2]], spent)]
    OBVIOUS
  <1>5. Combines(h, 1 .. n, X)
    <2>1. \A v \in X, k \in D : WriteOne(v, views[k], spent) \in X
      BY <1>0, <1>1, WriteOneKeeps DEF OneWritten
    <2> QED
      BY <1>0, <1>4, <2>1 DEF Combines
  <1>6. \E g : IsWritingAll(g, views, buf, spent, D)
    <2>1. PICK g \in [SUBSET (1 .. n) -> X] : IsFoldOf(g, 1 .. n, buf, h)
      BY <1>1, <1>5, FoldByMax
    <2>2. ASSUME NEW s \in SUBSET D
          PROVE  g[s] = IF s = {} THEN buf
                        ELSE WriteOne(g[s \ {Max(s)}], views[Max(s)], spent)
      <3>1. CASE s = {}
        BY <1>0, <2>1, <3>1 DEF IsFoldOf
      <3>2. CASE s # {}
        <4>1. PICK m \in D : m = Max(s)
          BY <1>3, <3>2
        <4>2. g[s] = h[<<g[s \ {m}], m>>]
          BY <1>0, <2>1, <3>2, <4>1 DEF IsFoldOf
        <4>3. PICK v \in X : v = g[s \ {m}]
          BY <1>0, <2>1
        <4>4. h[<<v, m>>] = WriteOne(v, views[m], spent)
          BY <1>4
        <4> QED
          BY <3>2, <4>1, <4>2, <4>3, <4>4
      <3> QED
        BY <3>1, <3>2
    <2>3. IsWritingAll(g, views, buf, spent, D)
      BY <1>0, <2>1, <2>2 DEF IsWritingAll
    <2> QED
      BY <2>3
  <1>7. PICK g : /\ g = (CHOOSE w : IsWritingAll(w, views, buf, spent, D))
                 /\ IsWritingAll(g, views, buf, spent, D)
    BY <1>6
  <1>8. g[{}] = buf
    BY <1>7 DEF IsWritingAll
  <1>9. ASSUME NEW k \in 1 .. n, g[1 .. k - 1] \in X
        PROVE  g[1 .. k] = h[<<g[1 .. k - 1], k>>]
    <2>1. /\ 1 .. k \in SUBSET D /\ 1 .. k # {}
          /\ Max(1 .. k) = k /\ (1 .. k) \ {k} = 1 .. k - 1
      <3>1. k \in Nat /\ k # 0
        OBVIOUS
      <3>2. Max(1 .. k) = k /\ (1 .. k) \ {k} = 1 .. k - 1
        BY <3>1, LastOfFirst
      <3>3. 1 .. k \subseteq 1 .. n /\ k \in 1 .. k
        OBVIOUS
      <3> QED
        BY <1>0, <3>2, <3>3
    <2>2. g[1 .. k] = WriteOne(g[1 .. k - 1], views[k], spent)
      BY <1>7, <2>1 DEF IsWritingAll
    <2>3. k \in D
      BY <1>0
    <2>4. PICK v \in X : v = g[1 .. k - 1]
      BY <1>9
    <2>5. h[<<v, k>>] = WriteOne(v, views[k], spent)
      BY <1>4, <2>3
    <2> QED
      BY <2>2, <2>4, <2>5
  <1>10. PICK acc : IsLoop(acc, n, X, buf, h) /\ acc[n] = g[1 .. n]
    <2>1. GoesOn(g, n, X, h)
      BY <1>9 DEF GoesOn
    <2> QED
      BY <1>1, <1>5, <1>8, <2>1, FoldIsLoop
  <1>11. ASSUME NEW k \in 1 .. n
         PROVE  acc[k] = WriteOne(acc[k - 1], views[k], spent)
    <2>1. PICK v \in X : v = acc[k - 1]
      BY <1>10 DEF IsLoop
    <2>2. acc[k] = h[<<acc[k - 1], k>>]
      BY <1>10 DEF IsLoop
    <2>3. h[<<v, k>>] = WriteOne(v, views[k], spent)
      BY <1>0, <1>4
    <2> QED
      BY <2>1, <2>2, <2>3
  <1>12. IsWriteLoop(acc, n, views, buf, spent)
    BY <1>1, <1>10, <1>11 DEF IsWriteLoop, IsLoop
  <1> QED
    BY <1>0, <1>2, <1>7, <1>10, <1>12

(***************************************************************************)
(* Where the limits allow the spend, every action is charged, and once:    *)
(* writing one of them leaves the others as they were checked.             *)
(***************************************************************************)
AllAllow(buf, views, spent) ==
    \A k \in 1 .. Len(views) :
       IsLimit(views[k]) => ViewAllows(buf, views[k], SpendSeen(buf, views[k], spent))

AllCharged(buf, new, views, spent) ==
    /\ new \in Writable(views)
    /\ \A k \in 1 .. Len(views) :
          ActionOf(new, views[k]) = ChargedAction(ActionOf(buf, views[k]), spent)

LEMMA WriteAllCharges ==
    ASSUME NEW views, NEW buf \in Writable(views), Len(views) <= MAX_ACTIONS,
           NEW spent \in Spends, slot \in 0 .. MaxSlot, AllAllow(buf, views, spent)
    PROVE  AllCharged(buf, WriteAll(buf, spent), views, spent)
  <1>1. PICK n \in Nat : n = Len(views)
    BY DEF Writable, IsLayout
  <1>2. PICK acc : /\ IsWriteLoop(acc, n, views, buf, spent)
                   /\ acc[n] = WriteAll(buf, spent)
    BY <1>1, WritingIsLoop
  <1>3. \A j \in 1 .. n : views[j] \in Views /\ Sound(buf, views[j])
    BY <1>1, CellsOfView DEF Writable
  <1> DEFINE Done(k) ==
               /\ \A j \in 1 .. k :
                     ActionOf(acc[k], views[j]) = ChargedAction(ActionOf(buf, views[j]), spent)
               /\ \A j \in k + 1 .. n : SameCells(buf, acc[k], views[j])
             Q == {k \in 0 .. n : Done(k)}
  <1>4. 0 \in Q
    <2>1. \A j \in 0 + 1 .. n : SameCells(buf, acc[0], views[j])
      BY <1>2 DEF IsWriteLoop, SameCells
    <2>2. 1 .. 0 = {}
      OBVIOUS
    <2> QED
      BY <2>1, <2>2
  <1>5. ASSUME NEW k \in 1 .. n, k - 1 \in Q
        PROVE  k \in Q
    <2>1. PICK b, new : b \in Writable(views) /\ b = acc[k - 1] /\ new = acc[k]
      BY <1>2 DEF IsWriteLoop
    <2>2. new = WriteOne(b, views[k], spent)
      BY <1>2, <2>1 DEF IsWriteLoop
    <2>3. OneWritten(b, new, views, k, spent)
      BY <1>1, <2>1, <2>2, WriteOneKeeps
    <2>4. \A j \in 1 .. n : j # k => SameCells(b, new, views[j])
      BY <1>1, <2>3 DEF OneWritten
    <2>5. \A j \in k .. n : SameCells(buf, b, views[j])
      <3>1. (k - 1) + 1 = k
        OBVIOUS
      <3> QED
        BY <1>5, <2>1, <3>1
    <2>6. ASSUME NEW j \in 1 .. k
          PROVE  ActionOf(new, views[j]) = ChargedAction(ActionOf(buf, views[j]), spent)
      <3>1. CASE j = k
        <4>1. k \in k .. n
          OBVIOUS
        <4>2. SameCells(buf, b, views[k])
          BY <2>5, <4>1
        <4>3. /\ ActionOf(b, views[k]) = ActionOf(buf, views[k])
              /\ SpendSeen(b, views[k], spent) = SpendSeen(buf, views[k], spent)
              /\ IsLimit(views[k]) =>
                   \A spend : ViewAllows(b, views[k], spend)
                                <=> ViewAllows(buf, views[k], spend)
          BY <1>3, <4>2, SameAction
        <4>4. IsLimit(views[k]) => ViewAllows(b, views[k], SpendSeen(b, views[k], spent))
          BY <1>1, <4>3 DEF AllAllow
        <4> QED
          BY <2>3, <3>1, <4>3, <4>4 DEF OneWritten
      <3>2. CASE j # k
        <4>1. j \in 1 .. k - 1 /\ j \in 1 .. n
          BY <3>2
        <4>2. ActionOf(b, views[j]) = ChargedAction(ActionOf(buf, views[j]), spent)
          BY <1>5, <2>1, <4>1
        <4>3. Sound(b, views[j]) /\ views[j] \in Views
          BY <1>1, <1>3, <2>1, <4>1 DEF Writable
        <4>4. ActionOf(new, views[j]) = ActionOf(b, views[j])
          BY <2>4, <3>2, <4>1, <4>3, SameAction
        <4> QED
          BY <4>2, <4>4
      <3> QED
        BY <3>1, <3>2
    <2>7. ASSUME NEW j \in k + 1 .. n
          PROVE  SameCells(buf, new, views[j])
      <3>1. j \in k .. n /\ j \in 1 .. n /\ j # k
        OBVIOUS
      <3>2. SameCells(buf, b, views[j]) /\ SameCells(b, new, views[j])
        BY <2>4, <2>5, <3>1
      <3> QED
        BY <3>2 DEF SameCells
    <2> QED
      BY <2>1, <2>6, <2>7
  <1>6. 0 .. n \subseteq Q
    <2> HIDE DEF Q
    <2> QED
      BY <1>4, <1>5, LoopInvariant
  <1>7. n \in 0 .. n
    OBVIOUS
  <1>8. Done(n)
    BY <1>6, <1>7
  <1>9. acc[n] \in Writable(views)
    BY <1>2, <1>7 DEF IsWriteLoop
  <1> QED
    BY <1>1, <1>2, <1>8, <1>9 DEF AllCharged

-----------------------------------------------------------------------------
(* An action, as clients write it. *)

(***************************************************************************)
(* Three lists, one behind the other.                                      *)
(***************************************************************************)
InThree(w, head, key, data) ==
    /\ w = head \o key \o data /\ Len(w) = 3 + Len(key) + Len(data)
    /\ Len(key \o data) = Len(key) + Len(data)
    /\ \A i \in 1 .. 3 : w[i] = head[i]
    /\ \A i \in 1 .. Len(key) : w[3 + i] = key[i]
    /\ \A i \in 1 .. Len(data) : w[3 + Len(key) + i] = data[i]

LEMMA ThreeLists ==
    ASSUME NEW S, NEW head \in Seq(S), NEW key \in Seq(S), NEW data \in Seq(S),
           Len(head) = 3
    PROVE  \E w \in Seq(S) : InThree(w, head, key, data)
  <1>1. PICK m \in Nat, n \in Nat : m = Len(key) /\ n = Len(data)
    OBVIOUS
  <1>2. PICK front \in Seq(S) : Joined(front, head, key)
    BY JoinedExists
  <1>3. PICK w \in Seq(S) : Joined(w, front, data)
    BY JoinedExists
  <1>4. PICK back \in Seq(S) : Joined(back, key, data)
    BY JoinedExists
  <1>5. Len(front) = 3 + m /\ \A i \in 1 .. 3 : front[i] = head[i]
    BY <1>1, <1>2 DEF Joined
  <1>6. \A i \in 1 .. m : front[3 + i] = key[i]
    BY <1>1, <1>2 DEF Joined
  <1>7. Len(w) = 3 + m + n /\ \A i \in 1 .. 3 + m : w[i] = front[i]
    BY <1>1, <1>3, <1>5 DEF Joined
  <1>8. \A i \in 1 .. n : w[3 + m + i] = data[i]
    BY <1>1, <1>3, <1>5 DEF Joined
  <1>9. \A i \in 1 .. 3 : w[i] = head[i]
    BY <1>5, <1>7
  <1>10. \A i \in 1 .. m : w[3 + i] = key[i]
    <2>1. ASSUME NEW i \in 1 .. m
          PROVE  w[3 + i] = key[i]
      <3>1. 3 + i \in 1 .. 3 + m
        OBVIOUS
      <3> QED
        BY <1>6, <1>7, <3>1
    <2> QED
      BY <2>1
  <1>11. w = head \o key \o data
    BY <1>2, <1>3 DEF Joined
  <1>12. Len(key \o data) = m + n
    BY <1>1, <1>4 DEF Joined
  <1> QED
    BY <1>1, <1>7, <1>8, <1>9, <1>10, <1>11, <1>12 DEF InThree

(***************************************************************************)
(* Every action of the buffer has the size of its type, and a key.         *)
(***************************************************************************)
Keyed(buf, view) ==
    /\ view.len = ExpectedSize(view.type)
    /\ view.type \notin SolTypes => Cell(buf, view, 0) \in Cells

(***************************************************************************)
(* The type is that of the record's kind and target.                       *)
(***************************************************************************)
LEMMA TypeOfAction ==
    ASSUME NEW buf, NEW view \in Views, Keyed(buf, view), NEW a, a = ActionOf(buf, view)
    PROVE  /\ TypeOf(a) = view.type
           /\ a.target = "SOL" <=> view.type \in SolTypes
           /\ view.type \notin SolTypes => KeyCell[a.target] = Cell(buf, view, 0)
  <1>1. PICK t \in Types : t = view.type
    BY DEF Views
  <1>2. a.kind = KindOf[t] /\ a.target = KeyOf(buf, view)
    BY <1>1, ActionInCells
  <1>3. ASSUME t \notin SolTypes
        PROVE  a.target # "SOL" /\ KeyCell[a.target] = Cell(buf, view, 0)
    <2>1. PICK cell \in Cells : cell = Cell(buf, view, 0)
      BY <1>1, <1>3 DEF Keyed
    <2>2. TargetOf(cell) \in DOMAIN KeyCell /\ KeyCell[TargetOf(cell)] = cell
      BY KeyOfCell
    <2> QED
      BY <1>1, <1>2, <1>3, <2>1, <2>2, KeysAssumption DEF KeyOf, Mints
  <1>4. t \in SolTypes => a.target = "SOL"
    BY <1>1, <1>2 DEF KeyOf
  <1>5. a.target = "SOL" <=> t \in SolTypes
    BY <1>3, <1>4
  <1>6. TypeOf(a) = t
    <2>1. \A u \in Types : KindOf[u] = a.kind /\ (u \in SolTypes <=> a.target = "SOL")
                             => u = t
      BY <1>2, <1>5, TypeIsUnique
    <2> QED
      BY <1>2, <1>5, <2>1, TypesOfKinds DEF TypeOf
  <1> QED
    BY <1>1, <1>3, <1>5, <1>6

(***************************************************************************)
(* What the client writes of an action is what the parser found.           *)
(***************************************************************************)
DataOf(a) ==
    CASE a.kind = "Recurring" -> <<a.amount, a.spent, a.window, a.lastReset>>
      [] a.kind \in {"Limit", "MaxPerTx"} -> <<a.amount>>
      [] OTHER -> <<>>

SeesCells(buf, from, data) ==
    /\ data \in Seq(U64)
    /\ \A i \in 1 .. Len(data) : buf[from + i] = data[i]

LEMMA DataInCells ==
    ASSUME NEW buf \in Seq(U64), NEW view \in Views, Keyed(buf, view),
           NEW from \in Nat, DataAt(buf, view, from, view.len),
           NEW key \in {0, 1}, Places(view.type, key),
           NEW a, a = ActionOf(buf, view)
    PROVE  /\ SeesCells(buf, from + 3 + key, DataOf(a))
           /\ view.len = key + Len(DataOf(a))
  <1>1. PICK t \in Types, len \in Nat : t = view.type /\ len = view.len
    BY DEF Views
  <1>2. Places(t, key) /\ len = ExpectedSize(t)
    BY <1>1 DEF Keyed
  <1>3. \A i \in 0 .. len - 1 : /\ Cell(buf, view, i) = buf[from + 4 + i]
                                /\ Cell(buf, view, i) \in U64
    BY <1>1 DEF DataAt
  <1>4. KindOf[t] \in LimitKinds \cup {"Whitelist", "Blacklist"}
    BY SizeOfType
  <1>5. CASE KindOf[t] = "Recurring"
    <2>1. len = key + 4
      BY <1>2, <1>5 DEF Places
    <2>2. PICK p \in U64, q \in U64, r \in U64, s \in U64 :
            /\ p = Cell(buf, view, key) /\ p = buf[from + 3 + key + 1]
            /\ q = Cell(buf, view, key + 1) /\ q = buf[from + 3 + key + 2]
            /\ r = Cell(buf, view, key + 2) /\ r = buf[from + 3 + key + 3]
            /\ s = Cell(buf, view, key + 3) /\ s = buf[from + 3 + key + 4]
      <3>1. /\ key \in 0 .. len - 1 /\ key + 1 \in 0 .. len - 1
            /\ key + 2 \in 0 .. len - 1 /\ key + 3 \in 0 .. len - 1
            /\ from + 4 + key = from + 3 + key + 1
            /\ from + 4 + (key + 1) = from + 3 + key + 2
            /\ from + 4 + (key + 2) = from + 3 + key + 3
            /\ from + 4 + (key + 3) = from + 3 + key + 4
        BY <2>1
      <3> QED
        BY <1>3, <3>1
    <2>3. /\ a.kind = "Recurring" /\ a.amount = p /\ a.spent = q
          /\ a.window = r /\ a.lastReset = s
      BY <1>1, <1>2, <1>5, <2>2, ActionInCells DEF Places, IsLimit, LimitKinds
    <2>4. DataOf(a) = <<p, q, r, s>>
      BY <2>3 DEF DataOf
    <2>5. PICK S, data : S = U64 /\ data = <<p, q, r, s>>
      OBVIOUS
    <2>6. /\ data \in Seq(S) /\ Len(data) = 4
          /\ data[1] = p /\ data[2] = q /\ data[3] = r /\ data[4] = s
      BY <2>5
    <2>7. \A i \in 1 .. 4 : buf[from + 3 + key + i] = data[i]
      <3>1. \A i \in 1 .. 4 : i \in {1, 2, 3, 4}
        OBVIOUS
      <3> QED
        BY <2>2, <2>6, <3>1
    <2> QED
      BY <1>1, <2>1, <2>4, <2>5, <2>6, <2>7 DEF SeesCells
  <1>6. CASE KindOf[t] \in {"Limit", "MaxPerTx"}
    <2>1. len = key + 1
      BY <1>2, <1>6 DEF Places
    <2>2. PICK p \in U64 :
            p = Cell(buf, view, key) /\ p = buf[from + 3 + key + 1]
      <3>1. key \in 0 .. len - 1 /\ from + 4 + key = from + 3 + key + 1
        BY <2>1
      <3> QED
        BY <1>3, <3>1
    <2>3. a.kind = KindOf[t] /\ a.amount = p
      BY <1>1, <1>2, <1>6, <2>2, ActionInCells DEF Places, IsLimit, LimitKinds
    <2>4. DataOf(a) = <<p>>
      BY <1>6, <2>3 DEF DataOf
    <2>5. PICK S, data : S = U64 /\ data = <<p>>
      OBVIOUS
    <2>6. data \in Seq(S) /\ Len(data) = 1 /\ data[1] = p
      BY <2>5
    <2>7. \A i \in 1 .. 1 : buf[from + 3 + key + i] = data[i]
      <3>1. \A i \in 1 .. 1 : i = 1
        OBVIOUS
      <3> QED
        BY <2>2, <2>6, <3>1
    <2> QED
      BY <1>1, <2>1, <2>4, <2>5, <2>6, <2>7 DEF SeesCells
  <1>7. CASE KindOf[t] \in {"Whitelist", "Blacklist"}
    <2>1. key = 1 /\ len = 1
      BY <1>2, <1>7 DEF Places
    <2>2. a.kind = KindOf[t]
      BY <1>1, ActionInCells
    <2>3. DataOf(a) = <<>>
      BY <1>7, <2>2 DEF DataOf
    <2>4. PICK S : S = U64
      OBVIOUS
    <2>5. <<>> \in Seq(S) /\ Len(<<>>) = 0
      BY EmptySeq
    <2>6. 1 = 1 + 0 /\ 1 .. 0 = {}
      OBVIOUS
    <2> QED
      BY <1>1, <2>1, <2>3, <2>4, <2>5, <2>6 DEF SeesCells
  <1> QED
    BY <1>4, <1>5, <1>6, <1>7 DEF LimitKinds

LEMMA ViewIsWritten ==
    ASSUME NEW buf \in Seq(U64), NEW views, IsLayout(buf, 0, views),
           NEW n \in Nat, n = Len(views), NEW b, AreBorders(b, buf, 0, views, n),
           NEW k \in 1 .. n, Keyed(buf, views[k])
    PROVE  /\ SubSeq(buf, b[k - 1] + 1, b[k]) = CellsOf(ActionOf(buf, views[k]))
           /\ views[k].offset - HeaderSize = b[k - 1]
           /\ views[k].offset + views[k].len = b[k]
  <1>1. PICK view \in Views : view = views[k]
    BY CellsOfView
  <1>2. PICK len \in Nat, from \in Nat :
          /\ from = b[k - 1] /\ b[k] = from + 3 + len
          /\ DataAt(buf, view, from, len) /\ len = view.len
    <2>1. PICK len \in Nat, from \in Nat :
            /\ from = b[k - 1] /\ b[k] = from + 3 + len
            /\ DataAt(buf, view, from, len)
      BY <1>1, CellsInPlace
    <2>2. len = view.len
      BY <2>1 DEF DataAt
    <2> QED
      BY <2>1, <2>2
  <1>3. IsEntry(buf, view, from)
    BY <1>1, <1>2 DEF AreBorders
  <1>4. PICK t \in Types, l \in Nat, e \in Nat : EntryIs(buf, view, from, t, l, e)
    BY <1>3, NumbersInBuffer, EntryInNumbers
  <1>5. /\ t = view.type /\ len = l /\ e = view.expiresAt /\ view.offset = from + 3
        /\ buf[from + 1] = t /\ buf[from + 2] = len /\ buf[from + 3] = e
        /\ from + 3 + len <= Len(buf)
    BY <1>2, <1>4 DEF EntryIs
  <1>6. PICK a : a = ActionOf(buf, view)
    OBVIOUS
  <1>7. /\ TypeOf(a) = t /\ (a.target = "SOL" <=> t \in SolTypes)
        /\ t \notin SolTypes => KeyCell[a.target] = Cell(buf, view, 0)
    BY <1>1, <1>5, <1>6, TypeOfAction
  <1>8. a.expiresAt = e
    BY <1>5, <1>6, ActionInCells
  <1>9. PICK key \in {0, 1} : Places(t, key)
    BY PlacesOfType
  <1>10. PICK data : data = DataOf(a) /\ SeesCells(buf, from + 3 + key, data)
                     /\ len = key + Len(data)
    <2>1. /\ Keyed(buf, view) /\ DataAt(buf, view, from, view.len)
          /\ Places(view.type, key)
      BY <1>1, <1>2, <1>5, <1>9
    <2>2. /\ SeesCells(buf, from + 3 + key, DataOf(a))
          /\ view.len = key + Len(DataOf(a))
      BY <1>6, <2>1, DataInCells
    <2> QED
      BY <1>2, <2>2
  <1>11. PICK S : S = U64
    OBVIOUS
  <1>12. PICK d \in Nat : data \in Seq(S) /\ d = Len(data) /\ len = key + d
                          /\ \A i \in 1 .. d : buf[from + 3 + key + i] = data[i]
    <2>1. data \in Seq(S)
      BY <1>10, <1>11 DEF SeesCells
    <2>2. Len(data) \in Nat
      BY <2>1
    <2> QED
      BY <1>10, <2>1, <2>2 DEF SeesCells
  <1>13. PICK name \in Seq(S) :
           /\ name = IF a.target = "SOL" THEN <<>> ELSE <<KeyCell[a.target]>>
           /\ Len(name) = key
           /\ \A i \in 1 .. key : buf[from + 3 + i] = name[i]
    <2>1. CASE key = 0
      <3>1. a.target = "SOL"
        BY <1>7, <1>9, <2>1 DEF Places
      <3>2. <<>> \in Seq(S) /\ Len(<<>>) = 0
        BY EmptySeq
      <3>3. 1 .. 0 = {}
        OBVIOUS
      <3> QED
        BY <2>1, <3>1, <3>2, <3>3
    <2>2. CASE key = 1
      <3>1. a.target # "SOL"
        BY <1>7, <1>9, <2>2 DEF Places
      <3>2. 0 \in 0 .. len - 1 /\ from + 4 + 0 = from + 3 + 1
        BY <1>12, <2>2
      <3>3. PICK cell \in S : cell = KeyCell[a.target] /\ cell = buf[from + 3 + 1]
        BY <1>2, <1>7, <1>11, <3>1, <3>2 DEF DataAt
      <3>4. PICK one : one = <<cell>>
        OBVIOUS
      <3>5. one \in Seq(S) /\ Len(one) = 1 /\ one[1] = cell
        BY <3>4
      <3>6. \A i \in 1 .. 1 : i = 1
        OBVIOUS
      <3> QED
        BY <2>2, <3>1, <3>3, <3>4, <3>5, <3>6
    <2> QED
      BY <2>1, <2>2
  <1>14. PICK m \in Nat : m = Len(buf) /\ from + 3 + len <= m
    <2>1. Len(buf) \in Nat
      OBVIOUS
    <2> QED
      BY <1>5, <2>1
  <1>15. PICK head \in Seq(S) : /\ head = <<t, len, e>> /\ Len(head) = 3
                                /\ head[1] = t /\ head[2] = len /\ head[3] = e
    <2>1. from + 1 \in 1 .. m /\ from + 2 \in 1 .. m /\ from + 3 \in 1 .. m
      BY <1>14
    <2>2. \A i \in 1 .. m : buf[i] \in S
      BY <1>11, <1>14
    <2>3. t \in S /\ len \in S /\ e \in S
      BY <1>5, <2>1, <2>2
    <2>4. PICK h : h = <<t, len, e>>
      OBVIOUS
    <2>5. h \in Seq(S) /\ Len(h) = 3 /\ h[1] = t /\ h[2] = len /\ h[3] = e
      BY <2>3, <2>4
    <2> QED
      BY <2>4, <2>5
  <1>16. PICK w \in Seq(S) : InThree(w, head, name, data)
    BY <1>12, <1>13, <1>15, ThreeLists
  <1>17. w = head \o name \o data /\ Len(w) = 3 + len /\ Len(name \o data) = len
    <2>1. key + d = len /\ 3 + key + d = 3 + len
      BY <1>12
    <2> QED
      BY <1>12, <1>13, <1>16, <2>1 DEF InThree
  <1>18. CellsOf(a) = w
    BY <1>7, <1>8, <1>10, <1>13, <1>15, <1>17 DEF CellsOf, DataOf
  <1>19. ASSUME NEW i \in 1 .. 3 + len
         PROVE  buf[from + i] = w[i]
    <2>1. CASE i \in 1 .. 3
      <3>1. w[i] = head[i]
        BY <1>16, <2>1 DEF InThree
      <3>2. i = 1 \/ i = 2 \/ i = 3
        BY <2>1
      <3> QED
        BY <1>5, <1>15, <3>1, <3>2
    <2>2. CASE i \in 4 .. 3 + key
      <3>1. PICK j \in 1 .. key : i = 3 + j /\ from + i = from + 3 + j
        <4>1. i - 3 \in 1 .. key /\ i = 3 + (i - 3) /\ from + i = from + 3 + (i - 3)
          BY <2>2
        <4> QED
          BY <4>1
      <3> QED
        BY <1>13, <1>16, <3>1, ZenonT(40) DEF InThree
    <2>3. CASE i \in 4 + key .. 3 + len
      <3>1. PICK j \in 1 .. d : i = 3 + key + j /\ from + i = from + 3 + key + j
        <4>1. PICK j \in Int : j = i - 3 - key
          OBVIOUS
        <4>2. j \in 1 .. d /\ i = 3 + key + j /\ from + i = from + 3 + key + j
          BY <1>12, <2>3, <4>1
        <4> QED
          BY <4>2
      <3>2. w[3 + key + j] = data[j]
        BY <1>12, <1>13, <1>16 DEF InThree
      <3> QED
        BY <1>12, <3>1, <3>2
    <2> QED
      BY <2>1, <2>2, <2>3
  <1>20. SubSeq(buf, from + 1, from + Len(w)) = w
    <2>1. buf \in Seq(S) /\ from + Len(w) <= Len(buf)
      BY <1>11, <1>14, <1>17
    <2>2. \A i \in 1 .. Len(w) : buf[from + i] = w[i]
      BY <1>17, <1>19
    <2> QED
      BY <2>1, <2>2, PartIs
  <1>21. from + Len(w) = b[k] /\ (from + 3) - 3 = from /\ from + 3 + len = b[k]
    <2>1. from + (3 + len) = from + 3 + len /\ (from + 3) - 3 = from
      OBVIOUS
    <2> QED
      BY <1>2, <1>17, <2>1
  <1> QED
    BY <1>1, <1>2, <1>5, <1>6, <1>18, <1>20, <1>21 DEF HeaderSize

-----------------------------------------------------------------------------
(* What validate_actions_buffer accepts. *)

(***************************************************************************)
(* The conditions of ValidBuffer, on a layout.                             *)
(***************************************************************************)
Accepts(buf, views) ==
    /\ IsLayout(buf, 0, views) /\ Len(views) <= MAX_ACTIONS
    /\ ParseActions(buf) = [ok |-> TRUE, views |-> views]
    /\ \A i \in 1 .. Len(views) : views[i].len = ExpectedSize(views[i].type)
    /\ \A i, j \in 1 .. Len(views) : ~ (views[i].type = 10 /\ views[j].type = 11)
    /\ \A i, j \in 1 .. Len(views) :
          i # j /\ views[i].type = views[j].type =>
            /\ views[i].type \notin SolTypes
            /\ views[i].type \in TokenTypes =>
                 Cell(buf, views[i], 0) # Cell(buf, views[j], 0)
    /\ \A i \in 1 .. Len(views) :
          KindOf[views[i].type] = "Recurring" =>
            /\ Cell(buf, views[i], SpentAt(views[i].type)) = 0
            /\ Cell(buf, views[i], WindowAt(views[i].type)) > 0
            /\ Cell(buf, views[i], ResetAt(views[i].type)) = 0

LEMMA ValidHasLayout ==
    ASSUME NEW buf \in Seq(Nat), ValidBuffer(buf)
    PROVE  \E views : Accepts(buf, views)
  <1>1. ParseActions(buf).ok
    BY DEF ValidBuffer
  <1>2. PICK views : /\ IsLayout(buf, 0, views) /\ Len(views) <= MAX_ACTIONS
                     /\ ParseActions(buf) = [ok |-> TRUE, views |-> views]
    BY <1>1, ParseIsLayout
  <1>3. ParseActions(buf).views = views
    BY <1>2
  <1>4. DOMAIN views = 1 .. Len(views)
    BY <1>2 DEF IsLayout
  <1>5. Accepts(buf, views)
    BY <1>2, <1>3, <1>4 DEF ValidBuffer, NoDuplicates, Accepts
  <1> QED
    BY <1>5

(***************************************************************************)
(* The records of a layout.                                                *)
(***************************************************************************)
Recorded(buf, views) == {ActionOf(buf, views[k]) : k \in 1 .. Len(views)}

LEMMA ActionsAreRecorded ==
    ASSUME NEW buf \in Seq(Nat), NEW views, IsLayout(buf, 0, views),
           Len(views) <= MAX_ACTIONS
    PROVE  ActionsOf(buf) = Recorded(buf, views)
  <1>1. ParseActions(buf) = [ok |-> TRUE, views |-> views]
    BY ParseIsLayout
  <1>2. ParseActions(buf).views = views
    BY <1>1
  <1>3. DOMAIN views = 1 .. Len(views)
    BY DEF IsLayout
  <1> QED
    BY <1>2, <1>3 DEF ActionsOf, Recorded

(***************************************************************************)
(* What a client may write.                                                *)
(***************************************************************************)
LEMMA CellsAreU64 ==
    ASSUME NEW buf \in Seq(Cells)
    PROVE  buf \in Seq(U64)
  <1>1. PICK S, T : S = Cells /\ T = U64
    OBVIOUS
  <1>2. S \subseteq T
    BY <1>1, BufferAssumption DEF U64, Cells
  <1>3. buf \in Seq(T)
    BY <1>1, <1>2, SeqMonotonic
  <1> QED
    BY <1>1, <1>3

LEMMA CellsOfClient ==
    ASSUME NEW buf \in Seq(Cells), NEW views, IsLayout(buf, 0, views),
           NEW k \in 1 .. Len(views)
    PROVE  \A a \in 0 .. views[k].len - 1 : Cell(buf, views[k], a) \in Cells
  <1>1. PICK n \in Nat : n = Len(views)
    BY DEF IsLayout
  <1>2. buf \in Seq(U64)
    BY CellsAreU64
  <1>3. PICK b : AreBorders(b, buf, 0, views, n)
    BY <1>1, <1>2, NumbersInBuffer, LayoutHasBorders
  <1>4. PICK len \in Nat, from \in Nat : DataAt(buf, views[k], from, len)
    BY <1>1, <1>2, <1>3, CellsInPlace
  <1>5. PICK m \in Nat : m = Len(buf) /\ from + 3 + len <= m
    <2>1. Len(buf) \in Nat
      OBVIOUS
    <2> QED
      BY <1>4, <2>1 DEF DataAt
  <1>6. PICK S : S = Cells
    OBVIOUS
  <1>7. \A i \in 1 .. m : buf[i] \in S
    BY <1>5, <1>6
  <1>8. \A a \in 0 .. len - 1 : from + 4 + a \in 1 .. m
    BY <1>5
  <1> QED
    BY <1>4, <1>6, <1>7, <1>8 DEF DataAt

(***************************************************************************)
(* An accepted buffer can be written in place.                             *)
(***************************************************************************)
LEMMA AcceptedIsWritable ==
    ASSUME NEW buf \in Seq(Cells), NEW views, Accepts(buf, views)
    PROVE  buf \in Writable(views)
  <1>1. buf \in Seq(U64) /\ IsLayout(buf, 0, views)
    BY CellsAreU64 DEF Accepts
  <1>2. ASSUME NEW k \in 1 .. Len(views)
        PROVE  Sound(buf, views[k])
    <2>1. PICK view \in Views : view = views[k]
      BY <1>1, CellsOfView
    <2>2. PICK t \in Types, len \in Nat : t = view.type /\ len = view.len
      BY DEF Views
    <2>3. len = ExpectedSize(t)
      BY <2>1, <2>2 DEF Accepts
    <2>4. PICK key \in {0, 1} : Places(t, key)
      BY PlacesOfType
    <2>5. \A a \in 0 .. len - 1 : Cell(buf, view, a) \in Cells
      BY <1>1, <2>1, <2>2, CellsOfClient
    <2>6. KindOf[t] \in LimitKinds \cup {"Whitelist", "Blacklist"}
      BY SizeOfType
    <2>7. /\ key = 1 => 0 \in 0 .. len - 1
          /\ KindOf[t] \in LimitKinds => key \in 0 .. len - 1
      <3>1. KindOf[t] \in LimitKinds => len \in {key + 1, key + 4}
        BY <2>3, <2>4 DEF Places, LimitKinds
      <3>2. key = 1 => len \in {1, 2, 5}
        BY <2>3, <2>4, <2>6 DEF Places, LimitKinds
      <3> QED
        BY <3>1, <3>2
    <2>8. t \notin SolTypes => Cell(buf, view, 0) \in Cells
      BY <2>4, <2>5, <2>7 DEF Places
    <2>9. IsLimit(view) => Cell(buf, view, AmountAt(t)) \in Cells
      BY <2>2, <2>4, <2>5, <2>7 DEF Places, IsLimit
    <2>10. KindOf[t] = "Recurring" => Cell(buf, view, WindowAt(t)) > 0
      BY <2>1, <2>2 DEF Accepts
    <2> QED
      BY <2>1, <2>2, <2>3, <2>8, <2>9, <2>10 DEF Sound
  <1> QED
    BY <1>1, <1>2 DEF Writable

(***************************************************************************)
(* What SessionActions asks of the actions of a session.                   *)
(***************************************************************************)
LEMMA RecordedIsValid ==
    ASSUME NEW buf \in Seq(U64), NEW views, Accepts(buf, views),
           \A k \in 1 .. Len(views) : Keyed(buf, views[k])
    PROVE  ValidActions(Recorded(buf, views))
  <1>1. PICK n \in Nat : n = Len(views)
    BY DEF Accepts, IsLayout
  <1>2. PICK A : A = Recorded(buf, views)
    OBVIOUS
  <1>3. IsLayout(buf, 0, views)
    BY DEF Accepts
  <1>4. ASSUME NEW a \in A
        PROVE  \E i \in 1 .. n :
                  /\ a = ActionOf(buf, views[i]) /\ views[i].type \in Types
                  /\ a.kind = KindOf[views[i].type]
                  /\ a.target = "SOL" <=> views[i].type \in SolTypes
                  /\ views[i].type \notin SolTypes =>
                       KeyCell[a.target] = Cell(buf, views[i], 0)
    <2>1. PICK i \in 1 .. n : a = ActionOf(buf, views[i])
      BY <1>1, <1>2 DEF Recorded
    <2>2. views[i] \in Views /\ views[i].type \in Types
      BY <1>1, <1>3, CellsOfView
    <2>3. Keyed(buf, views[i])
      BY <1>1
    <2>4. a.kind = KindOf[views[i].type]
      BY <2>1, ActionInCells
    <2> QED
      BY <2>1, <2>2, <2>3, <2>4, TypeOfAction
  <1>5. Cardinality(A) <= MAX_ACTIONS
    <2>1. PICK f : f = [i \in 1 .. n |-> ActionOf(buf, views[i])]
      OBVIOUS
    <2>2. f \in Surjection(1 .. n, A)
      BY <1>1, <1>2, <2>1 DEF Surjection, Recorded
    <2>3. IsFiniteSet(1 .. n) /\ Cardinality(1 .. n) = n
      <3>1. n >= 0 /\ n - 1 + 1 = n
        OBVIOUS
      <3>2. Cardinality(1 .. n) = IF 1 > n THEN 0 ELSE n - 1 + 1
        BY FS_Interval
      <3> QED
        BY <3>1, <3>2, FS_Interval
    <2>4. IsFiniteSet(A) /\ Cardinality(A) <= n
      BY <2>2, <2>3, FS_Surjection
    <2>5. PICK c \in Nat, m \in Nat : c = Cardinality(A) /\ m = MAX_ACTIONS
      BY <2>4, FS_CardinalityType, ActionsAssumption
    <2>6. n <= m
      BY <1>1, <2>5 DEF Accepts
    <2> QED
      BY <2>4, <2>5, <2>6
  <1>6. ASSUME NEW a \in A, NEW c \in A, a.kind = "Whitelist", c.kind = "Blacklist"
        PROVE  FALSE
    <2>1. PICK i \in 1 .. n : views[i].type \in Types /\ a.kind = KindOf[views[i].type]
      BY <1>4
    <2>2. PICK j \in 1 .. n : views[j].type \in Types /\ c.kind = KindOf[views[j].type]
      BY <1>4
    <2>3. views[i].type = 10 /\ views[j].type = 11
      BY <1>6, <2>1, <2>2, KindsOfTypes DEF Types
    <2> QED
      BY <1>1, <2>3 DEF Accepts
  <1>7. ASSUME NEW a \in A, NEW c \in A,
               a.kind \in LimitKinds, a.kind = c.kind, a.target = c.target
        PROVE  a = c
    <2>1. PICK i \in 1 .. n :
            /\ a = ActionOf(buf, views[i]) /\ views[i].type \in Types
            /\ a.kind = KindOf[views[i].type]
            /\ a.target = "SOL" <=> views[i].type \in SolTypes
            /\ views[i].type \notin SolTypes => KeyCell[a.target] = Cell(buf, views[i], 0)
      BY <1>4
    <2>2. PICK j \in 1 .. n :
            /\ c = ActionOf(buf, views[j]) /\ views[j].type \in Types
            /\ c.kind = KindOf[views[j].type]
            /\ c.target = "SOL" <=> views[j].type \in SolTypes
            /\ views[j].type \notin SolTypes => KeyCell[c.target] = Cell(buf, views[j], 0)
      BY <1>4
    <2>3. views[i].type = views[j].type
      BY <1>7, <2>1, <2>2, TypeIsUnique
    <2>4. i # j => views[i].type \notin SolTypes
      BY <1>1, <2>3 DEF Accepts
    <2>5. views[i].type \notin SolTypes => views[i].type \in TokenTypes
      BY <1>7, <2>1, KindsOfTypes DEF Types, SolTypes, TokenTypes, LimitKinds
    <2>6. i # j => Cell(buf, views[i], 0) # Cell(buf, views[j], 0)
      BY <1>1, <2>3, <2>4, <2>5 DEF Accepts
    <2>7. i # j => Cell(buf, views[i], 0) = Cell(buf, views[j], 0)
      BY <1>7, <2>1, <2>2, <2>3, <2>4
    <2> QED
      BY <2>1, <2>2, <2>6, <2>7
  <1>8. ASSUME NEW a \in A, a.kind = "Recurring"
        PROVE  FreshRecurring(a)
    <2>1. PICK i \in 1 .. n :
            a = ActionOf(buf, views[i]) /\ a.kind = KindOf[views[i].type]
      BY <1>4
    <2>2. PICK t : t = views[i].type
      OBVIOUS
    <2>3. /\ Cell(buf, views[i], SpentAt(t)) = 0
          /\ Cell(buf, views[i], WindowAt(t)) > 0
          /\ Cell(buf, views[i], ResetAt(t)) = 0
      BY <1>1, <1>8, <2>1, <2>2 DEF Accepts
    <2>4. /\ a.spent = Cell(buf, views[i], SpentAt(t))
          /\ a.window = Cell(buf, views[i], WindowAt(t))
          /\ a.lastReset = Cell(buf, views[i], ResetAt(t))
      BY <1>8, <2>1, <2>2, ActionInCells
    <2> QED
      BY <2>3, <2>4 DEF FreshRecurring
  <1>9. ValidActions(A)
    BY <1>5, <1>6, <1>7, <1>8 DEF ValidActions
  <1> QED
    BY <1>2, <1>9

(***************************************************************************)
(* The pieces between the borders make up the buffer.                      *)
(***************************************************************************)
IsFlat(f, pieces) ==
    f = [i \in 1 .. Len(pieces) |->
           IF i = 1 THEN pieces[i] ELSE f[i - 1] \o pieces[i]]

ArePieces(pieces, buf, b, n) ==
    pieces = [i \in 1 .. n |-> SubSeq(buf, b[i - 1] + 1, b[i])]

LEMMA PiecesMakeBuffer ==
    ASSUME NEW buf \in Seq(U64), NEW views, NEW n \in Nat, n # 0,
           NEW b, AreBorders(b, buf, 0, views, n),
           NEW pieces, ArePieces(pieces, buf, b, n)
    PROVE  FlattenSeq(pieces) = buf
  <1>0. pieces = [i \in 1 .. n |-> SubSeq(buf, b[i - 1] + 1, b[i])]
    BY DEF ArePieces
  <1>1. Len(pieces) = n
    BY <1>0
  <1>2. FlattenSeq(pieces) = LET f == CHOOSE g : IsFlat(g, pieces) IN f[n]
    BY <1>1 DEF FlattenSeq, IsFlat
  <1>3. \A j \in 0 .. n : \A i \in 0 .. j : b[i] \in Nat /\ b[j] \in Nat /\ b[i] <= b[j]
    BY BordersRise
  <1>4. b[0] = 0 /\ b[n] = Len(buf)
    BY DEF AreBorders
  <1>5. PICK S : S = U64
    OBVIOUS
  <1>6. ASSUME NEW i \in 1 .. n
        PROVE  /\ i # 1 => SubSeq(buf, 1, b[i - 1]) \o pieces[i] = SubSeq(buf, 1, b[i])
               /\ i = 1 => pieces[i] = SubSeq(buf, 1, b[i])
    <2>1. PICK x \in Nat, y \in Nat, m \in Nat :
            x = b[i - 1] /\ y = b[i] /\ m = Len(buf) /\ x <= y /\ y <= m
      <3>1. i - 1 \in 0 .. i /\ i \in 0 .. n /\ n \in 0 .. n
        OBVIOUS
      <3> QED
        BY <1>3, <1>4, <3>1
    <2>2. pieces[i] = SubSeq(buf, x + 1, y)
      BY <1>0, <2>1
    <2>3. 1 \in 1 .. m + 1 /\ x \in 1 - 1 .. m /\ y \in x .. m
      BY <2>1
    <2>4. SubSeq(buf, 1, x) \o SubSeq(buf, x + 1, y) = SubSeq(buf, 1, y)
      BY <1>5, <2>1, <2>3, ConcatAdjacentSubSeq
    <2>5. i = 1 => x = 0 /\ x + 1 = 1
      BY <1>4, <2>1
    <2> QED
      BY <2>1, <2>2, <2>4, <2>5
  <1>7. PICK w : w = [i \in 1 .. n |-> SubSeq(buf, 1, b[i])]
    OBVIOUS
  <1>8. IsFlat(w, pieces)
    <2>1. ASSUME NEW i \in 1 .. n
          PROVE  w[i] = IF i = 1 THEN pieces[i] ELSE w[i - 1] \o pieces[i]
      <3>1. i # 1 => i - 1 \in 1 .. n
        OBVIOUS
      <3>2. i # 1 => w[i - 1] = SubSeq(buf, 1, b[i - 1])
        BY <1>7, <3>1
      <3> QED
        BY <1>6, <1>7, <3>2
    <2>2. PICK D, v : D = 1 .. n /\ v = [i \in D |-> IF i = 1 THEN pieces[i]
                                                   ELSE w[i - 1] \o pieces[i]]
      OBVIOUS
    <2>3. w = v
      BY <1>7, <2>1, <2>2
    <2> QED
      BY <1>1, <2>2, <2>3 DEF IsFlat
  <1>9. PICK f : f = (CHOOSE g : IsFlat(g, pieces)) /\ IsFlat(f, pieces)
    BY <1>8
  <1> DEFINE Q == {i \in 0 .. n : i # 0 => f[i] = SubSeq(buf, 1, b[i])}
  <1>10. 0 \in Q
    OBVIOUS
  <1>11. ASSUME NEW i \in 1 .. n, i - 1 \in Q
         PROVE  i \in Q
    <2>1. f[i] = IF i = 1 THEN pieces[i] ELSE f[i - 1] \o pieces[i]
      BY <1>1, <1>9 DEF IsFlat
    <2>2. i # 1 => f[i - 1] = SubSeq(buf, 1, b[i - 1])
      BY <1>11
    <2>3. f[i] = SubSeq(buf, 1, b[i])
      BY <1>6, <2>1, <2>2
    <2> QED
      BY <2>3
  <1>12. 0 .. n \subseteq Q
    <2> HIDE DEF Q
    <2> QED
      BY <1>10, <1>11, LoopInvariant
  <1>13. f[n] = SubSeq(buf, 1, b[n])
    <2>1. n \in 0 .. n
      OBVIOUS
    <2> QED
      BY <1>12, <2>1
  <1>14. SubSeq(buf, 1, Len(buf)) = buf
    BY <1>5, SubSeqFull
  <1> QED
    BY <1>2, <1>4, <1>9, <1>13, <1>14

(***************************************************************************)
(* An accepted buffer is its actions, as clients write them.               *)
(***************************************************************************)
LEMMA AcceptedInPieces ==
    ASSUME NEW buf \in Seq(U64), buf # <<>>, NEW views, Accepts(buf, views),
           \A k \in 1 .. Len(views) : Keyed(buf, views[k])
    PROVE  /\ \A i \in DOMAIN views :
                SubSeq(buf, views[i].offset - HeaderSize + 1,
                       views[i].offset + views[i].len)
                  = CellsOf(ActionOf(buf, views[i]))
           /\ FlattenSeq([i \in DOMAIN views |->
                            SubSeq(buf, views[i].offset - HeaderSize + 1,
                                   views[i].offset + views[i].len)]) = buf
  <1>1. PICK n \in Nat : n = Len(views) /\ DOMAIN views = 1 .. n
    BY DEF Accepts, IsLayout
  <1>2. IsLayout(buf, 0, views)
    BY DEF Accepts
  <1>3. PICK b : AreBorders(b, buf, 0, views, n)
    BY <1>1, <1>2, NumbersInBuffer, LayoutHasBorders
  <1>4. ASSUME NEW i \in 1 .. n
        PROVE  /\ SubSeq(buf, b[i - 1] + 1, b[i]) = CellsOf(ActionOf(buf, views[i]))
               /\ views[i].offset - HeaderSize = b[i - 1]
               /\ views[i].offset + views[i].len = b[i]
    BY <1>1, <1>2, <1>3, ViewIsWritten
  <1>5. n # 0
    <2>1. Len(buf) # 0
      <3>1. PICK S : S = U64
        OBVIOUS
      <3> QED
        BY <3>1, EmptySeq
    <2>2. n = 0 => b[n] = 0 /\ b[n] = Len(buf)
      BY <1>3 DEF AreBorders
    <2> QED
      BY <2>1, <2>2
  <1>6. PICK pieces : pieces = [i \in 1 .. n |-> SubSeq(buf, b[i - 1] + 1, b[i])]
    OBVIOUS
  <1>7. FlattenSeq(pieces) = buf
    <2>1. ArePieces(pieces, buf, b, n)
      BY <1>6 DEF ArePieces
    <2> QED
      BY <1>3, <1>5, <2>1, PiecesMakeBuffer
  <1>8. pieces = [i \in DOMAIN views |->
                    SubSeq(buf, views[i].offset - HeaderSize + 1,
                           views[i].offset + views[i].len)]
    BY <1>1, <1>4, <1>6
  <1> QED
    BY <1>1, <1>4, <1>7, <1>8

-----------------------------------------------------------------------------
(* The invariant of the buffer. *)

(***************************************************************************)
(* The buffer can be written in place, and holds these records.            *)
(***************************************************************************)
HoldsRecords(buf, records) ==
    \E views : /\ buf \in Writable(views) /\ Len(views) <= MAX_ACTIONS
               /\ records = Recorded(buf, views)

(***************************************************************************)
(* Until the session is created the buffer is what the client wrote; from  *)
(* then on it has a layout that never changes, sound data, and the records *)
(* of the session.                                                         *)
(***************************************************************************)
BufferInv ==
    /\ slot \in 0 .. MaxSlot
    /\ live \in BOOLEAN
    /\ ~ live => buffer \in Seq(Cells)
    /\ live => HoldsRecords(buffer, actions)

(***************************************************************************)
(* An action, as its client writes it, is a list of cells.                 *)
(***************************************************************************)
LEMMA CandidateInCells ==
    ASSUME NEW a \in Candidates
    PROVE  CellsOf(a) \in Seq(Cells)
  <1>1. PICK S : S = Cells
    OBVIOUS
  <1>2. U64Max \in Nat /\ 11 \in S /\ \A i \in 0 .. 11 : i \in S
    BY <1>1, BufferAssumption DEF Cells
  <1>3. /\ a.amount \in S /\ a.spent \in S /\ a.window \in S
        /\ a.lastReset \in S /\ a.expiresAt \in S
    BY <1>1, BufferAssumption
  <1>4. a \in Actions
    BY BufferAssumption
  <1>5. \/ a.kind \in LimitKinds /\ a.target \in Assets
        \/ a.kind \in ListKinds /\ a.target \in CallPrograms
    BY <1>4 DEF Actions, ActionsOn
  <1>6. a.target # "SOL" => a.target \in DOMAIN KeyCell
    BY <1>5, KeysAssumption DEF Mints
  <1>7. a.target # "SOL" => KeyCell[a.target] \in S
    BY <1>1, <1>6, KeysAssumption
  <1>8. TypeOf(a) \in S
    <2>1. \E t \in DOMAIN KindOf : KindOf[t] = a.kind /\ (t \in SolTypes <=> a.target = "SOL")
      <3>1. a.kind \in ListKinds => a.target # "SOL"
        BY <1>5, KeysAssumption DEF LimitKinds, ListKinds
      <3>2. a.kind \in LimitKinds \cup ListKinds
        BY <1>5
      <3> QED
        BY <3>1, <3>2, TypesOfKinds, KindsOfTypes
           DEF Types, SolTypes, LimitKinds, ListKinds
    <2>2. TypeOf(a) \in Types
      BY <2>1, TypesOfKinds DEF TypeOf
    <2>3. Types \subseteq 0 .. 11
      BY DEF Types
    <2> QED
      BY <1>2, <2>2, <2>3
  <1>9. PICK key \in Seq(S) :
          /\ key = IF a.target = "SOL" THEN <<>> ELSE <<KeyCell[a.target]>>
          /\ Len(key) \in {0, 1}
    <2>1. <<>> \in Seq(S) /\ Len(<<>>) = 0
      BY EmptySeq
    <2>2. CASE a.target = "SOL"
      BY <2>1, <2>2
    <2>3. CASE a.target # "SOL"
      <3>1. PICK k \in S : k = KeyCell[a.target]
        BY <1>7, <2>3
      <3>2. <<k>> \in Seq(S) /\ Len(<<k>>) = 1
        OBVIOUS
      <3> QED
        BY <2>3, <3>1, <3>2
    <2> QED
      BY <2>2, <2>3
  <1>10. PICK data \in Seq(S) : data = DataOf(a) /\ Len(data) \in {0, 1, 4}
    <2>1. PICK p \in S, q \in S, r \in S, s \in S :
            p = a.amount /\ q = a.spent /\ r = a.window /\ s = a.lastReset
      BY <1>3
    <2>2. /\ <<p, q, r, s>> \in Seq(S) /\ Len(<<p, q, r, s>>) = 4
          /\ <<p>> \in Seq(S) /\ Len(<<p>>) = 1
      OBVIOUS
    <2>3. <<>> \in Seq(S) /\ Len(<<>>) = 0
      BY EmptySeq
    <2>4. CASE a.kind = "Recurring"
      <3>1. DataOf(a) = <<p, q, r, s>>
        BY <2>1, <2>4 DEF DataOf
      <3> QED
        BY <2>2, <3>1
    <2>5. CASE a.kind \in {"Limit", "MaxPerTx"}
      <3>1. DataOf(a) = <<p>>
        BY <2>1, <2>5 DEF DataOf
      <3> QED
        BY <2>2, <3>1
    <2>6. CASE a.kind \notin {"Recurring", "Limit", "MaxPerTx"}
      <3>1. DataOf(a) = <<>>
        BY <2>6 DEF DataOf
      <3> QED
        BY <2>3, <3>1
    <2> QED
      BY <2>4, <2>5, <2>6
  <1>11. PICK body \in Seq(S) : Joined(body, key, data)
    BY JoinedExists
  <1>12. Len(key \o data) \in S
    <2>1. Len(key \o data) = Len(key) + Len(data)
      BY <1>11 DEF Joined
    <2>2. Len(key) + Len(data) \in 0 .. 11
      <3>1. PICK x \in {0, 1}, y \in {0, 1, 4} : x = Len(key) /\ y = Len(data)
        BY <1>9, <1>10
      <3>2. x + y \in 0 .. 11
        OBVIOUS
      <3> QED
        BY <3>1, <3>2
    <2> QED
      BY <1>2, <2>1, <2>2
  <1>13. PICK head \in Seq(S) :
           head = <<TypeOf(a), Len(key \o data), a.expiresAt>> /\ Len(head) = 3
    <2>1. PICK t \in S, l \in S, e \in S :
            t = TypeOf(a) /\ l = Len(key \o data) /\ e = a.expiresAt
      BY <1>3, <1>8, <1>12
    <2>2. <<t, l, e>> \in Seq(S) /\ Len(<<t, l, e>>) = 3
      OBVIOUS
    <2> QED
      BY <2>1, <2>2
  <1>14. PICK w \in Seq(S) : InThree(w, head, key, data)
    BY <1>13, ThreeLists
  <1>15. w = head \o key \o data
    BY <1>14 DEF InThree
  <1>16. CellsOf(a) = w
    BY <1>9, <1>10, <1>13, <1>15 DEF CellsOf, DataOf
  <1> QED
    BY <1>1, <1>16

(***************************************************************************)
(* CreateSession finds the actions of its client, whatever the payload.    *)
(***************************************************************************)
LEMMA ArgsAreParsed ==
    ASSUME NEW buf \in Seq(Cells), NEW payload \in Seq(Cells), NEW data,
           \/ data = <<SessionKey, ExpiresAt, Len(buf)>> \o buf \o payload
           \/ data = <<SessionKey, ExpiresAt>> /\ buf \o payload = <<>>,
           ParseArgs(data).ok
    PROVE  ParseArgs(data).actions = buf /\ (buf = <<>> \/ ValidBuffer(buf))
  <1>1. PICK S : S = Nat
    OBVIOUS
  <1>2. buf \in Seq(S) /\ payload \in Seq(S)
    <2>1. PICK T : T = Cells
      OBVIOUS
    <2>2. T \subseteq S
      BY <1>1, <2>1, BufferAssumption DEF Cells
    <2> QED
      BY <2>1, <2>2, SeqMonotonic
  <1>3. PICK m \in Nat, n \in Nat : m = Len(buf) /\ n = Len(payload)
    BY <1>2
  <1>4. CASE data = <<SessionKey, ExpiresAt, m>> \o buf \o payload
    <2>1. PICK head \in Seq(S) : /\ head = <<SessionKey, ExpiresAt, m>>
                                 /\ Len(head) = 3 /\ head[3] = m
      <3>1. PICK x \in S, y \in S, z \in S :
              x = SessionKey /\ y = ExpiresAt /\ z = m
        BY <1>1 DEF SessionKey, ExpiresAt
      <3>2. <<x, y, z>> \in Seq(S) /\ Len(<<x, y, z>>) = 3 /\ <<x, y, z>>[3] = z
        OBVIOUS
      <3> QED
        BY <3>1, <3>2
    <2>2. PICK w \in Seq(S) : InThree(w, head, buf, payload)
      BY <1>2, <2>1, ThreeLists
    <2>3. /\ w = data /\ Len(w) = 3 + m + n /\ w[3] = m
          /\ \A i \in 1 .. m : w[3 + i] = buf[i]
      BY <1>3, <1>4, <2>1, <2>2 DEF InThree
    <2>4. SubSeq(w, 4, 3 + m) = buf
      <3>1. 3 + Len(buf) <= Len(w) /\ 3 + 1 = 4
        BY <1>3, <2>3
      <3>2. SubSeq(w, 3 + 1, 3 + Len(buf)) = buf
        BY <1>2, <1>3, <2>3, <3>1, PartIs
      <3> QED
        BY <1>3, <3>1, <3>2
    <2>5. Len(data) = 3 + m + n /\ data[3] = m /\ SubSeq(data, 4, 3 + m) = buf
      BY <2>3, <2>4
    <2>6. ~ (3 + m + n < 2) /\ 3 + m + n # 2
      OBVIOUS
    <2>7. PICK args : args = ParseArgs(data)
      OBVIOUS
    <2>8. args = IF \/ m > MaxBufferSize \/ 3 + m + n < 3 + m
                    \/ m > 0 /\ ~ ValidBuffer(buf)
                 THEN BufferError ELSE [ok |-> TRUE, actions |-> buf]
      BY <2>5, <2>6, <2>7 DEF ParseArgs
    <2>9. args.ok /\ BufferError.ok = FALSE
      BY <2>7 DEF BufferError
    <2>10. args = [ok |-> TRUE, actions |-> buf] /\ (m > 0 => ValidBuffer(buf))
      BY <2>8, <2>9
    <2>11. args.actions = buf
      BY <2>10
    <2>12. m > 0 \/ buf = <<>>
      BY <1>2, <1>3, EmptySeq
    <2> QED
      BY <2>7, <2>10, <2>11, <2>12
  <1>5. CASE data = <<SessionKey, ExpiresAt>> /\ buf \o payload = <<>>
    <2>1. PICK w \in Seq(S) : Joined(w, buf, payload)
      BY <1>2, JoinedExists
    <2>2. Len(w) = 0
      BY <1>5, <2>1 DEF Joined
    <2>3. m = 0
      BY <1>3, <2>1, <2>2 DEF Joined
    <2>4. buf = <<>>
      BY <1>2, <1>3, <2>3, EmptySeq
    <2>5. Len(data) = 2
      BY <1>5
    <2>6. ParseArgs(data) = [ok |-> TRUE, actions |-> <<>>]
      BY <2>5 DEF ParseArgs
    <2> QED
      BY <2>4, <2>6
  <1> QED
    BY <1>3, <1>4, <1>5

(***************************************************************************)
(* A created session holds the records of its buffer.                      *)
(***************************************************************************)
LEMMA CreatedHoldsRecords ==
    ASSUME NEW buf \in Seq(Cells), buf = <<>> \/ ValidBuffer(buf)
    PROVE  HoldsRecords(buf, ActionsOf(buf))
  <1>1. buf \in Seq(U64) /\ buf \in Seq(Nat)
    BY CellsAreU64, NumbersInBuffer
  <1>2. CASE ValidBuffer(buf)
    <2>1. PICK views : Accepts(buf, views)
      BY <1>1, <1>2, ValidHasLayout
    <2>2. buf \in Writable(views)
      BY <2>1, AcceptedIsWritable
    <2>3. IsLayout(buf, 0, views) /\ Len(views) <= MAX_ACTIONS
      BY <2>1 DEF Accepts
    <2> QED
      BY <1>1, <2>2, <2>3, ActionsAreRecorded DEF HoldsRecords
  <1>3. CASE buf = <<>>
    <2>1. PICK views : views = <<>>
      OBVIOUS
    <2>2. views \in Seq(Views) /\ Len(views) = 0
      BY <2>1, EmptySeq
    <2>3. IsLayout(buf, 0, views)
      <3>1. Len(buf) = 0
        BY <1>3
      <3>2. 1 .. 0 = {}
        OBVIOUS
      <3> QED
        BY <2>2, <3>1, <3>2 DEF IsLayout, Border
    <2>4. buf \in Writable(views)
      <3>1. 1 .. 0 = {}
        OBVIOUS
      <3> QED
        BY <1>1, <2>2, <2>3, <3>1 DEF Writable
    <2>5. Len(views) <= MAX_ACTIONS
      BY <2>2, ActionsAssumption
    <2> QED
      BY <1>1, <2>3, <2>4, <2>5, ActionsAreRecorded DEF HoldsRecords
  <1> QED
    BY <1>2, <1>3

(***************************************************************************)
(* An Execute within the limits charges the records.                       *)
(***************************************************************************)
LEMMA ExecutedHoldsRecords ==
    ASSUME slot \in 0 .. MaxSlot, HoldsRecords(buffer, actions),
           NEW spent \in Spends, WithinLimits(spent)
    PROVE  HoldsRecords(WriteAll(buffer, spent), ChargedActions(spent))
  <1>1. PICK views : /\ buffer \in Writable(views) /\ Len(views) <= MAX_ACTIONS
                     /\ actions = Recorded(buffer, views)
    BY DEF HoldsRecords
  <1>2. ParseActions(buffer) = [ok |-> TRUE, views |-> views] /\ DOMAIN views = 1 .. Len(views)
    BY <1>1, NumbersInBuffer, ParseIsLayout DEF Writable, IsLayout
  <1>3. ParseActions(buffer).views = views
    BY <1>2
  <1>4. AllAllow(buffer, views, spent)
    BY <1>2, <1>3 DEF WithinLimits, AllAllow
  <1>5. PICK new : new = WriteAll(buffer, spent) /\ AllCharged(buffer, new, views, spent)
    BY <1>1, <1>4, WriteAllCharges
  <1>6. ChargedActions(spent) = {ChargedAction(a, spent) : a \in actions}
    BY DEF ChargedActions, ChargedAction
  <1>7. ChargedActions(spent) = Recorded(new, views)
    BY <1>1, <1>5, <1>6 DEF Recorded, AllCharged
  <1> QED
    BY <1>1, <1>5, <1>7 DEF HoldsRecords, AllCharged

LEMMA BufferInvInit ==
    BufferInit => BufferInv
  <1> SUFFICES ASSUME BufferInit
               PROVE  BufferInv
    OBVIOUS
  <1>1. MaxSlot \in Nat
    BY BufferAssumption DEF Cells
  <1>2. <<>> \in Seq(Cells)
    BY EmptySeq
  <1>3. slot \in 0 .. MaxSlot
    BY <1>1 DEF BufferInit
  <1>4. live = FALSE /\ buffer \in Seq(Cells)
    BY <1>2 DEF BufferInit
  <1> QED
    BY <1>3, <1>4 DEF BufferInv

LEMMA BufferInvNext ==
    BufferInv /\ [BufferNext]_bvars => BufferInv'
  <1> SUFFICES ASSUME BufferInv, [BufferNext]_bvars
               PROVE  BufferInv'
    OBVIOUS
  <1>0. PICK buf, records : buf = buffer /\ records = actions
    OBVIOUS
  <1>1. ASSUME NEW a \in Candidates, AddAction(a)
        PROVE  BufferInv'
    <2>1. buffer \in Seq(Cells) /\ buffer' = buffer \o CellsOf(a)
      BY <1>1 DEF AddAction, BufferInv
    <2>2. buffer' \in Seq(Cells)
      BY <2>1, CandidateInCells, ConcatProperties
    <2> QED
      BY <1>1, <2>2 DEF AddAction, BufferInv
  <1>2. ASSUME NEW cell \in StrayCells, AddStray(cell)
        PROVE  BufferInv'
    <2>1. buffer \in Seq(Cells) /\ buffer' = Append(buffer, cell) /\ cell \in Cells
      BY <1>2, BufferAssumption DEF AddStray, BufferInv
    <2>2. buffer' \in Seq(Cells)
      BY <2>1, AppendProperties
    <2> QED
      BY <1>2, <2>2 DEF AddStray, BufferInv
  <1>3. ASSUME NEW payload \in Payloads, Create(payload)
        PROVE  BufferInv'
    <2>1. PICK data \in ClientArgs(payload) :
            ParseArgs(data).ok /\ buffer' = ParseArgs(data).actions
      BY <1>3 DEF Create
    <2>2. buf \in Seq(Cells) /\ payload \in Seq(Cells)
      BY <1>0, <1>3, BufferAssumption DEF Create, BufferInv
    <2>3. \/ data = <<SessionKey, ExpiresAt, Len(buf)>> \o buf \o payload
          \/ data = <<SessionKey, ExpiresAt>> /\ buf \o payload = <<>>
      BY <1>0 DEF ClientArgs
    <2>4. buffer' = buf /\ (buf = <<>> \/ ValidBuffer(buf))
      BY <2>1, <2>2, <2>3, ArgsAreParsed
    <2>5. HoldsRecords(buf, ActionsOf(buf))
      BY <2>2, <2>4, CreatedHoldsRecords
    <2>6. actions' = ActionsOf(buf)
      BY <1>0, <1>3 DEF Create
    <2>7. HoldsRecords(buffer', actions')
      BY <2>4, <2>5, <2>6
    <2> QED
      BY <1>3, <2>7 DEF Create, BufferInv
  <1>4. ASSUME NEW spent \in Spends, Execute(spent)
        PROVE  BufferInv'
    <2>1. HoldsRecords(WriteAll(buffer, spent), ChargedActions(spent))
      BY <1>4, ExecutedHoldsRecords DEF Execute, BufferInv
    <2>2. HoldsRecords(buffer', actions')
      BY <1>4, <2>1 DEF Execute
    <2> QED
      BY <1>4, <2>2 DEF Execute, BufferInv
  <1>5. ASSUME BufferTick
        PROVE  BufferInv'
    <2>1. slot' \in 0 .. MaxSlot
      <3>1. MaxSlot \in Nat
        BY BufferAssumption DEF Cells
      <3> QED
        BY <1>5, <3>1 DEF BufferTick, BufferInv
    <2> QED
      BY <1>5, <2>1 DEF BufferTick, BufferInv
  <1>6. ASSUME UNCHANGED bvars
        PROVE  BufferInv'
    BY <1>6 DEF bvars, BufferInv
  <1> QED
    BY <1>1, <1>2, <1>3, <1>4, <1>5, <1>6 DEF BufferNext, BufferComplete

(***************************************************************************)
(* Every buffer a session is created with has a layout, and no Execute     *)
(* ever breaks it: the cells that say where the actions are, and of what   *)
(* type, are never written, and what is written stays a u64.               *)
(***************************************************************************)
THEOREM BufferKeepsLayout == BufferSpec => []BufferInv
  <1>1. BufferInit => BufferInv
    BY BufferInvInit
  <1>2. BufferInv /\ [BufferNext]_bvars => BufferInv'
    BY BufferInvNext
  <1> QED
    BY <1>1, <1>2, PTL DEF BufferSpec

(***************************************************************************)
(* What an accepted buffer is made of, when its bytes may be the client's  *)
(* or the session's.                                                       *)
(***************************************************************************)
LEMMA AcceptedIsKeyed ==
    ASSUME BufferInv, ValidBuffer(buffer)
    PROVE  /\ buffer \in Seq(U64)
           /\ \E views : /\ Accepts(buffer, views)
                         /\ \A k \in 1 .. Len(views) : Keyed(buffer, views[k])
  <1>1. buffer \in Seq(U64)
    BY CellsAreU64 DEF BufferInv, HoldsRecords, Writable
  <1>2. PICK views : Accepts(buffer, views)
    BY <1>1, NumbersInBuffer, ValidHasLayout
  <1>3. buffer \in Writable(views)
    <2>1. CASE ~ live
      BY <1>2, <2>1, AcceptedIsWritable DEF BufferInv
    <2>2. CASE live
      <3>1. PICK same : buffer \in Writable(same) /\ Len(same) <= MAX_ACTIONS
        BY <2>2 DEF BufferInv, HoldsRecords
      <3>2. ParseActions(buffer) = [ok |-> TRUE, views |-> same]
        BY <1>1, <3>1, NumbersInBuffer, ParseIsLayout DEF Writable
      <3>3. same = views
        BY <1>2, <3>2 DEF Accepts
      <3> QED
        BY <3>1, <3>3
    <2> QED
      BY <2>1, <2>2
  <1>4. \A k \in 1 .. Len(views) : Keyed(buffer, views[k])
    BY <1>3 DEF Writable, Sound, Keyed
  <1> QED
    BY <1>1, <1>2, <1>4

(***************************************************************************)
(* A buffer the program accepts is a list of actions as clients write      *)
(* them, end to end: validate_actions_buffer leaves no cell unread.        *)
(***************************************************************************)
THEOREM AcceptedStaysExact == BufferSpec => []AcceptedIsExact
  <1>1. ASSUME BufferInv
        PROVE  AcceptedIsExact
    <2> SUFFICES ASSUME buffer # <<>>, ValidBuffer(buffer)
                 PROVE  LET views == ParseActions(buffer).views
                            Written(i) == SubSeq(buffer, views[i].offset - HeaderSize + 1,
                                                 views[i].offset + views[i].len)
                        IN  /\ \A i \in DOMAIN views :
                                 Written(i) = CellsOf(ActionOf(buffer, views[i]))
                            /\ FlattenSeq([i \in DOMAIN views |-> Written(i)]) = buffer
      BY DEF AcceptedIsExact
    <2>1. PICK views : /\ buffer \in Seq(U64) /\ Accepts(buffer, views)
                       /\ \A k \in 1 .. Len(views) : Keyed(buffer, views[k])
      BY <1>1, AcceptedIsKeyed
    <2>2. ParseActions(buffer).views = views
      <3>1. ParseActions(buffer) = [ok |-> TRUE, views |-> views]
        BY <2>1 DEF Accepts
      <3> QED
        BY <3>1
    <2> QED
      BY <2>1, <2>2, AcceptedInPieces
  <1>2. BufferInv => AcceptedIsExact
    BY <1>1
  <1> QED
    BY <1>2, BufferKeepsLayout, PTL

(***************************************************************************)
(* What validate_actions_buffer accepts is what the model of Sessions      *)
(* assumes of the actions it starts with.                                  *)
(***************************************************************************)
THEOREM AcceptedStaysValid == BufferSpec => []AcceptedIsValid
  <1>1. ASSUME BufferInv, ValidBuffer(buffer)
        PROVE  ValidActions(ActionsOf(buffer))
    <2>1. PICK views : /\ buffer \in Seq(U64) /\ Accepts(buffer, views)
                       /\ \A k \in 1 .. Len(views) : Keyed(buffer, views[k])
      BY <1>1, AcceptedIsKeyed
    <2>2. ActionsOf(buffer) = Recorded(buffer, views)
      BY <2>1, NumbersInBuffer, ActionsAreRecorded DEF Accepts
    <2> QED
      BY <2>1, <2>2, RecordedIsValid
  <1>2. BufferInv => AcceptedIsValid
    BY <1>1 DEF AcceptedIsValid
  <1> QED
    BY <1>2, BufferKeepsLayout, PTL

(***************************************************************************)
(* However often Execute writes the buffer in place, it parses, and holds  *)
(* the records that SessionActions says the session has by now.            *)
(***************************************************************************)
THEOREM BufferStaysTrue == BufferSpec => []BufferHoldsActions
  <1>1. ASSUME BufferInv, live
        PROVE  ParseActions(buffer).ok /\ ActionsOf(buffer) = actions
    <2>1. PICK views : /\ buffer \in Writable(views) /\ Len(views) <= MAX_ACTIONS
                       /\ actions = Recorded(buffer, views)
      BY <1>1 DEF BufferInv, HoldsRecords
    <2>2. buffer \in Seq(Nat) /\ IsLayout(buffer, 0, views)
      BY <2>1, NumbersInBuffer DEF Writable
    <2>3. ParseActions(buffer).ok
      <3>1. ParseActions(buffer) = [ok |-> TRUE, views |-> views]
        BY <2>1, <2>2, ParseIsLayout
      <3> QED
        BY <3>1
    <2> QED
      BY <2>1, <2>2, <2>3, ActionsAreRecorded
  <1>2. BufferInv => BufferHoldsActions
    BY <1>1 DEF BufferHoldsActions
  <1> QED
    BY <1>2, BufferKeepsLayout, PTL

(***************************************************************************)
(* evaluate_post_actions allows, on the bytes of the buffer, just what the *)
(* records of the session allow.                                           *)
(***************************************************************************)
THEOREM ChecksStayEqual == BufferSpec => []ChecksAgree
  <1>1. ASSUME BufferInv, live, NEW spent \in Spends
        PROVE  WithinLimits(spent) <=> ActionsAllow(spent)
    <2>1. PICK views : /\ buffer \in Writable(views) /\ Len(views) <= MAX_ACTIONS
                       /\ actions = Recorded(buffer, views)
      BY <1>1 DEF BufferInv, HoldsRecords
    <2>2. /\ buffer \in Seq(U64) /\ IsLayout(buffer, 0, views)
          /\ DOMAIN views = 1 .. Len(views)
          /\ \A k \in 1 .. Len(views) : Sound(buffer, views[k])
      BY <2>1 DEF Writable, IsLayout
    <2>3. ParseActions(buffer).views = views
      <3>1. ParseActions(buffer) = [ok |-> TRUE, views |-> views]
        BY <2>1, <2>2, NumbersInBuffer, ParseIsLayout
      <3> QED
        BY <3>1
    <2>4. ASSUME NEW k \in 1 .. Len(views)
          PROVE  /\ IsLimit(views[k]) <=> ActionOf(buffer, views[k]).kind \in LimitKinds
                 /\ IsLimit(views[k]) =>
                      (ViewAllows(buffer, views[k], SpendSeen(buffer, views[k], spent))
                         <=> Allows(ActionOf(buffer, views[k]),
                                    Seen(ActionOf(buffer, views[k]), spent), slot))
      <3>1. PICK a : a = ActionOf(buffer, views[k]) /\ a.kind = KindOf[views[k].type]
        BY ActionInCells
      <3>2. views[k] \in Views
        BY <2>2, CellsOfView
      <3>3. PICK spend \in U64 : /\ spend = SpendSeen(buffer, views[k], spent)
                                 /\ spend = Seen(a, spent)
        BY <2>2, <3>1, <3>2, SpendIsSeen
      <3>4. IsLimit(views[k]) => (ViewAllows(buffer, views[k], spend) <=> Allows(a, spend, slot))
        BY <2>2, <3>1, ChecksAreAllows
      <3> QED
        BY <3>1, <3>3, <3>4 DEF IsLimit
    <2>5. WithinLimits(spent)
            <=> \A k \in 1 .. Len(views) :
                   IsLimit(views[k]) =>
                     ViewAllows(buffer, views[k], SpendSeen(buffer, views[k], spent))
      BY <2>2, <2>3 DEF WithinLimits
    <2>6. ActionsAllow(spent)
            <=> \A k \in 1 .. Len(views) :
                   ActionOf(buffer, views[k]).kind \in LimitKinds =>
                     Allows(ActionOf(buffer, views[k]),
                            Seen(ActionOf(buffer, views[k]), spent), slot)
      BY <2>1 DEF ActionsAllow, Recorded
    <2> QED
      BY <2>4, <2>5, <2>6
  <1>2. BufferInv => ChecksAgree
    BY <1>1 DEF ChecksAgree
  <1> QED
    BY <1>2, BufferKeepsLayout, PTL
=============================================================================
