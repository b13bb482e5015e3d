---------------------------- MODULE ActionBuffer ----------------------------
(***************************************************************************)
(* The actions of a session as the account stores them: a flat buffer that *)
(* is validated when the session is created, and parsed and written in     *)
(* place by every Execute of the session.  SessionActions describes the    *)
(* same actions as a set of records; here the two are compared.            *)
(*                                                                         *)
(* The buffer is a sequence of cells.  A cell is a u64, a key, the type of *)
(* an action or the length of its data; an action is <<type, data_len,     *)
(* expires_at>> and then its data.  Keys are numbers, as every cell, and   *)
(* every number that a client writes is the key of a mint or of a program. *)
(***************************************************************************)
EXTENDS SessionActions, Sequences, SequencesExt

CONSTANTS
    KeyCell,    \* the number of each mint and of each program
    Candidates, \* actions that clients put into a buffer
    StrayCells, \* cells that clients put there as well
    Payloads,   \* payloads of its authority
    MaxBufferSize,  \* MAX_ACTIONS_BUFFER_SIZE, in cells
    MaxBuffer,  \* bound on what a client puts into a buffer
    MaxSpend,   \* bound on what one Execute spends
    U64Max,     \* largest u64
    MaxSlot     \* horizon of the clock

Mints == Assets \ {"SOL"}

(***************************************************************************)
(* What a client writes into a cell.  The largest u64 is left out: as a    *)
(* recurring limit it is none, because the sum it limits saturates there.  *)
(***************************************************************************)
Cells == 0 .. U64Max - 1

ASSUME KeysAssumption ==
    /\ DOMAIN KeyCell = Mints \cup CallPrograms
    /\ "SOL" \notin CallPrograms
    /\ \A k, l \in DOMAIN KeyCell : KeyCell[k] = KeyCell[l] => k = l
    /\ {KeyCell[k] : k \in DOMAIN KeyCell} = Cells

\* The types of actions are cells, slots are, and what is spent is a u64.
ASSUME BufferAssumption ==
    /\ U64Max \in Nat /\ 11 \in Cells
    /\ MaxSlot \in Cells /\ MaxSpend \in 0 .. U64Max
    /\ Candidates \subseteq Actions
    /\ \A a \in Candidates :
         {a.amount, a.spent, a.window, a.lastReset, a.expiresAt} \subseteq Cells
    /\ StrayCells \subseteq Cells
    /\ \A payload \in Payloads : payload \in Seq(Cells)

VARIABLES
    buffer,     \* the client's buffer, and then the session's
    added,      \* how many actions and stray cells the client has added
    live,       \* whether the session has been created
    actions,    \* the same actions, as SessionActions has them
    slot

bvars == <<buffer, added, live, actions, slot>>

-----------------------------------------------------------------------------
(* Layout. *)

HeaderSize == 3

(***************************************************************************)
(* The first two cells of CreateSession, whatever they are.                *)
(***************************************************************************)
SessionKey == 0

ExpiresAt == 1

(***************************************************************************)
(* The types: SolLimit, SolRecurringLimit, SolMaxPerTx, the same for       *)
(* tokens, ProgramWhitelist and ProgramBlacklist.                          *)
(***************************************************************************)
KindOf ==
    [t \in {1, 2, 3, 4, 5, 6, 10, 11} |->
       CASE t \in {1, 4} -> "Limit"
         [] t \in {2, 5} -> "Recurring"
         [] t \in {3, 6} -> "MaxPerTx"
         [] t = 10 -> "Whitelist"
         [] t = 11 -> "Blacklist"]

SolTypes == {1, 2, 3}

TokenTypes == {4, 5, 6}

(***************************************************************************)
(* expected_data_size, in cells: a key first, except for SOL.              *)
(***************************************************************************)
KeySize(type) == IF type \in SolTypes THEN 0 ELSE 1

ExpectedSize(type) ==
    KeySize(type) + CASE KindOf[type] = "Recurring" -> 4
                      [] KindOf[type] \in {"Limit", "MaxPerTx"} -> 1
                      [] OTHER -> 0

(***************************************************************************)
(* Offsets in the data: limit, remaining or max, and then spent, window    *)
(* and last_reset.                                                         *)
(***************************************************************************)
AmountAt(type) == KeySize(type)

SpentAt(type) == KeySize(type) + 1

WindowAt(type) == KeySize(type) + 2

ResetAt(type) == KeySize(type) + 3

-----------------------------------------------------------------------------
(* parse_actions and validate_actions_buffer *)

BufferError == [ok |-> FALSE]

\* Mutant of ParseActions: what is too short for an action is left unread.
ParseActionsLoose(buf) ==
    LET from[c \in 0 .. Len(buf)] ==
          LET offset == c + HeaderSize
              end    == offset + buf[c + 2]
              rest   == from[end]
          IN  IF offset > Len(buf) THEN [ok |-> TRUE, views |-> <<>>]
              ELSE IF \/ buf[c + 1] \notin DOMAIN KindOf
                      \/ end > Len(buf)
              THEN BufferError
              ELSE IF ~ rest.ok THEN BufferError
              ELSE [ok |-> TRUE,
                    views |-> <<[type |-> buf[c + 1], expiresAt |-> buf[c + 3],
                                 offset |-> offset, len |-> buf[c + 2]]>>
                              \o rest.views]
    IN  IF from[0].ok /\ Len(from[0].views) <= MAX_ACTIONS THEN from[0] ELSE BufferError

(***************************************************************************)
(* c is the cursor, how many cells are behind it.                          *)
(***************************************************************************)
ParseActions(buf) ==
    LET from[c \in 0 .. Len(buf)] ==
          LET offset == c + HeaderSize
              end    == offset + buf[c + 2]
              rest   == from[end]
          IN  IF c = Len(buf) THEN [ok |-> TRUE, views |-> <<>>]
              ELSE IF \/ offset > Len(buf)
                      \/ buf[c + 1] \notin DOMAIN KindOf
                      \/ end > Len(buf)
              THEN BufferError
              ELSE IF ~ rest.ok THEN BufferError
              ELSE [ok |-> TRUE,
                    views |-> <<[type |-> buf[c + 1], expiresAt |-> buf[c + 3],
                                 offset |-> offset, len |-> buf[c + 2]]>>
                              \o rest.views]
    IN  IF from[0].ok /\ Len(from[0].views) <= MAX_ACTIONS THEN from[0] ELSE BufferError

(***************************************************************************)
(* read_u64, at an offset in the data of an action.                        *)
(***************************************************************************)
Cell(buf, view, at) == buf[view.offset + at + 1]

\* Mutant of NoDuplicates: a token limit may occur twice.
NoDuplicatesOfSol(buf, views) ==
    \A i, j \in DOMAIN views :
       i # j /\ views[i].type = views[j].type => views[i].type \notin SolTypes

NoDuplicates(buf, views) ==
    \A i, j \in DOMAIN views :
       i # j /\ views[i].type = views[j].type =>
         /\ views[i].type \notin SolTypes
         /\ views[i].type \in TokenTypes =>
              Cell(buf, views[i], 0) # Cell(buf, views[j], 0)

ValidBuffer(buf) ==
    LET parsed == ParseActions(buf)
        views  == parsed.views
    IN  /\ parsed.ok
        /\ \A i \in DOMAIN views : views[i].len = ExpectedSize(views[i].type)
        /\ ~ \E i, j \in DOMAIN views : views[i].type = 10 /\ views[j].type = 11
        /\ NoDuplicates(buf, views)
        /\ \A i \in DOMAIN views :
             KindOf[views[i].type] = "Recurring" =>
               /\ Cell(buf, views[i], SpentAt(views[i].type)) = 0
               /\ Cell(buf, views[i], WindowAt(views[i].type)) > 0
               /\ Cell(buf, views[i], ResetAt(views[i].type)) = 0

(***************************************************************************)
(* ParsedCreateSessionArgs: [session_key][expires_at][actions_len][actions]*)
(* and then the payload; without actions_len when the data ends before it. *)
(***************************************************************************)
ParseArgs(data) ==
    IF Len(data) < 2 THEN BufferError
    ELSE IF Len(data) = 2 THEN [ok |-> TRUE, actions |-> <<>>]
    ELSE LET end         == 3 + data[3]
             actionBytes == SubSeq(data, 4, end)
         IN  IF \/ data[3] > MaxBufferSize
                \/ Len(data) < end
                \/ data[3] > 0 /\ ~ ValidBuffer(actionBytes)
             THEN BufferError
             ELSE [ok |-> TRUE, actions |-> actionBytes]

-----------------------------------------------------------------------------
(* evaluate_post_actions, on the buffer. *)

SaturatingAdd(a, b) == IF a + b > U64Max THEN U64Max ELSE a + b

\* Mutant of SpendSeen: SolMaxPerTx looks at the net outflow.
SpendSeenNet(buf, view, spent) ==
    IF view.type \in SolTypes THEN spent.net["SOL"]
    ELSE IF \E m \in Mints : KeyCell[m] = Cell(buf, view, 0)
    THEN spent.net[CHOOSE m \in Mints : KeyCell[m] = Cell(buf, view, 0)]
    ELSE 0

(***************************************************************************)
(* What the calls spent, as the action of a view sees it.  spent has the   *)
(* gross outflow of lamports and the net one of each asset.                *)
(***************************************************************************)
SpendSeen(buf, view, spent) ==
    IF view.type = 3 THEN spent.gross
    ELSE IF view.type \in SolTypes THEN spent.net["SOL"]
    ELSE IF \E m \in Mints : KeyCell[m] = Cell(buf, view, 0)
    THEN spent.net[CHOOSE m \in Mints : KeyCell[m] = Cell(buf, view, 0)]
    ELSE 0

ViewExpired(view) == view.expiresAt # 0 /\ slot > view.expiresAt

Elapsed(buf, view) ==
    SaturatingSub(slot, Cell(buf, view, ResetAt(view.type)))
      > Cell(buf, view, WindowAt(view.type))

IsLimit(view) == KindOf[view.type] \in LimitKinds

(***************************************************************************)
(* Phase 1.                                                                *)
(***************************************************************************)
ViewAllows(buf, view, spend) ==
    spend > 0 =>
      /\ ~ ViewExpired(view)
      /\ IF KindOf[view.type] = "Recurring"
         THEN SaturatingAdd(IF Elapsed(buf, view) THEN 0
                            ELSE Cell(buf, view, SpentAt(view.type)), spend)
                <= Cell(buf, view, AmountAt(view.type))
         ELSE spend <= Cell(buf, view, AmountAt(view.type))

(***************************************************************************)
(* write_u64                                                               *)
(***************************************************************************)
WriteCell(buf, view, at, value) ==
    [buf EXCEPT ![view.offset + at + 1] = value]

\* Mutant of WriteBack: a window restarts at the slot of the Execute.
WriteBackUnaligned(buf, view, spend) ==
    LET type    == view.type
        amount  == Cell(buf, view, AmountAt(type))
        sofar   == Cell(buf, view, SpentAt(type))
        elapsed == Elapsed(buf, view)
    IN  IF ViewExpired(view) \/ spend = 0 THEN buf
        ELSE IF KindOf[type] = "Limit"
        THEN WriteCell(buf, view, AmountAt(type), SaturatingSub(amount, spend))
        ELSE IF KindOf[type] = "Recurring"
        THEN WriteCell(
               WriteCell(buf, view, SpentAt(type),
                         IF elapsed THEN spend ELSE SaturatingAdd(sofar, spend)),
               view, ResetAt(type),
               IF elapsed THEN slot ELSE Cell(buf, view, ResetAt(type)))
        ELSE buf

(***************************************************************************)
(* Phase 2, for one action.                                                *)
(***************************************************************************)
WriteBack(buf, view, spend) ==
    LET type    == view.type
        amount  == Cell(buf, view, AmountAt(type))
        sofar   == Cell(buf, view, SpentAt(type))
        window  == Cell(buf, view, WindowAt(type))
        elapsed == Elapsed(buf, view)
    IN  IF ViewExpired(view) \/ spend = 0 THEN buf
        ELSE IF KindOf[type] = "Limit"
        THEN WriteCell(buf, view, AmountAt(type), SaturatingSub(amount, spend))
        ELSE IF KindOf[type] = "Recurring"
        THEN WriteCell(
               WriteCell(buf, view, SpentAt(type),
                         IF elapsed THEN spend ELSE SaturatingAdd(sofar, spend)),
               view, ResetAt(type),
               IF elapsed THEN (slot \div window) * window
               ELSE Cell(buf, view, ResetAt(type)))
        ELSE buf

WriteAll(buf, spent) ==
    FoldLeft(LAMBDA b, view : IF IsLimit(view)
                              THEN WriteBack(b, view, SpendSeen(b, view, spent))
                              ELSE b,
             buf, ParseActions(buf).views)

-----------------------------------------------------------------------------
(* The actions of a buffer, as records. *)

TargetOf(cell) == CHOOSE k \in DOMAIN KeyCell : KeyCell[k] = cell

ActionOf(buf, view) ==
    LET kind == KindOf[view.type]
        At(offset) == IF kind = "Recurring" THEN Cell(buf, view, offset) ELSE 0
    IN  [kind |-> kind,
         target |-> IF view.type \in SolTypes THEN "SOL"
                    ELSE TargetOf(Cell(buf, view, 0)),
         amount |-> IF kind \in LimitKinds THEN Cell(buf, view, KeySize(view.type))
                    ELSE 0,
         spent |-> At(KeySize(view.type) + 1),
         window |-> At(KeySize(view.type) + 2),
         lastReset |-> At(KeySize(view.type) + 3),
         expiresAt |-> view.expiresAt]

ActionsOf(buf) ==
    LET views == ParseActions(buf).views
    IN  {ActionOf(buf, views[i]) : i \in DOMAIN views}

(***************************************************************************)
(* How a client writes an action.                                          *)
(***************************************************************************)
TypeOf(a) ==
    CHOOSE t \in DOMAIN KindOf :
       KindOf[t] = a.kind /\ (t \in SolTypes <=> a.target = "SOL")

CellsOf(a) ==
    LET key  == IF a.target = "SOL" THEN <<>> ELSE <<KeyCell[a.target]>>
        data == CASE a.kind = "Recurring" ->
                       <<a.amount, a.spent, a.window, a.lastReset>>
                  [] a.kind \in {"Limit", "MaxPerTx"} -> <<a.amount>>
                  [] OTHER -> <<>>
    IN  <<TypeOf(a), Len(key \o data), a.expiresAt>> \o key \o data

-----------------------------------------------------------------------------
AddAction(a) ==
    /\ ~ live
    /\ added < MaxBuffer
    /\ buffer' = buffer \o CellsOf(a)
    /\ added' = added + 1
    /\ UNCHANGED <<live, actions, slot>>

AddStray(cell) ==
    /\ ~ live
    /\ added < MaxBuffer
    /\ buffer' = Append(buffer, cell)
    /\ added' = added + 1
    /\ UNCHANGED <<live, actions, slot>>

(***************************************************************************)
(* CreateSession: the client's arguments and then its authority's payload. *)
(* An old client without actions and without payload leaves the length out.*)
(***************************************************************************)
ClientArgs(payload) ==
    {<<SessionKey, ExpiresAt, Len(buffer)>> \o buffer \o payload}
      \cup (IF buffer \o payload = <<>> THEN {<<SessionKey, ExpiresAt>>} ELSE {})

Create(payload) ==
    /\ ~ live
    /\ \E data \in ClientArgs(payload) :
         /\ ParseArgs(data).ok
         /\ buffer' = ParseArgs(data).actions
    /\ live' = TRUE
    /\ actions' = ActionsOf(buffer)
    /\ UNCHANGED <<added, slot>>

(***************************************************************************)
(* What Sessions does with the set of records.  Of what is no mint nothing *)
(* can be spent.                                                           *)
(***************************************************************************)
Seen(a, spent) ==
    IF a.kind = "MaxPerTx" /\ a.target = "SOL" THEN spent.gross
    ELSE IF a.target \in Assets THEN spent.net[a.target]
    ELSE 0

ChargedActions(spent) ==
    {IF a.kind \in LimitKinds THEN Charge(a, Seen(a, spent), slot) ELSE a :
       a \in actions}

ActionsAllow(spent) ==
    \A a \in actions : a.kind \in LimitKinds => Allows(a, Seen(a, spent), slot)

(***************************************************************************)
(* An Execute of the session whose calls spent this much; it fails, and    *)
(* changes nothing, when a limit does not allow it.                        *)
(***************************************************************************)
WithinLimits(spent) ==
    LET views == ParseActions(buffer).views
    IN  \A i \in DOMAIN views :
           IsLimit(views[i]) =>
             ViewAllows(buffer, views[i], SpendSeen(buffer, views[i], spent))

Execute(spent) ==
    /\ live
    /\ buffer # <<>>
    /\ WithinLimits(spent)
    /\ buffer' = WriteAll(buffer, spent)
    /\ actions' = ChargedActions(spent)
    /\ UNCHANGED <<added, live, slot>>

BufferTick ==
    /\ live
    /\ slot < MaxSlot
    /\ slot' = slot + 1
    /\ UNCHANGED <<buffer, added, live, actions>>

BufferInit ==
    /\ buffer = <<>>
    /\ added = 0
    /\ live = FALSE
    /\ actions = {}
    /\ slot = 0

BufferComplete ==
    /\ added = MaxBuffer \/ live
    /\ UNCHANGED bvars

Spends ==
    {spent \in [gross: 0 .. MaxSpend, net: [Assets -> 0 .. MaxSpend]] :
       spent.gross >= spent.net["SOL"]}

BufferNext ==
    \/ \E a \in Candidates : AddAction(a)
    \/ \E cell \in StrayCells : AddStray(cell)
    \/ \E payload \in Payloads : Create(payload)
    \/ \E spent \in Spends : Execute(spent)
    \/ BufferTick
    \/ BufferComplete

BufferSpec == BufferInit /\ [][BufferNext]_bvars

-----------------------------------------------------------------------------
(***************************************************************************)
(* A buffer the program accepts is exactly a list of actions as clients    *)
(* write them, with nothing between or behind them: this is what the       *)
(* comment of validate_actions_buffer calls "fully consumed".              *)
(***************************************************************************)
AcceptedIsExact ==
    buffer # <<>> /\ ValidBuffer(buffer) =>
      LET views == ParseActions(buffer).views
          Written(i) == SubSeq(buffer, views[i].offset - HeaderSize + 1,
                               views[i].offset + views[i].len)
      IN  /\ \A i \in DOMAIN views :
               Written(i) = CellsOf(ActionOf(buffer, views[i]))
          /\ FlattenSeq([i \in DOMAIN views |-> Written(i)]) = buffer

(***************************************************************************)
(* The actions a session starts with satisfy all that Sessions relies on.  *)
(***************************************************************************)
AcceptedIsValid ==
    ValidBuffer(buffer) => ValidActions(ActionsOf(buffer))

(***************************************************************************)
(* The buffer implements the set of records: a session starts with the     *)
(* actions its client wrote, whatever the payload behind them, and however *)
(* often the buffer is written in place, it parses, and holds the actions  *)
(* that SessionActions says the session has by now.                        *)
(***************************************************************************)
BufferHoldsActions ==
    live => /\ ParseActions(buffer).ok
            /\ ActionsOf(buffer) = actions

(***************************************************************************)
(* The checks agree too: Execute passes the limits of the buffer just when *)
(* Sessions would let it pass.                                             *)
(***************************************************************************)
ChecksAgree ==
    live /\ buffer # <<>> =>
      \A spent \in Spends : WithinLimits(spent) <=> ActionsAllow(spent)
=============================================================================
