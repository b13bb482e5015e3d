------------------------------ MODULE Sessions ------------------------------
(***************************************************************************)
(* Session keys: an Owner or Admin gives an ephemeral key the use of the   *)
(* vault until a slot, within the limits of the session's actions.         *)
(*                                                                         *)
(* The module adds session accounts and vaults to Authorities.  Execute    *)
(* with a session is split at its calls: SessionExecute is what comes      *)
(* before the loop, Cpi one turn of it, and SessionCommit or SessionAbort  *)
(* what comes after.  Nothing else runs in between: the runtime executes   *)
(* one instruction of a transaction at a time and refuses re-entry, and    *)
(* the loop refuses calls to this program.  The called programs are the    *)
(* environment: a call may move any amount in or out of the vault and may  *)
(* change who controls the vault's accounts.                               *)
(*                                                                         *)
(* What a vault holds of a mint is one number here, as if the list of an   *)
(* Execute named each of its token accounts once.  TokenAccounts looks at  *)
(* the accounts and at lists of any kind.                                  *)
(***************************************************************************)
EXTENDS Authorities, SessionActions, Sequences

CONSTANTS
    SessionKeys,        \* ephemeral keys
    Policies,           \* sets of actions callers submit
    ThisProgram,        \* the program itself, in CallPrograms
    MAX_SESSION_SLOTS,  \* longest life of a session, 6480000
    MaxInner,           \* calls per Execute, 16
    MaxBalance          \* bound on what a vault holds of an asset

SessionIds == Wallets \X SessionKeys

ASSUME SessionsAssumption ==
    /\ MAX_SESSION_SLOTS \in Nat
    /\ MaxInner \in Nat
    /\ MaxBalance \in Nat
    /\ Policies \subseteq SUBSET Actions
    /\ SessionIds \X (Policies \cup {{}}) \subseteq Payloads

VARIABLES
    session,    \* the data of every session account
    sclosing,   \* the ones closed by the transaction that is running
    vault,      \* what each wallet's vault holds
    control,    \* who controls each account of the vault, as a number
    exec,       \* the Execute that is running, if any
    granted,    \* history: each session's actions when it was created
    spent       \* history: what each session took out of the vault

svars == <<session, sclosing, vault, control, exec, granted, spent>>

sessionVars == <<vars, svars>>

-----------------------------------------------------------------------------
Amounts == 0 .. MaxBalance

Balances == [Assets -> Amounts]

(***************************************************************************)
(* For SOL the vault's owner and data length, for a mint the owner,        *)
(* delegate and close authority of the vault's token accounts.             *)
(***************************************************************************)
Controls == [Assets -> 0 .. 1]

NoSession(disc) == [disc |-> disc, expiresAt |-> 0, actions |-> {}]

Idle == [running |-> FALSE]

Running == exec.running

IsSession(s) == session[s].disc = "session"

HasActions(s) == session[s].actions # {}

NothingSpent ==
    [asset \in Assets |->
       [total |-> 0, bucket |-> 0, inBucket |-> 0, dip |-> 0, last |-> 0]]

-----------------------------------------------------------------------------
(* CreateSession and RevokeSession. *)

ValidExpiry(expiresAt) ==
    /\ ~ (expiresAt <= slot)
    /\ ~ (expiresAt > slot + MAX_SESSION_SLOTS)

(***************************************************************************)
(* The expiry is signed as well; the payload leaves it out because nothing *)
(* here depends on it.                                                     *)
(***************************************************************************)
CreateSession(w, acct, key, expiresAt, actions) ==
    LET s == <<w, key>>
    IN  /\ ~ Running
        /\ ValidActions(actions)
        /\ ValidExpiry(expiresAt)
        /\ UseAuthority(w, acct, "CreateSession", <<s, actions>>)
        /\ session[s].disc = "absent"
        /\ session' = [session EXCEPT ![s] =
             [disc |-> "session", expiresAt |-> expiresAt, actions |-> actions]]
        /\ granted' = [granted EXCEPT ![s] = actions]
        /\ spent' = [spent EXCEPT ![s] = NothingSpent]
        /\ UNCHANGED <<sclosing, vault, control, exec>>

RevokeSession(w, acct, s) ==
    /\ ~ Running
    /\ UseAuthority(w, acct, "RevokeSession", <<s, {}>>)
    /\ IsSession(s)
    /\ BelongsTo(s, w)
    /\ session' = [session EXCEPT ![s] = NoSession("zeroed")]
    /\ sclosing' = sclosing \cup {s}
    /\ UNCHANGED <<vault, control, exec, granted, spent>>

-----------------------------------------------------------------------------
(* Execute with a session. *)

SessionAlive(s) == ~ (slot > session[s].expiresAt)

(***************************************************************************)
(* The checks before the loop, and the snapshots.  low is history: the     *)
(* least the vault holds while the calls run.                              *)
(***************************************************************************)
SessionExecute(w, s, signer, stackHeight, programs) ==
    /\ ~ Running
    /\ w \in wallets
    /\ IsSession(s)
    /\ stackHeight <= 1
    /\ BelongsTo(s, w)
    /\ SessionAlive(s)
    /\ signer = s[2]
    /\ HasActions(s) => \A i \in DOMAIN programs :
                           MayCall(session[s].actions, programs[i], slot)
    /\ exec' = [running |-> TRUE, session |-> s, programs |-> programs,
                before |-> vault[w], controlBefore |-> control[w],
                prev |-> vault[w]["SOL"], grossOut |-> 0,
                low |-> vault[w]["SOL"]]
    /\ UNCHANGED <<vars, session, sclosing, vault, control, granted, spent>>

\* Mutant of GrossOut: only the net change of the whole loop is looked at.
GrossOutNet(post) == SaturatingSub(exec.before["SOL"], post)

(***************************************************************************)
(* Each call that lowers the vault's lamports adds to the gross outflow.   *)
(***************************************************************************)
GrossOut(post) == exec.grossOut + SaturatingSub(exec.prev, post)

(***************************************************************************)
(* One turn of the loop: a call that succeeds.                             *)
(***************************************************************************)
Cpi(balances, controls) ==
    LET w == exec.session[1]
        post == balances["SOL"]
    IN  /\ exec.programs # <<>>
        /\ Head(exec.programs) # ThisProgram
        /\ vault' = [vault EXCEPT ![w] = balances]
        /\ control' = [control EXCEPT ![w] = controls]
        /\ exec' = [exec EXCEPT !.programs = Tail(@), !.prev = post,
                                !.grossOut = GrossOut(post),
                                !.low = IF post < @ THEN post ELSE @]
        /\ UNCHANGED <<vars, session, sclosing, granted, spent>>

ListedAssets(actions) ==
    {a.target : a \in {b \in actions : b.kind \in LimitKinds}} \ {"SOL"}

(***************************************************************************)
(* A session with actions leaves the vault's owner and data length and the *)
(* authorities of the listed mints' accounts as they were.                 *)
(***************************************************************************)
ControlKept(s) ==
    HasActions(s) =>
      \A asset \in {"SOL"} \cup ListedAssets(session[s].actions) :
         control[s[1]][asset] = exec.controlBefore[asset]

(***************************************************************************)
(* Of a mint this is what the vault loses in accounts of a list that names *)
(* every account once; TokenAccounts has the accounts and lists one by     *)
(* one.                                                                    *)
(***************************************************************************)
NetSpent(asset) ==
    SaturatingSub(exec.before[asset], vault[exec.session[1]][asset])

\* Mutant of Spend: every lamport limit looks at the gross outflow.
SpendGross(action) ==
    IF action.target = "SOL" THEN exec.grossOut ELSE NetSpent(action.target)

(***************************************************************************)
(* SolMaxPerTx looks at the gross outflow, every other limit at the net.   *)
(***************************************************************************)
Spend(action) ==
    IF action.kind = "MaxPerTx" /\ action.target = "SOL"
    THEN exec.grossOut
    ELSE NetSpent(action.target)

(***************************************************************************)
(* The limits among the actions of a session.                              *)
(***************************************************************************)
Limits(actions) == {a \in actions : a.kind \in LimitKinds}

WithinLimits(s) ==
    \A a \in Limits(session[s].actions) : Allows(a, Spend(a), slot)

Charged(s) ==
    {IF a.kind \in LimitKinds THEN Charge(a, Spend(a), slot) ELSE a :
       a \in session[s].actions}

(***************************************************************************)
(* History: windows of a recurring limit end at multiples of its length.   *)
(***************************************************************************)
WindowOf(s, asset) ==
    IF \E a \in session[s].actions : a.kind = "Recurring" /\ a.target = asset
    THEN (CHOOSE a \in session[s].actions :
            a.kind = "Recurring" /\ a.target = asset).window
    ELSE 1

Bucket(at, window) == IF at = 0 THEN 0 ELSE (at - 1) \div window

LimitedAssets(s) == {a.target : a \in Limits(granted[s])}

(***************************************************************************)
(* How far one Execute drew the vault down.  Token balances are only seen  *)
(* before and after the loop.                                              *)
(***************************************************************************)
Dip(asset) ==
    IF asset = "SOL" THEN exec.before["SOL"] - exec.low ELSE NetSpent(asset)

Larger(a, b) == IF a > b THEN a ELSE b

Record(s) ==
    [asset \in Assets |->
       LET r == spent[s][asset]
           b == Bucket(slot, WindowOf(s, asset))
           net == NetSpent(asset)
           Has(kind) == \E a \in granted[s] : a.kind = kind /\ a.target = asset
       IN  [total |-> IF Has("Limit") THEN r.total + net ELSE 0,
            bucket |-> IF Has("Recurring") /\ net > 0 THEN b ELSE r.bucket,
            inBucket |-> IF Has("Recurring") /\ net > 0
                         THEN net + (IF r.bucket = b THEN r.inBucket ELSE 0)
                         ELSE r.inBucket,
            dip |-> IF Has("MaxPerTx") THEN Larger(r.dip, Dip(asset)) ELSE 0,
            last |-> IF asset \in LimitedAssets(s) /\ net > 0 THEN slot
                     ELSE r.last]]

(***************************************************************************)
(* After the loop: every check passes, then every limit is written.        *)
(***************************************************************************)
SessionCommit ==
    LET s == exec.session
    IN  /\ Running
        /\ exec.programs = <<>>
        /\ ControlKept(s)
        /\ WithinLimits(s)
        /\ session' = [session EXCEPT ![s].actions = Charged(s)]
        /\ spent' = [spent EXCEPT ![s] = Record(s)]
        /\ exec' = Idle
        /\ UNCHANGED <<vars, sclosing, vault, control, granted>>

(***************************************************************************)
(* A call or a check fails: the runtime restores what the transaction      *)
(* had changed.                                                            *)
(***************************************************************************)
SessionAbort ==
    LET w == exec.session[1]
    IN  /\ Running
        /\ vault' = [vault EXCEPT ![w] = exec.before]
        /\ control' = [control EXCEPT ![w] = exec.controlBefore]
        /\ exec' = Idle
        /\ UNCHANGED <<vars, session, sclosing, granted, spent>>

-----------------------------------------------------------------------------
(* Everybody else. *)

(***************************************************************************)
(* Execute with an authority: no limits, so the vault may end up anyhow.   *)
(***************************************************************************)
AuthorityExecute(w, acct, payload, balances, controls) ==
    /\ ~ Running
    /\ UseAuthority(w, acct, "Execute", payload)
    /\ vault' = [vault EXCEPT ![w] = balances]
    /\ control' = [control EXCEPT ![w] = controls]
    /\ UNCHANGED <<session, sclosing, exec, granted, spent>>

(***************************************************************************)
(* Anyone may pay into a vault, also before its wallet exists.             *)
(***************************************************************************)
Deposit(w, asset) ==
    /\ ~ Running
    /\ vault[w][asset] < MaxBalance
    /\ vault' = [vault EXCEPT ![w][asset] = @ + 1]
    /\ UNCHANGED <<vars, session, sclosing, control, exec, granted, spent>>

RemoveSessions ==
    /\ \E funded \in SUBSET sclosing :
         session' = [s \in SessionIds |->
                       IF s \in sclosing \ funded THEN NoSession("absent")
                       ELSE session[s]]
    /\ sclosing' = {}
    /\ UNCHANGED <<vault, control, exec, granted, spent>>

SessionEndTx ==
    /\ ~ Running
    /\ closing # {} \/ sclosing # {}
    /\ EndTx \/ (closing = {} /\ UNCHANGED vars)
    /\ RemoveSessions

SessionTick == ~ Running /\ sclosing = {} /\ Tick /\ UNCHANGED svars

SessionInit ==
    /\ Init
    /\ session = [s \in SessionIds |-> NoSession("absent")]
    /\ sclosing = {}
    /\ vault \in [Wallets -> {[asset \in Assets |-> MaxBalance]}]
    /\ control = [w \in Wallets |-> [asset \in Assets |-> 0]]
    /\ exec = Idle
    /\ granted = [s \in SessionIds |-> {}]
    /\ spent = [s \in SessionIds |-> NothingSpent]

CallLists == UNION {[1 .. n -> CallPrograms] : n \in 0 .. MaxInner}

SessionInstruction ==
    \/ \E w \in Wallets, acct \in Accounts :
         \/ \E key \in SessionKeys, expiresAt \in 0 .. MaxSlot + 1,
               actions \in Policies :
              CreateSession(w, acct, key, expiresAt, actions)
         \/ \E s \in SessionIds : RevokeSession(w, acct, s)
         \/ \E payload \in Payloads, balances \in Balances,
               controls \in Controls :
              AuthorityExecute(w, acct, payload, balances, controls)
    \/ \E w \in Wallets, s \in SessionIds, signer \in SessionKeys,
          stackHeight \in 1 .. 2, programs \in CallLists :
         SessionExecute(w, s, signer, stackHeight, programs)
    \/ Running /\ \E balances \in Balances, controls \in Controls :
         Cpi(balances, controls)
    \/ SessionCommit
    \/ SessionAbort
    \/ \E w \in Wallets, asset \in Assets : Deposit(w, asset)

SessionNext ==
    \/ SessionInstruction
    \/ ~ Running /\ Instruction /\ UNCHANGED svars
    \/ SessionEndTx
    \/ SessionTick
    \/ ~ Running /\ sclosing = {} /\ HorizonReached /\ UNCHANGED svars

SessionSpec == SessionInit /\ [][SessionNext]_sessionVars

-----------------------------------------------------------------------------
(* The refinement mapping to VaultControl. *)

(***************************************************************************)
(* Between two instructions; while the calls run, what the vault held when *)
(* they began, as the instruction may still fail.                          *)
(***************************************************************************)
VaultHeld ==
    [w \in Wallets |->
       IF Running /\ exec.session[1] = w THEN exec.before ELSE vault[w]]

LifetimeAmounts(actions, asset) ==
    {a.amount : a \in {b \in actions : b.kind = "Limit" /\ b.target = asset}}

LifetimeAmount(actions, asset) ==
    LET amounts == LifetimeAmounts(actions, asset)
    IN  IF amounts = {} THEN 0 ELSE CHOOSE n \in amounts : TRUE

BudgetOf(s, asset) ==
    LET live == IsSession(s) /\ SessionAlive(s)
    IN  [live |-> live,
         capped |-> LifetimeAmounts(granted[s], asset) # {},
         limit |-> LifetimeAmount(granted[s], asset),
         left |-> IF live THEN LifetimeAmount(session[s].actions, asset) ELSE 0,
         taken |-> spent[s][asset].total]

SessionBudgets == [b \in SessionIds \X Assets |-> BudgetOf(b[1], b[2])]

Promise == INSTANCE VaultControl WITH
    held <- VaultHeld, budget <- SessionBudgets, pending <- {},
    acts <- slotOps, signer <- by

(***************************************************************************)
(* Sessions implement VaultControl: the loop of calls, its snapshots and   *)
(* the two phases of the limits amount to one step that takes no more than *)
(* is left, and a failed Execute to none; nothing but an authority's act,  *)
(* a live session or a deposit changes a vault.                            *)
(***************************************************************************)
ImplementsVaultControl == Promise!Spec

-----------------------------------------------------------------------------
SessionData ==
    [disc: {"absent", "zeroed", "session"}, expiresAt: Nat,
     actions: SUBSET Actions]

Execution ==
    [running: {TRUE}, session: SessionIds, programs: Seq(CallPrograms),
     before: Balances, controlBefore: Controls, prev: Amounts, grossOut: Nat,
     low: Amounts]

Spending ==
    [total: Nat, bucket: Nat, inBucket: Nat, dip: Nat, last: Nat]

(***************************************************************************)
(* Type correctness.                                                       *)
(***************************************************************************)
SessionTypeOK ==
    /\ session \in [SessionIds -> SessionData]
    /\ sclosing \subseteq SessionIds
    /\ vault \in [Wallets -> Balances]
    /\ control \in [Wallets -> Controls]
    /\ exec \in {Idle} \cup Execution
    /\ granted \in [SessionIds -> SUBSET Actions]
    /\ spent \in [SessionIds -> [Assets -> Spending]]

(***************************************************************************)
(* A lifetime limit bounds everything a session ever takes out, over any   *)
(* number of transactions and whatever flows back in between them.         *)
(***************************************************************************)
LifetimeCap ==
    \A s \in SessionIds : \A a \in granted[s] :
       a.kind = "Limit" => spent[s][a.target].total <= a.amount

(***************************************************************************)
(* A recurring limit bounds what a session takes out between two multiples *)
(* of the window, although last_reset starts at 0 and moves in jumps.      *)
(***************************************************************************)
WindowCap ==
    \A s \in SessionIds : \A a \in granted[s] :
       a.kind = "Recurring" => spent[s][a.target].inBucket <= a.amount

(***************************************************************************)
(* A per-transaction limit bounds how far one Execute draws the vault down *)
(* at any moment, also when later calls pay the lamports back.             *)
(***************************************************************************)
PerTxCap ==
    \A s \in SessionIds : \A a \in granted[s] :
       a.kind = "MaxPerTx" => spent[s][a.target].dip <= a.amount

(***************************************************************************)
(* Nothing leaves the vault by a session after the session's expiry, the   *)
(* expiry of a limit on the asset, or the expiry of its whole whitelist:   *)
(* an expired restriction denies instead of dropping out.                  *)
(***************************************************************************)
NoSpendAfterExpiry ==
    \A s \in SessionIds : \A asset \in LimitedAssets(s) :
       LET last == spent[s][asset].last
           Ended(a) == a.expiresAt # 0 /\ last > a.expiresAt
           lists == {a \in granted[s] : a.kind = "Whitelist"}
       IN  /\ IsSession(s) => last <= session[s].expiresAt
           /\ \A a \in Limits(granted[s]) : a.target = asset => ~ Ended(a)
           /\ lists # {} => \E a \in lists : ~ Ended(a)

(***************************************************************************)
(* What a lifetime limit has left is exactly the grant less what has left  *)
(* the vault, over any number of Executes: deposits give nothing back, and *)
(* a session is not denied what it was granted because of a call that paid *)
(* back, an Execute that failed or another limit that restarted.           *)
(***************************************************************************)
LeftIsExact ==
    \A s \in SessionIds : IsSession(s) =>
       \A a \in session[s].actions : a.kind = "Limit" =>
          a.amount + spent[s][a.target].total
            = LifetimeAmount(granted[s], a.target)
=============================================================================
