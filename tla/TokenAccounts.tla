--------------------------- MODULE TokenAccounts ---------------------------
(***************************************************************************)
(* How Execute sees the tokens of a vault.  The token limits of a session  *)
(* are defined by a mint, but a vault has any number of token accounts,    *)
(* and Execute knows only those in the list of accounts it is given.  It   *)
(* adds them up before and after the calls, and compares who controls them.*)
(*                                                                         *)
(* The module looks at one session of one wallet and at the token accounts *)
(* one by one.  The calls of one Execute are steps of their own, as in     *)
(* Sessions; they reach only accounts of the list.  The calls are those of *)
(* the token programs, and of foreign programs on accounts of their own.   *)
(* Nothing keeps an account from occurring in the list more than once.     *)
(***************************************************************************)
EXTENDS SessionActions, FiniteSets, SequencesExt

CONSTANTS
    TokenAccts,     \* addresses of accounts
    Session,        \* the session, a pair of its wallet and its key
    Policies,       \* its action sets
    InitialTokens,  \* what the accounts hold at first
    U64Max,         \* largest u64, the largest supply of a mint
    MaxListed,      \* accounts in the list of Execute
    MaxCalls,       \* calls per Execute
    MaxSlot         \* horizon of the clock

Mints == Assets \ {"SOL"}

Amounts == 0 .. U64Max

VARIABLES
    tokens,     \* the data of every account
    actions,    \* the actions of the session
    slot,
    exec,       \* the Execute that is running, if any
    granted,    \* history: the actions when the session was created
    taken       \* history: what the session took of each mint, by lists
                \* that name every account once

tvars == <<tokens, actions, slot, exec, granted, taken>>

-----------------------------------------------------------------------------
(* Token accounts. *)

(***************************************************************************)
(* program is who owns the account: one of the two token programs, some    *)
(* other program that laid out the same fields, or "none" for an account   *)
(* with fewer than TOKEN_ACCOUNT_MIN_SIZE bytes, a closed one for example. *)
(***************************************************************************)
TokenData ==
    [program: {"token", "foreign", "none"}, mint: Mints,
     owner: {"vault", "user"}, amount: Amounts,
     delegate: {"none", "user"}, close: {"none", "user"}]

(***************************************************************************)
(* The coins of a mint in each account, and those that are the vault's.    *)
(***************************************************************************)
Coins(accounts, mint) ==
    [a \in DOMAIN accounts |->
       IF accounts[a].program = "token" /\ accounts[a].mint = mint
       THEN accounts[a].amount ELSE 0]

HeldBy(accounts, mint) ==
    [a \in DOMAIN accounts |->
       IF accounts[a].owner = "vault" THEN Coins(accounts, mint)[a] ELSE 0]

Supply(accounts, mint) == FoldFunction(+, 0, Coins(accounts, mint))

(***************************************************************************)
(* The action sets are ones that CreateSession accepts.  No mint has more  *)
(* coins than its program can count.                                       *)
(***************************************************************************)
ASSUME TokenAssumption ==
    /\ IsFiniteSet(TokenAccts)
    /\ U64Max \in Nat
    /\ MaxListed \in Nat
    /\ \A acts \in Policies :
         /\ acts \subseteq Actions /\ ValidActions(acts)
         /\ \A a \in acts : a.target \in Mints
    /\ \A accounts \in InitialTokens :
         /\ accounts \in [TokenAccts -> TokenData]
         /\ \A a \in TokenAccts :
              accounts[a].program = "none" => accounts[a].amount = 0
         /\ \A mint \in Mints : Supply(accounts, mint) <= U64Max

Closed(t) ==
    [program |-> "none", mint |-> t.mint, owner |-> "user", amount |-> 0,
     delegate |-> "none", close |-> "none"]

\* Mutant of IsVaultToken: the owning program is not verified.
IsVaultTokenUnverified(a, mint) ==
    /\ tokens[a].program # "none"
    /\ tokens[a].mint = mint
    /\ tokens[a].owner = "vault"

IsVaultToken(a, mint) ==
    /\ tokens[a].program = "token"
    /\ tokens[a].mint = mint
    /\ tokens[a].owner = "vault"

SaturatingAdd(a, b) == IF a + b > U64Max THEN U64Max ELSE a + b

\* Mutant of FindTokenBalance: the first account that matches.
FindTokenBalanceFirst(accounts, mint) ==
    LET matching == SelectSeq(accounts, LAMBDA a : IsVaultToken(a, mint))
    IN  IF matching = <<>> THEN 0 ELSE tokens[Head(matching)].amount

(***************************************************************************)
(* find_token_balance: the sum over every entry of the list, of which one  *)
(* that does not match adds nothing; both callers read "none found" as 0.  *)
(***************************************************************************)
FindTokenBalance(accounts, mint) ==
    FoldLeft(SaturatingAdd, 0,
             [i \in DOMAIN accounts |->
                IF IsVaultToken(accounts[i], mint)
                THEN tokens[accounts[i]].amount ELSE 0])

(***************************************************************************)
(* What the vault really holds, over all its accounts.                     *)
(***************************************************************************)
VaultTotal(mint) == FoldFunction(+, 0, HeldBy(tokens, mint))

VaultTotals == [mint \in Mints |-> VaultTotal(mint)]

-----------------------------------------------------------------------------
(* Execute. *)

ListedMints(acts) == {a.target : a \in {b \in acts : b.kind \in LimitKinds}}

Control(t) == <<t.owner, t.delegate, t.close>>

(***************************************************************************)
(* snapshot_token_authorities: the vault's accounts of listed mints.       *)
(***************************************************************************)
SnapshotAuthorities(accounts) ==
    {[account |-> a, control |-> Control(tokens[a])] :
       a \in {b \in Range(accounts) :
                \E mint \in ListedMints(actions) : IsVaultToken(b, mint)}}

Idle == [running |-> FALSE]

Running == exec.running

(***************************************************************************)
(* The list of the Execute that is running names every account once.       *)
(***************************************************************************)
ListedOnce == IsInjective(exec.accounts)

(***************************************************************************)
(* The snapshots before the calls.  totals is history.                     *)
(***************************************************************************)
Begin(accounts) ==
    /\ ~ Running
    /\ exec' = [running |-> TRUE, accounts |-> accounts, calls |-> 0,
                balances |-> [mint \in Mints |->
                                FindTokenBalance(accounts, mint)],
                authorities |-> SnapshotAuthorities(accounts),
                before |-> tokens, totals |-> VaultTotals]
    /\ UNCHANGED <<tokens, actions, slot, granted, taken>>

(***************************************************************************)
(* One call: it ends with the accounts of tokens'.                         *)
(***************************************************************************)
Call(after) ==
    /\ exec.calls < MaxCalls
    /\ tokens' = after
    /\ exec' = [exec EXCEPT !.calls = @ + 1]
    /\ UNCHANGED <<actions, slot, granted, taken>>

Transfer(from, to, n) ==
    /\ from # to
    /\ tokens[from].program = "token" /\ tokens[to].program = "token"
    /\ tokens[from].mint = tokens[to].mint
    /\ n <= tokens[from].amount
    /\ Call([tokens EXCEPT ![from].amount = @ - n, ![to].amount = @ + n])

(***************************************************************************)
(* SetAuthority gives an account away, or takes one over, and clears the   *)
(* delegate.                                                               *)
(***************************************************************************)
SetOwner(a, owner) ==
    /\ tokens[a].program = "token"
    /\ Call([tokens EXCEPT ![a].owner = owner, ![a].delegate = "none"])

Approve(a, delegate) ==
    /\ tokens[a].program = "token"
    /\ Call([tokens EXCEPT ![a].delegate = delegate])

SetCloseAuthority(a, close) ==
    /\ tokens[a].program = "token"
    /\ Call([tokens EXCEPT ![a].close = close])

CloseAccount(a) ==
    /\ tokens[a].program = "token"
    /\ tokens[a].amount = 0
    /\ Call([tokens EXCEPT ![a] = Closed(@)])

InitializeAccount(a, owner) ==
    /\ tokens[a].program = "none"
    /\ Call([tokens EXCEPT ![a].program = "token", ![a].owner = owner])

(***************************************************************************)
(* Another program writes what it likes into its own account.              *)
(***************************************************************************)
ForeignWrite(a, n) ==
    /\ tokens[a].program = "foreign"
    /\ Call([tokens EXCEPT ![a].amount = n, ![a].owner = "vault"])

TokenCall ==
    /\ Running
    /\ \E a \in Range(exec.accounts) :
         \/ \E to \in Range(exec.accounts), n \in Amounts : Transfer(a, to, n)
         \/ \E owner \in {"vault", "user"} :
              SetOwner(a, owner) \/ InitializeAccount(a, owner)
         \/ \E who \in {"none", "user"} :
              Approve(a, who) \/ SetCloseAuthority(a, who)
         \/ CloseAccount(a)
         \/ \E n \in Amounts : ForeignWrite(a, n)

\* Mutant of AuthoritiesUnchanged: the delegate is not compared.
AuthoritiesUnchangedButDelegate ==
    \A snap \in exec.authorities :
       LET t == tokens[snap.account]
       IN  t.program = "token" /\ t.owner = snap.control[1]
                               /\ t.close = snap.control[3]

(***************************************************************************)
(* verify_token_authorities_unchanged                                      *)
(***************************************************************************)
AuthoritiesUnchanged ==
    \A snap \in exec.authorities :
       LET t == tokens[snap.account]
       IN  t.program = "token" /\ Control(t) = snap.control

TokenSpent(mint) ==
    SaturatingSub(exec.balances[mint], FindTokenBalance(exec.accounts, mint))

Really(mint) == SaturatingSub(exec.totals[mint], VaultTotal(mint))

WithinTokenLimits == \A a \in actions : Allows(a, TokenSpent(a.target), slot)

(***************************************************************************)
(* After the calls: control, then all limits, then the new limits.         *)
(***************************************************************************)
Commit ==
    /\ Running
    /\ AuthoritiesUnchanged
    /\ WithinTokenLimits
    /\ actions' = {Charge(a, TokenSpent(a.target), slot) : a \in actions}
    /\ taken' = [mint \in Mints |->
                   taken[mint] + IF ListedOnce THEN Really(mint) ELSE 0]
    /\ exec' = Idle
    /\ UNCHANGED <<tokens, slot, granted>>

Abort ==
    /\ Running
    /\ tokens' = exec.before
    /\ exec' = Idle
    /\ UNCHANGED <<actions, slot, granted, taken>>

-----------------------------------------------------------------------------
(***************************************************************************)
(* Users pay into the vault's accounts between two Executes.               *)
(***************************************************************************)
PayIn(from, to) ==
    /\ ~ Running
    /\ tokens[from].program = "token" /\ tokens[to].program = "token"
    /\ tokens[from].mint = tokens[to].mint
    /\ tokens[from].owner = "user" /\ tokens[to].owner = "vault"
    /\ tokens[from].amount > 0
    /\ tokens' = [tokens EXCEPT ![from].amount = @ - 1, ![to].amount = @ + 1]
    /\ UNCHANGED <<actions, slot, exec, granted, taken>>

TokenTick ==
    /\ ~ Running
    /\ slot < MaxSlot
    /\ slot' = slot + 1
    /\ UNCHANGED <<tokens, actions, exec, granted, taken>>

\* Any accounts in any order, one of them several times if the client likes.
AccountLists == UNION {[1 .. n -> TokenAccts] : n \in 1 .. MaxListed}

TokenInit ==
    /\ tokens \in InitialTokens
    /\ actions \in Policies
    /\ slot = 0
    /\ exec = Idle
    /\ granted = actions
    /\ taken = [mint \in Mints |-> 0]

TokenNext ==
    \/ \E accounts \in AccountLists : Begin(accounts)
    \/ TokenCall
    \/ Commit
    \/ Abort
    \/ \E from, to \in TokenAccts : PayIn(from, to)
    \/ TokenTick

TokenSpec == TokenInit /\ [][TokenNext]_tvars

-----------------------------------------------------------------------------
(***************************************************************************)
(* As long as no account is in the list twice, find_token_balance is the   *)
(* "total token balance" its comment speaks of: what Execute takes for the *)
(* outflow of a mint, from the accounts it was given, is what the vault    *)
(* has really lost since the calls began, after any of them.               *)
(***************************************************************************)
SeenIsTrue ==
    Running /\ ListedOnce => \A mint \in Mints : TokenSpent(mint) = Really(mint)

(***************************************************************************)
(* Execute with a session leaves the control of every token account of a   *)
(* listed mint that the vault had when the calls began as it was, whether  *)
(* the account is in the list or not.                                      *)
(***************************************************************************)
TokenControlKept ==
    [][Running /\ ~ Running' =>
         \A a \in TokenAccts :
            LET old == exec.before[a]
            IN  old.program = "token" /\ old.owner = "vault"
                  /\ old.mint \in ListedMints(actions)
                  => tokens'[a].program = "token"
                     /\ Control(tokens'[a]) = Control(old)]_tvars

(***************************************************************************)
(* A lifetime limit of a mint bounds what the session takes of it by the   *)
(* Executes that list every account once, over any number of them, however *)
(* tokens move between the vault's accounts and come back to it, and with  *)
(* Executes that list an account twice in between.                         *)
(***************************************************************************)
TokenLifetimeCap ==
    \A a \in granted : a.kind = "Limit" => taken[a.target] <= a.amount

(***************************************************************************)
(* The comment on find_token_balance says that every matching account is   *)
(* summed lest all token spending limits be bypassed: an Execute that      *)
(* passes the checks has then taken no more of a mint than the lifetime    *)
(* limit has left, whatever its list of accounts.                          *)
(***************************************************************************)
NoLimitBypassed ==
    Running /\ AuthoritiesUnchanged /\ WithinTokenLimits =>
      \A a \in actions : a.kind = "Limit" => Really(a.target) <= a.amount
=============================================================================
