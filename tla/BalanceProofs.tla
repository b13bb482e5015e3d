--------------------------- MODULE BalanceProofs ---------------------------
(***************************************************************************)
(* Proofs about balances.  TokenAccounts: what Execute sees of a vault's   *)
(* token accounts is what happens to them.  PdaAccounts: the accounts in   *)
(* use are rent exempt however their balances came about, and closing an   *)
(* account leaves nothing in it.                                           *)
(***************************************************************************)
EXTENDS TokenAccounts, PdaAccounts, DataInduction

-----------------------------------------------------------------------------
(* Accounts and sums over them. *)

(***************************************************************************)
(* The fold over a whole function is the sum over its domain.              *)
(***************************************************************************)
LEMMA SumOfAll ==
    ASSUME NEW f
    PROVE  FoldFunction(+, 0, f) = SumOn(f, DOMAIN f)
  BY DEF FoldFunction, SumOn

(***************************************************************************)
(* Tables of accounts a ledger can hold.                                   *)
(***************************************************************************)
Ledger(t) ==
    /\ t \in [TokenAccts -> TokenData]
    /\ \A a \in TokenAccts : t[a].program = "none" => t[a].amount = 0
    /\ \A mint \in Mints : SumOn(Coins(t, mint), TokenAccts) <= U64Max

(***************************************************************************)
(* The coins of a ledger, and those of the vault among them, can be added. *)
(***************************************************************************)
LEMMA LedgerTyping ==
    ASSUME NEW t, t \in [TokenAccts -> TokenData], NEW mint
    PROVE  /\ Summable(Coins(t, mint), TokenAccts)
           /\ Summable(HeldBy(t, mint), TokenAccts)
           /\ \A a \in TokenAccts :
                /\ t[a].amount \in Nat
                /\ Coins(t, mint)[a] =
                     IF t[a].program = "token" /\ t[a].mint = mint
                     THEN t[a].amount ELSE 0
                /\ HeldBy(t, mint)[a] =
                     IF t[a].program = "token" /\ t[a].mint = mint
                        /\ t[a].owner = "vault"
                     THEN t[a].amount ELSE 0
                /\ HeldBy(t, mint)[a] <= Coins(t, mint)[a]
  <1>1. \A a \in TokenAccts : t[a].amount \in Nat
    BY TokenAssumption DEF TokenData, Amounts
  <1>2. \A a \in TokenAccts :
          /\ Coins(t, mint)[a] =
               IF t[a].program = "token" /\ t[a].mint = mint
               THEN t[a].amount ELSE 0
          /\ HeldBy(t, mint)[a] =
               IF t[a].program = "token" /\ t[a].mint = mint
                  /\ t[a].owner = "vault"
               THEN t[a].amount ELSE 0
    BY DEF Coins, HeldBy
  <1>3. \A a \in TokenAccts :
          Coins(t, mint)[a] \in Nat /\ HeldBy(t, mint)[a] \in Nat
    BY <1>1, <1>2
  <1>4. \A a \in TokenAccts : HeldBy(t, mint)[a] <= Coins(t, mint)[a]
    BY <1>1, <1>2
  <1> QED
    BY <1>1, <1>2, <1>3, <1>4 DEF Summable

(***************************************************************************)
(* All a vault has of a mint, as a sum.                                    *)
(***************************************************************************)
LEMMA TotalIsSum ==
    ASSUME NEW t, t \in [TokenAccts -> TokenData], NEW mint
    PROVE  /\ FoldFunction(+, 0, HeldBy(t, mint)) = SumOn(HeldBy(t, mint), TokenAccts)
           /\ FoldFunction(+, 0, Coins(t, mint)) = SumOn(Coins(t, mint), TokenAccts)
  <1>1. DOMAIN HeldBy(t, mint) = TokenAccts /\ DOMAIN Coins(t, mint) = TokenAccts
    BY DEF HeldBy, Coins
  <1> QED
    BY <1>1, SumOfAll

(***************************************************************************)
(* VaultTotal is that sum over the accounts as they are.                   *)
(***************************************************************************)
LEMMA VaultSum ==
    ASSUME tokens \in [TokenAccts -> TokenData], NEW mint
    PROVE  VaultTotal(mint) = SumOn(HeldBy(tokens, mint), TokenAccts)
  <1>1. PICK t : t = tokens
    OBVIOUS
  <1>2. FoldFunction(+, 0, HeldBy(t, mint)) = SumOn(HeldBy(t, mint), TokenAccts)
    BY <1>1, TotalIsSum
  <1>3. VaultTotal(mint) = FoldFunction(+, 0, HeldBy(t, mint))
    BY <1>1 DEF VaultTotal
  <1> QED
    BY <1>1, <1>2, <1>3

(***************************************************************************)
(* The vault's accounts, any number of them, hold no more than U64Max.     *)
(***************************************************************************)
LEMMA HeldBounded ==
    ASSUME NEW t, Ledger(t), NEW mint \in Mints, NEW s \in SUBSET TokenAccts
    PROVE  /\ SumOn(HeldBy(t, mint), s) \in Nat
           /\ SumOn(HeldBy(t, mint), s) <= U64Max
  <1>1. /\ Summable(Coins(t, mint), TokenAccts)
        /\ Summable(HeldBy(t, mint), TokenAccts)
        /\ \A a \in TokenAccts : HeldBy(t, mint)[a] <= Coins(t, mint)[a]
    BY LedgerTyping DEF Ledger
  <1>2. SumOn(HeldBy(t, mint), s) <= SumOn(HeldBy(t, mint), TokenAccts)
    BY <1>1, TokenAssumption, SumOfPart
  <1>3. SumOn(HeldBy(t, mint), TokenAccts) <= SumOn(Coins(t, mint), TokenAccts)
    BY <1>1, TokenAssumption, SumMonotone
  <1>4. /\ SumOn(HeldBy(t, mint), s) \in Nat
        /\ SumOn(HeldBy(t, mint), TokenAccts) \in Nat
        /\ SumOn(Coins(t, mint), TokenAccts) \in Nat
    BY <1>1, TokenAssumption, SumStep
  <1>5. SumOn(Coins(t, mint), TokenAccts) <= U64Max
    BY DEF Ledger
  <1> QED
    BY <1>2, <1>3, <1>4, <1>5, TokenAssumption
-----------------------------------------------------------------------------
(* The calls of the token programs. *)

(***************************************************************************)
(* Coins that move between two accounts stay in the ledger.                *)
(***************************************************************************)
LEMMA LedgerMoved ==
    ASSUME NEW t, Ledger(t), NEW from \in TokenAccts, NEW to \in TokenAccts,
           from # to, t[from].program = "token", t[to].program = "token",
           t[from].mint = t[to].mint, NEW n \in Nat, n <= t[from].amount
    PROVE  Ledger([t EXCEPT ![from].amount = @ - n, ![to].amount = @ + n])
  <1> DEFINE after == [t EXCEPT ![from].amount = @ - n, ![to].amount = @ + n]
  <1>1. t \in [TokenAccts -> TokenData] /\ t[from] \in TokenData /\ t[to] \in TokenData
    BY DEF Ledger
  <1>2. PICK x \in Nat, y \in Nat : x = t[from].amount /\ y = t[to].amount
    BY <1>1, LedgerTyping
  <1>3. PICK mint \in Mints : mint = t[from].mint /\ mint = t[to].mint
    BY <1>1 DEF TokenData
  <1>4. x + y <= U64Max
    <2>1. Summable(Coins(t, mint), TokenAccts)
      BY <1>1, LedgerTyping
    <2>2. Coins(t, mint)[from] = x /\ Coins(t, mint)[to] = y
      BY <1>1, <1>2, <1>3, LedgerTyping
    <2>3. SumOn(Coins(t, mint), {from, to}) = x + y
      BY <2>1, <2>2, TokenAssumption, SumOfPair
    <2>4. SumOn(Coins(t, mint), {from, to}) <= SumOn(Coins(t, mint), TokenAccts)
      BY <2>1, TokenAssumption, SumOfPart
    <2>5. SumOn(Coins(t, mint), TokenAccts) \in Nat
      BY <2>1, TokenAssumption, SumStep
    <2> QED
      BY <1>2, <2>3, <2>4, <2>5, TokenAssumption DEF Ledger
  <1>5. x - n \in Amounts /\ y + n \in Amounts
    BY <1>2, <1>4, TokenAssumption DEF Amounts
  <1>6. /\ after[from] = [t[from] EXCEPT !.amount = x - n]
        /\ after[to] = [t[to] EXCEPT !.amount = y + n]
        /\ \A a \in TokenAccts \ {from, to} : after[a] = t[a]
        /\ after = [a \in TokenAccts |-> after[a]]
    BY <1>1, <1>2
  <1>7. after[from] \in TokenData /\ after[to] \in TokenData
    BY <1>1, <1>5, <1>6 DEF TokenData
  <1>8. after \in [TokenAccts -> TokenData]
    BY <1>1, <1>6, <1>7
  <1>9. /\ after[from].program = "token" /\ after[to].program = "token"
        /\ after[from].mint = mint /\ after[to].mint = mint
        /\ after[from].amount = x - n /\ after[to].amount = y + n
    BY <1>1, <1>3, <1>6 DEF TokenData
  <1> HIDE DEF after
  <1>10. ASSUME NEW m \in Mints
         PROVE  SumOn(Coins(after, m), TokenAccts) = SumOn(Coins(t, m), TokenAccts)
    <2> DEFINE f == Coins(after, m)
               h == Coins(t, m)
    <2>1. Summable(f, TokenAccts) /\ Summable(h, TokenAccts)
      BY <1>1, <1>8, LedgerTyping
    <2>2. \A a \in TokenAccts \ {from, to} : f[a] = h[a]
      BY <1>1, <1>6, <1>8, LedgerTyping
    <2>3. f[from] + f[to] = h[from] + h[to]
      <3>1. /\ f[from] = IF mint = m THEN x - n ELSE 0
            /\ f[to] = IF mint = m THEN y + n ELSE 0
        BY <1>8, <1>9, LedgerTyping
      <3>2. /\ h[from] = IF mint = m THEN x ELSE 0
            /\ h[to] = IF mint = m THEN y ELSE 0
        BY <1>1, <1>2, <1>3, LedgerTyping
      <3>3. (x - n) + (y + n) = x + y
        BY <1>2
      <3> HIDE DEF f, h
      <3> QED
        BY <3>1, <3>2, <3>3
    <2> HIDE DEF f, h
    <2>4. SumOn(f, TokenAccts) = SumOn(h, TokenAccts)
      BY <2>1, <2>2, <2>3, TokenAssumption, SumMoved
    <2> QED
      BY <2>4 DEF f, h
  <1>11. \A a \in TokenAccts : after[a].program = "none" => after[a].amount = 0
    BY <1>6, <1>9 DEF Ledger
  <1>12. Ledger(after)
    BY <1>8, <1>10, <1>11 DEF Ledger
  <1> QED
    BY <1>12 DEF after

(***************************************************************************)
(* So does an account that is written anew and has the coins it had.       *)
(***************************************************************************)
LEMMA LedgerRewritten ==
    ASSUME NEW t, Ledger(t), NEW a \in TokenAccts, NEW d \in TokenData,
           d.program = "none" => d.amount = 0,
           \A m \in Mints :
             (IF d.program = "token" /\ d.mint = m THEN d.amount ELSE 0) =
             (IF t[a].program = "token" /\ t[a].mint = m THEN t[a].amount ELSE 0)
    PROVE  Ledger([t EXCEPT ![a] = d])
  <1> DEFINE after == [t EXCEPT ![a] = d]
  <1>1. /\ t \in [TokenAccts -> TokenData]
        /\ after \in [TokenAccts -> TokenData]
        /\ after[a] = d
        /\ \A b \in TokenAccts \ {a} : after[b] = t[b]
    BY DEF Ledger
  <1> HIDE DEF after
  <1>2. ASSUME NEW m \in Mints
        PROVE  SumOn(Coins(after, m), TokenAccts) = SumOn(Coins(t, m), TokenAccts)
    <2>1. /\ Summable(Coins(after, m), TokenAccts)
          /\ Summable(Coins(t, m), TokenAccts)
      BY <1>1, LedgerTyping
    <2>2. \A b \in TokenAccts : Coins(after, m)[b] = Coins(t, m)[b]
      <3>1. Coins(after, m)[a] = Coins(t, m)[a]
        BY <1>1, LedgerTyping
      <3>2. \A b \in TokenAccts \ {a} : Coins(after, m)[b] = Coins(t, m)[b]
        BY <1>1, LedgerTyping
      <3> QED
        BY <3>1, <3>2
    <2> QED
      BY <2>1, <2>2, TokenAssumption, SumSame
  <1>3. \A b \in TokenAccts : after[b].program = "none" => after[b].amount = 0
    BY <1>1 DEF Ledger
  <1>4. Ledger(after)
    BY <1>1, <1>2, <1>3 DEF Ledger
  <1> QED
    BY <1>4 DEF after
-----------------------------------------------------------------------------
(* The invariant. *)

(***************************************************************************)
(* While an Execute runs: its snapshots are those of the accounts before   *)
(* the calls, and the calls have only touched accounts of its list.        *)
(***************************************************************************)
Execution ==
    /\ exec = [running |-> TRUE, accounts |-> exec.accounts,
               calls |-> exec.calls, balances |-> exec.balances,
               authorities |-> exec.authorities, before |-> exec.before,
               totals |-> exec.totals]
    /\ exec.accounts \in AccountLists
    /\ Ledger(exec.before)
    /\ exec.totals = [mint \in Mints |-> SumOn(HeldBy(exec.before, mint), TokenAccts)]
    /\ \A a \in TokenAccts \ Range(exec.accounts) : tokens[a] = exec.before[a]
    /\ \A a \in Range(exec.accounts) :
         LET old == exec.before[a]
         IN  old.program = "token" /\ old.owner = "vault"
               /\ old.mint \in ListedMints(actions)
               => [account |-> a, control |-> Control(old)] \in exec.authorities

TokenInv == Ledger(tokens) /\ (exec = Idle \/ Execution)

(***************************************************************************)
(* A list of accounts is a sequence of accounts.                           *)
(***************************************************************************)
LEMMA ListTyping ==
    ASSUME NEW accounts \in AccountLists
    PROVE  \E n \in Nat :
             /\ accounts \in [1 .. n -> TokenAccts]
             /\ DOMAIN accounts = 1 .. n
             /\ Range(accounts) \in SUBSET TokenAccts
             /\ Range(accounts) = {accounts[i] : i \in 1 .. n}
  <1>1. PICK n \in 1 .. MaxListed : accounts \in [1 .. n -> TokenAccts]
    BY DEF AccountLists
  <1>2. n \in Nat
    BY TokenAssumption
  <1> QED
    BY <1>1, <1>2 DEF Range

(***************************************************************************)
(* What a call does: the ledger stays one, only listed accounts change.    *)
(***************************************************************************)
LEMMA CallEffect ==
    ASSUME Ledger(tokens), TokenCall, Range(exec.accounts) \in SUBSET TokenAccts
    PROVE  /\ Ledger(tokens')
           /\ \A a \in TokenAccts \ Range(exec.accounts) : tokens'[a] = tokens[a]
           /\ exec' = [exec EXCEPT !.calls = @ + 1]
           /\ UNCHANGED <<actions, slot, granted, taken>>
  <1>1. PICK t : t = tokens
    OBVIOUS
  <1>2. Ledger(t) /\ t \in [TokenAccts -> TokenData]
    BY <1>1 DEF Ledger
  <1>3. PICK a \in Range(exec.accounts) :
           \/ \E to \in Range(exec.accounts), n \in Amounts : Transfer(a, to, n)
           \/ \E owner \in {"vault", "user"} :
                SetOwner(a, owner) \/ InitializeAccount(a, owner)
           \/ \E who \in {"none", "user"} :
                Approve(a, who) \/ SetCloseAuthority(a, who)
           \/ CloseAccount(a)
           \/ \E n \in Amounts : ForeignWrite(a, n)
    BY DEF TokenCall
  <1>4. a \in TokenAccts /\ t[a] \in TokenData
    BY <1>2
  <1>5. PICK old \in TokenData : old = t[a]
    BY <1>4
  <1>6. old.program = "none" => old.amount = 0
    BY <1>2, <1>4, <1>5 DEF Ledger
  <1>7. ASSUME NEW d \in TokenData, d.program = "none" => d.amount = 0,
               \A m \in Mints :
                 (IF d.program = "token" /\ d.mint = m THEN d.amount ELSE 0) =
                 (IF old.program = "token" /\ old.mint = m THEN old.amount ELSE 0),
               Call([tokens EXCEPT ![a] = d])
        PROVE  /\ Ledger(tokens')
               /\ \A b \in TokenAccts \ Range(exec.accounts) : tokens'[b] = tokens[b]
    <2>1. tokens' = [t EXCEPT ![a] = d]
      BY <1>1, <1>7 DEF Call
    <2>2. Ledger([t EXCEPT ![a] = d])
      BY <1>2, <1>4, <1>5, <1>7, LedgerRewritten
    <2> QED
      BY <1>1, <1>2, <1>4, <2>1, <2>2
  <1>8. ASSUME NEW to \in Range(exec.accounts), NEW n \in Amounts, Transfer(a, to, n)
        PROVE  /\ Ledger(tokens')
               /\ \A b \in TokenAccts \ Range(exec.accounts) : tokens'[b] = tokens[b]
    <2>1. tokens' = [t EXCEPT ![a].amount = @ - n, ![to].amount = @ + n]
      BY <1>1, <1>8 DEF Transfer, Call
    <2>2. n \in Nat /\ to \in TokenAccts
      BY TokenAssumption DEF Amounts
    <2>3. Ledger([t EXCEPT ![a].amount = @ - n, ![to].amount = @ + n])
      <3>1. /\ a # to /\ t[a].program = "token" /\ t[to].program = "token"
            /\ t[a].mint = t[to].mint /\ n <= t[a].amount
        BY <1>1, <1>8 DEF Transfer
      <3> QED
        BY <1>2, <1>4, <2>2, <3>1, LedgerMoved
    <2> QED
      BY <1>1, <1>2, <2>1, <2>3
  <1>9. ASSUME NEW owner \in {"vault", "user"}, SetOwner(a, owner)
        PROVE  /\ Ledger(tokens')
               /\ \A b \in TokenAccts \ Range(exec.accounts) : tokens'[b] = tokens[b]
    <2> DEFINE d == [old EXCEPT !.owner = owner, !.delegate = "none"]
    <2>1. d \in TokenData /\ d.program = old.program /\ d.mint = old.mint
          /\ d.amount = old.amount
      BY DEF TokenData
    <2>2. Call([tokens EXCEPT ![a] = d])
      <3>1. [tokens EXCEPT ![a].owner = owner, ![a].delegate = "none"]
              = [tokens EXCEPT ![a] = d]
        BY <1>1, <1>2, <1>4, <1>5
      <3> QED
        BY <1>9, <3>1 DEF SetOwner
    <2> HIDE DEF d
    <2> QED
      BY <1>6, <1>7, <2>1, <2>2
  <1>10. ASSUME NEW owner \in {"vault", "user"}, InitializeAccount(a, owner)
         PROVE  /\ Ledger(tokens')
                /\ \A b \in TokenAccts \ Range(exec.accounts) : tokens'[b] = tokens[b]
    <2> DEFINE d == [old EXCEPT !.program = "token", !.owner = owner]
    <2>1. d \in TokenData /\ d.program = "token" /\ d.mint = old.mint
          /\ d.amount = old.amount
      BY DEF TokenData
    <2>2. Call([tokens EXCEPT ![a] = d])
      <3>1. [tokens EXCEPT ![a].program = "token", ![a].owner = owner]
              = [tokens EXCEPT ![a] = d]
        BY <1>1, <1>2, <1>4, <1>5
      <3> QED
        BY <1>10, <3>1 DEF InitializeAccount
    <2>3. old.program = "none" /\ old.amount = 0
      BY <1>1, <1>5, <1>6, <1>10 DEF InitializeAccount
    <2> HIDE DEF d
    <2> QED
      BY <1>7, <2>1, <2>2, <2>3
  <1>11. ASSUME NEW who \in {"none", "user"}, Approve(a, who)
         PROVE  /\ Ledger(tokens')
                /\ \A b \in TokenAccts \ Range(exec.accounts) : tokens'[b] = tokens[b]
    <2> DEFINE d == [old EXCEPT !.delegate = who]
    <2>1. d \in TokenData /\ d.program = old.program /\ d.mint = old.mint
          /\ d.amount = old.amount
      BY DEF TokenData
    <2>2. Call([tokens EXCEPT ![a] = d])
      <3>1. [tokens EXCEPT ![a].delegate = who] = [tokens EXCEPT ![a] = d]
        BY <1>1, <1>2, <1>4, <1>5
      <3> QED
        BY <1>11, <3>1 DEF Approve
    <2> HIDE DEF d
    <2> QED
      BY <1>6, <1>7, <2>1, <2>2
  <1>12. ASSUME NEW who \in {"none", "user"}, SetCloseAuthority(a, who)
         PROVE  /\ Ledger(tokens')
                /\ \A b \in TokenAccts \ Range(exec.accounts) : tokens'[b] = tokens[b]
    <2> DEFINE d == [old EXCEPT !.close = who]
    <2>1. d \in TokenData /\ d.program = old.program /\ d.mint = old.mint
          /\ d.amount = old.amount
      BY DEF TokenData
    <2>2. Call([tokens EXCEPT ![a] = d])
      <3>1. [tokens EXCEPT ![a].close = who] = [tokens EXCEPT ![a] = d]
        BY <1>1, <1>2, <1>4, <1>5
      <3> QED
        BY <1>12, <3>1 DEF SetCloseAuthority
    <2> HIDE DEF d
    <2> QED
      BY <1>6, <1>7, <2>1, <2>2
  <1>13. ASSUME CloseAccount(a)
         PROVE  /\ Ledger(tokens')
                /\ \A b \in TokenAccts \ Range(exec.accounts) : tokens'[b] = tokens[b]
    <2> DEFINE d == Closed(old)
    <2>1. d \in TokenData /\ d.program = "none" /\ d.amount = 0
      BY TokenAssumption DEF TokenData, Closed, Amounts
    <2>2. Call([tokens EXCEPT ![a] = d])
      <3>1. [tokens EXCEPT ![a] = Closed(@)] = [tokens EXCEPT ![a] = d]
        BY <1>1, <1>2, <1>4, <1>5
      <3> QED
        BY <1>13, <3>1 DEF CloseAccount
    <2>3. old.amount = 0
      BY <1>1, <1>5, <1>13 DEF CloseAccount
    <2> HIDE DEF d
    <2> QED
      BY <1>7, <2>1, <2>2, <2>3
  <1>14. ASSUME NEW n \in Amounts, ForeignWrite(a, n)
         PROVE  /\ Ledger(tokens')
                /\ \A b \in TokenAccts \ Range(exec.accounts) : tokens'[b] = tokens[b]
    <2> DEFINE d == [old EXCEPT !.amount = n, !.owner = "vault"]
    <2>1. d \in TokenData /\ d.program = old.program
      BY DEF TokenData
    <2>2. Call([tokens EXCEPT ![a] = d])
      <3>1. [tokens EXCEPT ![a].amount = n, ![a].owner = "vault"]
              = [tokens EXCEPT ![a] = d]
        BY <1>1, <1>2, <1>4, <1>5
      <3> QED
        BY <1>14, <3>1 DEF ForeignWrite
    <2>3. old.program = "foreign"
      BY <1>1, <1>5, <1>14 DEF ForeignWrite
    <2> HIDE DEF d
    <2> QED
      BY <1>7, <2>1, <2>2, <2>3
  <1>15. /\ Ledger(tokens')
         /\ \A b \in TokenAccts \ Range(exec.accounts) : tokens'[b] = tokens[b]
    BY <1>3, <1>8, <1>9, <1>10, <1>11, <1>12, <1>13, <1>14
  <1>16. \E after : Call(after)
    BY <1>3 DEF Transfer, SetOwner, InitializeAccount, Approve,
                SetCloseAuthority, CloseAccount, ForeignWrite
  <1> QED
    BY <1>15, <1>16 DEF Call
(***************************************************************************)
(* The ledgers a vault starts with are ledgers.                            *)
(***************************************************************************)
LEMMA TokenStart == TokenInit => TokenInv
  <1> SUFFICES ASSUME TokenInit PROVE TokenInv
    OBVIOUS
  <1>1. PICK t \in InitialTokens : t = tokens
    BY DEF TokenInit
  <1>2. t \in [TokenAccts -> TokenData]
    BY TokenAssumption
  <1>3. \A mint \in Mints : SumOn(Coins(t, mint), TokenAccts) <= U64Max
    BY <1>2, TokenAssumption, TotalIsSum DEF Supply
  <1>4. \A a \in TokenAccts : t[a].program = "none" => t[a].amount = 0
    BY TokenAssumption
  <1>5. Ledger(tokens)
    BY <1>1, <1>2, <1>3, <1>4 DEF Ledger
  <1> QED
    BY <1>5 DEF TokenInv, TokenInit

(***************************************************************************)
(* A deposit moves one coin from a user's account to one of the vault.     *)
(***************************************************************************)
LEMMA PayInEffect ==
    ASSUME Ledger(tokens), NEW from \in TokenAccts, NEW to \in TokenAccts,
           PayIn(from, to)
    PROVE  Ledger(tokens')
  <1>1. PICK t : t = tokens
    OBVIOUS
  <1>2. Ledger(t) /\ t \in [TokenAccts -> TokenData]
    BY <1>1 DEF Ledger
  <1>3. /\ t[from].program = "token" /\ t[to].program = "token"
        /\ t[from].mint = t[to].mint
        /\ t[from].owner = "user" /\ t[to].owner = "vault"
        /\ t[from].amount > 0
        /\ tokens' = [t EXCEPT ![from].amount = @ - 1, ![to].amount = @ + 1]
    BY <1>1 DEF PayIn
  <1>4. from # to
    BY <1>3
  <1>5. 1 \in Nat /\ 1 <= t[from].amount
    BY <1>2, <1>3, LedgerTyping
  <1>6. Ledger([t EXCEPT ![from].amount = @ - 1, ![to].amount = @ + 1])
    BY <1>2, <1>3, <1>4, <1>5, LedgerMoved
  <1> QED
    BY <1>3, <1>6

(***************************************************************************)
(* Every step keeps the invariant.                                         *)
(***************************************************************************)
LEMMA TokenStep == TokenInv /\ [TokenNext]_tvars => TokenInv'
  <1> SUFFICES ASSUME TokenInv, [TokenNext]_tvars
               PROVE  TokenInv'
    OBVIOUS
  <1>1. Ledger(tokens)
    BY DEF TokenInv
  <1>2. exec.running => Execution
    BY DEF TokenInv, Idle
  <1>3. ASSUME Ledger(tokens'), exec' = Idle \/ Execution'
        PROVE  TokenInv'
    <2>1. Ledger(tokens)'
      BY <1>3
    <2> QED
      BY <1>3, <2>1 DEF TokenInv, Idle
  <1>4. ASSUME NEW accounts \in AccountLists, Begin(accounts)
        PROVE  TokenInv'
    <2>1. /\ exec' = [running |-> TRUE, accounts |-> accounts, calls |-> 0,
                      balances |-> [mint \in Mints |->
                                      FindTokenBalance(accounts, mint)],
                      authorities |-> SnapshotAuthorities(accounts),
                      before |-> tokens, totals |-> VaultTotals]
          /\ tokens' = tokens /\ actions' = actions
      BY <1>4 DEF Begin
    <2>2. /\ exec'.accounts = accounts /\ exec'.before = tokens
          /\ exec'.authorities = SnapshotAuthorities(accounts)
          /\ exec'.totals = VaultTotals
          /\ exec' = [running |-> TRUE, accounts |-> exec'.accounts,
                      calls |-> exec'.calls, balances |-> exec'.balances,
                      authorities |-> exec'.authorities, before |-> exec'.before,
                      totals |-> exec'.totals]
      BY <2>1
    <2>3. VaultTotals = [mint \in Mints |-> SumOn(HeldBy(tokens, mint), TokenAccts)]
      BY <1>1, VaultSum DEF VaultTotals, Ledger
    <2>4. ASSUME NEW a \in Range(accounts), tokens[a].program = "token",
                 tokens[a].owner = "vault", tokens[a].mint \in ListedMints(actions)
          PROVE  [account |-> a, control |-> Control(tokens[a])]
                   \in SnapshotAuthorities(accounts)
      BY <2>4 DEF SnapshotAuthorities, IsVaultToken
    <2>5. Execution'
      <3>1. \A a \in Range(exec'.accounts) :
              LET old == exec'.before[a]
              IN  old.program = "token" /\ old.owner = "vault"
                    /\ old.mint \in ListedMints(actions)
                    => [account |-> a, control |-> Control(old)] \in exec'.authorities
        BY <2>2, <2>4
      <3>2. ListedMints(actions)' = ListedMints(actions)
        BY <2>1
      <3>3. exec'.accounts \in AccountLists
        BY <1>4, <2>2
      <3>4. \A a \in TokenAccts \ Range(exec'.accounts) : tokens'[a] = exec'.before[a]
        BY <2>1, <2>2
      <3>5. Ledger(exec'.before)
        BY <1>1, <2>2
      <3>6. exec'.totals =
              [mint \in Mints |-> SumOn(HeldBy(exec'.before, mint), TokenAccts)]
        BY <2>2, <2>3
      <3> QED
        BY <2>2, <3>1, <3>2, <3>3, <3>4, <3>5, <3>6 DEF Execution
    <2> QED
      BY <1>1, <1>3, <2>1, <2>5
  <1>5. ASSUME TokenCall
        PROVE  TokenInv'
    <2>1. Execution
      BY <1>2, <1>5 DEF TokenCall, Running
    <2>2. Range(exec.accounts) \in SUBSET TokenAccts
      BY <2>1, ListTyping DEF Execution
    <2>3. /\ Ledger(tokens')
          /\ \A a \in TokenAccts \ Range(exec.accounts) : tokens'[a] = tokens[a]
          /\ exec' = [exec EXCEPT !.calls = @ + 1]
          /\ UNCHANGED <<actions, slot, granted, taken>>
      BY <1>1, <1>5, <2>2, CallEffect
    <2>4. /\ exec'.accounts = exec.accounts /\ exec'.before = exec.before
          /\ exec'.authorities = exec.authorities /\ exec'.totals = exec.totals
          /\ exec' = [running |-> TRUE, accounts |-> exec'.accounts,
                      calls |-> exec'.calls, balances |-> exec'.balances,
                      authorities |-> exec'.authorities, before |-> exec'.before,
                      totals |-> exec'.totals]
      <3>1. exec' = [running |-> TRUE, accounts |-> exec.accounts,
                     calls |-> exec.calls + 1, balances |-> exec.balances,
                     authorities |-> exec.authorities, before |-> exec.before,
                     totals |-> exec.totals]
        <4>1. PICK l, c, b, s, o, h :
                exec = [running |-> TRUE, accounts |-> l, calls |-> c,
                        balances |-> b, authorities |-> s, before |-> o,
                        totals |-> h]
          BY <2>1 DEF Execution
        <4>2. exec' = [running |-> TRUE, accounts |-> l, calls |-> c + 1,
                       balances |-> b, authorities |-> s, before |-> o,
                       totals |-> h]
          BY <2>3, <4>1
        <4> QED
          BY <4>1, <4>2
      <3> QED
        BY <3>1
    <2>5. Execution'
      BY <2>1, <2>3, <2>4 DEF Execution
    <2> QED
      BY <1>3, <2>3, <2>5
  <1>6. ASSUME Commit
        PROVE  TokenInv'
    BY <1>1, <1>3, <1>6 DEF Commit
  <1>7. ASSUME Abort
        PROVE  TokenInv'
    BY <1>2, <1>3, <1>7 DEF Abort, Execution, Running
  <1>8. ASSUME NEW from \in TokenAccts, NEW to \in TokenAccts, PayIn(from, to)
        PROVE  TokenInv'
    <2>1. exec' = exec /\ exec = Idle
      BY <1>8 DEF PayIn, TokenInv, Running, Execution
    <2> QED
      BY <1>1, <1>3, <1>8, <2>1, PayInEffect
  <1>9. ASSUME TokenTick
        PROVE  TokenInv'
    <2>1. exec' = exec /\ exec = Idle /\ tokens' = tokens
      BY <1>9 DEF TokenTick, TokenInv, Running, Execution
    <2> QED
      BY <1>1, <1>3, <2>1
  <1>10. ASSUME UNCHANGED tvars
         PROVE  TokenInv'
    BY <1>10 DEF tvars, TokenInv, Execution
  <1> QED
    BY <1>4, <1>5, <1>6, <1>7, <1>8, <1>9, <1>10 DEF TokenNext

LEMMA TokenSafe == TokenSpec => []TokenInv
  BY TokenStart, TokenStep, PTL DEF TokenSpec

-----------------------------------------------------------------------------
(* Control. *)

(***************************************************************************)
(* The state of TokenControlKept in one step.                              *)
(***************************************************************************)
KeepsTokenControl ==
    Running /\ ~ Running' =>
      \A a \in TokenAccts :
         LET old == exec.before[a]
         IN  old.program = "token" /\ old.owner = "vault"
               /\ old.mint \in ListedMints(actions)
               => tokens'[a].program = "token"
                  /\ Control(tokens'[a]) = Control(old)

(***************************************************************************)
(* Commit compares the listed accounts, and nothing reached the others;    *)
(* Abort restores all of them.                                             *)
(***************************************************************************)
LEMMA StepKeepsTokenControl == TokenInv /\ [TokenNext]_tvars => KeepsTokenControl
  <1> SUFFICES ASSUME TokenInv, [TokenNext]_tvars, Running, ~ Running',
                      NEW a \in TokenAccts,
                      exec.before[a].program = "token",
                      exec.before[a].owner = "vault",
                      exec.before[a].mint \in ListedMints(actions)
               PROVE  tokens'[a].program = "token"
                      /\ Control(tokens'[a]) = Control(exec.before[a])
    BY DEF KeepsTokenControl
  <1>1. Execution
    BY DEF TokenInv, Idle, Running
  <1>2. Commit \/ Abort
    <2>1. ASSUME TokenCall PROVE FALSE
      <3>1. Range(exec.accounts) \in SUBSET TokenAccts
        BY <1>1, ListTyping DEF Execution
      <3>2. exec' = [exec EXCEPT !.calls = @ + 1]
        BY <2>1, <3>1, CallEffect DEF TokenInv
      <3> QED
        BY <1>1, <3>2 DEF Execution, Running
    <2>2. ~ UNCHANGED tvars
      BY DEF tvars, Running
    <2> QED
      BY <2>1, <2>2 DEF TokenNext, Begin, PayIn, TokenTick
  <1>3. CASE Abort
    BY <1>3 DEF Abort
  <1>4. CASE Commit
    <2>1. tokens' = tokens /\ AuthoritiesUnchanged
      BY <1>4 DEF Commit
    <2>2. CASE a \in Range(exec.accounts)
      <3>1. PICK snap \in exec.authorities :
              snap = [account |-> a, control |-> Control(exec.before[a])]
        BY <1>1, <2>2 DEF Execution
      <3>2. tokens[a].program = "token" /\ Control(tokens[a]) = Control(exec.before[a])
        BY <2>1, <3>1 DEF AuthoritiesUnchanged
      <3> QED
        BY <2>1, <3>2
    <2>3. CASE a \notin Range(exec.accounts)
      BY <1>1, <2>1, <2>3 DEF Execution
    <2> QED
      BY <2>2, <2>3
  <1> QED
    BY <1>2, <1>3, <1>4

(***************************************************************************)
(* An Execute with a session leaves control of the vault's token accounts  *)
(* as it found it, for any accounts, lists and calls, repeated accounts    *)
(* included.                                                               *)
(***************************************************************************)
THEOREM TokenControlHolds == TokenSpec => TokenControlKept
  <1>1. TokenInv /\ [TokenNext]_tvars
          => [Running /\ ~ Running' =>
                \A a \in TokenAccts :
                   LET old == exec.before[a]
                   IN  old.program = "token" /\ old.owner = "vault"
                         /\ old.mint \in ListedMints(actions)
                         => tokens'[a].program = "token"
                            /\ Control(tokens'[a]) = Control(old)]_tvars
    BY StepKeepsTokenControl DEF KeepsTokenControl
  <1> QED
    BY <1>1, TokenSafe, PTL DEF TokenSpec, TokenControlKept
-----------------------------------------------------------------------------
(* What Execute sees. *)

IsSaturated(g, f, D) ==
    g = [s \in SUBSET D |->
           IF s = {} THEN 0 ELSE SaturatingAdd(g[s \ {Max(s)}], f[Max(s)])]

AtMostMax(n) == IF n > U64Max THEN U64Max ELSE n

(***************************************************************************)
(* A saturating sum is the sum, or U64Max where the sum exceeds it.        *)
(***************************************************************************)
LEMMA SaturatedSum ==
    ASSUME NEW n \in Nat, NEW f, DOMAIN f = 1 .. n, Summable(f, 1 .. n)
    PROVE  FoldLeft(SaturatingAdd, 0, f) = AtMostMax(SumOn(f, 1 .. n))
  <1>d. PICK D : D = 1 .. n
    OBVIOUS
  <1>1. FoldLeft(SaturatingAdd, 0, f) = (CHOOSE g : IsSaturated(g, f, D))[D]
    BY <1>d DEF FoldLeft, MapThenFoldSet, IsSaturated
  <1>2. IsFiniteSet(D) /\ Summable(f, D)
    BY <1>d, FS_Interval
  <1>3. \A s \in SUBSET D : s # {} => Max(s) \in s
    BY <1>d, Largest
  <1>4. \A s \in SUBSET D : SumOn(f, s) \in Nat
    BY <1>2, SumStep
  <1>5. \A s \in SUBSET D : s # {} =>
          AtMostMax(SumOn(f, s)) =
            SaturatingAdd(AtMostMax(SumOn(f, s \ {Max(s)})), f[Max(s)])
    <2>1. ASSUME NEW s \in SUBSET D, s # {}
          PROVE  AtMostMax(SumOn(f, s)) =
                   SaturatingAdd(AtMostMax(SumOn(f, s \ {Max(s)})), f[Max(s)])
      <3>1. PICK x \in s : x = Max(s)
        BY <1>3, <2>1
      <3>2. PICK m \in Nat, v \in Nat : m = SumOn(f, s \ {x}) /\ v = f[x]
        BY <1>2, <1>4 DEF Summable
      <3>3. SumOn(f, s) = f[x] + SumOn(f, s \ {x})
        BY <1>2, SumStep
      <3>4. SumOn(f, s) = m + v
        BY <3>2, <3>3
      <3>5. AtMostMax(m + v) = SaturatingAdd(AtMostMax(m), v)
        BY <3>2, TokenAssumption DEF SaturatingAdd, AtMostMax
      <3> QED
        BY <3>1, <3>2, <3>4, <3>5
    <2> QED
      BY <2>1
  <1>6. AtMostMax(SumOn(f, {})) = 0
    <2>1. SumOn(f, {}) = 0
      BY <1>2, SumStep
    <2> QED
      BY <2>1, TokenAssumption DEF AtMostMax
  <1>7. PICK g : g = (CHOOSE k : IsSaturated(k, f, D)) /\ IsSaturated(g, f, D)
    <2>1. IsSaturated([s \in SUBSET D |-> AtMostMax(SumOn(f, s))], f, D)
      BY <1>3, <1>5, <1>6 DEF IsSaturated
    <2> QED
      BY <2>1
  <1> DEFINE P == {s \in SUBSET D : g[s] = AtMostMax(SumOn(f, s))}
  <1>8. ASSUME NEW s \in SUBSET D, \A t \in SUBSET s : t # s => t \in P
        PROVE  s \in P
    <2>1. CASE s = {}
      BY <1>6, <1>7, <2>1 DEF IsSaturated
    <2>2. CASE s # {}
      <3>1. s \ {Max(s)} \in P
        BY <1>3, <1>8, <2>2
      <3> QED
        BY <1>5, <1>7, <2>2, <3>1 DEF IsSaturated
    <2> QED
      BY <2>1, <2>2
  <1>9. SUBSET D \subseteq P
    <2> HIDE DEF P
    <2> QED
      BY <1>2, <1>8, SubsetInduction
  <1> QED
    BY <1>d, <1>1, <1>7, <1>9

(***************************************************************************)
(* find_token_balance adds up what the vault has in the accounts of the    *)
(* list, once per entry.                                                   *)
(***************************************************************************)
LEMMA BalanceOfList ==
    ASSUME Ledger(tokens), NEW accounts \in AccountLists, NEW mint \in Mints,
           NEW n \in Nat, DOMAIN accounts = 1 .. n
    PROVE  LET h == HeldBy(tokens, mint)
               f == [i \in 1 .. n |-> h[accounts[i]]]
           IN  /\ Summable(f, 1 .. n)
               /\ FindTokenBalance(accounts, mint) = AtMostMax(SumOn(f, 1 .. n))
  <1>1. PICK t : t = tokens
    OBVIOUS
  <1>2. Ledger(t) /\ t \in [TokenAccts -> TokenData]
    BY <1>1 DEF Ledger
  <1>3. accounts \in [1 .. n -> TokenAccts]
    BY ListTyping
  <1> DEFINE h == HeldBy(t, mint)
             f == [i \in 1 .. n |-> h[accounts[i]]]
  <1>4. Summable(h, TokenAccts)
    BY <1>2, LedgerTyping
  <1>5. Summable(f, 1 .. n)
    <2> HIDE DEF h
    <2> QED
      BY <1>3, <1>4 DEF Summable
  <1>6. FoldLeft(SaturatingAdd, 0, f) = AtMostMax(SumOn(f, 1 .. n))
    <2>1. DOMAIN f = 1 .. n
      OBVIOUS
    <2> HIDE DEF f
    <2> QED
      BY <1>5, <2>1, SaturatedSum
  <1>7. [i \in DOMAIN accounts |->
           IF IsVaultToken(accounts[i], mint) THEN t[accounts[i]].amount ELSE 0] = f
    <2>1. \A a \in TokenAccts :
            h[a] = IF IsVaultToken(a, mint) THEN t[a].amount ELSE 0
      BY <1>1, <1>2, LedgerTyping DEF IsVaultToken
    <2> HIDE DEF h
    <2> QED
      BY <1>3, <2>1
  <1>8. FindTokenBalance(accounts, mint) = FoldLeft(SaturatingAdd, 0, f)
    <2> HIDE DEF f
    <2> QED
      BY <1>1, <1>7 DEF FindTokenBalance
  <1> QED
    BY <1>1, <1>5, <1>6, <1>8

(***************************************************************************)
(* It is a number in any case.                                             *)
(***************************************************************************)
LEMMA BalanceIsNatural ==
    ASSUME Ledger(tokens), NEW accounts \in AccountLists, NEW mint \in Mints
    PROVE  FindTokenBalance(accounts, mint) \in Nat
  <1>1. PICK n \in Nat : DOMAIN accounts = 1 .. n
    BY ListTyping
  <1> DEFINE h == HeldBy(tokens, mint)
             f == [i \in 1 .. n |-> h[accounts[i]]]
  <1>2. /\ Summable(f, 1 .. n)
        /\ FindTokenBalance(accounts, mint) = AtMostMax(SumOn(f, 1 .. n))
    BY <1>1, BalanceOfList
  <1> HIDE DEF f
  <1>3. SumOn(f, 1 .. n) \in Nat
    BY <1>2, FS_Interval, SumStep
  <1> QED
    BY <1>2, <1>3, TokenAssumption DEF AtMostMax

(***************************************************************************)
(* If every entry is an account of its own, it is what the vault has in    *)
(* the accounts of the list.                                               *)
(***************************************************************************)
LEMMA BalanceIsSum ==
    ASSUME Ledger(tokens), NEW accounts \in AccountLists, IsInjective(accounts),
           NEW mint \in Mints
    PROVE  FindTokenBalance(accounts, mint) = SumOn(HeldBy(tokens, mint), Range(accounts))
  <1>1. PICK t : t = tokens
    OBVIOUS
  <1>2. Ledger(t) /\ t \in [TokenAccts -> TokenData]
    BY <1>1 DEF Ledger
  <1>3. PICK n \in Nat : /\ accounts \in [1 .. n -> TokenAccts]
                         /\ DOMAIN accounts = 1 .. n
                         /\ Range(accounts) \in SUBSET TokenAccts
                         /\ Range(accounts) = {accounts[i] : i \in 1 .. n}
    BY ListTyping
  <1> DEFINE h == HeldBy(t, mint)
             f == [i \in 1 .. n |-> h[accounts[i]]]
  <1>4. Summable(h, TokenAccts)
    BY <1>2, LedgerTyping
  <1>5. /\ Summable(f, 1 .. n)
        /\ FindTokenBalance(accounts, mint) = AtMostMax(SumOn(f, 1 .. n))
    BY <1>1, <1>3, BalanceOfList
  <1>6. Enumerates(accounts, 1 .. n, TokenAccts)
    BY <1>3 DEF Enumerates, IsInjective
  <1>7. SumOn(f, 1 .. n) = SumOn(h, Range(accounts))
    <2>1. \A i \in 1 .. n : f[i] = h[accounts[i]]
      OBVIOUS
    <2> HIDE DEF f, h
    <2>2. PICK D, F, H : D = 1 .. n /\ F = f /\ H = h
      OBVIOUS
    <2>3. /\ IsFiniteSet(D) /\ IsFiniteSet(TokenAccts)
          /\ Enumerates(accounts, D, TokenAccts)
          /\ Summable(F, D) /\ Summable(H, TokenAccts)
          /\ \A i \in D : F[i] = H[accounts[i]]
      BY <1>4, <1>5, <1>6, <2>1, <2>2, FS_Interval, TokenAssumption
    <2>4. SumOn(F, D) = SumOn(H, {accounts[i] : i \in D})
      BY <2>3, SumIndexed
    <2>5. Range(accounts) = {accounts[i] : i \in D}
      BY <1>3, <2>2
    <2> QED
      BY <2>2, <2>4, <2>5
  <1>8. SumOn(h, Range(accounts)) \in Nat /\ SumOn(h, Range(accounts)) <= U64Max
    BY <1>2, <1>3, HeldBounded
  <1> HIDE DEF f, h
  <1>9. FindTokenBalance(accounts, mint) = SumOn(h, Range(accounts))
    BY <1>5, <1>7, <1>8, TokenAssumption DEF AtMostMax
  <1> QED
    BY <1>1, <1>9 DEF h

(***************************************************************************)
(* The balances Execute remembers are those of the accounts before.        *)
(***************************************************************************)
BalancesRemembered ==
    Running =>
      /\ exec.balances \in [Mints -> Nat]
      /\ ListedOnce =>
           exec.balances = [mint \in Mints |->
                              SumOn(HeldBy(exec.before, mint), Range(exec.accounts))]

(***************************************************************************)
(* Begin reads them; calls leave them alone.                               *)
(***************************************************************************)
LEMMA BalancesStep ==
    ASSUME TokenInv, BalancesRemembered, [TokenNext]_tvars
    PROVE  BalancesRemembered'
  <1>1. Ledger(tokens)
    BY DEF TokenInv
  <1>2. ASSUME NEW accounts \in AccountLists, Begin(accounts)
        PROVE  BalancesRemembered'
    <2>1. /\ exec'.balances = [mint \in Mints |-> FindTokenBalance(accounts, mint)]
          /\ exec'.before = tokens /\ exec'.accounts = accounts
      BY <1>2 DEF Begin
    <2>2. \A mint \in Mints : FindTokenBalance(accounts, mint) \in Nat
      BY <1>1, BalanceIsNatural
    <2>3. ASSUME IsInjective(accounts)
          PROVE  \A mint \in Mints :
                   FindTokenBalance(accounts, mint)
                     = SumOn(HeldBy(tokens, mint), Range(accounts))
      BY <1>1, <2>3, BalanceIsSum
    <2>4. exec'.balances \in [Mints -> Nat]
      BY <2>1, <2>2
    <2>5. ASSUME IsInjective(accounts)
          PROVE  exec'.balances =
                   [mint \in Mints |-> SumOn(HeldBy(exec'.before, mint),
                                             Range(exec'.accounts))]
      BY <2>1, <2>3, <2>5
    <2>6. ListedOnce' => IsInjective(accounts)
      BY <2>1 DEF ListedOnce
    <2> QED
      BY <2>4, <2>5, <2>6 DEF BalancesRemembered
  <1>3. ASSUME TokenCall
        PROVE  BalancesRemembered'
    <2>1. Execution /\ Running
      BY <1>3 DEF TokenCall, Running, TokenInv, Idle
    <2>2. Range(exec.accounts) \in SUBSET TokenAccts
      BY <2>1, ListTyping DEF Execution
    <2>3. exec' = [exec EXCEPT !.calls = @ + 1]
      BY <1>1, <1>3, <2>2, CallEffect
    <2>4. PICK l, c, b, s, o, h :
            exec = [running |-> TRUE, accounts |-> l, calls |-> c,
                    balances |-> b, authorities |-> s, before |-> o,
                    totals |-> h]
      BY <2>1 DEF Execution
    <2>5. /\ exec'.balances = exec.balances /\ exec'.before = exec.before
          /\ exec'.accounts = exec.accounts
      BY <2>3, <2>4
    <2> QED
      BY <2>1, <2>5 DEF BalancesRemembered, ListedOnce
  <1>4. ASSUME Commit \/ Abort
        PROVE  BalancesRemembered'
    BY <1>4 DEF Commit, Abort, Idle, BalancesRemembered, Running
  <1>5. ASSUME UNCHANGED exec
        PROVE  BalancesRemembered'
    BY <1>5 DEF BalancesRemembered, Running, ListedOnce
  <1> QED
    BY <1>2, <1>3, <1>4, <1>5 DEF TokenNext, PayIn, TokenTick, tvars

(***************************************************************************)
(* So what it remembers is right throughout.                               *)
(***************************************************************************)
LEMMA BalancesSafe == TokenSpec => [](TokenInv /\ BalancesRemembered)
  <1>1. TokenInit => TokenInv /\ BalancesRemembered
    BY TokenStart DEF TokenInit, Idle, BalancesRemembered, Running
  <1>2. TokenInv /\ BalancesRemembered /\ [TokenNext]_tvars
          => TokenInv' /\ BalancesRemembered'
    BY TokenStep, BalancesStep
  <1> QED
    BY <1>1, <1>2, PTL DEF TokenSpec

(***************************************************************************)
(* Only accounts of the list have changed, so the sum over the list fell   *)
(* by as much as the sum over all accounts.                                *)
(***************************************************************************)
LEMMA OutflowSeen ==
    ASSUME TokenInv, BalancesRemembered, Running, ListedOnce,
           NEW mint \in Mints
    PROVE  TokenSpent(mint) = Really(mint) /\ Really(mint) \in Nat
  <1>1. Execution /\ Ledger(tokens)
    BY DEF TokenInv, Idle, Running
  <1>2. PICK t, o, l : t = tokens /\ o = exec.before /\ l = exec.accounts
    OBVIOUS
  <1>3. /\ Ledger(t) /\ Ledger(o) /\ l \in AccountLists
        /\ t \in [TokenAccts -> TokenData] /\ o \in [TokenAccts -> TokenData]
        /\ \A a \in TokenAccts \ Range(l) : t[a] = o[a]
    BY <1>1, <1>2 DEF Execution, Ledger
  <1>4. PICK S \in SUBSET TokenAccts : S = Range(l)
    BY <1>3, ListTyping
  <1>5. PICK f, h : f = HeldBy(o, mint) /\ h = HeldBy(t, mint)
    OBVIOUS
  <1>6. Summable(f, TokenAccts) /\ Summable(h, TokenAccts)
    BY <1>3, <1>5, LedgerTyping
  <1>7. \A a \in TokenAccts \ S : f[a] = h[a]
    BY <1>3, <1>4, <1>5, LedgerTyping
  <1>8. SumOn(f, TokenAccts) + SumOn(h, S) = SumOn(h, TokenAccts) + SumOn(f, S)
    BY <1>6, <1>7, TokenAssumption, SumRest
  <1>9. PICK a \in Nat, b \in Nat, c \in Nat, d \in Nat :
          /\ a = SumOn(f, TokenAccts) /\ b = SumOn(h, TokenAccts)
          /\ c = SumOn(f, S) /\ d = SumOn(h, S)
    BY <1>6, TokenAssumption, SumStep
  <1>10. exec.totals[mint] = a
    BY <1>1, <1>2, <1>5, <1>9 DEF Execution
  <1>11. VaultTotal(mint) = b
    BY <1>2, <1>3, <1>5, <1>9, VaultSum
  <1>12. exec.balances[mint] = c
    BY <1>2, <1>4, <1>5, <1>9 DEF BalancesRemembered
  <1>13. FindTokenBalance(exec.accounts, mint) = d
    <2>1. FindTokenBalance(l, mint) = SumOn(HeldBy(tokens, mint), Range(l))
      BY <1>1, <1>2, <1>3, BalanceIsSum DEF ListedOnce
    <2> QED
      BY <1>2, <1>4, <1>5, <1>9, <2>1
  <1>14. a + d = b + c
    BY <1>8, <1>9
  <1>15. SaturatingSub(c, d) = SaturatingSub(a, b)
    BY <1>9, <1>14 DEF SaturatingSub
  <1>16. SaturatingSub(a, b) \in Nat
    BY <1>9 DEF SaturatingSub
  <1> QED
    BY <1>10, <1>11, <1>12, <1>13, <1>15, <1>16 DEF TokenSpent, Really

(***************************************************************************)
(* Whenever an Execute lists every account once, what it sees leave is     *)
(* what leaves, for any number of accounts, in any order and with any      *)
(* calls, up to a supply of U64Max.                                        *)
(***************************************************************************)
THEOREM SeenStaysTrue == TokenSpec => []SeenIsTrue
  <1>1. TokenInv /\ BalancesRemembered => SeenIsTrue
    BY OutflowSeen DEF SeenIsTrue
  <1> QED
    BY <1>1, BalancesSafe, PTL
-----------------------------------------------------------------------------
(* The lifetime limit of a mint. *)

(***************************************************************************)
(* The fields of an action.                                                *)
(***************************************************************************)
Shaped(a) ==
    \E kind, target, amount, spent, window, lastReset, expiresAt :
       a = [kind |-> kind, target |-> target, amount |-> amount,
            spent |-> spent, window |-> window, lastReset |-> lastReset,
            expiresAt |-> expiresAt]

SameLimit(a, b) == a.kind = b.kind /\ a.target = b.target

(***************************************************************************)
(* For every lifetime limit that was granted, what is left of it and what  *)
(* the session took are together no more than the amount of the grant.     *)
(***************************************************************************)
LimitsKept ==
    /\ taken \in [Mints -> Nat]
    /\ \A a \in actions :
         /\ Shaped(a) /\ a.target \in Mints
         /\ a.kind = "Limit" => a.amount \in Nat
    /\ \A g \in granted : g.kind = "Limit" =>
         /\ g.amount \in Nat
         /\ \E a \in actions :
              SameLimit(a, g) /\ taken[g.target] + a.amount <= g.amount

(***************************************************************************)
(* Charging an action leaves its kind and its target; a lifetime limit     *)
(* goes down by what was spent.                                            *)
(***************************************************************************)
LEMMA ChargeKeepsLimit ==
    ASSUME NEW a, Shaped(a), NEW spend \in Nat, NEW now,
           a.kind = "Limit" => a.amount \in Nat, Allows(a, spend, now)
    PROVE  /\ Shaped(Charge(a, spend, now))
           /\ SameLimit(a, Charge(a, spend, now))
           /\ a.kind = "Limit" =>
                /\ Charge(a, spend, now).amount \in Nat
                /\ Charge(a, spend, now).amount = a.amount - spend
  <1>1. PICK k, t, n, s, w, r, e :
          a = [kind |-> k, target |-> t, amount |-> n, spent |-> s,
               window |-> w, lastReset |-> r, expiresAt |-> e]
    BY DEF Shaped
  <1>c. PICK c : c = Charge(a, spend, now)
    OBVIOUS
  <1>f. ASSUME NEW m, NEW x, NEW y,
               c = [kind |-> k, target |-> t, amount |-> m, spent |-> x,
                    window |-> w, lastReset |-> y, expiresAt |-> e]
        PROVE  Shaped(c) /\ SameLimit(a, c) /\ c.amount = m
    <2>1. Shaped(c)
      BY <1>f DEF Shaped
    <2> QED
      BY <1>1, <1>f, <2>1 DEF SameLimit
  <1>2. CASE spend = 0 \/ IsExpired(a, now)
    <2>1. Charge(a, spend, now) = a /\ spend = 0
      BY <1>2 DEF Charge, Allows
    <2> QED
      BY <2>1 DEF SameLimit
  <1>3. CASE spend > 0 /\ ~ IsExpired(a, now) /\ k = "Limit"
    <2>1. n \in Nat /\ spend <= n
      BY <1>1, <1>3 DEF Allows
    <2>2. SaturatingSub(n, spend) = n - spend /\ n - spend \in Nat
      BY <2>1 DEF SaturatingSub
    <2>3. Charge(a, spend, now) = [a EXCEPT !.amount = SaturatingSub(@, spend)]
      BY <1>1, <1>3 DEF Charge
    <2>4. Charge(a, spend, now) =
            [kind |-> k, target |-> t, amount |-> n - spend, spent |-> s,
             window |-> w, lastReset |-> r, expiresAt |-> e]
      BY <1>1, <2>2, <2>3
    <2>5. Shaped(c) /\ SameLimit(a, c) /\ c.amount = n - spend
      BY <1>c, <1>f, <2>4
    <2> QED
      BY <1>1, <1>c, <2>2, <2>5
  <1>4. CASE spend > 0 /\ ~ IsExpired(a, now) /\ k # "Limit"
    <2>1. PICK x, y : x = SpentSoFar(a, now) + spend /\ y = AlignedReset(a, now)
      OBVIOUS
    <2>2. CASE k = "Recurring"
      <3>1. Charge(a, spend, now) = [a EXCEPT !.spent = x, !.lastReset = y]
        BY <1>1, <1>4, <2>1, <2>2 DEF Charge
      <3>2. Charge(a, spend, now) =
              [kind |-> k, target |-> t, amount |-> n, spent |-> x,
               window |-> w, lastReset |-> y, expiresAt |-> e]
        BY <1>1, <3>1
      <3> QED
        BY <1>1, <1>c, <1>f, <1>4, <3>2
    <2>3. CASE k # "Recurring"
      <3>1. Charge(a, spend, now) = a
        BY <1>1, <1>4, <2>3 DEF Charge
      <3> QED
        BY <1>1, <1>4, <3>1 DEF SameLimit
    <2> QED
      BY <2>2, <2>3
  <1> QED
    BY <1>1, <1>2, <1>3, <1>4

(***************************************************************************)
(* What a commit charges is a number; it is what the vault has lost if the *)
(* list named every account once.                                          *)
(***************************************************************************)
LEMMA SpentTyping ==
    ASSUME TokenInv, BalancesRemembered, Running, NEW mint \in Mints
    PROVE  TokenSpent(mint) \in Nat
  <1>1. Execution /\ Ledger(tokens)
    BY DEF TokenInv, Idle, Running
  <1>2. PICK a \in Nat : a = exec.balances[mint]
    BY DEF BalancesRemembered
  <1>3. PICK b \in Nat : b = FindTokenBalance(exec.accounts, mint)
    <2>1. PICK l \in AccountLists : l = exec.accounts
      BY <1>1 DEF Execution
    <2>2. FindTokenBalance(l, mint) \in Nat
      BY <1>1, BalanceIsNatural
    <2> QED
      BY <2>1, <2>2
  <1>4. SaturatingSub(a, b) \in Nat
    BY DEF SaturatingSub
  <1> QED
    BY <1>2, <1>3, <1>4 DEF TokenSpent

(***************************************************************************)
(* An Execute that commits charges no less than it adds to the history.    *)
(***************************************************************************)
LEMMA CommitCharges ==
    ASSUME TokenInv, BalancesRemembered, LimitsKept, Commit
    PROVE  LimitsKept'
  <1>1. Running
    BY DEF Commit
  <1> DEFINE counted(mint) == IF ListedOnce THEN Really(mint) ELSE 0
  <1>2. ASSUME NEW mint \in Mints
        PROVE  /\ TokenSpent(mint) \in Nat /\ counted(mint) \in Nat
               /\ counted(mint) <= TokenSpent(mint)
    <2>1. PICK n \in Nat : n = TokenSpent(mint)
      BY <1>1, SpentTyping
    <2>2. ListedOnce => n = Really(mint)
      BY <1>1, <2>1, OutflowSeen
    <2> QED
      BY <2>1, <2>2
  <1>3. /\ taken' = [mint \in Mints |-> taken[mint] + counted(mint)]
        /\ granted' = granted
    BY DEF Commit
  <1> HIDE DEF counted
  <1> DEFINE charged(a) == Charge(a, TokenSpent(a.target), slot)
  <1>4. actions' = {charged(a) : a \in actions}
    BY DEF Commit
  <1>5. ASSUME NEW a \in actions
        PROVE  /\ Shaped(charged(a)) /\ SameLimit(a, charged(a))
               /\ a.kind = "Limit" =>
                    /\ charged(a).amount \in Nat
                    /\ charged(a).amount = a.amount - TokenSpent(a.target)
    <2>1. /\ Shaped(a) /\ a.target \in Mints
          /\ a.kind = "Limit" => a.amount \in Nat
      BY DEF LimitsKept
    <2>2. PICK spend \in Nat : spend = TokenSpent(a.target)
      BY <1>2, <2>1
    <2>3. Allows(a, spend, slot)
      BY <2>2 DEF Commit, WithinTokenLimits
    <2> QED
      BY <2>1, <2>2, <2>3, ChargeKeepsLimit
  <1> HIDE DEF charged
  <1>6. taken' \in [Mints -> Nat]
    <2>1. \A mint \in Mints : taken[mint] + counted(mint) \in Nat
      BY <1>2 DEF LimitsKept
    <2> QED
      BY <1>3, <2>1
  <1>7. ASSUME NEW b \in actions'
        PROVE  /\ Shaped(b) /\ b.target \in Mints
               /\ b.kind = "Limit" => b.amount \in Nat
    <2>1. PICK a \in actions : b = charged(a)
      BY <1>4
    <2> QED
      BY <1>5, <2>1 DEF LimitsKept, SameLimit
  <1>8. ASSUME NEW g \in granted, g.kind = "Limit"
        PROVE  /\ g.amount \in Nat
               /\ \E b \in actions' :
                    SameLimit(b, g) /\ taken'[g.target] + b.amount <= g.amount
    <2>1. PICK a \in actions :
            SameLimit(a, g) /\ taken[g.target] + a.amount <= g.amount
      BY <1>8 DEF LimitsKept
    <2>2. a.kind = "Limit" /\ a.target = g.target /\ a.target \in Mints
      BY <1>8, <2>1 DEF SameLimit, LimitsKept
    <2>3. PICK b \in actions' : b = charged(a)
      BY <1>4
    <2>4. SameLimit(b, g)
      BY <1>5, <2>1, <2>3 DEF SameLimit
    <2>5. PICK n \in Nat, m \in Nat, c \in Nat, t \in Nat, r \in Nat :
            /\ n = a.amount /\ m = g.amount /\ t = taken[g.target]
            /\ c = counted(g.target) /\ r = TokenSpent(g.target)
      BY <1>2, <1>8, <2>2 DEF LimitsKept
    <2>6. b.amount = n - r /\ c <= r /\ t + n <= m
      BY <1>2, <1>5, <2>1, <2>2, <2>3, <2>5
    <2>7. taken'[g.target] = t + c
      BY <1>3, <2>2, <2>5
    <2>8. taken'[g.target] + b.amount <= g.amount
      BY <2>5, <2>6, <2>7
    <2> QED
      BY <2>3, <2>4, <2>5, <2>8
  <1> QED
    BY <1>3, <1>6, <1>7, <1>8 DEF LimitsKept

(***************************************************************************)
(* A session starts with the actions it was granted.                       *)
(***************************************************************************)
LEMMA LimitsStart == TokenInit => LimitsKept
  <1> SUFFICES ASSUME TokenInit PROVE LimitsKept
    OBVIOUS
  <1>1. PICK acts \in Policies : acts = actions /\ acts = granted
    BY DEF TokenInit
  <1>2. acts \subseteq Actions /\ \A a \in acts : a.target \in Mints
    BY TokenAssumption
  <1>3. \A a \in acts : Shaped(a) /\ a.amount \in Nat
    <2>1. ASSUME NEW kinds, NEW targets, NEW a \in ActionsOn(kinds, targets)
          PROVE  Shaped(a) /\ a.amount \in Nat
      BY DEF ActionsOn, Shaped
    <2> QED
      BY <1>2, <2>1 DEF Actions
  <1>4. taken = [mint \in Mints |-> 0]
    BY DEF TokenInit
  <1>5. \A a \in acts : SameLimit(a, a) /\ taken[a.target] + a.amount <= a.amount
    BY <1>2, <1>3, <1>4 DEF SameLimit
  <1> QED
    BY <1>1, <1>2, <1>3, <1>4, <1>5 DEF LimitsKept

(***************************************************************************)
(* Only a commit charges.                                                  *)
(***************************************************************************)
LEMMA OnlyCommitsCharge ==
    ASSUME TokenInv, [TokenNext]_tvars, ~ Commit
    PROVE  UNCHANGED <<actions, granted, taken>>
  <1>1. ASSUME TokenCall
        PROVE  UNCHANGED <<actions, granted, taken>>
    <2>1. Execution /\ Ledger(tokens)
      BY <1>1 DEF TokenCall, Running, TokenInv, Idle
    <2>2. Range(exec.accounts) \in SUBSET TokenAccts
      BY <2>1, ListTyping DEF Execution
    <2> QED
      BY <1>1, <2>1, <2>2, CallEffect
  <1> QED
    BY <1>1 DEF TokenNext, Begin, Abort, PayIn, TokenTick, tvars

(***************************************************************************)
(* So the account of the limits is kept.                                   *)
(***************************************************************************)
LEMMA LimitsStep ==
    ASSUME TokenInv, BalancesRemembered, LimitsKept, [TokenNext]_tvars
    PROVE  LimitsKept'
  <1>1. CASE Commit
    BY <1>1, CommitCharges
  <1>2. CASE ~ Commit
    <2>1. actions' = actions /\ granted' = granted /\ taken' = taken
      BY <1>2, OnlyCommitsCharge
    <2> QED
      BY <2>1 DEF LimitsKept
  <1> QED
    BY <1>1, <1>2

(***************************************************************************)
(* Over any number of Executes that list every account once, whatever is   *)
(* called and however tokens move between the vault's accounts, the        *)
(* session takes no more of a mint than the lifetime limit it was granted. *)
(* Executes that list an account twice may come in between: they may       *)
(* charge anything, but never give back.                                   *)
(***************************************************************************)
THEOREM TokenLifetimeCapHolds == TokenSpec => []TokenLifetimeCap
  <1>1. TokenInit => TokenInv /\ BalancesRemembered /\ LimitsKept
    BY TokenStart, LimitsStart DEF TokenInit, Idle, BalancesRemembered, Running
  <1>2. TokenInv /\ BalancesRemembered /\ LimitsKept /\ [TokenNext]_tvars
          => TokenInv' /\ BalancesRemembered' /\ LimitsKept'
    BY TokenStep, BalancesStep, LimitsStep
  <1>3. LimitsKept => TokenLifetimeCap
    <2> SUFFICES ASSUME LimitsKept, NEW g \in granted, g.kind = "Limit"
                 PROVE  taken[g.target] <= g.amount
      BY DEF TokenLifetimeCap
    <2>1. PICK a \in actions :
            SameLimit(a, g) /\ taken[g.target] + a.amount <= g.amount
      BY DEF LimitsKept
    <2>2. PICK n \in Nat, m \in Nat, t \in Nat :
            n = a.amount /\ m = g.amount /\ t = taken[g.target]
      BY <2>1 DEF LimitsKept, SameLimit
    <2> QED
      BY <2>1, <2>2
  <1> QED
    BY <1>1, <1>2, <1>3, PTL DEF TokenSpec

-----------------------------------------------------------------------------
(* The inductive invariant. *)

AccountData ==
    [lamports: Nat, owner: {"system", "program"},
     data: {"none", "zeroed", "live"}]

Initialisation ==
    [step: {"transfer", "allocate", "assign"}, payer: Users, pda: Pdas,
     able: BOOLEAN]

PdaTypeOK ==
    /\ ledger \in [LedgerIds -> AccountData]
    /\ committed \in [LedgerIds -> AccountData]
    /\ init \in {NoInit} \cup Initialisation

Exempt(account) == account.data = "live" => account.lamports >= Rent

(***************************************************************************)
(* What the accounts are, before the transaction and in it.  The account   *)
(* that is being initialised has its rent from the first call on, and only *)
(* its last call puts it in use.                                           *)
(***************************************************************************)
Exemption ==
    /\ \A pda \in Pdas : Exempt(ledger[pda]) /\ Exempt(committed[pda])
    /\ init.step \in {"allocate", "assign"} => ledger[init.pda].lamports >= Rent

LeftOver(account) == account.data = "zeroed" /\ account.lamports > 0

(***************************************************************************)
(* The account that is being initialised.                                  *)
(***************************************************************************)
Growing(pda) == init.step \in {"allocate", "assign"} /\ pda = init.pda

(***************************************************************************)
(* Zeroed accounts with lamports have been paid while they were zeroed.    *)
(* The exception is the one that is being initialised: either it is about  *)
(* to be put in use, or Allocate refuses it, and the transaction fails.    *)
(***************************************************************************)
Accountability ==
    \A pda \in Pdas :
       /\ LeftOver(ledger[pda]) => pda \in refilled \/ Growing(pda)
       /\ LeftOver(committed[pda]) => pda \in refilled

PdaInv == PdaTypeOK /\ Exemption /\ Accountability

-----------------------------------------------------------------------------
(* How lamports move. *)

(***************************************************************************)
(* A payment of lamports that the payer has takes nothing from any address *)
(* of the program, and leaves everything else as it was.                   *)
(***************************************************************************)
LEMMA MovePays ==
    ASSUME PdaTypeOK, NEW from \in Users, NEW to \in Pdas, NEW n \in Nat,
           n <= ledger[from].lamports
    PROVE  /\ Move(ledger, from, to, n) \in [LedgerIds -> AccountData]
           /\ \A pda \in Pdas \ {to} : Move(ledger, from, to, n)[pda] = ledger[pda]
           /\ Move(ledger, from, to, n)[to].lamports = ledger[to].lamports + n
           /\ Move(ledger, from, to, n)[to].data = ledger[to].data
  <1>1. from \in LedgerIds /\ to \in LedgerIds /\ from # to /\ from \notin Pdas
    BY PdaAssumption DEF LedgerIds
  <1>2. ledger[from] \in AccountData /\ ledger[to] \in AccountData
    BY <1>1 DEF PdaTypeOK
  <1>3. PICK payer : payer = [ledger[from] EXCEPT !.lamports = @ - n]
    OBVIOUS
  <1>4. PICK paid : paid = [ledger[to] EXCEPT !.lamports = @ + n]
    OBVIOUS
  <1>5. payer \in AccountData
    BY <1>2, <1>3 DEF AccountData
  <1>6. /\ paid \in AccountData /\ paid.data = ledger[to].data
        /\ paid.lamports = ledger[to].lamports + n
    BY <1>2, <1>4 DEF AccountData
  <1>7. Move(ledger, from, to, n)
          = [ledger EXCEPT ![from] = payer, ![to] = paid]
    BY <1>1, <1>3, <1>4 DEF Move, PdaTypeOK
  <1>8. PICK after : after = [ledger EXCEPT ![from] = payer, ![to] = paid]
    OBVIOUS
  <1>9. /\ after \in [LedgerIds -> AccountData] /\ after[to] = paid
        /\ \A a \in LedgerIds \ {from, to} : after[a] = ledger[a]
    BY <1>1, <1>5, <1>6, <1>8 DEF PdaTypeOK
  <1>10. Pdas \ {to} \subseteq LedgerIds \ {from, to}
    BY <1>1 DEF LedgerIds
  <1> QED
    BY <1>6, <1>7, <1>8, <1>9, <1>10

(***************************************************************************)
(* Closing an account leaves it without lamports; the refund account gains *)
(* what it held, and everything else stays.                                *)
(***************************************************************************)
LEMMA DrainedPays ==
    ASSUME PdaTypeOK, NEW pda \in Pdas, NEW refund \in LedgerIds
    PROVE  /\ Drained(pda, refund) \in [LedgerIds -> AccountData]
           /\ Drained(pda, refund)[pda].lamports = 0
           /\ Drained(pda, refund)[pda].data = "zeroed"
           /\ refund # pda =>
                /\ Drained(pda, refund)[refund].data = ledger[refund].data
                /\ Drained(pda, refund)[refund].lamports
                     >= ledger[refund].lamports
           /\ \A a \in LedgerIds \ {pda, refund} :
                Drained(pda, refund)[a] = ledger[a]
  <1>1. pda \in LedgerIds
    BY DEF LedgerIds
  <1>2. ledger[pda] \in AccountData /\ ledger[refund] \in AccountData
    BY <1>1 DEF PdaTypeOK
  <1>3. PICK gained : gained = [ledger[refund] EXCEPT
                                  !.lamports = @ + ledger[pda].lamports]
    OBVIOUS
  <1>4. /\ gained \in AccountData /\ gained.data = ledger[refund].data
        /\ gained.lamports >= ledger[refund].lamports
    BY <1>2, <1>3 DEF AccountData
  <1>5. PICK credited : credited = [ledger EXCEPT ![refund] = gained]
    OBVIOUS
  <1>6. /\ credited \in [LedgerIds -> AccountData]
        /\ credited[refund] = gained
        /\ \A a \in LedgerIds \ {refund} : credited[a] = ledger[a]
    BY <1>4, <1>5 DEF PdaTypeOK
  <1>7. PICK closed : closed = [credited[pda] EXCEPT !.lamports = 0,
                                                     !.data = "zeroed"]
    OBVIOUS
  <1>8. /\ closed \in AccountData
        /\ closed.lamports = 0 /\ closed.data = "zeroed"
    <2>1. credited[pda] \in AccountData
      BY <1>1, <1>6
    <2> QED
      BY <1>7, <2>1 DEF AccountData
  <1>9. Drained(pda, refund) = [credited EXCEPT ![pda] = closed]
    BY <1>1, <1>3, <1>5, <1>6, <1>7 DEF Drained
  <1> QED
    BY <1>1, <1>4, <1>6, <1>8, <1>9

-----------------------------------------------------------------------------
(* Every step keeps the invariant. *)

(***************************************************************************)
(* An initialisation that has begun has taken nothing yet.                 *)
(***************************************************************************)
LEMMA InitializeKeeps ==
    ASSUME PdaInv, NEW payer \in Users, NEW pda \in Pdas,
           NEW verified \in BOOLEAN, InitializePda(payer, pda, verified)
    PROVE  PdaInv'
  <1>1. PICK able : able = (/\ ledger[pda].data = "none"
                            /\ ledger[payer].lamports >= Shortfall(pda))
    OBVIOUS
  <1>2. init' = [step |-> "transfer", payer |-> payer, pda |-> pda,
                 able |-> able]
    BY <1>1 DEF InitializePda
  <1>3. able \in BOOLEAN
    BY <1>1
  <1>4. init' \in Initialisation /\ init'.step = "transfer"
    BY <1>2, <1>3 DEF Initialisation
  <1>5. ~ Growing(pda) /\ \A p \in Pdas : ~ Growing(p)
    BY DEF InitializePda, Settled, Growing
  <1>6. UNCHANGED <<ledger, committed, refilled>>
    BY DEF InitializePda
  <1> QED
    BY <1>4, <1>5, <1>6
    DEF PdaInv, PdaTypeOK, Exemption, Exempt, Accountability, LeftOver, Growing

(***************************************************************************)
(* The transfer brings the new account to its rent; it may also fall on a  *)
(* zeroed account, but then the next call fails.                           *)
(***************************************************************************)
LEMMA TopUpKeeps ==
    ASSUME PdaInv, TopUp
    PROVE  PdaInv'
  <1>1. init \in Initialisation /\ init.step = "transfer"
    BY DEF PdaInv, PdaTypeOK, TopUp, NoInit
  <1>2. PICK payer, pda : payer = init.payer /\ pda = init.pda
    OBVIOUS
  <1>3. payer \in Users /\ pda \in Pdas /\ pda \in LedgerIds
    BY <1>1, <1>2 DEF Initialisation, LedgerIds
  <1>4. ledger[pda].lamports \in Nat
    BY <1>3 DEF PdaInv, PdaTypeOK, AccountData
  <1>5. PICK n : n = Shortfall(pda)
    OBVIOUS
  <1>6. n \in Nat /\ ledger[pda].lamports + n >= Rent
    BY <1>4, <1>5, PdaAssumption DEF Shortfall
  <1>7. /\ n <= ledger[payer].lamports
        /\ ledger' = Move(ledger, payer, pda, n)
        /\ init' = [init EXCEPT !.step = "allocate"]
        /\ committed' = committed /\ refilled' = refilled
    BY <1>2, <1>4, <1>5, <1>6 DEF TopUp
  <1>8. /\ ledger' \in [LedgerIds -> AccountData]
        /\ \A a \in Pdas \ {pda} : ledger'[a] = ledger[a]
        /\ ledger'[pda].lamports = ledger[pda].lamports + n
        /\ ledger'[pda].data = ledger[pda].data
    BY <1>3, <1>6, <1>7, MovePays DEF PdaInv
  <1>9. init' \in Initialisation /\ init'.step = "allocate" /\ init'.pda = pda
    BY <1>1, <1>2, <1>7 DEF Initialisation
  <1>10. PdaTypeOK'
    BY <1>7, <1>8, <1>9 DEF PdaInv, PdaTypeOK
  <1>11. ledger'[pda].lamports >= Rent
    BY <1>6, <1>8
  <1>12. Exemption'
    BY <1>7, <1>8, <1>9, <1>11 DEF PdaInv, Exemption, Exempt
  <1>13. Growing(pda)' /\ \A a \in Pdas : ~ Growing(a)
    BY <1>1, <1>9 DEF Growing
  <1>14. Accountability'
    BY <1>7, <1>8, <1>13 DEF PdaInv, Accountability, LeftOver
  <1> QED
    BY <1>10, <1>12, <1>14 DEF PdaInv

(***************************************************************************)
(* Allocate finds no data, so nobody has paid a closed account.            *)
(***************************************************************************)
LEMMA AllocateKeeps ==
    ASSUME PdaInv, Allocate
    PROVE  PdaInv'
  <1>1. init \in Initialisation /\ init.step = "allocate"
    BY DEF PdaInv, PdaTypeOK, Allocate, NoInit
  <1>2. PICK pda : pda = init.pda
    OBVIOUS
  <1>3. pda \in Pdas /\ pda \in LedgerIds /\ ledger[pda] \in AccountData
    BY <1>1, <1>2 DEF Initialisation, LedgerIds, PdaInv, PdaTypeOK
  <1>4. PICK account : account = [ledger[pda] EXCEPT !.data = "zeroed"]
    OBVIOUS
  <1>5. /\ account \in AccountData /\ account.data = "zeroed"
        /\ account.lamports = ledger[pda].lamports
    BY <1>3, <1>4 DEF AccountData
  <1>6. /\ ledger' = [ledger EXCEPT ![pda] = account]
        /\ init' = [init EXCEPT !.step = "assign"]
        /\ committed' = committed /\ refilled' = refilled
    BY <1>2, <1>3, <1>4 DEF Allocate, PdaInv, PdaTypeOK
  <1>7. /\ ledger' \in [LedgerIds -> AccountData]
        /\ \A a \in Pdas \ {pda} : ledger'[a] = ledger[a]
        /\ ledger'[pda] = account
    BY <1>3, <1>5, <1>6 DEF PdaInv, PdaTypeOK
  <1>8. init' \in Initialisation /\ init'.step = "assign" /\ init'.pda = pda
    BY <1>1, <1>2, <1>6 DEF Initialisation
  <1>9. PdaTypeOK'
    BY <1>6, <1>7, <1>8 DEF PdaInv, PdaTypeOK
  <1>10. Exemption'
    BY <1>1, <1>2, <1>5, <1>6, <1>7, <1>8 DEF PdaInv, Exemption, Exempt
  <1>11. Growing(pda)' /\ \A a \in Pdas \ {pda} : ~ Growing(a)
    BY <1>2, <1>8 DEF Growing
  <1>12. Accountability'
    BY <1>6, <1>7, <1>11 DEF PdaInv, Accountability, LeftOver
  <1> QED
    BY <1>9, <1>10, <1>12 DEF PdaInv

(***************************************************************************)
(* Assign puts the account in use, with the rent it got first.             *)
(***************************************************************************)
LEMMA AssignKeeps ==
    ASSUME PdaInv, Assign
    PROVE  PdaInv'
  <1>1. init \in Initialisation /\ init.step = "assign"
    BY DEF PdaInv, PdaTypeOK, Assign, NoInit
  <1>2. PICK pda : pda = init.pda
    OBVIOUS
  <1>3. pda \in Pdas /\ pda \in LedgerIds /\ ledger[pda] \in AccountData
    BY <1>1, <1>2 DEF Initialisation, LedgerIds, PdaInv, PdaTypeOK
  <1>4. PICK account : account = [ledger[pda] EXCEPT !.owner = "program",
                                                     !.data = "live"]
    OBVIOUS
  <1>5. /\ account \in AccountData /\ account.data = "live"
        /\ account.lamports = ledger[pda].lamports
    BY <1>3, <1>4 DEF AccountData
  <1>6. /\ ledger' = [ledger EXCEPT ![pda] = account]
        /\ init' = NoInit
        /\ committed' = committed /\ refilled' = refilled
    BY <1>2, <1>3, <1>4 DEF Assign, PdaInv, PdaTypeOK
  <1>7. /\ ledger' \in [LedgerIds -> AccountData]
        /\ \A a \in Pdas \ {pda} : ledger'[a] = ledger[a]
        /\ ledger'[pda] = account
    BY <1>3, <1>5, <1>6 DEF PdaInv, PdaTypeOK
  <1>8. PdaTypeOK'
    BY <1>6, <1>7 DEF PdaInv, PdaTypeOK
  <1>9. init'.step = "idle"
    BY <1>6 DEF NoInit
  <1>10. Exemption'
    BY <1>1, <1>2, <1>5, <1>6, <1>7, <1>9 DEF PdaInv, Exemption, Exempt
  <1>11. \A a \in Pdas \ {pda} : ~ Growing(a)
    BY <1>2 DEF Growing
  <1>12. Accountability'
    BY <1>5, <1>6, <1>7, <1>11 DEF PdaInv, Accountability, LeftOver
  <1> QED
    BY <1>8, <1>10, <1>12 DEF PdaInv

(***************************************************************************)
(* A closed account holds nothing.  A closed one that receives the refund  *)
(* of another is recorded as paid.                                         *)
(***************************************************************************)
LEMMA CloseKeeps ==
    ASSUME PdaInv, NEW pda \in Pdas, NEW refund \in LedgerIds,
           NEW guarded \in BOOLEAN, Close(pda, refund, guarded)
    PROVE  PdaInv'
  <1>1. PICK after : after = Drained(pda, refund)
    OBVIOUS
  <1>2. /\ after \in [LedgerIds -> AccountData]
        /\ after[pda].lamports = 0 /\ after[pda].data = "zeroed"
        /\ refund # pda => /\ after[refund].data = ledger[refund].data
                           /\ after[refund].lamports >= ledger[refund].lamports
        /\ \A a \in LedgerIds \ {pda, refund} : after[a] = ledger[a]
    BY <1>1, DrainedPays DEF PdaInv
  <1>3. /\ ledger' = after /\ init' = init /\ committed' = committed
        /\ refilled' = IF refund \in Pdas /\ ledger[refund].data = "zeroed"
                       THEN refilled \cup {refund} ELSE refilled
    BY <1>1 DEF Close
  <1>4. \A p \in Pdas : p \in LedgerIds /\ ledger[p].lamports \in Nat
                        /\ after[p].lamports \in Nat
    BY <1>2 DEF LedgerIds, PdaInv, PdaTypeOK, AccountData
  <1>5. init.step = "idle" /\ \A p \in Pdas : ~ Growing(p)
    BY DEF Close, Settled, Growing
  <1>6. PdaTypeOK'
    BY <1>2, <1>3 DEF PdaInv, PdaTypeOK
  <1>7. ASSUME NEW p \in Pdas
        PROVE  Exempt(after[p])
    <2>1. CASE p = pda
      BY <1>2, <2>1 DEF Exempt
    <2>2. CASE p = refund /\ p # pda
      BY <1>2, <1>4, <2>2, PdaAssumption DEF PdaInv, Exemption, Exempt
    <2>3. CASE p # pda /\ p # refund
      BY <1>2, <1>4, <2>3 DEF PdaInv, Exemption
    <2> QED
      BY <2>1, <2>2, <2>3
  <1>8. Exemption'
    BY <1>3, <1>5, <1>7 DEF PdaInv, Exemption, Exempt
  <1>9. ASSUME NEW p \in Pdas, LeftOver(after[p])
        PROVE  p \in refilled'
    <2>1. p # pda
      BY <1>2, <1>9 DEF LeftOver
    <2>2. CASE p = refund
      BY <1>2, <1>3, <1>9, <2>1, <2>2 DEF LeftOver
    <2>3. CASE p # refund
      <3>1. after[p] = ledger[p]
        BY <1>2, <1>4, <2>1, <2>3
      <3> QED
        BY <1>3, <1>5, <1>9, <3>1 DEF PdaInv, Accountability
    <2> QED
      BY <2>2, <2>3
  <1>10. Accountability'
    BY <1>3, <1>9 DEF PdaInv, Accountability, LeftOver
  <1> QED
    BY <1>6, <1>8, <1>10 DEF PdaInv

(***************************************************************************)
(* Whoever pays a closed account is recorded.                              *)
(***************************************************************************)
LEMMA PayKeeps ==
    ASSUME PdaInv, NEW user \in Users, NEW pda \in Pdas,
           NEW n \in 1 .. InitialLamports, Pay(user, pda, n)
    PROVE  PdaInv'
  <1>1. n \in Nat /\ n <= ledger[user].lamports
    BY PdaAssumption DEF Pay
  <1>2. /\ ledger' = Move(ledger, user, pda, n) /\ init' = init
        /\ committed' = committed
        /\ refilled' = IF ledger[pda].data = "zeroed" THEN refilled \cup {pda}
                       ELSE refilled
    BY DEF Pay
  <1>3. /\ ledger' \in [LedgerIds -> AccountData]
        /\ \A a \in Pdas \ {pda} : ledger'[a] = ledger[a]
        /\ ledger'[pda].lamports = ledger[pda].lamports + n
        /\ ledger'[pda].data = ledger[pda].data
    BY <1>1, <1>2, MovePays DEF PdaInv
  <1>4. ledger[pda].lamports \in Nat
    BY DEF PdaInv, PdaTypeOK, AccountData, LedgerIds
  <1>5. init.step = "idle" /\ \A p \in Pdas : ~ Growing(p)
    BY DEF Pay, Settled, Growing
  <1>6. PdaTypeOK'
    BY <1>2, <1>3 DEF PdaInv, PdaTypeOK
  <1>7. Exempt(ledger'[pda])
    <2>1. Exempt(ledger[pda])
      BY DEF PdaInv, Exemption
    <2>2. PICK old, new : old = ledger[pda].lamports /\ new = ledger'[pda].lamports
      OBVIOUS
    <2>3. new = old + n /\ old \in Nat /\ n \in Nat /\ Rent \in Nat
      BY <1>1, <1>3, <1>4, <2>2, PdaAssumption
    <2>4. old >= Rent => new >= Rent
      BY <2>3
    <2> QED
      BY <1>3, <2>1, <2>2, <2>4 DEF Exempt
  <1>8. Exemption'
    BY <1>2, <1>3, <1>5, <1>7 DEF PdaInv, Exemption, Exempt
  <1>9. Accountability'
    BY <1>2, <1>3, <1>5 DEF PdaInv, Accountability, LeftOver
  <1> QED
    BY <1>6, <1>8, <1>9 DEF PdaInv

(***************************************************************************)
(* The end of a transaction deletes accounts without lamports only.        *)
(***************************************************************************)
LEMMA EndTxKeeps ==
    ASSUME PdaInv, EndTx
    PROVE  PdaInv'
  <1>1. /\ ledger' = [a \in LedgerIds |->
                        IF ledger[a].lamports = 0 THEN Empty(0) ELSE ledger[a]]
        /\ committed' = ledger' /\ init' = init
        /\ refilled' = {a \in refilled : ledger[a].lamports > 0}
    BY DEF EndTx
  <1>2. /\ Empty(0) \in AccountData /\ Empty(0).data = "none"
    BY DEF Empty, AccountData
  <1>3. ledger' \in [LedgerIds -> AccountData]
    BY <1>1, <1>2 DEF PdaInv, PdaTypeOK
  <1>4. init.step = "idle" /\ \A p \in Pdas : ~ Growing(p)
    BY DEF EndTx, Settled, Growing
  <1>5. PdaTypeOK'
    BY <1>1, <1>3 DEF PdaInv, PdaTypeOK
  <1>6. \A p \in Pdas : ledger'[p] = ledger[p] \/ ledger'[p].data = "none"
    BY <1>1, <1>2 DEF LedgerIds
  <1>7. Exemption'
    BY <1>1, <1>4, <1>6 DEF PdaInv, Exemption, Exempt
  <1>8. ASSUME NEW p \in Pdas, LeftOver(ledger'[p])
        PROVE  p \in refilled'
    <2>1. ledger'[p] = ledger[p] /\ ledger[p].lamports > 0
      BY <1>6, <1>8 DEF LeftOver
    <2> QED
      BY <1>1, <1>4, <1>8, <2>1 DEF PdaInv, Accountability
  <1>9. Accountability'
    BY <1>1, <1>8 DEF Accountability
  <1> QED
    BY <1>5, <1>7, <1>9 DEF PdaInv

(***************************************************************************)
(* A failed transaction leaves what the last one left.                     *)
(***************************************************************************)
LEMMA FailKeeps ==
    ASSUME PdaInv, Fail
    PROVE  PdaInv'
  <1>1. /\ ledger' = committed /\ committed' = committed /\ init' = NoInit
        /\ refilled' = {a \in refilled : committed[a].data = "zeroed"}
    BY DEF Fail
  <1>2. init'.step = "idle"
    BY <1>1 DEF NoInit
  <1>3. PdaTypeOK'
    BY <1>1 DEF PdaInv, PdaTypeOK
  <1>4. Exemption'
    BY <1>1, <1>2 DEF PdaInv, Exemption, Exempt
  <1>5. Accountability'
    BY <1>1 DEF PdaInv, Accountability, LeftOver
  <1> QED
    BY <1>3, <1>4, <1>5 DEF PdaInv

(***************************************************************************)
(* So every step does.                                                     *)
(***************************************************************************)
LEMMA PdaStep == PdaInv /\ [PdaNext]_pvars => PdaInv'
  <1> SUFFICES ASSUME PdaInv, [PdaNext]_pvars PROVE PdaInv'
    OBVIOUS
  <1>1. CASE UNCHANGED pvars
    BY <1>1
    DEF pvars, PdaInv, PdaTypeOK, Exemption, Exempt, Accountability, LeftOver,
        Growing
  <1> QED
    BY <1>1, InitializeKeeps, TopUpKeeps, AllocateKeeps, AssignKeeps, CloseKeeps,
       PayKeeps, EndTxKeeps, FailKeeps DEF PdaNext, InitStep

(***************************************************************************)
(* At first there are no accounts with data.                               *)
(***************************************************************************)
LEMMA PdaStart == PdaInit => PdaInv
  <1> SUFFICES ASSUME PdaInit PROVE PdaInv
    OBVIOUS
  <1>1. \A n \in Nat : Empty(n) \in AccountData /\ Empty(n).data = "none"
    BY DEF Empty, AccountData
  <1>2. /\ ledger \in [LedgerIds -> AccountData]
        /\ \A a \in LedgerIds : ledger[a].data = "none"
    BY <1>1, PdaAssumption DEF PdaInit
  <1> QED
    BY <1>2
    DEF PdaInit, PdaInv, PdaTypeOK, Exemption, Exempt, Accountability,
        LeftOver, NoInit, LedgerIds

(***************************************************************************)
(* The invariant holds throughout.                                         *)
(***************************************************************************)
LEMMA PdaInvariant == PdaSpec => []PdaInv
  BY PdaStart, PdaStep, PTL DEF PdaSpec

(***************************************************************************)
(* Between instructions every account of the program that is in use holds  *)
(* its rent, whether it was created in an empty address, in one that held  *)
(* lamports already, or again after it was closed.                         *)
(***************************************************************************)
THEOREM LiveStayExempt == PdaSpec => []LiveAreExempt
  <1>1. PdaInv => LiveAreExempt
    BY DEF PdaInv, Exemption, Exempt, LiveAreExempt
  <1> QED
    BY <1>1, PdaInvariant, PTL

(***************************************************************************)
(* Closing an account pays out all it holds: a zeroed account with         *)
(* lamports has been paid since it was closed.                             *)
(***************************************************************************)
THEOREM NothingStaysBehind == PdaSpec => []NothingLeftBehind
  <1>1. PdaInv => NothingLeftBehind
    BY DEF PdaInv, Accountability, LeftOver, Growing, Settled, NothingLeftBehind
  <1> QED
    BY <1>1, PdaInvariant, PTL
=============================================================================
