------------------------------ MODULE KitProofs ------------------------------
(***************************************************************************)
(* Proofs about vaults and about the whole program.  First, sessions       *)
(* alone: their lifetime limits are budgets that add up, and so sessions   *)
(* implement VaultControl.  Then what is proved of authorities, deferred   *)
(* execution and sessions holds when instructions of all kinds come in any *)
(* order, and together they implement VaultControl.                        *)
(***************************************************************************)
EXTENDS LazorKit, DeferredProofs, SessionsProofs

-----------------------------------------------------------------------------
(* Budgets. *)

(***************************************************************************)
(* The lifetime limit of a set of actions that has at most one per asset.  *)
(***************************************************************************)
LEMMA OneLifetimeAmount ==
    ASSUME NEW actions, NEW asset, NEW c \in actions,
           c.kind = "Limit", c.target = asset,
           \A d \in actions : d.kind = "Limit" /\ d.target = asset
                                => d.amount = c.amount
    PROVE  LifetimeAmount(actions, asset) = c.amount
  <1>1. LifetimeAmounts(actions, asset) = {c.amount}
    BY DEF LifetimeAmounts
  <1> QED
    BY <1>1 DEF LifetimeAmount

(***************************************************************************)
(* A session's lifetime limits descend from those of its grant, of which   *)
(* there is one per asset.                                                 *)
(***************************************************************************)
LEMMA InvLeft == SessionInv => LeftIsExact
  <1> SUFFICES ASSUME SessionInv, NEW s \in SessionIds, IsSession(s),
                      NEW c \in session[s].actions, c.kind = "Limit"
               PROVE  c.amount + spent[s][c.target].total
                        = LifetimeAmount(granted[s], c.target)
    BY DEF LeftIsExact
  <1>1. GrantIsValid(s) /\ Tracked(s)
    BY DEF SessionInv, Accounted
  <1>2. PICK a \in granted[s] : Descends(s, a, c)
    BY <1>1 DEF Tracked
  <1>3. /\ a.kind = "Limit" /\ a.target = c.target
        /\ spent[s][c.target].total + c.amount = a.amount
    BY <1>2 DEF Descends, SameTerms
  <1>4. \A b \in granted[s] : b.kind = "Limit" /\ b.target = c.target => b = a
    BY <1>1, <1>3 DEF GrantIsValid, LimitKinds
  <1>5. LifetimeAmount(granted[s], c.target) = a.amount
    BY <1>3, <1>4, OneLifetimeAmount
  <1>6. c.amount \in Nat /\ spent[s][c.target].total \in Nat
    <2>1. c \in Actions
      BY DEF SessionInv, SessionTypeOK, SessionData
    <2>2. c.amount \in Nat /\ c.target \in Assets
      BY <2>1, ActionFields DEF LimitKinds
    <2> QED
      BY <2>2 DEF SessionInv, SessionTypeOK, Spending
  <1> QED
    BY <1>3, <1>5, <1>6

(***************************************************************************)
(* What a lifetime limit has left is the grant less what left the vault:   *)
(* over any number of Executes a session is charged neither less nor more. *)
(***************************************************************************)
THEOREM LeftStaysExact == SessionSpec => []LeftIsExact
  BY InvLeft, SessionInvariant, PTL

(***************************************************************************)
(* What a live session may still take and what it took add up to what it   *)
(* was granted.                                                            *)
(***************************************************************************)
BudgetsAddUp ==
    \A s \in SessionIds, asset \in Assets : IsSession(s) =>
       LET left == LifetimeAmount(session[s].actions, asset)
           taken == spent[s][asset].total
           limit == LifetimeAmount(granted[s], asset)
       IN  /\ left \in Nat /\ taken \in Nat
           /\ IF LifetimeAmounts(granted[s], asset) = {}
              THEN left = 0 /\ taken = 0
              ELSE left + taken = limit

(***************************************************************************)
(* The session's actions account for the difference.                       *)
(***************************************************************************)
LEMMA InvBudgets == SessionInv => BudgetsAddUp
  <1> SUFFICES ASSUME SessionInv, NEW s \in SessionIds, NEW asset \in Assets,
                      IsSession(s)
               PROVE  LET left == LifetimeAmount(session[s].actions, asset)
                          taken == spent[s][asset].total
                          limit == LifetimeAmount(granted[s], asset)
                      IN  /\ left \in Nat /\ taken \in Nat
                          /\ IF LifetimeAmounts(granted[s], asset) = {}
                             THEN left = 0 /\ taken = 0
                             ELSE left + taken = limit
    BY DEF BudgetsAddUp
  <1>1. /\ session[s].actions \in SUBSET Actions /\ granted[s] \in SUBSET Actions
        /\ spent[s][asset].total \in Nat
    BY DEF SessionInv, SessionTypeOK, SessionData, Spending
  <1>2. GrantIsValid(s) /\ Tracked(s) /\ Uncapped(s)
    BY DEF SessionInv, Accounted
  <1>3. CASE LifetimeAmounts(granted[s], asset) = {}
    <2>1. ~ \E a \in granted[s] : a.kind = "Limit" /\ a.target = asset
      BY <1>3 DEF LifetimeAmounts
    <2>2. ~ \E c \in session[s].actions : c.kind = "Limit" /\ c.target = asset
      BY <1>2, <2>1 DEF Tracked, Descends, SameTerms
    <2>3. LifetimeAmounts(session[s].actions, asset) = {}
      BY <2>2 DEF LifetimeAmounts
    <2> QED
      BY <1>2, <1>3, <2>3 DEF LifetimeAmount, Uncapped
  <1>4. CASE LifetimeAmounts(granted[s], asset) # {}
    <2>1. PICK a \in granted[s] : a.kind = "Limit" /\ a.target = asset
      BY <1>4 DEF LifetimeAmounts
    <2>2. \A b \in granted[s] : b.kind = "Limit" /\ b.target = asset => b = a
      BY <1>2, <2>1 DEF GrantIsValid, LimitKinds
    <2>3. LifetimeAmount(granted[s], asset) = a.amount
      BY <2>1, <2>2, OneLifetimeAmount
    <2>4. PICK c \in session[s].actions : Descends(s, a, c)
      BY <1>2, <2>1 DEF Tracked
    <2>5. /\ c.kind = "Limit" /\ c.target = asset
          /\ spent[s][asset].total + c.amount = a.amount
      BY <2>1, <2>4 DEF Descends, SameTerms
    <2>6. ASSUME NEW d \in session[s].actions, d.kind = "Limit",
                 d.target = asset
          PROVE  d.amount = c.amount
      <3>1. spent[s][asset].total + d.amount = a.amount
        BY <1>2, <2>2, <2>6 DEF Tracked, Descends, SameTerms
      <3>2. c.amount \in Nat /\ d.amount \in Nat
        BY <1>1, ActionFields
      <3> QED
        BY <1>1, <2>5, <3>1, <3>2
    <2>7. LifetimeAmount(session[s].actions, asset) = c.amount
      BY <2>5, <2>6, OneLifetimeAmount
    <2>8. c.amount \in Nat
      BY <1>1, ActionFields
    <2> QED
      BY <1>1, <1>4, <2>3, <2>5, <2>7, <2>8
  <1> QED
    BY <1>3, <1>4

(***************************************************************************)
(* Also after a step.                                                      *)
(***************************************************************************)
LEMMA InvBudgetsAfter == SessionInv' => BudgetsAddUp'
  BY InvBudgets, PTL

(***************************************************************************)
(* A budget depends on its session, its history and the clock.             *)
(***************************************************************************)
LEMMA BudgetUntouched ==
    ASSUME NEW b \in SessionIds \X Assets,
           session'[b[1]] = session[b[1]], granted'[b[1]] = granted[b[1]],
           spent'[b[1]] = spent[b[1]], slot' = slot
    PROVE  SessionBudgets'[b] = SessionBudgets[b]
  <1>1. PICK s \in SessionIds, asset \in Assets : b = <<s, asset>>
    OBVIOUS
  <1>2. /\ LifetimeAmounts(granted[s], asset)' = LifetimeAmounts(granted[s], asset)
        /\ LifetimeAmount(granted[s], asset)' = LifetimeAmount(granted[s], asset)
        /\ LifetimeAmount(session[s].actions, asset)'
             = LifetimeAmount(session[s].actions, asset)
        /\ spent'[s] = spent[s]
    BY <1>1 DEF LifetimeAmount, LifetimeAmounts
  <1>3. (IsSession(s) /\ SessionAlive(s))' <=> (IsSession(s) /\ SessionAlive(s))
    BY <1>1 DEF IsSession, SessionAlive
  <1>4. BudgetOf(s, asset)' = BudgetOf(s, asset)
    BY <1>2, <1>3 DEF BudgetOf
  <1> QED
    BY <1>1, <1>4 DEF SessionBudgets

(***************************************************************************)
(* A budget that ends, field by field.                                     *)
(***************************************************************************)
LEMMA EndedBudget ==
    ASSUME NEW live, NEW capped, NEW limit, NEW left, NEW taken, NEW old,
           old = [live |-> live, capped |-> capped, limit |-> limit,
                  left |-> left, taken |-> taken],
           NEW new, new = [live |-> FALSE, capped |-> capped, limit |-> limit,
                           left |-> 0, taken |-> taken]
    PROVE  Promise!Ends(old, new)
  <1>1. PICK end : end = [old EXCEPT !.live = FALSE, !.left = 0]
    OBVIOUS
  <1>2. end = [live |-> FALSE, capped |-> capped, limit |-> limit,
               left |-> 0, taken |-> taken]
    BY <1>1
  <1> QED
    BY <1>1, <1>2 DEF Promise!Ends

(***************************************************************************)
(* When time passes or a session is closed, budgets stay or end.           *)
(***************************************************************************)
LEMMA BudgetLapses ==
    ASSUME NEW b \in SessionIds \X Assets,
           session'[b[1]] = session[b[1]] \/ session'[b[1]].disc # "session",
           granted'[b[1]] = granted[b[1]], spent'[b[1]] = spent[b[1]],
           session[b[1]].expiresAt \in Nat,
           slot \in Nat, slot' \in Nat, slot <= slot'
    PROVE  \/ SessionBudgets'[b] = SessionBudgets[b]
           \/ Promise!Ends(SessionBudgets[b], SessionBudgets'[b])
  <1>1. PICK s \in SessionIds, asset \in Assets : b = <<s, asset>>
    OBVIOUS
  <1>2. SessionBudgets[b] = BudgetOf(s, asset)
        /\ SessionBudgets'[b] = BudgetOf(s, asset)'
    BY <1>1 DEF SessionBudgets
  <1>3. /\ LifetimeAmounts(granted[s], asset)' = LifetimeAmounts(granted[s], asset)
        /\ LifetimeAmount(granted[s], asset)' = LifetimeAmount(granted[s], asset)
        /\ spent'[s] = spent[s]
    BY <1>1 DEF LifetimeAmount, LifetimeAmounts
  <1> DEFINE live == IsSession(s) /\ SessionAlive(s)
  <1>4. CASE live'
    <2>1. session'[s] = session[s] /\ live
      BY <1>1, <1>4 DEF IsSession, SessionAlive
    <2>2. LifetimeAmount(session[s].actions, asset)'
            = LifetimeAmount(session[s].actions, asset)
      BY <2>1 DEF LifetimeAmount, LifetimeAmounts
    <2>3. BudgetOf(s, asset)' = BudgetOf(s, asset)
      BY <1>3, <1>4, <2>1, <2>2 DEF BudgetOf
    <2> QED
      BY <1>2, <2>3
  <1>5. CASE ~ live'
    <2>1. BudgetOf(s, asset)' =
            [live |-> FALSE, capped |-> LifetimeAmounts(granted[s], asset) # {},
             limit |-> LifetimeAmount(granted[s], asset), left |-> 0,
             taken |-> spent[s][asset].total]
      BY <1>3, <1>5 DEF BudgetOf
    <2>2. Promise!Ends(BudgetOf(s, asset), BudgetOf(s, asset)')
      BY <2>1, EndedBudget DEF BudgetOf
    <2> QED
      BY <1>2, <2>2
  <1> QED
    BY <1>4, <1>5

(***************************************************************************)
(* A session that was just created has all of its budget.                  *)
(***************************************************************************)
LEMMA BudgetFresh ==
    ASSUME NEW s \in SessionIds, NEW asset \in Assets, NEW actions,
           session'[s].disc = "session", session'[s].actions = actions,
           granted'[s] = actions, spent'[s] = NothingSpent,
           ~ (slot' > session'[s].expiresAt)
    PROVE  Promise!Fresh(SessionBudgets'[<<s, asset>>])
  <1>1. SessionBudgets'[<<s, asset>>] = BudgetOf(s, asset)'
    BY DEF SessionBudgets
  <1>2. BudgetOf(s, asset)'.taken = 0
    BY DEF BudgetOf, NothingSpent
  <1>3. BudgetOf(s, asset)'.left = BudgetOf(s, asset)'.limit
    BY DEF BudgetOf, IsSession, SessionAlive, LifetimeAmount, LifetimeAmounts
  <1> QED
    BY <1>1, <1>2, <1>3 DEF Promise!Fresh

-----------------------------------------------------------------------------
(* The refinement: what each step of Sessions is in VaultControl. *)

(***************************************************************************)
(* Between instructions the vaults are seen as they are.                   *)
(***************************************************************************)
LEMMA HeldBetween ==
    ASSUME ~ Running, exec' = exec
    PROVE  /\ \A w \in Wallets : VaultHeld[w] = vault[w]
           /\ \A w \in Wallets : VaultHeld'[w] = vault'[w]
           /\ vault' = vault => VaultHeld' = VaultHeld
  <1>1. ~ Running'
    BY DEF Running
  <1> QED
    BY <1>1 DEF VaultHeld

(***************************************************************************)
(* An instruction that an authority signed counts, and names who signed.   *)
(***************************************************************************)
LEMMA UseIsSigned ==
    ASSUME NEW w, NEW acct, NEW op, NEW payload,
           UseAuthority(w, acct, op, payload)
    PROVE  slotOps' = slotOps + 1 /\ by' # {} /\ slot' = slot
  BY DEF UseAuthority, Authenticate

(***************************************************************************)
(* CreateSession grants a budget.                                          *)
(***************************************************************************)
LEMMA CreateIsSigned ==
    ASSUME TypeOK, SessionInv, NEW w \in Wallets, NEW acct \in Accounts,
           NEW key \in SessionKeys, NEW expiresAt \in 0 .. MaxSlot + 1,
           NEW actions \in Policies,
           CreateSession(w, acct, key, expiresAt, actions)
    PROVE  Promise!Signed
  <1> DEFINE s == <<w, key>>
  <1>1. /\ ~ Running /\ exec' = exec /\ vault' = vault
        /\ ~ (expiresAt <= slot)
        /\ session' = [session EXCEPT ![s] =
             [disc |-> "session", expiresAt |-> expiresAt, actions |-> actions]]
        /\ granted' = [granted EXCEPT ![s] = actions]
        /\ spent' = [spent EXCEPT ![s] = NothingSpent]
    BY DEF CreateSession, ValidExpiry
  <1>2. slotOps' = slotOps + 1 /\ by' # {} /\ slot' = slot
    BY UseIsSigned DEF CreateSession
  <1>3. s \in SessionIds
    BY DEF SessionIds
  <1> HIDE DEF s
  <1>4. /\ session \in [SessionIds -> SessionData]
        /\ granted \in [SessionIds -> SUBSET Actions]
        /\ spent \in [SessionIds -> [Assets -> Spending]]
    BY DEF SessionInv, SessionTypeOK
  <1>5. /\ session'[s] = [disc |-> "session", expiresAt |-> expiresAt,
                          actions |-> actions]
        /\ granted'[s] = actions /\ spent'[s] = NothingSpent
    BY <1>1, <1>3, <1>4
  <1>6. ~ (slot' > session'[s].expiresAt)
    BY <1>1, <1>2, <1>5, ConstantsAssumption DEF TypeOK
  <1>7. ASSUME NEW b \in SessionIds \X Assets
        PROVE  \/ SessionBudgets'[b] = SessionBudgets[b]
               \/ Promise!Fresh(SessionBudgets'[b])
    <2>1. PICK r \in SessionIds, asset \in Assets : b = <<r, asset>>
      OBVIOUS
    <2>2. CASE r = s
      BY <1>3, <1>5, <1>6, <2>1, <2>2, BudgetFresh
    <2>3. CASE r # s
      BY <1>1, <1>2, <1>3, <1>4, <2>1, <2>3, BudgetUntouched
    <2> QED
      BY <2>2, <2>3
  <1>8. VaultHeld' = VaultHeld
    BY <1>1, HeldBetween
  <1> QED
    BY <1>2, <1>7, <1>8 DEF Promise!Signed, Promise!OnlyVaultOf, Promise!Budgets

(***************************************************************************)
(* RevokeSession ends budgets.                                             *)
(***************************************************************************)
LEMMA RevokeIsSigned ==
    ASSUME TypeOK, SessionInv, NEW w \in Wallets, NEW acct \in Accounts,
           NEW s \in SessionIds, RevokeSession(w, acct, s)
    PROVE  Promise!Signed
  <1>1. /\ ~ Running /\ exec' = exec /\ vault' = vault
        /\ session' = [session EXCEPT ![s] = NoSession("zeroed")]
        /\ granted' = granted /\ spent' = spent
    BY DEF RevokeSession
  <1>2. slotOps' = slotOps + 1 /\ by' # {} /\ slot' = slot
    BY UseIsSigned DEF RevokeSession
  <1>3. /\ session \in [SessionIds -> SessionData] /\ slot \in Nat
        /\ \A r \in SessionIds : session[r].expiresAt \in Nat
    BY ConstantsAssumption
    DEF SessionInv, SessionTypeOK, SessionData, TypeOK
  <1>4. \A r \in SessionIds :
          session'[r] = session[r] \/ session'[r].disc # "session"
    BY <1>1, <1>3 DEF NoSession
  <1>5. ASSUME NEW b \in SessionIds \X Assets
        PROVE  \/ SessionBudgets'[b] = SessionBudgets[b]
               \/ Promise!Ends(SessionBudgets[b], SessionBudgets'[b])
    <2>1. b[1] \in SessionIds
      OBVIOUS
    <2> QED
      BY <1>1, <1>2, <1>3, <1>4, <2>1, BudgetLapses
  <1>6. VaultHeld' = VaultHeld
    BY <1>1, HeldBetween
  <1> QED
    BY <1>2, <1>5, <1>6 DEF Promise!Signed, Promise!OnlyVaultOf, Promise!Budgets

(***************************************************************************)
(* An authority's Execute moves one vault and no budget.                   *)
(***************************************************************************)
LEMMA ExecuteIsSigned ==
    ASSUME SessionInv, NEW w \in Wallets, NEW acct \in Accounts, NEW payload,
           NEW balances, NEW controls,
           AuthorityExecute(w, acct, payload, balances, controls)
    PROVE  Promise!Signed
  <1>1. /\ ~ Running /\ exec' = exec
        /\ vault' = [vault EXCEPT ![w] = balances]
        /\ session' = session /\ granted' = granted /\ spent' = spent
    BY DEF AuthorityExecute
  <1>2. slotOps' = slotOps + 1 /\ by' # {} /\ slot' = slot
    BY UseIsSigned DEF AuthorityExecute
  <1>3. \A v \in Wallets \ {w} : vault'[v] = vault[v]
    BY <1>1 DEF SessionInv, SessionTypeOK
  <1>4. Promise!OnlyVaultOf(w)
    BY <1>1, <1>3, HeldBetween DEF Promise!OnlyVaultOf
  <1>5. \A b \in SessionIds \X Assets : SessionBudgets'[b] = SessionBudgets[b]
    BY <1>1, <1>2, BudgetUntouched
  <1> QED
    BY <1>2, <1>4, <1>5 DEF Promise!Signed, Promise!Budgets

(***************************************************************************)
(* A deposit only adds.                                                    *)
(***************************************************************************)
LEMMA DepositIsDeposit ==
    ASSUME SessionInv, NEW w \in Wallets, NEW asset \in Assets,
           Deposit(w, asset)
    PROVE  Promise!Deposit
  <1>1. /\ ~ Running /\ exec' = exec
        /\ vault' = [vault EXCEPT ![w][asset] = @ + 1]
        /\ UNCHANGED <<vars, session, granted, spent>>
    BY DEF Deposit
  <1>2. /\ slot' = slot /\ slotOps' = slotOps /\ by' = by
    BY <1>1 DEF vars
  <1>3. \A v \in Wallets, a \in Assets : vault[v][a] \in Int
    BY SessionsAssumption DEF SessionInv, SessionTypeOK, Balances, Amounts
  <1>4. ASSUME NEW v \in Wallets, NEW a \in Assets
        PROVE  vault'[v][a] >= vault[v][a]
    <2>1. vault \in [Wallets -> Balances] /\ vault[w] \in Balances
      BY DEF SessionInv, SessionTypeOK
    <2>2. vault'[v][a] = IF v = w /\ a = asset THEN vault[v][a] + 1
                         ELSE vault[v][a]
      BY <1>1, <2>1 DEF Balances
    <2> QED
      BY <1>3, <2>2
  <1>5. \A v \in Wallets, a \in Assets : VaultHeld'[v][a] >= VaultHeld[v][a]
    BY <1>1, <1>4, HeldBetween
  <1>6. \A b \in SessionIds \X Assets : SessionBudgets'[b] = SessionBudgets[b]
    BY <1>1, <1>2, BudgetUntouched
  <1>7. SessionBudgets' = SessionBudgets
    BY <1>6 DEF SessionBudgets
  <1> QED
    BY <1>2, <1>5, <1>7 DEF Promise!Deposit

(***************************************************************************)
(* While a session's calls run nothing is to be seen: not when they begin, *)
(* not when one is made, not when the whole Execute fails.                 *)
(***************************************************************************)
LEMMA CallsAreHidden ==
    ASSUME SessionInv,
           \/ \E w \in Wallets, s \in SessionIds, signer \in SessionKeys,
                 stackHeight \in 1 .. 2, programs \in CallLists :
                SessionExecute(w, s, signer, stackHeight, programs)
           \/ Running /\ \E balances \in Balances, controls \in Controls :
                Cpi(balances, controls)
           \/ SessionAbort
    PROVE  UNCHANGED Promise!promise
  <1>1. UNCHANGED <<vars, session, granted, spent>>
    BY DEF SessionExecute, Cpi, SessionAbort
  <1>2. slot' = slot /\ slotOps' = slotOps /\ by' = by
    BY <1>1 DEF vars
  <1>3. SessionBudgets' = SessionBudgets
    <2>1. \A b \in SessionIds \X Assets : SessionBudgets'[b] = SessionBudgets[b]
      BY <1>1, <1>2, BudgetUntouched
    <2> QED
      BY <2>1 DEF SessionBudgets
  <1>4. VaultHeld' = VaultHeld
    <2>1. ASSUME NEW w \in Wallets, NEW s \in SessionIds,
                 NEW signer \in SessionKeys, NEW stackHeight \in 1 .. 2,
                 NEW programs \in CallLists,
                 SessionExecute(w, s, signer, stackHeight, programs)
          PROVE  VaultHeld' = VaultHeld
      <3>1. /\ ~ Running /\ vault' = vault
            /\ exec'.running /\ exec'.session[1] = w /\ exec'.before = vault[w]
        BY <2>1 DEF SessionExecute, BelongsTo
      <3> QED
        BY <3>1 DEF VaultHeld, Running
    <2>2. ASSUME NEW balances \in Balances, NEW controls \in Controls, Running,
                 Cpi(balances, controls)
          PROVE  VaultHeld' = VaultHeld
      <3>1. exec \in Execution /\ exec.session[1] \in Wallets
        BY <2>2, ExecutionTyping DEF SessionInv
      <3>2. /\ vault' = [vault EXCEPT ![exec.session[1]] = balances]
            /\ exec'.running = exec.running /\ exec'.session = exec.session
            /\ exec'.before = exec.before
        BY <2>2, <3>1 DEF Cpi, Execution
      <3>3. \A w \in Wallets \ {exec.session[1]} : vault'[w] = vault[w]
        BY <3>1, <3>2 DEF SessionInv, SessionTypeOK
      <3> QED
        BY <2>2, <3>2, <3>3 DEF VaultHeld, Running
    <2>3. CASE SessionAbort
      <3>1. exec.session[1] \in Wallets /\ Running /\ ~ Running'
        BY <2>3, ExecutionTyping DEF SessionInv, SessionAbort, Running, Idle
      <3>2. /\ vault'[exec.session[1]] = exec.before
            /\ \A w \in Wallets \ {exec.session[1]} : vault'[w] = vault[w]
        BY <2>3, <3>1 DEF SessionAbort, SessionInv, SessionTypeOK
      <3> QED
        BY <3>1, <3>2 DEF VaultHeld
    <2> QED
      BY <2>1, <2>2, <2>3
  <1> QED
    BY <1>2, <1>3, <1>4 DEF Promise!promise

(***************************************************************************)
(* SessionCommit spends: what the vault has less comes off the budget.     *)
(***************************************************************************)
LEMMA CommitIsSpend ==
    ASSUME TypeOK, SessionInv, SessionInv', SessionCommit,
           NEW s, s = exec.session
    PROVE  Promise!Spend(s)
  <1>1. /\ Running /\ s \in SessionIds /\ IsSession(s) /\ SessionAlive(s)
        /\ session[s] \in SessionData
        /\ session'[s] = [session[s] EXCEPT !.actions = Charged(s)]
        /\ granted' = granted /\ spent'[s] = Record(s)
        /\ \A r \in SessionIds \ {s} :
             session'[r] = session[r] /\ spent'[r] = spent[r]
    BY CommitEffect
  <1>2. /\ exec' = Idle /\ vault' = vault /\ UNCHANGED vars
    BY DEF SessionCommit
  <1>3. slot' = slot /\ slotOps' = slotOps /\ by' = by
    BY <1>2 DEF vars
  <1>4. /\ session'[s].disc = "session"
        /\ session'[s].expiresAt = session[s].expiresAt
    BY <1>1 DEF SessionData, IsSession
  <1>5. s[1] \in Wallets /\ ~ Running'
    BY <1>1, <1>2 DEF SessionIds, Running, Idle
  <1>6. /\ VaultHeld[s[1]] = exec.before /\ VaultHeld'[s[1]] = vault[s[1]]
        /\ \A w \in Wallets \ {s[1]} : VaultHeld'[w] = VaultHeld[w]
    BY <1>1, <1>2, <1>5 DEF VaultHeld
  <1>7. BudgetsAddUp /\ BudgetsAddUp'
    BY InvBudgets, InvBudgetsAfter
  <1>8. ASSUME NEW asset \in Assets
        PROVE  LET old == SessionBudgets[<<s, asset>>]
                   new == SessionBudgets'[<<s, asset>>]
                   out == VaultHeld[s[1]][asset] - VaultHeld'[s[1]][asset]
               IN  /\ old.live
                   /\ new = [old EXCEPT !.left = new.left, !.taken = new.taken]
                   /\ old.capped =>
                        /\ new.taken >= old.taken + (IF out > 0 THEN out ELSE 0)
                        /\ new.left + new.taken <= old.left + old.taken
                   /\ ~ old.capped => new = old
    <2>1. PICK live, left, left1, taken, taken1, limit, capped :
            /\ live = (IsSession(s) /\ SessionAlive(s))
            /\ left = LifetimeAmount(session[s].actions, asset)
            /\ left1 = LifetimeAmount(session[s].actions, asset)'
            /\ taken = spent[s][asset].total /\ taken1 = spent'[s][asset].total
            /\ limit = LifetimeAmount(granted[s], asset)
            /\ capped = (LifetimeAmounts(granted[s], asset) # {})
      OBVIOUS
    <2>2. SessionBudgets[<<s, asset>>] =
            [live |-> live, capped |-> capped, limit |-> limit, left |-> left,
             taken |-> taken]
      BY <1>1, <2>1 DEF SessionBudgets, BudgetOf
    <2>3. /\ LifetimeAmounts(granted[s], asset)' = LifetimeAmounts(granted[s], asset)
          /\ LifetimeAmount(granted[s], asset)' = limit
      BY <1>1, <2>1 DEF LifetimeAmount, LifetimeAmounts
    <2>4. SessionBudgets'[<<s, asset>>] =
            [live |-> live, capped |-> capped, limit |-> limit, left |-> left1,
             taken |-> taken1]
      <3>1. IsSession(s)' /\ SessionAlive(s)'
        BY <1>1, <1>3, <1>4 DEF IsSession, SessionAlive
      <3> QED
        BY <1>1, <2>1, <2>3, <3>1 DEF SessionBudgets, BudgetOf
    <2>5. /\ left \in Nat /\ taken \in Nat
          /\ capped => left + taken = limit
          /\ ~ capped => left = 0 /\ taken = 0
      BY <1>1, <1>7, <2>1 DEF BudgetsAddUp
    <2>6. /\ left1 \in Nat /\ taken1 \in Nat
          /\ capped => left1 + taken1 = limit
          /\ ~ capped => left1 = 0 /\ taken1 = 0
      <3>1. IsSession(s)'
        BY <1>4 DEF IsSession
      <3> QED
        BY <1>1, <1>7, <2>1, <2>3, <3>1 DEF BudgetsAddUp
    <2>7. capped => taken1 = taken + NetSpent(asset)
      <3>1. ASSUME capped
            PROVE  \E a \in granted[s] : a.kind = "Limit" /\ a.target = asset
        BY <2>1, <3>1 DEF LifetimeAmounts
      <3> QED
        BY <1>1, <2>1, <3>1, RecordOf
    <2>8. NetSpent(asset) = IF exec.before[asset] - vault[s[1]][asset] > 0
                            THEN exec.before[asset] - vault[s[1]][asset] ELSE 0
      <3>1. exec.before[asset] \in Int /\ vault[s[1]][asset] \in Int
        BY <1>1, ExecutionTyping, SessionsAssumption
        DEF SessionInv, Balances, Amounts
      <3> QED
        BY <3>1 DEF NetSpent, SaturatingSub
    <2>9. NetSpent(asset) \in Nat
      BY <1>1, SpendTyping DEF SessionInv
    <2>10. /\ capped => taken1 >= taken + NetSpent(asset)
                        /\ left1 + taken1 <= left + taken
           /\ ~ capped => left1 = left /\ taken1 = taken
      BY <2>5, <2>6, <2>7, <2>9
    <2>11. PICK old, new : /\ old = SessionBudgets[<<s, asset>>]
                           /\ new = SessionBudgets'[<<s, asset>>]
      OBVIOUS
    <2>12. old = [live |-> live, capped |-> capped, limit |-> limit,
                  left |-> left, taken |-> taken]
      BY <2>2, <2>11
    <2>13. new = [live |-> live, capped |-> capped, limit |-> limit,
                  left |-> left1, taken |-> taken1]
      BY <2>4, <2>11
    <2>14. new = [old EXCEPT !.left = new.left, !.taken = new.taken]
      <3>1. PICK end : end = [old EXCEPT !.left = left1, !.taken = taken1]
        OBVIOUS
      <3>2. end = [live |-> live, capped |-> capped, limit |-> limit,
                   left |-> left1, taken |-> taken1]
        BY <2>12, <3>1
      <3>3. new.left = left1 /\ new.taken = taken1 /\ new = end
        BY <2>13, <3>2
      <3> QED
        BY <3>1, <3>3
    <2>15. /\ old.live /\ (old.capped <=> capped)
           /\ old.left = left /\ old.taken = taken
           /\ new.left = left1 /\ new.taken = taken1
      BY <1>1, <2>1, <2>12, <2>13
    <2>16. ~ capped => new = old
      BY <2>10, <2>12, <2>13
    <2> QED
      BY <1>6, <2>8, <2>10, <2>11, <2>14, <2>15, <2>16
  <1>9. \A b \in SessionIds \X Assets :
          b[1] # s => SessionBudgets'[b] = SessionBudgets[b]
    BY <1>1, <1>3, BudgetUntouched
  <1> QED
    BY <1>3, <1>6, <1>8, <1>9
    DEF Promise!Spend, Promise!Budgets, Promise!OnlyVaultOf

(***************************************************************************)
(* What an instruction of Sessions is in VaultControl.                     *)
(***************************************************************************)
LEMMA SessionInstructionSeen ==
    ASSUME TypeOK, SessionInv, SessionInv', SessionInstruction
    PROVE  \/ Promise!Signed
           \/ \E s \in SessionIds : Promise!Spend(s)
           \/ Promise!Deposit
           \/ UNCHANGED Promise!promise
  <1>1. ASSUME NEW w \in Wallets, NEW acct \in Accounts,
               NEW key \in SessionKeys, NEW expiresAt \in 0 .. MaxSlot + 1,
               NEW actions \in Policies,
               CreateSession(w, acct, key, expiresAt, actions)
        PROVE  Promise!Signed
    BY <1>1, CreateIsSigned
  <1>2. ASSUME NEW w \in Wallets, NEW acct \in Accounts, NEW s \in SessionIds,
               RevokeSession(w, acct, s)
        PROVE  Promise!Signed
    BY <1>2, RevokeIsSigned
  <1>3. ASSUME NEW w \in Wallets, NEW acct \in Accounts,
               NEW payload \in Payloads, NEW balances \in Balances,
               NEW controls \in Controls,
               AuthorityExecute(w, acct, payload, balances, controls)
        PROVE  Promise!Signed
    BY <1>3, ExecuteIsSigned
  <1>4. CASE SessionCommit
    <2>1. exec.session \in SessionIds
      BY <1>4, ExecutionTyping DEF SessionInv, SessionCommit
    <2> QED
      BY <1>4, <2>1, CommitIsSpend
  <1>5. ASSUME NEW w \in Wallets, NEW asset \in Assets, Deposit(w, asset)
        PROVE  Promise!Deposit
    BY <1>5, DepositIsDeposit
  <1> QED
    BY <1>1, <1>2, <1>3, <1>4, <1>5, CallsAreHidden DEF SessionInstruction

(***************************************************************************)
(* What leaves vaults alone and only closes sessions is a lapse: the       *)
(* instructions of the authorities, the end of a transaction, a tick.      *)
(***************************************************************************)
LEMMA LapseSeen ==
    ASSUME TypeOK, TypeOK', SessionInv, ~ Running, slot <= slot',
           RemoveSessions \/ UNCHANGED svars
    PROVE  Promise!Lapse
  <1>1. /\ exec' = exec /\ vault' = vault
        /\ granted' = granted /\ spent' = spent
    BY DEF RemoveSessions, svars
  <1>2. slot \in Nat /\ slot' \in Nat
    BY ConstantsAssumption DEF TypeOK
  <1>3. \A s \in SessionIds : session[s].expiresAt \in Nat
    BY DEF SessionInv, SessionTypeOK, SessionData
  <1>4. \A s \in SessionIds :
          session'[s] = session[s] \/ session'[s].disc # "session"
    BY DEF RemoveSessions, svars, NoSession
  <1>5. ASSUME NEW b \in SessionIds \X Assets
        PROVE  \/ SessionBudgets'[b] = SessionBudgets[b]
               \/ Promise!Ends(SessionBudgets[b], SessionBudgets'[b])
    <2>1. b[1] \in SessionIds
      OBVIOUS
    <2> QED
      BY <1>1, <1>2, <1>3, <1>4, <2>1, BudgetLapses
  <1>6. VaultHeld' = VaultHeld
    BY <1>1, HeldBetween
  <1> QED
    BY <1>5, <1>6 DEF Promise!Lapse, Promise!Budgets

(***************************************************************************)
(* The clock never goes back.                                              *)
(***************************************************************************)
LEMMA ClockOnward ==
    ASSUME TypeOK, [AnyNext]_vars
    PROVE  slot <= slot'
  <1>1. slot \in Int
    BY ConstantsAssumption DEF TypeOK
  <1>2. CASE AnyUse
    BY <1>1, <1>2 DEF AnyUse, UseAuthority
  <1>3. CASE Instruction
    <2>1. \A w, id, type, key : CreateWallet(w, id, type, key) => slot' = slot
      BY DEF CreateWallet
    <2>2. \A w, acct, id, type, role, key :
            AddAuthority(w, acct, id, type, role, key) => slot' = slot
      BY DEF AddAuthority
    <2>3. \A w, acct, id, type, key :
            TransferOwnership(w, acct, id, type, key) => slot' = slot
      BY DEF TransferOwnership
    <2>4. \A w, acct, target : RemoveAuthority(w, acct, target) => slot' = slot
      BY DEF RemoveAuthority
    <2>5. \A w, acct, op, payload :
            UseAuthority(w, acct, op, payload) => slot' = slot
      BY DEF UseAuthority
    <2>6. slot' = slot
      BY <1>3, <2>1, <2>2, <2>3, <2>4, <2>5 DEF Instruction
    <2> QED
      BY <1>1, <2>6
  <1>4. CASE EndTx \/ Tick \/ HorizonReached \/ UNCHANGED vars
    BY <1>1, <1>4 DEF EndTx, Tick, HorizonReached, vars
  <1> QED
    BY <1>2, <1>3, <1>4 DEF AnyNext, Next

(***************************************************************************)
(* No budgets at first.                                                    *)
(***************************************************************************)
LEMMA VaultStart == SessionInit => Promise!Init
  <1> SUFFICES ASSUME SessionInit PROVE Promise!Init
    OBVIOUS
  <1>1. ASSUME NEW s \in SessionIds, NEW asset \in Assets
        PROVE  BudgetOf(s, asset) =
                 [live |-> FALSE, capped |-> FALSE, limit |-> 0, left |-> 0,
                  taken |-> 0]
    <2>1. /\ ~ IsSession(s) /\ granted[s] = {}
          /\ spent[s][asset].total = 0
      BY DEF SessionInit, IsSession, NoSession, NothingSpent
    <2>2. LifetimeAmounts(granted[s], asset) = {}
      BY <2>1 DEF LifetimeAmounts
    <2> QED
      BY <2>1, <2>2 DEF BudgetOf, LifetimeAmount
  <1>2. SessionBudgets = [b \in SessionIds \X Assets |->
          [live |-> FALSE, capped |-> FALSE, limit |-> 0, left |-> 0,
           taken |-> 0]]
    BY <1>1 DEF SessionBudgets
  <1>3. slotOps = 0 /\ by = {}
    BY DEF SessionInit, Init
  <1> QED
    BY <1>2, <1>3 DEF Promise!Init, Promise!Budgets

(***************************************************************************)
(* Sessions implement VaultControl.  CreateSession, RevokeSession and an   *)
(* authority's Execute are acts of an authority; a session's Execute is    *)
(* hidden until it commits and is then one step that spends; its failure   *)
(* is no step at all; everything else lets rights lapse.                   *)
(***************************************************************************)
THEOREM SessionsImplementVaultControl == SessionSpec => ImplementsVaultControl
  <1>1. TypeOK /\ TypeOK' /\ SessionInv /\ SessionInv'
          /\ [SessionNext]_sessionVars => [Promise!Next]_(Promise!promise)
    <2> SUFFICES ASSUME TypeOK, TypeOK', SessionInv, SessionInv',
                        [SessionNext]_sessionVars
                 PROVE  [Promise!Next]_(Promise!promise)
      OBVIOUS
    <2>1. slot <= slot'
      BY SessionStepIsAny, ClockOnward
    <2>2. CASE SessionInstruction
      BY <2>2, SessionInstructionSeen DEF Promise!Next
    <2>3. CASE ~ Running /\ (RemoveSessions \/ UNCHANGED svars)
      BY <2>1, <2>3, LapseSeen DEF Promise!Next
    <2>4. CASE UNCHANGED sessionVars
      <3>1. UNCHANGED <<vars, session, vault, exec, granted, spent>>
        BY <2>4 DEF sessionVars, svars
      <3>2. slot' = slot /\ slotOps' = slotOps /\ by' = by
        BY <3>1 DEF vars
      <3>3. \A b \in SessionIds \X Assets : SessionBudgets'[b] = SessionBudgets[b]
        BY <3>1, <3>2, BudgetUntouched
      <3>4. SessionBudgets' = SessionBudgets /\ VaultHeld' = VaultHeld
        BY <3>1, <3>3 DEF SessionBudgets, VaultHeld, Running
      <3> QED
        BY <3>2, <3>4 DEF Promise!promise
    <2> QED
      BY <2>2, <2>3, <2>4
      DEF SessionNext, SessionEndTx, SessionTick
  <1> QED
    BY <1>1, VaultStart, SessionInvariant, SessionsKeepAuthorities, PTL
    DEF SessionSpec, ImplementsVaultControl, Promise!Spec

-----------------------------------------------------------------------------
(* The steps of the program, seen from its parts. *)

(***************************************************************************)
(* Every step is one of the instructions of sessions, a deposit among      *)
(* them; or, between the calls of sessions, an instruction of the          *)
(* authorities or of deferred execution, the end of a transaction, a tick, *)
(* or nothing.                                                             *)
(***************************************************************************)
LEMMA KitSteps ==
    ASSUME [KitNext]_kitVars
    PROVE  \/ SessionInstruction /\ UNCHANGED dvars
           \/ /\ ~ Running
              /\ \/ (Authorizations \/ Reclaims) /\ UNCHANGED svars
                 \/ \E w \in Wallets : Executions(w) /\ MoveVault(w)
                 \/ [AnyNext]_vars /\ RemoveDeferred /\ RemoveSessions
                 \/ [AnyNext]_vars /\ UNCHANGED <<dvars, svars>>
           \/ UNCHANGED <<vars, dvars, svars>>
  <1>1. CASE KitInstruction
    BY <1>1 DEF KitInstruction, AnyNext, Next
  <1>2. CASE KitEndTx
    BY <1>2 DEF KitEndTx, AnyNext, Next
  <1>3. CASE KitTick
    BY <1>3 DEF KitTick, AnyNext, Next
  <1>4. CASE ~ Running /\ HorizonReached /\ UNCHANGED <<dvars, svars>>
    BY <1>4 DEF AnyNext, Next
  <1>5. CASE UNCHANGED kitVars
    BY <1>5 DEF kitVars
  <1> QED
    BY <1>1, <1>2, <1>3, <1>4, <1>5 DEF KitNext

(***************************************************************************)
(* To deferred execution, what sessions do is a use of an authority or     *)
(* nothing at all.                                                         *)
(***************************************************************************)
LEMMA KitStepDeferred == [KitNext]_kitVars => [AnyDeferred]_allVars
  <1> SUFFICES ASSUME [KitNext]_kitVars PROVE [AnyDeferred]_allVars
    OBVIOUS
  <1>1. CASE SessionInstruction /\ UNCHANGED dvars
    <2>1. [AnyNext]_vars
      BY <1>1, SessionInstructionIsAny DEF AnyNext
    <2> QED
      BY <1>1, <2>1 DEF AnyDeferred
  <1>2. CASE Authorizations \/ Reclaims \/ \E w \in Wallets : Executions(w)
    BY <1>2 DEF AnyDeferred, DeferredInstruction
  <1>3. CASE [AnyNext]_vars /\ (RemoveDeferred \/ UNCHANGED dvars)
    BY <1>3 DEF AnyDeferred
  <1>4. CASE UNCHANGED <<vars, dvars>>
    BY <1>4 DEF allVars
  <1> QED
    BY <1>1, <1>2, <1>3, <1>4, KitSteps

(***************************************************************************)
(* To sessions, what deferred execution does is to move a vault between    *)
(* the calls of sessions, or nothing at all.                               *)
(***************************************************************************)
LEMMA KitStepSession == SessionTypeOK /\ [KitNext]_kitVars => SessionEffect
  <1> SUFFICES ASSUME SessionTypeOK, [KitNext]_kitVars PROVE SessionEffect
    OBVIOUS
  <1>1. ASSUME NEW w \in Wallets, ~ Running, MoveVault(w)
        PROVE  VaultMoves
    <2>1. PICK balances \in Balances, controls \in Controls :
            /\ vault' = [vault EXCEPT ![w] = balances]
            /\ control' = [control EXCEPT ![w] = controls]
      BY <1>1 DEF MoveVault
    <2>2. vault' \in [Wallets -> Balances] /\ control' \in [Wallets -> Controls]
      BY <2>1 DEF SessionTypeOK
    <2> QED
      BY <1>1, <2>2 DEF MoveVault, VaultMoves
  <1>2. CASE UNCHANGED <<vars, dvars, svars>>
    BY <1>2 DEF vars, SessionEffect
  <1> QED
    BY <1>1, <1>2, KitSteps DEF SessionEffect

(***************************************************************************)
(* So every behaviour of the program is, for deferred execution, one of    *)
(* its own.                                                                *)
(***************************************************************************)
LEMMA KitIsDeferred == KitSpec => AnyDeferredSpec
  <1>1. KitInit => DeferredInit
    BY DEF KitInit
  <1> QED
    BY <1>1, KitStepDeferred, PTL DEF KitSpec, AnyDeferredSpec

-----------------------------------------------------------------------------
(* What holds of the parts holds of the program. *)

(***************************************************************************)
(* Authorities keep their types, every wallet keeps an Owner and no        *)
(* assertion is accepted twice, also for different kinds of instructions.  *)
(***************************************************************************)
THEOREM KitKeepsAuthorities ==
    KitSpec => []TypeOK /\ []HasOwner /\ []NoReplay
  BY KitIsDeferred, DeferredIsAny, TypeAny, OwnerAny, ReplayAny, PTL

(***************************************************************************)
(* Whatever else the program does, with sessions and deferred executions,  *)
(* closed accounts stay dead, control of a wallet is handed on and not     *)
(* lost, and roles are granted and taken only downwards: seen from its     *)
(* authorities the whole program is Authorities.                           *)
(***************************************************************************)
THEOREM KitKeepsRoles ==
    KitSpec => Lifecycle /\ ControlIsKept /\ RoleHierarchy
                 /\ ImplementsAuthorities
  <1>1. KitSpec => AnySpec
    BY KitIsDeferred, DeferredIsAny, PTL
  <1>2. KitSpec => Lifecycle /\ ControlIsKept /\ RoleHierarchy
    BY <1>1, LifecycleAny, ControlAny, HierarchyAny, PTL
  <1>3. Init => Abstract!Init
    BY SameVocabulary DEF Init, Abstract!Init
  <1>4. AnySpec => ImplementsAuthorities
    BY <1>3, AnyStepIsAbstract, PTL
       DEF AnySpec, ImplementsAuthorities, Abstract!Spec
  <1> QED
    BY <1>1, <1>2, <1>4, PTL

(***************************************************************************)
(* Authorizations are settled exactly once, within their windows, and run  *)
(* as they were signed, whatever sessions do in between.                   *)
(***************************************************************************)
THEOREM KitKeepsDeferred ==
    KitSpec => /\ []DeferredTypeOK
               /\ []SettledOnce
               /\ []WindowsAreDisjoint
               /\ []ExecutedAsSigned
  <1>1. DeferredInv => DeferredTypeOK
    BY DEF DeferredInv
  <1> QED
    BY <1>1, KitIsDeferred, DeferredInvariant, SettledAny, WindowsAny,
       SignedAny, PTL

(***************************************************************************)
(* The invariant of sessions survives the calls of deferred executions.    *)
(***************************************************************************)
LEMMA KitSessionInvariant == KitSpec => []SessionInv
  <1>1. KitInit => SessionInv
    BY SessionStart DEF KitInit
  <1>2. TypeOK /\ SessionInv /\ [KitNext]_kitVars => SessionInv'
    <2>1. SessionInv => SessionTypeOK
      BY DEF SessionInv
    <2> QED
      BY <2>1, KitStepSession, SessionStep
  <1> QED
    BY <1>1, <1>2, KitKeepsAuthorities, PTL DEF KitSpec

(***************************************************************************)
(* Every limit of a session binds it, and is charged for nothing else,     *)
(* although authorities and deferred executions move the same vault        *)
(* without limits in between.                                              *)
(***************************************************************************)
THEOREM KitKeepsSessions ==
    KitSpec => /\ []SessionTypeOK
               /\ []LifetimeCap
               /\ []WindowCap
               /\ []PerTxCap
               /\ []NoSpendAfterExpiry
               /\ []LeftIsExact
  <1>1. SessionInv => /\ SessionTypeOK /\ LifetimeCap /\ WindowCap
                      /\ PerTxCap /\ NoSpendAfterExpiry /\ LeftIsExact
    BY InvCaps, InvLeft
  <1> QED
    BY <1>1, KitSessionInvariant, PTL

-----------------------------------------------------------------------------
(* Pending authorizations. *)

(***************************************************************************)
(* What is pending depends on the deferred accounts and the clock.         *)
(***************************************************************************)
LEMMA PendingUntouched ==
    ASSUME deferred' = deferred, slot' = slot
    PROVE  Pending' = Pending
  BY DEF Pending, IsDeferred

(***************************************************************************)
(* Time and the removal of accounts take rights away and give none.        *)
(***************************************************************************)
LEMMA PendingLapses ==
    ASSUME DeferredTypeOK, slot \in Nat, slot' \in Nat, slot <= slot',
           \A d \in DeferredIds :
              deferred'[d] = deferred[d] \/ deferred'[d].disc # "deferred"
    PROVE  Pending' \subseteq Pending
  <1> SUFFICES ASSUME NEW d \in DeferredIds, deferred'[d].disc = "deferred",
                      slot' <= deferred'[d].expiresAt
               PROVE  /\ deferred'[d] = deferred[d]
                      /\ slot <= deferred[d].expiresAt
    BY DEF Pending, IsDeferred
  <1>1. deferred'[d] = deferred[d] /\ deferred[d].expiresAt \in Nat
    BY DEF DeferredTypeOK, DeferredData
  <1> QED
    BY <1>1

(***************************************************************************)
(* Authorize uses an account that held no authorization, so it adds one    *)
(* and replaces none.                                                      *)
(***************************************************************************)
LEMMA PendingGrows ==
    ASSUME TypeOK, DeferredInv, NEW w \in Wallets, NEW acct \in Accounts,
           NEW payer \in Payers, NEW ixs \in Programs,
           NEW offset \in SubmittedOffsets,
           Authorize(w, acct, payer, ixs, offset)
    PROVE  Pending \subseteq Pending'
  <1>1. PICK d, g : Stores(d, g)
    BY AuthorizeStores
  <1>2. /\ ~ IsDeferred(d)
        /\ \A e \in DeferredIds \ {d} : deferred'[e] = deferred[e]
    BY <1>1, AfterStores DEF Stores, Allocatable, IsDeferred, DeferredInv
  <1>3. slot' = slot
    BY DEF Authorize, UseAuthority
  <1> QED
    BY <1>2, <1>3 DEF Pending, IsDeferred

(***************************************************************************)
(* ExecuteDeferred uses up one pending authorization of its wallet.  As no *)
(* two accounts hold the same grant, the others stay pending.              *)
(***************************************************************************)
LEMMA PendingUsed ==
    ASSUME TypeOK, DeferredInv, NEW w \in Wallets, NEW d \in DeferredIds,
           NEW refund \in Payers, NEW ixs \in Programs,
           ExecuteDeferred(w, d, refund, ixs),
           NEW p, p = [wallet |-> w, grant |-> deferred[d].grant]
    PROVE  p \in Pending /\ Pending' = Pending \ {p}
  <1>1. /\ IsDeferred(d) /\ d[1][1] = w /\ ~ (slot > deferred[d].expiresAt)
        /\ deferred' = [deferred EXCEPT ![d] = NoDeferred("zeroed")]
        /\ slot' = slot
    BY DEF ExecuteDeferred, BelongsTo, NotExpired, CloseDeferred, vars
  <1>2. slot \in Nat /\ deferred[d].expiresAt \in Nat
    BY ConstantsAssumption
    DEF TypeOK, DeferredInv, DeferredTypeOK, DeferredData
  <1>3. slot <= deferred[d].expiresAt
    BY <1>1, <1>2
  <1>4. /\ deferred'[d].disc # "deferred"
        /\ \A e \in DeferredIds \ {d} : deferred'[e] = deferred[e]
    BY <1>1 DEF DeferredInv, DeferredTypeOK, NoDeferred
  <1>5. ASSUME NEW e \in DeferredIds, IsDeferred(e),
               deferred[e].grant = deferred[d].grant
        PROVE  e = d
    <2>1. PICK g \in grants : g.pda = d /\ g.id = deferred[d].grant
      BY <1>1 DEF DeferredInv, LiveHoldGrants
    <2> QED
      BY <1>5, <2>1, HeldGrant
  <1>6. p \in Pending
    BY <1>1, <1>3 DEF Pending
  <1>7. \A q : q \in Pending' <=>
          \E e \in DeferredIds \ {d} :
             /\ IsDeferred(e) /\ slot <= deferred[e].expiresAt
             /\ q = [wallet |-> e[1][1], grant |-> deferred[e].grant]
    BY <1>1, <1>4 DEF Pending, IsDeferred
  <1>8. \A q : q \in Pending <=>
          \E e \in DeferredIds :
             /\ IsDeferred(e) /\ slot <= deferred[e].expiresAt
             /\ q = [wallet |-> e[1][1], grant |-> deferred[e].grant]
    BY DEF Pending
  <1>9. ASSUME NEW e \in DeferredIds \ {d}, IsDeferred(e),
               p = [wallet |-> e[1][1], grant |-> deferred[e].grant]
        PROVE  FALSE
    <2>1. deferred[e].grant = p.grant /\ p.grant = deferred[d].grant
      BY <1>9
    <2> QED
      BY <1>5, <1>9, <2>1
  <1>10. ASSUME NEW q \in Pending, q # p
         PROVE  q \in Pending'
    BY <1>1, <1>7, <1>8, <1>10
  <1> QED
    BY <1>6, <1>7, <1>8, <1>9, <1>10

-----------------------------------------------------------------------------
(* The refinement: what each step of the program is in VaultControl. *)

(***************************************************************************)
(* The instructions of sessions leave the clock alone.                     *)
(***************************************************************************)
LEMMA SessionInstructionClock == SessionInstruction => slot' = slot
  BY SessionInstructionIsAny DEF AnyUse, UseAuthority, vars

(***************************************************************************)
(* What touches neither sessions nor the clock touches no budget.          *)
(***************************************************************************)
LEMMA BudgetsUntouched ==
    ASSUME UNCHANGED <<slot, session, granted, spent>>
    PROVE  SessionBudgets' = SessionBudgets
  <1>1. \A b \in SessionIds \X Assets : SessionBudgets'[b] = SessionBudgets[b]
    BY BudgetUntouched
  <1> QED
    BY <1>1 DEF SessionBudgets

(***************************************************************************)
(* The instructions of sessions are what they are in Sessions, as they     *)
(* leave deferred accounts alone.                                          *)
(***************************************************************************)
LEMMA KitSessionInstruction ==
    ASSUME TypeOK, SessionInv, SessionInv', SessionInstruction,
           UNCHANGED dvars
    PROVE  [Kit!Next]_(Kit!promise)
  <1>1. Pending' = Pending
    BY SessionInstructionClock, PendingUntouched DEF dvars
  <1>2. CASE Promise!Signed
    <2>1. Kit!Signed
      BY <1>1, <1>2
      DEF Promise!Signed, Promise!OnlyVaultOf, Promise!Budgets, Promise!Fresh,
          Promise!Ends, Kit!Signed, Kit!OnlyVaultOf, Kit!Budgets, Kit!Fresh,
          Kit!Ends
    <2> QED
      BY <2>1 DEF Kit!Next
  <1>3. ASSUME NEW s \in SessionIds, Promise!Spend(s)
        PROVE  Kit!Spend(s)
    BY <1>1, <1>3
    DEF Promise!Spend, Promise!OnlyVaultOf, Promise!Budgets,
        Kit!Spend, Kit!OnlyVaultOf, Kit!Budgets
  <1>4. CASE Promise!Deposit
    BY <1>1, <1>4 DEF Promise!Deposit, Kit!Deposit, Kit!Next
  <1>5. CASE UNCHANGED Promise!promise
    BY <1>1, <1>5 DEF Promise!promise, Kit!promise
  <1> QED
    BY <1>2, <1>3, <1>4, <1>5, SessionInstructionSeen DEF Kit!Next

(***************************************************************************)
(* Authorize is an act of the authority that signs it.                     *)
(***************************************************************************)
LEMMA KitAuthorization ==
    ASSUME TypeOK, DeferredInv, ~ Running, Authorizations, UNCHANGED svars
    PROVE  Kit!Signed
  <1>1. PICK w \in Wallets, acct \in Accounts, payer \in Payers,
             ixs \in Programs, offset \in SubmittedOffsets :
          Authorize(w, acct, payer, ixs, offset)
    BY DEF Authorizations
  <1>2. slotOps' = slotOps + 1 /\ by' # {} /\ slot' = slot
    BY <1>1, UseIsSigned DEF Authorize
  <1>3. Pending \subseteq Pending'
    BY <1>1, PendingGrows
  <1>4. VaultHeld' = VaultHeld
    BY HeldBetween DEF svars
  <1>5. SessionBudgets' = SessionBudgets
    BY <1>2, BudgetsUntouched DEF svars
  <1> QED
    BY <1>1, <1>2, <1>3, <1>4, <1>5 DEF Kit!Signed, Kit!OnlyVaultOf

(***************************************************************************)
(* ExecuteDeferred runs a pending authorization of its wallet, moves the   *)
(* vault of that wallet alone and touches no budget.                       *)
(***************************************************************************)
LEMMA KitExecution ==
    ASSUME TypeOK, DeferredInv, SessionTypeOK, ~ Running,
           NEW w \in Wallets, Executions(w), MoveVault(w)
    PROVE  \E p \in Pending : Kit!RunPending(p)
  <1>1. PICK d \in DeferredIds, refund \in Payers, ixs \in Programs :
          ExecuteDeferred(w, d, refund, ixs)
    BY DEF Executions
  <1>2. PICK p : p = [wallet |-> w, grant |-> deferred[d].grant]
    OBVIOUS
  <1>3. p \in Pending /\ Pending' = Pending \ {p}
    BY <1>1, <1>2, PendingUsed
  <1>4. slot' = slot /\ slotOps' = slotOps /\ by' = by
    BY <1>1 DEF ExecuteDeferred, vars
  <1>5. SessionBudgets' = SessionBudgets
    BY <1>4, BudgetsUntouched DEF MoveVault
  <1>6. \A v \in Wallets \ {w} : vault'[v] = vault[v]
    BY DEF MoveVault, SessionTypeOK
  <1>7. \A v \in Wallets \ {w} : VaultHeld'[v] = VaultHeld[v]
    BY <1>6, HeldBetween DEF MoveVault
  <1>8. p.wallet = w
    BY <1>2
  <1> QED
    BY <1>3, <1>4, <1>5, <1>7, <1>8 DEF Kit!RunPending, Kit!OnlyVaultOf

(***************************************************************************)
(* ReclaimDeferred, the end of a transaction, a tick and the instructions  *)
(* of the authorities let rights lapse.                                    *)
(***************************************************************************)
LEMMA KitLapse ==
    ASSUME TypeOK, TypeOK', DeferredInv, SessionInv, ~ Running, slot <= slot',
           RemoveSessions \/ UNCHANGED svars,
           Reclaims \/ RemoveDeferred \/ UNCHANGED dvars
    PROVE  Kit!Lapse
  <1>1. slot \in Nat /\ slot' \in Nat
    BY ConstantsAssumption DEF TypeOK
  <1>2. \A d \in DeferredIds :
          deferred'[d] = deferred[d] \/ deferred'[d].disc # "deferred"
    <2>1. ASSUME NEW e \in DeferredIds, NEW payer \in Payers,
                 NEW refund \in Payers, ReclaimDeferred(e, payer, refund)
          PROVE  \A d \in DeferredIds :
                   deferred'[d] = deferred[d] \/ deferred'[d].disc # "deferred"
      BY <2>1
      DEF ReclaimDeferred, CloseDeferred, NoDeferred, DeferredInv,
          DeferredTypeOK
    <2>2. ASSUME RemoveDeferred
          PROVE  \A d \in DeferredIds :
                   deferred'[d] = deferred[d] \/ deferred'[d].disc # "deferred"
      BY <2>2 DEF RemoveDeferred, NoDeferred
    <2> QED
      BY <2>1, <2>2 DEF Reclaims, dvars
  <1>3. Pending' \subseteq Pending
    BY <1>1, <1>2, PendingLapses DEF DeferredInv
  <1>4. Promise!Lapse
    BY LapseSeen
  <1> QED
    BY <1>3, <1>4
    DEF Promise!Lapse, Promise!Budgets, Promise!Ends, Kit!Lapse, Kit!Budgets,
        Kit!Ends

(***************************************************************************)
(* No authorization is pending at first, and no session has a budget.      *)
(***************************************************************************)
LEMMA KitStart == KitInit => Kit!Init
  <1> SUFFICES ASSUME KitInit PROVE Kit!Init
    OBVIOUS
  <1>1. Promise!Init
    BY VaultStart DEF KitInit
  <1>2. Pending = {}
    BY DEF KitInit, DeferredInit, Pending, IsDeferred, NoDeferred
  <1> QED
    BY <1>1, <1>2 DEF Promise!Init, Promise!Budgets, Kit!Init, Kit!Budgets

(***************************************************************************)
(* The program implements VaultControl: a vault changes only by an act     *)
(* that an authority signed, by a live session within its budget, by an    *)
(* unexpired authorization that is used up by it, or by a deposit,         *)
(* whatever instructions come in whatever order.                           *)
(***************************************************************************)
THEOREM KitImplementsControl == KitSpec => KitImplementsVaultControl
  <1>1. TypeOK /\ TypeOK' /\ DeferredInv /\ SessionInv /\ SessionInv'
          /\ [KitNext]_kitVars => [Kit!Next]_(Kit!promise)
    <2> SUFFICES ASSUME TypeOK, TypeOK', DeferredInv, SessionInv, SessionInv',
                        [KitNext]_kitVars
                 PROVE  [Kit!Next]_(Kit!promise)
      OBVIOUS
    <2>1. slot <= slot'
      BY KitStepDeferred, DeferredStepIsAny, ClockOnward
    <2>2. CASE SessionInstruction /\ UNCHANGED dvars
      BY <2>2, KitSessionInstruction
    <2>3. CASE ~ Running /\ Authorizations /\ UNCHANGED svars
      BY <2>3, KitAuthorization DEF Kit!Next
    <2>4. ASSUME ~ Running, NEW w \in Wallets, Executions(w), MoveVault(w)
          PROVE  Kit!Next
      <3>1. SessionTypeOK
        BY DEF SessionInv
      <3> QED
        BY <2>4, <3>1, KitExecution DEF Kit!Next
    <2>5. ASSUME ~ Running, RemoveSessions \/ UNCHANGED svars,
                 Reclaims \/ RemoveDeferred \/ UNCHANGED dvars
          PROVE  Kit!Next
      BY <2>1, <2>5, KitLapse DEF Kit!Next
    <2>6. CASE UNCHANGED <<vars, dvars, svars>>
      <3>1. slot' = slot /\ slotOps' = slotOps /\ by' = by
        BY <2>6 DEF vars
      <3>2. Pending' = Pending /\ SessionBudgets' = SessionBudgets
        BY <2>6, <3>1, PendingUntouched, BudgetsUntouched DEF dvars, svars
      <3>3. VaultHeld' = VaultHeld
        BY <2>6 DEF svars, VaultHeld, Running
      <3> QED
        BY <3>1, <3>2, <3>3 DEF Kit!promise
    <2> QED
      BY <2>2, <2>3, <2>4, <2>5, <2>6, KitSteps
  <1> QED
    BY <1>1, KitStart, KitIsDeferred, DeferredInvariant, KitSessionInvariant,
       KitKeepsAuthorities, PTL DEF KitSpec, KitImplementsVaultControl, Kit!Spec
=============================================================================
