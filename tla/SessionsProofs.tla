--------------------------- MODULE SessionsProofs ---------------------------
(***************************************************************************)
(* Proofs about Sessions: the limits of a session hold over its whole      *)
(* life, nothing leaves a vault after an expiry, and sessions implement    *)
(* what VaultControl promises.                                             *)
(***************************************************************************)
EXTENDS Sessions, AuthoritiesProofs, SequenceTheorems

USE DEF Owner, Admin, Spender, Ed25519, Secp256r1

-----------------------------------------------------------------------------
(* Arithmetic of the windows. *)

(***************************************************************************)
(* Division with remainder.                                                *)
(***************************************************************************)
LEMMA Division ==
    ASSUME NEW n \in Nat, NEW w \in Nat \ {0}
    PROVE  /\ n \div w \in Nat
           /\ (n \div w) * w <= n
           /\ n < (n \div w) * w + w
  <1>1. n \div w \in Int /\ (n % w) \in 0 .. w - 1
    OBVIOUS
  <1>2. n = w * (n \div w) + (n % w)
    OBVIOUS
  <1> QED
    BY <1>1, <1>2

(***************************************************************************)
(* A product is monotonic, and strictly so by at least the factor.         *)
(***************************************************************************)
LEMMA Multiples ==
    ASSUME NEW j \in Nat, NEW k \in Nat, NEW w \in Nat \ {0}
    PROVE  /\ j * w \in Nat
           /\ j <= k => j * w <= k * w
           /\ j < k => j * w + w <= k * w
  OBVIOUS


(***************************************************************************)
(* The bucket of a slot.                                                   *)
(***************************************************************************)
LEMMA BucketBounds ==
    ASSUME NEW t \in Nat, NEW w \in Nat \ {0}
    PROVE  /\ Bucket(t, w) \in Nat
           /\ t <= Bucket(t, w) * w + w
           /\ t > 0 => Bucket(t, w) * w < t
           /\ t = 0 => Bucket(t, w) = 0
  <1>1. CASE t = 0
    BY <1>1, Multiples DEF Bucket
  <1>2. CASE t # 0
    <2>1. t - 1 \in Nat
      BY <1>2
    <2>2. /\ (t - 1) \div w \in Nat
          /\ ((t - 1) \div w) * w <= t - 1
          /\ t - 1 < ((t - 1) \div w) * w + w
      BY <2>1, Division
    <2>3. Bucket(t, w) = (t - 1) \div w
      BY <1>2 DEF Bucket
    <2> DEFINE m == Bucket(t, w) * w
    <2>4. m \in Nat
      BY <2>2, <2>3, Multiples
    <2>5. m <= t - 1 /\ t - 1 < m + w
      BY <2>2, <2>3
    <2> HIDE DEF m
    <2>6. t <= m + w /\ m < t
      BY <2>4, <2>5
    <2> QED
      BY <1>2, <2>2, <2>3, <2>6 DEF m
  <1> QED
    BY <1>1, <1>2

(***************************************************************************)
(* When a window elapsed, the slot is in a later bucket than any the       *)
(* window began in or after.                                               *)
(***************************************************************************)
LEMMA ElapsedIsLater ==
    ASSUME NEW t \in Nat, NEW w \in Nat \ {0}, NEW k \in Nat, NEW j \in Nat,
           j <= k, SaturatingSub(t, k * w) > w
    PROVE  /\ j # Bucket(t, w)
           /\ Bucket(t, w) <= t \div w
  <1>1. /\ Bucket(t, w) \in Nat /\ t <= Bucket(t, w) * w + w
        /\ t > 0 => Bucket(t, w) * w < t
        /\ t = 0 => Bucket(t, w) = 0
    BY BucketBounds
  <1>2. /\ t \div w \in Nat /\ t < (t \div w) * w + w
    BY Division
  <1> DEFINE b == Bucket(t, w)
             q == t \div w
  <1>3. j * w \in Nat /\ k * w \in Nat /\ b * w \in Nat /\ q * w \in Nat
        /\ j * w <= k * w
    BY <1>1, <1>2, Multiples
  <1>4. t > k * w + w
    BY <1>3 DEF SaturatingSub
  <1>5. b # j
    <2>1. j * w + w < t
      BY <1>3, <1>4
    <2> QED
      BY <1>1, <2>1, <1>3
  <1>6. b <= q
    <2>1. CASE t = 0
      BY <1>1, <1>2, <2>1
    <2>2. CASE t > 0
      <3>1. b * w < q * w + w
        BY <1>1, <1>2, <1>3, <2>2
      <3>2. ~ (q < b)
        BY <1>1, <1>2, <3>1, <1>3, Multiples
      <3> QED
        BY <1>1, <1>2, <3>2
    <2> QED
      BY <2>1, <2>2
  <1> QED
    BY <1>5, <1>6

(***************************************************************************)
(* While a window has not elapsed, the slot is in a bucket no later than   *)
(* the one the window began with.                                          *)
(***************************************************************************)
LEMMA OpenIsCurrent ==
    ASSUME NEW t \in Nat, NEW w \in Nat \ {0}, NEW k \in Nat,
           ~ (SaturatingSub(t, k * w) > w)
    PROVE  Bucket(t, w) <= k
  <1> DEFINE b == Bucket(t, w)
  <1>1. /\ b \in Nat
        /\ t > 0 => b * w < t
        /\ t = 0 => b = 0
    BY BucketBounds
  <1> HIDE DEF b
  <1>2. k * w \in Nat /\ b * w \in Nat
    BY <1>1, Multiples
  <1>3. t <= k * w + w
    BY <1>2 DEF SaturatingSub
  <1>4. CASE t = 0
    BY <1>1, <1>4 DEF b
  <1>5. CASE t > 0
    <2>1. b * w < k * w + w
      BY <1>1, <1>2, <1>3, <1>5
    <2>2. k < b => k * w + w <= b * w
      BY <1>1, Multiples
    <2>3. ~ (k < b)
      BY <1>2, <2>1, <2>2
    <2> QED
      BY <1>1, <2>3 DEF b
  <1> QED
    BY <1>4, <1>5

-----------------------------------------------------------------------------
(* The inductive invariant. *)

(***************************************************************************)
(* What ValidActions leaves of a session's actions for ever: one limit of  *)
(* a kind per asset, and windows that start at reset slot 0.               *)
(***************************************************************************)
GrantIsValid(s) ==
    /\ \A a, b \in granted[s] :
         a.kind \in LimitKinds /\ a.kind = b.kind /\ a.target = b.target
           => a = b
    /\ \A a \in granted[s] : a.kind = "Recurring" => FreshRecurring(a)

SameTerms(a, c) ==
    /\ c.kind = a.kind
    /\ c.target = a.target
    /\ c.window = a.window
    /\ c.expiresAt = a.expiresAt

(***************************************************************************)
(* The window of a recurring limit starts at a multiple of its length that *)
(* is no earlier than the bucket the session last spent in.                *)
(***************************************************************************)
Aligned(c, bucket) ==
    \E k \in Nat : c.lastReset = k * c.window /\ bucket <= k

(***************************************************************************)
(* Action c is what has become of action a of the same session: a lifetime *)
(* limit has lost what the session took, a recurring one has counted at    *)
(* least what the session took in its current bucket, and the others are   *)
(* as they were granted.                                                   *)
(***************************************************************************)
Descends(s, a, c) ==
    /\ SameTerms(a, c)
    /\ a.kind = "Limit" => spent[s][a.target].total + c.amount = a.amount
    /\ a.kind = "Recurring" =>
         /\ c.amount = a.amount
         /\ spent[s][a.target].inBucket <= c.spent
         /\ c.spent <= c.amount
         /\ Aligned(c, spent[s][a.target].bucket)
    /\ a.kind \notin {"Limit", "Recurring"} => c = a

(***************************************************************************)
(* No action of a live session was lost and none was added.                *)
(***************************************************************************)
Tracked(s) ==
    IsSession(s) =>
      /\ \A a \in granted[s] : \E c \in session[s].actions : Descends(s, a, c)
      /\ \A c \in session[s].actions : \E a \in granted[s] : Descends(s, a, c)

(***************************************************************************)
(* The caps, also for a session that is closed.                            *)
(***************************************************************************)
Capped(s) ==
    \A a \in granted[s] :
       /\ a.kind = "Limit" => spent[s][a.target].total <= a.amount
       /\ a.kind = "Recurring" => spent[s][a.target].inBucket <= a.amount
       /\ a.kind = "MaxPerTx" => spent[s][a.target].dip <= a.amount

(***************************************************************************)
(* Where no lifetime limit was granted, none is accounted for.             *)
(***************************************************************************)
Uncapped(s) ==
    \A asset \in Assets :
       LifetimeAmounts(granted[s], asset) = {} => spent[s][asset].total = 0

(***************************************************************************)
(* The last time a session took something was no later than every expiry   *)
(* that stood in its way.                                                  *)
(***************************************************************************)
Timely(s) ==
    \A asset \in LimitedAssets(s) :
       LET last == spent[s][asset].last
           Ended(a) == a.expiresAt # 0 /\ last > a.expiresAt
           lists == {a \in granted[s] : a.kind = "Whitelist"}
       IN  /\ IsSession(s) => last <= session[s].expiresAt
           /\ \A a \in Limits(granted[s]) : a.target = asset => ~ Ended(a)
           /\ lists # {} => \E a \in lists : ~ Ended(a)

Accounted(s) ==
    /\ GrantIsValid(s)
    /\ Tracked(s)
    /\ Capped(s)
    /\ Uncapped(s)
    /\ Timely(s)

(***************************************************************************)
(* The whitelist of a session, if it has one, is not wholly expired.       *)
(***************************************************************************)
MayCallSomething(s) ==
    LET lists == {a \in session[s].actions : a.kind = "Whitelist"}
    IN  lists # {} => \E a \in lists : ~ IsExpired(a, slot)

(***************************************************************************)
(* While the calls run: the session is live, every call that is left is    *)
(* allowed, and the gross outflow is at least how far the vault was drawn  *)
(* down at any moment.                                                     *)
(***************************************************************************)
ExecutionInv ==
    Running =>
      LET s == exec.session
          w == s[1]
      IN  /\ IsSession(s)
          /\ SessionAlive(s)
          /\ \A i \in DOMAIN exec.programs :
               MayCall(session[s].actions, exec.programs[i], slot)
          /\ vault[w] # exec.before => MayCallSomething(s)
          /\ exec.prev = vault[w]["SOL"]
          /\ exec.low <= exec.prev
          /\ exec.low <= exec.before["SOL"]
          /\ exec.before["SOL"] - exec.low <= exec.grossOut
          /\ exec.before["SOL"] - exec.prev <= exec.grossOut

SessionInv ==
    /\ SessionTypeOK
    /\ \A s \in SessionIds : Accounted(s)
    /\ ExecutionInv

-----------------------------------------------------------------------------
(* The steps of Sessions, seen from the authorities. *)

(***************************************************************************)
(* What Sessions and the other parts of the program may do to sessions and *)
(* vaults.  While calls run, only their session's Execute goes on.         *)
(***************************************************************************)
VaultMoves ==
    /\ ~ Running
    /\ vault' \in [Wallets -> Balances]
    /\ control' \in [Wallets -> Controls]
    /\ UNCHANGED <<session, sclosing, exec, granted, spent>>

SessionEffect ==
    \/ SessionInstruction
    \/ VaultMoves
    \/ ~ Running /\ RemoveSessions
    \/ ~ Running /\ UNCHANGED svars
    \/ UNCHANGED <<slot, svars>>

(***************************************************************************)
(* Every step of Sessions has one of these effects.                        *)
(***************************************************************************)
LEMMA SessionSteps == [SessionNext]_sessionVars => SessionEffect
  BY DEF SessionNext, SessionEffect, SessionEndTx, SessionTick, sessionVars,
         vars

(***************************************************************************)
(* An instruction of Sessions is one use of an authority, over a payload   *)
(* that callers may submit, or leaves the authorities alone.               *)
(***************************************************************************)
LEMMA SessionInstructionIsAny == SessionInstruction => AnyUse \/ UNCHANGED vars
  <1> SUFFICES ASSUME SessionInstruction PROVE AnyUse \/ UNCHANGED vars
    OBVIOUS
  <1>1. ASSUME NEW w \in Wallets, NEW acct \in Accounts,
               NEW key \in SessionKeys, NEW expiresAt \in 0 .. MaxSlot + 1,
               NEW actions \in Policies,
               CreateSession(w, acct, key, expiresAt, actions)
        PROVE  AnyUse
    <2>1. <<w, key>> \in SessionIds
      BY DEF SessionIds
    <2>2. <<(<<w, key>>), actions>> \in Payloads
      BY <2>1, SessionsAssumption
    <2> QED
      BY <1>1, <2>2 DEF CreateSession, AnyUse, Uses
  <1>2. ASSUME NEW w \in Wallets, NEW acct \in Accounts, NEW s \in SessionIds,
               RevokeSession(w, acct, s)
        PROVE  AnyUse
    <2>1. <<s, {}>> \in Payloads
      BY SessionsAssumption
    <2> QED
      BY <1>2, <2>1 DEF RevokeSession, AnyUse, Uses
  <1>3. ASSUME NEW w \in Wallets, NEW acct \in Accounts,
               NEW payload \in Payloads, NEW balances \in Balances,
               NEW controls \in Controls,
               AuthorityExecute(w, acct, payload, balances, controls)
        PROVE  AnyUse
    BY <1>3 DEF AuthorityExecute, AnyUse, Uses
  <1>4. ASSUME NEW w \in Wallets, NEW s \in SessionIds, NEW signer \in SessionKeys,
               NEW stackHeight \in 1 .. 2, NEW programs \in CallLists,
               SessionExecute(w, s, signer, stackHeight, programs)
        PROVE  UNCHANGED vars
    BY <1>4 DEF SessionExecute
  <1>5. ASSUME NEW balances \in Balances, NEW controls \in Controls,
               Cpi(balances, controls)
        PROVE  UNCHANGED vars
    BY <1>5 DEF Cpi
  <1>6. ASSUME NEW w \in Wallets, NEW asset \in Assets, Deposit(w, asset)
        PROVE  UNCHANGED vars
    BY <1>6 DEF Deposit
  <1>7. ASSUME SessionCommit \/ SessionAbort
        PROVE  UNCHANGED vars
    BY <1>7 DEF SessionCommit, SessionAbort
  <1> QED
    BY <1>1, <1>2, <1>3, <1>4, <1>5, <1>6, <1>7 DEF SessionInstruction

(***************************************************************************)
(* Every step of Sessions is a step of the authorities with every use.     *)
(***************************************************************************)
LEMMA SessionStepIsAny == [SessionNext]_sessionVars => [AnyNext]_vars
  BY SessionInstructionIsAny
  DEF SessionNext, SessionEndTx, SessionTick, sessionVars, vars, AnyNext, Next

(***************************************************************************)
(* So every behaviour of Sessions is one of the authorities.               *)
(***************************************************************************)
LEMMA SessionsIsAny == SessionSpec => AnySpec
  <1>1. SessionInit => Init
    BY DEF SessionInit
  <1> QED
    BY <1>1, SessionStepIsAny, PTL DEF SessionSpec, AnySpec

(***************************************************************************)
(* What is proved of the authorities holds with sessions: types, an Owner  *)
(* in every wallet, and no assertion accepted twice.                       *)
(***************************************************************************)
THEOREM SessionsKeepAuthorities ==
    SessionSpec => []TypeOK /\ []HasOwner /\ []NoReplay
  BY SessionsIsAny, TypeAny, OwnerAny, ReplayAny, PTL
-----------------------------------------------------------------------------
(* Typing. *)

(***************************************************************************)
(* The fields of an action; what a limit limits is an asset.               *)
(***************************************************************************)
LEMMA ActionFields ==
    ASSUME NEW c \in Actions
    PROVE  /\ c.amount \in Nat /\ c.spent \in Nat /\ c.window \in Nat
           /\ c.lastReset \in Nat /\ c.expiresAt \in Nat
           /\ c.kind \in LimitKinds \/ c.kind \in ListKinds
           /\ c.kind \in LimitKinds => c.target \in Assets
  BY DEF Actions, ActionsOn, LimitKinds, ListKinds

(***************************************************************************)
(* Charging an action changes its amount, or its count and its window.     *)
(***************************************************************************)
LEMMA ChargeTyping ==
    ASSUME NEW c \in Actions, NEW spend \in Nat, NEW t \in Nat,
           c.kind = "Recurring" => c.window > 0
    PROVE  /\ Charge(c, spend, t) \in Actions
           /\ SameTerms(c, Charge(c, spend, t))
  <1>1. /\ c.amount \in Nat /\ c.spent \in Nat /\ c.window \in Nat
        /\ c.lastReset \in Nat
    BY ActionFields
  <1>2. SpentSoFar(c, t) + spend \in Nat
    BY <1>1 DEF SpentSoFar
  <1>3. c.kind = "Recurring" => AlignedReset(c, t) \in Nat
    <2>1. c.window > 0 => (t \div c.window) * c.window \in Nat
      BY <1>1, Division, Multiples
    <2> QED
      BY <1>1, <2>1 DEF AlignedReset
  <1>4. SaturatingSub(c.amount, spend) \in Nat
    BY <1>1 DEF SaturatingSub
  <1>5. c \in ActionsOn(LimitKinds, Assets) \/ c \in ActionsOn(ListKinds, CallPrograms)
    BY DEF Actions
  <1>6. ASSUME NEW kinds, NEW targets, c \in ActionsOn(kinds, targets)
        PROVE  Charge(c, spend, t) \in ActionsOn(kinds, targets)
    BY <1>2, <1>3, <1>4, <1>6 DEF ActionsOn, Charge
  <1>7. Charge(c, spend, t) \in Actions
    BY <1>5, <1>6 DEF Actions
  <1>8. SameTerms(c, Charge(c, spend, t))
    BY <1>5 DEF ActionsOn, SameTerms, Charge
  <1> QED
    BY <1>7, <1>8

(***************************************************************************)
(* The Execute that is running: its session, its snapshots.                *)
(***************************************************************************)
LEMMA ExecutionTyping ==
    ASSUME SessionTypeOK, Running
    PROVE  /\ exec \in Execution
           /\ exec.session \in SessionIds
           /\ exec.session[1] \in Wallets
           /\ exec.programs \in Seq(CallPrograms)
           /\ exec.before \in Balances /\ exec.controlBefore \in Controls
           /\ exec.prev \in Nat /\ exec.grossOut \in Nat /\ exec.low \in Nat
           /\ vault[exec.session[1]] \in Balances
  <1>1. exec \in Execution
    BY DEF SessionTypeOK, Running, Idle
  <1>2. Amounts \subseteq Nat
    BY SessionsAssumption DEF Amounts
  <1>3. exec.session[1] \in Wallets
    BY <1>1 DEF Execution, SessionIds
  <1>4. vault[exec.session[1]] \in Balances
    BY <1>3 DEF SessionTypeOK
  <1> QED
    BY <1>1, <1>2, <1>3, <1>4 DEF Execution

(***************************************************************************)
(* What an Execute spent is a number of units, and for SOL no more than    *)
(* its gross outflow.                                                      *)
(***************************************************************************)
LEMMA SpendTyping ==
    ASSUME SessionTypeOK, ExecutionInv, Running
    PROVE  /\ \A asset \in Assets : NetSpent(asset) \in Nat /\ Dip(asset) \in Nat
           /\ \A asset \in Assets :
                NetSpent(asset) > 0 => vault[exec.session[1]] # exec.before
           /\ NetSpent("SOL") <= exec.grossOut
           /\ Dip("SOL") <= exec.grossOut
           /\ \A asset \in Assets \ {"SOL"} : Dip(asset) = NetSpent(asset)
           /\ \A c \in Actions : c.kind \in LimitKinds => Spend(c) \in Nat
  <1> DEFINE w == exec.session[1]
  <1>1. /\ exec.before \in Balances /\ vault[w] \in Balances
        /\ exec.prev \in Nat /\ exec.grossOut \in Nat /\ exec.low \in Nat
    BY ExecutionTyping
  <1>2. \A asset \in Assets : exec.before[asset] \in Nat /\ vault[w][asset] \in Nat
    BY <1>1, SessionsAssumption DEF Balances, Amounts
  <1>3. /\ exec.prev = vault[w]["SOL"]
        /\ exec.low <= exec.before["SOL"]
        /\ exec.before["SOL"] - exec.low <= exec.grossOut
        /\ exec.before["SOL"] - exec.prev <= exec.grossOut
    BY DEF ExecutionInv
  <1>4. "SOL" \in Assets
    BY ActionsAssumption
  <1>5. \A asset \in Assets : NetSpent(asset) \in Nat
    BY <1>2 DEF NetSpent, SaturatingSub
  <1>6. \A asset \in Assets : Dip(asset) \in Nat
    BY <1>1, <1>2, <1>3, <1>4, <1>5 DEF Dip
  <1>7. \A asset \in Assets : NetSpent(asset) > 0 => vault[w] # exec.before
    BY <1>2 DEF NetSpent, SaturatingSub
  <1>8. NetSpent("SOL") <= exec.grossOut
    BY <1>1, <1>2, <1>3, <1>4 DEF NetSpent, SaturatingSub
  <1>9. Dip("SOL") <= exec.grossOut
    BY <1>3 DEF Dip
  <1>10. \A asset \in Assets \ {"SOL"} : Dip(asset) = NetSpent(asset)
    BY DEF Dip
  <1>11. \A c \in Actions : c.kind \in LimitKinds => Spend(c) \in Nat
    BY <1>1, <1>5, ActionFields DEF Spend
  <1> QED
    BY <1>5, <1>6, <1>7, <1>8, <1>9, <1>10, <1>11

-----------------------------------------------------------------------------
(* The account of a session, outside of SessionCommit. *)

(***************************************************************************)
(* A step that leaves a session alone leaves its account alone.            *)
(***************************************************************************)
LEMMA UntouchedAccount ==
    ASSUME NEW s \in SessionIds, Accounted(s),
           session'[s] = session[s], granted'[s] = granted[s],
           spent'[s] = spent[s]
    PROVE  Accounted(s)'
  <1>1. GrantIsValid(s)' /\ Capped(s)' /\ Uncapped(s)'
    BY DEF Accounted, GrantIsValid, Capped, Uncapped, LifetimeAmounts
  <1>2. \A a, c : Descends(s, a, c) => Descends(s, a, c)'
    BY DEF Descends
  <1>3. Tracked(s)'
    BY <1>2 DEF Accounted, Tracked, IsSession
  <1>4. Timely(s)'
    BY DEF Accounted, Timely, IsSession, LimitedAssets
  <1> QED
    BY <1>1, <1>3, <1>4 DEF Accounted

(***************************************************************************)
(* So does one that closes or deletes it.                                  *)
(***************************************************************************)
LEMMA ClosedAccount ==
    ASSUME NEW s \in SessionIds, Accounted(s),
           session'[s].disc # "session", granted'[s] = granted[s],
           spent'[s] = spent[s]
    PROVE  Accounted(s)'
  <1>1. GrantIsValid(s)' /\ Capped(s)' /\ Uncapped(s)'
    BY DEF Accounted, GrantIsValid, Capped, Uncapped, LifetimeAmounts
  <1>2. Tracked(s)'
    BY DEF Tracked, IsSession
  <1>3. Timely(s)'
    BY DEF Accounted, Timely, IsSession, LimitedAssets
  <1> QED
    BY <1>1, <1>2, <1>3 DEF Accounted

(***************************************************************************)
(* A new session has spent nothing, and its actions are as granted.        *)
(***************************************************************************)
LEMMA NewAccount ==
    ASSUME NEW s \in SessionIds, NEW actions \in SUBSET Actions,
           ValidActions(actions),
           session'[s].actions = actions, session'[s].expiresAt \in Nat,
           granted'[s] = actions, spent'[s] = NothingSpent
    PROVE  Accounted(s)'
  <1>1. \A asset \in Assets :
          spent'[s][asset] =
            [total |-> 0, bucket |-> 0, inBucket |-> 0, dip |-> 0, last |-> 0]
    BY DEF NothingSpent
  <1>2. GrantIsValid(s)'
    BY DEF GrantIsValid, ValidActions
  <1>3. \A a \in actions : a.kind \in LimitKinds => a.target \in Assets
    BY ActionFields
  <1>4. Capped(s)' /\ Uncapped(s)'
    BY <1>1, <1>3, ActionFields
    DEF Capped, Uncapped, LifetimeAmounts, LimitKinds
  <1>5. ASSUME NEW a \in actions
        PROVE  Descends(s, a, a)'
    <2>1. SameTerms(a, a)
      BY DEF SameTerms
    <2>2. ASSUME a.kind = "Limit"
          PROVE  spent'[s][a.target].total + a.amount = a.amount
      BY <1>1, <1>3, <2>2, ActionFields DEF LimitKinds
    <2>3. ASSUME a.kind = "Recurring"
          PROVE  /\ spent'[s][a.target].inBucket <= a.spent
                 /\ a.spent <= a.amount
                 /\ Aligned(a, spent'[s][a.target].bucket)
      <3>1. /\ spent'[s][a.target].inBucket = 0
            /\ spent'[s][a.target].bucket = 0
        BY <1>1, <1>3, <2>3 DEF LimitKinds
      <3>2. a.spent = 0 /\ a.window > 0 /\ a.lastReset = 0
        BY <2>3 DEF ValidActions, FreshRecurring
      <3>3. a.amount \in Nat /\ a.window \in Nat
        BY ActionFields
      <3>4. 0 = 0 * a.window
        BY <3>3
      <3> QED
        BY <3>1, <3>2, <3>3, <3>4 DEF Aligned
    <2> QED
      BY <2>1, <2>2, <2>3 DEF Descends
  <1>6. Tracked(s)'
    BY <1>5 DEF Tracked
  <1>7. Timely(s)'
    <2>1. \A a \in actions : a.expiresAt \in Nat
      BY ActionFields
    <2>2. ASSUME NEW asset \in LimitedAssets(s)'
          PROVE  /\ asset \in Assets
                 /\ spent'[s][asset].last = 0
      <3>1. asset \in Assets
        BY <1>3 DEF LimitedAssets, Limits
      <3> QED
        BY <1>1, <3>1
    <2> QED
      BY <2>1, <2>2 DEF Timely, Limits
  <1> QED
    BY <1>2, <1>4, <1>6, <1>7 DEF Accounted

-----------------------------------------------------------------------------
(* The account of a session in SessionCommit. *)

(***************************************************************************)
(* What is written back for one action.                                    *)
(***************************************************************************)
After(c) == IF c.kind \in LimitKinds THEN Charge(c, Spend(c), slot) ELSE c

(***************************************************************************)
(* The session of the Execute that commits.                                *)
(***************************************************************************)
LEMMA CommitEffect ==
    ASSUME SessionInv, SessionCommit, NEW s, s = exec.session
    PROVE  /\ Running /\ s \in SessionIds /\ IsSession(s) /\ SessionAlive(s)
           /\ session[s] \in SessionData
           /\ granted[s] \in SUBSET Actions
           /\ session'[s] = [session[s] EXCEPT !.actions = Charged(s)]
           /\ Charged(s) = {After(c) : c \in session[s].actions}
           /\ granted' = granted
           /\ spent'[s] = Record(s)
           /\ \A r \in SessionIds \ {s} :
                session'[r] = session[r] /\ spent'[r] = spent[r]
           /\ \A c \in session[s].actions :
                c.kind \in LimitKinds => Allows(c, Spend(c), slot)
  <1>1. Running /\ s \in SessionIds
    BY ExecutionTyping DEF SessionInv, SessionCommit
  <1>2. IsSession(s) /\ SessionAlive(s)
    BY <1>1 DEF SessionInv, ExecutionInv
  <1>3. /\ session' = [session EXCEPT ![s].actions = Charged(s)]
        /\ spent' = [spent EXCEPT ![s] = Record(s)]
        /\ granted' = granted /\ WithinLimits(s)
    BY DEF SessionCommit
  <1>4. /\ session \in [SessionIds -> SessionData]
        /\ spent \in [SessionIds -> [Assets -> Spending]]
        /\ granted \in [SessionIds -> SUBSET Actions]
    BY DEF SessionInv, SessionTypeOK
  <1>5. session[s] \in SessionData /\ granted[s] \in SUBSET Actions
    BY <1>1, <1>4
  <1>6. /\ session'[s] = [session[s] EXCEPT !.actions = Charged(s)]
        /\ spent'[s] = Record(s)
        /\ \A r \in SessionIds \ {s} :
             session'[r] = session[r] /\ spent'[r] = spent[r]
    BY <1>1, <1>3, <1>4
  <1>7. Charged(s) = {After(c) : c \in session[s].actions}
    BY DEF Charged, After
  <1>8. \A c \in session[s].actions :
          c.kind \in LimitKinds => Allows(c, Spend(c), slot)
    BY <1>3 DEF WithinLimits, Limits
  <1> QED
    BY <1>1, <1>2, <1>3, <1>5, <1>6, <1>7, <1>8

(***************************************************************************)
(* The history takes the window of a recurring limit from the session, and *)
(* it is the window that was granted.                                      *)
(***************************************************************************)
LEMMA WindowAsGranted ==
    ASSUME NEW s \in SessionIds, GrantIsValid(s), Tracked(s), IsSession(s),
           NEW a \in granted[s], a.kind = "Recurring"
    PROVE  WindowOf(s, a.target) = a.window
  <1> DEFINE P(c) == c.kind = "Recurring" /\ c.target = a.target
  <1>1. PICK c \in session[s].actions : Descends(s, a, c)
    BY DEF Tracked
  <1>2. P(c)
    BY <1>1 DEF Descends, SameTerms
  <1>3. ASSUME NEW d \in session[s].actions, P(d)
        PROVE  d.window = a.window
    <2>1. PICK b \in granted[s] : Descends(s, b, d)
      BY DEF Tracked
    <2>2. b.kind = "Recurring" /\ b.target = a.target /\ d.window = b.window
      BY <1>3, <2>1 DEF Descends, SameTerms
    <2>3. a = b
      BY <2>2 DEF GrantIsValid, LimitKinds
    <2> QED
      BY <2>2, <2>3
  <1>4. (CHOOSE d \in session[s].actions : P(d)).window = a.window
    BY <1>1, <1>2, <1>3
  <1> QED
    BY <1>1, <1>2, <1>4 DEF WindowOf

(***************************************************************************)
(* What the history says of an asset with a limit of each kind.            *)
(***************************************************************************)
LEMMA RecordOf ==
    ASSUME NEW s, NEW a \in granted[s], a.target \in Assets
    PROVE  LET r == spent[s][a.target]
               n == Record(s)[a.target]
               b == Bucket(slot, WindowOf(s, a.target))
               net == NetSpent(a.target)
           IN  /\ a.kind = "Limit" => n.total = r.total + net
               /\ a.kind = "Recurring" =>
                    /\ n.bucket = IF net > 0 THEN b ELSE r.bucket
                    /\ n.inBucket =
                         IF net > 0
                         THEN net + (IF r.bucket = b THEN r.inBucket ELSE 0)
                         ELSE r.inBucket
               /\ a.kind = "MaxPerTx" =>
                    n.dip = Larger(r.dip, Dip(a.target))
               /\ a.kind \in LimitKinds =>
                    n.last = IF net > 0 THEN slot ELSE r.last
  BY DEF Record, LimitedAssets, Limits

(***************************************************************************)
(* A lifetime limit loses what the history gains.                          *)
(***************************************************************************)
LEMMA LimitDescends ==
    ASSUME TypeOK, SessionInv, SessionCommit, NEW s, s = exec.session,
           NEW a \in granted[s], NEW c \in session[s].actions,
           Descends(s, a, c), a.kind = "Limit",
           NEW d, d = After(c)
    PROVE  spent'[s][a.target].total + d.amount = a.amount
  <1> DEFINE net == NetSpent(a.target)
             r == spent[s][a.target]
  <1>1. /\ Running /\ s \in SessionIds /\ session[s] \in SessionData
        /\ granted[s] \in SUBSET Actions /\ spent'[s] = Record(s)
        /\ c.kind \in LimitKinds => Allows(c, Spend(c), slot)
    BY CommitEffect
  <1>2. a \in Actions /\ c \in Actions /\ a.target \in Assets
    BY <1>1, ActionFields DEF SessionData, LimitKinds
  <1>3. c.kind = "Limit" /\ c.target = a.target /\ r.total + c.amount = a.amount
    BY DEF Descends, SameTerms
  <1>4. Spend(c) = net /\ net \in Nat
    BY <1>1, <1>2, <1>3, SpendTyping DEF Spend, SessionInv
  <1>5. d = Charge(c, net, slot) /\ Allows(c, net, slot)
    BY <1>1, <1>3, <1>4 DEF After, LimitKinds
  <1>6. spent'[s][a.target].total = r.total + net
    BY <1>1, <1>2, RecordOf
  <1>7. c.amount \in Nat /\ r.total \in Nat
    BY <1>1, <1>2, ActionFields DEF SessionInv, SessionTypeOK, Spending
  <1>8. d.amount = c.amount - net
    <2>1. CASE net = 0
      BY <1>5, <1>7, <2>1 DEF Charge
    <2>2. CASE net # 0
      <3>1. ~ IsExpired(c, slot) /\ net <= c.amount
        BY <1>3, <1>4, <1>5, <2>2 DEF Allows
      <3>2. d.amount = SaturatingSub(c.amount, net)
        BY <1>2, <1>3, <1>5, <2>2, <3>1 DEF Charge, Actions, ActionsOn
      <3> QED
        BY <1>4, <1>7, <3>1, <3>2 DEF SaturatingSub
    <2> QED
      BY <2>1, <2>2
  <1> HIDE DEF net, r
  <1> QED
    BY <1>3, <1>4, <1>6, <1>7, <1>8 DEF r

(***************************************************************************)
(* A recurring limit keeps up with the history: a new bucket is never      *)
(* later than the window, and the count of the window covers the bucket.   *)
(***************************************************************************)
LEMMA RecurringDescends ==
    ASSUME TypeOK, SessionInv, SessionCommit, NEW s, s = exec.session,
           NEW a \in granted[s], NEW c \in session[s].actions,
           Descends(s, a, c), a.kind = "Recurring",
           NEW d, d = After(c)
    PROVE  /\ d.amount = a.amount
           /\ spent'[s][a.target].inBucket <= d.spent
           /\ d.spent <= d.amount
           /\ Aligned(d, spent'[s][a.target].bucket)
  <1> DEFINE net == NetSpent(a.target)
             r == spent[s][a.target]
             w == c.window
             b == Bucket(slot, w)
  <1>1. /\ Running /\ s \in SessionIds /\ session[s] \in SessionData
        /\ IsSession(s)
        /\ granted[s] \in SUBSET Actions /\ spent'[s] = Record(s)
        /\ c.kind \in LimitKinds => Allows(c, Spend(c), slot)
    BY CommitEffect
  <1>2. a \in Actions /\ c \in Actions /\ a.target \in Assets
    BY <1>1, ActionFields DEF SessionData, LimitKinds
  <1>3. /\ c.kind = "Recurring" /\ c.target = a.target /\ c.window = a.window
        /\ c.amount = a.amount /\ r.inBucket <= c.spent /\ c.spent <= c.amount
        /\ Aligned(c, r.bucket)
    BY DEF Descends, SameTerms
  <1>4. Spend(c) = net /\ net \in Nat
    BY <1>1, <1>2, <1>3, SpendTyping DEF Spend, SessionInv
  <1>5. d = Charge(c, net, slot) /\ Allows(c, net, slot)
    BY <1>1, <1>3, <1>4 DEF After, LimitKinds
  <1>6. GrantIsValid(s) /\ Tracked(s)
    BY <1>1 DEF SessionInv, Accounted
  <1>7. w \in Nat \ {0}
    BY <1>2, <1>3, <1>6, ActionFields DEF GrantIsValid, FreshRecurring
  <1>8. /\ spent'[s][a.target].bucket = IF net > 0 THEN b ELSE r.bucket
        /\ spent'[s][a.target].inBucket =
             IF net > 0 THEN net + (IF r.bucket = b THEN r.inBucket ELSE 0)
             ELSE r.inBucket
    BY <1>1, <1>2, <1>3, <1>6, RecordOf, WindowAsGranted
  <1>9. /\ c.amount \in Nat /\ c.spent \in Nat /\ c.lastReset \in Nat
        /\ r.inBucket \in Nat /\ r.bucket \in Nat /\ slot \in Nat
    BY <1>1, <1>2, ActionFields, ConstantsAssumption
    DEF SessionInv, SessionTypeOK, Spending, TypeOK
  <1>10. CASE net = 0
    <2>1. d = c
      BY <1>5, <1>10 DEF Charge
    <2> QED
      BY <1>3, <1>8, <1>10, <2>1
  <1>11. CASE net # 0
    <2>1. ~ IsExpired(c, slot) /\ SpentSoFar(c, slot) + net <= c.amount
      BY <1>3, <1>4, <1>5, <1>11 DEF Allows
    <2>2. d = [c EXCEPT !.spent = SpentSoFar(c, slot) + net,
                        !.lastReset = AlignedReset(c, slot)]
      BY <1>3, <1>5, <1>11, <2>1 DEF Charge
    <2>3. /\ d.amount = c.amount /\ d.window = w
          /\ d.spent = SpentSoFar(c, slot) + net
          /\ d.lastReset = AlignedReset(c, slot)
      BY <1>2, <2>2 DEF Actions, ActionsOn
    <2>4. PICK k \in Nat : c.lastReset = k * w /\ r.bucket <= k
      BY <1>3 DEF Aligned
    <2>5. /\ spent'[s][a.target].bucket = b
          /\ spent'[s][a.target].inBucket =
               net + (IF r.bucket = b THEN r.inBucket ELSE 0)
      BY <1>4, <1>8, <1>11
    <2> HIDE DEF net, r, b, w
    <2>6. CASE WindowElapsed(c, slot)
      <3>1. r.bucket # b /\ b <= slot \div w
        BY <1>7, <1>9, <2>4, <2>6, ElapsedIsLater DEF WindowElapsed, b, w
      <3>2. SpentSoFar(c, slot) = 0 /\ d.lastReset = (slot \div w) * w
        BY <2>3, <2>6 DEF SpentSoFar, AlignedReset, w
      <3>3. spent'[s][a.target].inBucket <= d.spent
        BY <1>4, <2>3, <2>5, <3>1, <3>2
      <3>4. slot \div w \in Nat
        BY <1>7, <1>9, Division
      <3>5. Aligned(d, b)
        BY <2>3, <3>1, <3>2, <3>4 DEF Aligned
      <3> QED
        BY <1>3, <2>1, <2>3, <2>5, <3>3, <3>5
    <2>7. CASE ~ WindowElapsed(c, slot)
      <3>1. b <= k
        BY <1>7, <1>9, <2>4, <2>7, OpenIsCurrent DEF WindowElapsed, b, w
      <3>2. SpentSoFar(c, slot) = c.spent /\ d.lastReset = k * w
        BY <2>3, <2>4, <2>7 DEF SpentSoFar, AlignedReset
      <3>3. spent'[s][a.target].inBucket <= d.spent
        BY <1>3, <1>4, <1>9, <2>3, <2>5, <3>2 DEF r
      <3>4. Aligned(d, b)
        BY <2>3, <3>1, <3>2 DEF Aligned
      <3> QED
        BY <1>3, <2>1, <2>3, <2>5, <3>3, <3>4
    <2> QED
      BY <2>6, <2>7
  <1> QED
    BY <1>4, <1>10, <1>11

(***************************************************************************)
(* What is written back descends from what was granted.                    *)
(***************************************************************************)
LEMMA AfterDescends ==
    ASSUME TypeOK, SessionInv, SessionCommit, NEW s, s = exec.session,
           NEW a \in granted[s], NEW c \in session[s].actions,
           Descends(s, a, c), NEW d, d = After(c)
    PROVE  Descends(s, a, d)' /\ d \in Actions
  <1>1. /\ Running /\ s \in SessionIds /\ session[s] \in SessionData
        /\ IsSession(s) /\ granted[s] \in SUBSET Actions
    BY CommitEffect
  <1>2. a \in Actions /\ c \in Actions
    BY <1>1 DEF SessionData
  <1>3. SameTerms(a, c)
    BY DEF Descends
  <1>4. c.kind \in LimitKinds => Spend(c) \in Nat
    BY <1>1, <1>2, SpendTyping DEF SessionInv
  <1>5. c.kind = "Recurring" => c.window > 0
    <2>1. GrantIsValid(s)
      BY <1>1 DEF SessionInv, Accounted
    <2> QED
      BY <1>3, <2>1 DEF GrantIsValid, FreshRecurring, SameTerms
  <1>6. slot \in Nat
    BY ConstantsAssumption DEF TypeOK
  <1>7. d \in Actions /\ SameTerms(c, d)
    <2>1. CASE c.kind \in LimitKinds
      BY <1>2, <1>4, <1>5, <1>6, <2>1, ChargeTyping DEF After
    <2>2. CASE c.kind \notin LimitKinds
      BY <1>2, <2>2 DEF After, SameTerms
    <2> QED
      BY <2>1, <2>2
  <1>8. SameTerms(a, d)
    BY <1>3, <1>7 DEF SameTerms
  <1>9. a.kind = "Limit" =>
          spent'[s][a.target].total + d.amount = a.amount
    BY LimitDescends
  <1>10. a.kind = "Recurring" =>
           /\ d.amount = a.amount
           /\ spent'[s][a.target].inBucket <= d.spent
           /\ d.spent <= d.amount
           /\ Aligned(d, spent'[s][a.target].bucket)
    BY RecurringDescends
  <1>11. a.kind \notin {"Limit", "Recurring"} => d = a
    <2>1. ASSUME a.kind \notin {"Limit", "Recurring"}
          PROVE  c = a /\ d = c
      BY <1>3, <2>1 DEF Descends, SameTerms, After, Charge
    <2> QED
      BY <2>1
  <1> QED
    BY <1>7, <1>8, <1>9, <1>10, <1>11 DEF Descends

(***************************************************************************)
(* The session still has an action for each that was granted, and no more. *)
(***************************************************************************)
LEMMA CommitTracks ==
    ASSUME TypeOK, SessionInv, SessionCommit, NEW s, s = exec.session
    PROVE  Tracked(s)' /\ Charged(s) \in SUBSET Actions
  <1>1. /\ s \in SessionIds /\ IsSession(s) /\ session[s] \in SessionData
        /\ session'[s] = [session[s] EXCEPT !.actions = Charged(s)]
        /\ Charged(s) = {After(c) : c \in session[s].actions}
        /\ granted' = granted
    BY CommitEffect
  <1>2. session'[s].actions = {After(c) : c \in session[s].actions}
    BY <1>1 DEF SessionData
  <1>3. Tracked(s)
    BY <1>1 DEF SessionInv, Accounted
  <1>4. ASSUME NEW a \in granted[s]
        PROVE  \E d \in session'[s].actions : Descends(s, a, d)'
    <2>1. PICK c \in session[s].actions : Descends(s, a, c)
      BY <1>1, <1>3 DEF Tracked
    <2>2. PICK d : d = After(c)
      OBVIOUS
    <2>3. Descends(s, a, d)'
      BY <2>1, <2>2, AfterDescends
    <2> QED
      BY <1>2, <2>2, <2>3
  <1>5. ASSUME NEW d \in session'[s].actions
        PROVE  d \in Actions /\ \E a \in granted[s] : Descends(s, a, d)'
    <2>1. PICK c \in session[s].actions : d = After(c)
      BY <1>2
    <2>2. PICK a \in granted[s] : Descends(s, a, c)
      BY <1>1, <1>3 DEF Tracked
    <2>3. Descends(s, a, d)' /\ d \in Actions
      BY <2>1, <2>2, AfterDescends
    <2> QED
      BY <2>3
  <1>6. Tracked(s)'
    BY <1>1, <1>4, <1>5 DEF Tracked
  <1> QED
    BY <1>1, <1>2, <1>5, <1>6

(***************************************************************************)
(* The caps still hold: those of the lifetime and of the window because    *)
(* the session's actions keep count, that of the transaction because the   *)
(* vault was never drawn down by more than the gross outflow.              *)
(***************************************************************************)
LEMMA CommitCaps ==
    ASSUME TypeOK, SessionInv, SessionCommit, NEW s, s = exec.session
    PROVE  Capped(s)'
  <1>1. /\ Running /\ s \in SessionIds /\ IsSession(s)
        /\ session[s] \in SessionData /\ granted[s] \in SUBSET Actions
        /\ session'[s] = [session[s] EXCEPT !.actions = Charged(s)]
        /\ granted' = granted /\ spent'[s] = Record(s)
        /\ \A c \in session[s].actions :
             c.kind \in LimitKinds => Allows(c, Spend(c), slot)
    BY CommitEffect
  <1>2. Tracked(s)' /\ Charged(s) \in SUBSET Actions
    BY CommitTracks
  <1>3. session'[s].actions \in SUBSET Actions /\ IsSession(s)'
    BY <1>1, <1>2 DEF SessionData, IsSession
  <1>4. Tracked(s) /\ Capped(s)
    BY <1>1 DEF SessionInv, Accounted
  <1>5. ASSUME NEW a \in granted[s], a.kind = "Limit"
        PROVE  spent'[s][a.target].total <= a.amount
    <2>1. PICK d \in session'[s].actions : Descends(s, a, d)'
      BY <1>1, <1>2, <1>3 DEF Tracked
    <2>2. spent'[s][a.target].total + d.amount = a.amount
      BY <1>5, <2>1 DEF Descends
    <2>3. d.amount \in Nat /\ a.amount \in Nat /\ a.target \in Assets
      BY <1>1, <1>3, <1>5, ActionFields DEF LimitKinds
    <2>4. spent'[s][a.target].total \in Int
      <3>1. NetSpent(a.target) \in Nat /\ spent[s][a.target].total \in Nat
        BY <1>1, <2>3, SpendTyping DEF SessionInv, SessionTypeOK, Spending
      <3>2. spent'[s][a.target].total
              = spent[s][a.target].total + NetSpent(a.target)
        BY <1>1, <1>5, <2>3, RecordOf
      <3> QED
        BY <3>1, <3>2
    <2> QED
      BY <2>2, <2>3, <2>4
  <1>6. ASSUME NEW a \in granted[s], a.kind = "Recurring"
        PROVE  spent'[s][a.target].inBucket <= a.amount
    <2>1. PICK d \in session'[s].actions : Descends(s, a, d)'
      BY <1>1, <1>2, <1>3 DEF Tracked
    <2>2. /\ spent'[s][a.target].inBucket <= d.spent
          /\ d.spent <= d.amount /\ d.amount = a.amount
      BY <1>6, <2>1 DEF Descends
    <2>3. d.amount \in Nat /\ d.spent \in Nat /\ a.target \in Assets
      BY <1>1, <1>3, <1>6, ActionFields DEF LimitKinds
    <2>4. spent'[s][a.target].inBucket \in Int
      <3>1. /\ NetSpent(a.target) \in Nat
            /\ spent[s][a.target].inBucket \in Nat
        BY <1>1, <2>3, SpendTyping DEF SessionInv, SessionTypeOK, Spending
      <3> QED
        BY <1>1, <1>6, <2>3, <3>1, RecordOf
    <2> QED
      BY <2>2, <2>3, <2>4
  <1>7. ASSUME NEW a \in granted[s], a.kind = "MaxPerTx"
        PROVE  spent'[s][a.target].dip <= a.amount
    <2>1. a \in session[s].actions
      BY <1>1, <1>4, <1>7 DEF Tracked, Descends
    <2>2. Allows(a, Spend(a), slot)
      BY <1>1, <1>7, <2>1 DEF LimitKinds
    <2>3. a.amount \in Nat /\ a.target \in Assets /\ Spend(a) \in Nat
      BY <1>1, <1>7, ActionFields, SpendTyping DEF SessionInv, LimitKinds
    <2>4. Spend(a) <= a.amount
      BY <1>7, <2>2, <2>3 DEF Allows
    <2>5. Dip(a.target) <= Spend(a) /\ Dip(a.target) \in Nat
      BY <1>1, <1>7, <2>3, SpendTyping DEF Spend, SessionInv
    <2>6. spent'[s][a.target].dip = Larger(spent[s][a.target].dip, Dip(a.target))
      BY <1>1, <1>7, <2>3, RecordOf
    <2>7. spent[s][a.target].dip <= a.amount
      BY <1>4, <1>7 DEF Capped
    <2> QED
      BY <2>3, <2>4, <2>5, <2>6, <2>7 DEF Larger
  <1> QED
    BY <1>1, <1>5, <1>6, <1>7 DEF Capped

(***************************************************************************)
(* An Execute that takes something commits only while the session, every   *)
(* limit on what it takes and some entry of its whitelist are unexpired.   *)
(***************************************************************************)
LEMMA CommitIsTimely ==
    ASSUME TypeOK, SessionInv, SessionCommit, NEW s, s = exec.session
    PROVE  Timely(s)'
  <1>1. /\ Running /\ s \in SessionIds /\ IsSession(s) /\ SessionAlive(s)
        /\ session[s] \in SessionData /\ granted[s] \in SUBSET Actions
        /\ session'[s] = [session[s] EXCEPT !.actions = Charged(s)]
        /\ granted' = granted /\ spent'[s] = Record(s)
        /\ \A c \in session[s].actions :
             c.kind \in LimitKinds => Allows(c, Spend(c), slot)
    BY CommitEffect
  <1>2. /\ session'[s].expiresAt = session[s].expiresAt
        /\ session[s].expiresAt \in Nat /\ slot \in Nat
    BY <1>1, ConstantsAssumption DEF SessionData, TypeOK
  <1>3. Tracked(s) /\ Timely(s)
    BY <1>1 DEF SessionInv, Accounted
  <1> DEFINE lists == {a \in granted[s] : a.kind = "Whitelist"}
             Ended(a, last) == a.expiresAt # 0 /\ last > a.expiresAt
  <1>4. ASSUME NEW asset \in LimitedAssets(s)
        PROVE  LET last == spent'[s][asset].last
               IN  /\ last <= session[s].expiresAt
                   /\ \A a \in Limits(granted[s]) :
                        a.target = asset => ~ Ended(a, last)
                   /\ lists # {} => \E a \in lists : ~ Ended(a, last)
    <2> DEFINE net == NetSpent(asset)
    <2>1. asset \in Assets
      BY <1>1, ActionFields DEF LimitedAssets, Limits
    <2>2. spent'[s][asset].last = IF net > 0 THEN slot ELSE spent[s][asset].last
      BY <1>1, <2>1 DEF Record
    <2>3. net \in Nat
      BY <1>1, <2>1, SpendTyping DEF SessionInv
    <2>4. CASE net = 0
      BY <1>1, <1>3, <2>2, <2>4 DEF Timely
    <2>5. CASE net > 0
      <3>1. spent'[s][asset].last = slot
        BY <2>2, <2>5
      <3>2. slot <= session[s].expiresAt
        BY <1>1, <1>2 DEF SessionAlive
      <3>3. ASSUME NEW a \in Limits(granted[s]), a.target = asset
            PROVE  ~ Ended(a, slot)
        <4>1. a \in granted[s] /\ a.kind \in LimitKinds
          BY <3>3 DEF Limits
        <4>2. PICK c \in session[s].actions : Descends(s, a, c)
          BY <1>1, <1>3, <4>1 DEF Tracked
        <4>3. /\ c.kind \in LimitKinds /\ c.target = asset
              /\ c.expiresAt = a.expiresAt
          BY <3>3, <4>1, <4>2 DEF Descends, SameTerms
        <4>4. Allows(c, Spend(c), slot)
          BY <1>1, <4>3
        <4>5. Spend(c) > 0
          <5>1. NetSpent("SOL") <= exec.grossOut /\ exec.grossOut \in Nat
            BY <1>1, SpendTyping, ExecutionTyping DEF SessionInv
          <5> QED
            BY <2>3, <2>5, <4>3, <5>1 DEF Spend
        <4>6. ~ IsExpired(c, slot)
          BY <4>4, <4>5 DEF Allows
        <4> QED
          BY <4>3, <4>6 DEF IsExpired
      <3>4. ASSUME lists # {}
            PROVE  \E a \in lists : ~ Ended(a, slot)
        <4>1. PICK a \in granted[s] : a.kind = "Whitelist"
          BY <3>4
        <4>2. \A c : c.kind = "Whitelist" =>
                (c \in session[s].actions <=> c \in granted[s])
          BY <1>1, <1>3 DEF Tracked, Descends, SameTerms
        <4>3. MayCallSomething(s)
          BY <1>1, <2>1, <2>5, SpendTyping DEF SessionInv, ExecutionInv
        <4>4. PICK c \in session[s].actions :
                c.kind = "Whitelist" /\ ~ IsExpired(c, slot)
          BY <4>1, <4>2, <4>3 DEF MayCallSomething
        <4> QED
          BY <4>2, <4>4 DEF IsExpired
      <3> QED
        BY <3>1, <3>2, <3>3, <3>4
    <2> QED
      BY <2>3, <2>4, <2>5
  <1>5. LimitedAssets(s)' = LimitedAssets(s)
    BY <1>1 DEF LimitedAssets
  <1> QED
    BY <1>1, <1>2, <1>4, <1>5 DEF Timely

(***************************************************************************)
(* Committing keeps the account of the session.                            *)
(***************************************************************************)
LEMMA CommitAccount ==
    ASSUME TypeOK, SessionInv, SessionCommit, NEW s, s = exec.session
    PROVE  Accounted(s)'
  <1>1. /\ Running /\ s \in SessionIds /\ granted' = granted
        /\ spent'[s] = Record(s)
    BY CommitEffect
  <1>2. GrantIsValid(s)' /\ Uncapped(s)
    BY <1>1 DEF SessionInv, Accounted, GrantIsValid
  <1>3. Uncapped(s)'
    <2>1. ASSUME NEW asset \in Assets, LifetimeAmounts(granted[s], asset) = {}
          PROVE  spent'[s][asset].total = 0
      <3>1. ~ \E a \in granted[s] : a.kind = "Limit" /\ a.target = asset
        BY <2>1 DEF LifetimeAmounts
      <3> QED
        BY <1>1, <3>1 DEF Record
    <2> QED
      BY <1>1, <2>1 DEF Uncapped
  <1> QED
    BY <1>2, <1>3, CommitTracks, CommitCaps, CommitIsTimely DEF Accounted

-----------------------------------------------------------------------------
(* Every step keeps the invariant. *)

(***************************************************************************)
(* Committing keeps the types.                                             *)
(***************************************************************************)
LEMMA CommitTyping ==
    ASSUME TypeOK, SessionInv, SessionCommit
    PROVE  SessionTypeOK'
  <1> DEFINE s == exec.session
  <1>1. /\ Running /\ s \in SessionIds /\ session[s] \in SessionData
        /\ IsSession(s) /\ granted[s] \in SUBSET Actions /\ granted' = granted
    BY CommitEffect
  <1>2. SessionTypeOK /\ ExecutionInv /\ GrantIsValid(s) /\ Tracked(s)
    BY <1>1 DEF SessionInv, Accounted
  <1>3. /\ session' = [session EXCEPT ![s].actions = Charged(s)]
        /\ spent' = [spent EXCEPT ![s] = Record(s)]
        /\ exec' = Idle
        /\ UNCHANGED <<sclosing, vault, control>>
    BY DEF SessionCommit
  <1>4. session' \in [SessionIds -> SessionData]
    <2>1. Charged(s) \in SUBSET Actions
      BY CommitTracks
    <2>2. [session[s] EXCEPT !.actions = Charged(s)] \in SessionData
      BY <1>1, <2>1 DEF SessionData
    <2> QED
      BY <1>2, <1>3, <2>2 DEF SessionTypeOK
  <1>5. Record(s) \in [Assets -> Spending]
    <2> SUFFICES ASSUME NEW asset \in Assets
                 PROVE  Record(s)[asset] \in Spending
      BY DEF Record
    <2>1. /\ spent[s][asset].total \in Nat /\ spent[s][asset].bucket \in Nat
          /\ spent[s][asset].inBucket \in Nat /\ spent[s][asset].dip \in Nat
          /\ spent[s][asset].last \in Nat
      BY <1>1, <1>2 DEF SessionTypeOK, Spending
    <2>2. NetSpent(asset) \in Nat /\ Dip(asset) \in Nat /\ slot \in Nat
      BY <1>1, <1>2, SpendTyping, ConstantsAssumption DEF TypeOK
    <2>3. ASSUME NEW a \in granted[s], a.kind = "Recurring", a.target = asset
          PROVE  Bucket(slot, WindowOf(s, asset)) \in Nat
      <3>1. WindowOf(s, asset) = a.window
        BY <1>1, <1>2, <2>3, WindowAsGranted
      <3>2. a.window \in Nat \ {0}
        BY <1>1, <1>2, <2>3, ActionFields DEF GrantIsValid, FreshRecurring
      <3> QED
        BY <2>2, <3>1, <3>2, BucketBounds
    <2>4. Larger(spent[s][asset].dip, Dip(asset)) \in Nat
      BY <2>1, <2>2 DEF Larger
    <2>5. /\ Record(s)[asset].total \in Nat
          /\ Record(s)[asset].bucket \in Nat
          /\ Record(s)[asset].inBucket \in Nat
          /\ Record(s)[asset].dip \in Nat
          /\ Record(s)[asset].last \in Nat
      BY <2>1, <2>2, <2>3, <2>4 DEF Record
    <2>6. Record(s)[asset] =
            [total |-> Record(s)[asset].total,
             bucket |-> Record(s)[asset].bucket,
             inBucket |-> Record(s)[asset].inBucket,
             dip |-> Record(s)[asset].dip,
             last |-> Record(s)[asset].last]
      BY DEF Record
    <2> QED
      BY <2>5, <2>6 DEF Spending
  <1> HIDE DEF s
  <1> QED
    BY <1>2, <1>3, <1>4, <1>5, <1>1 DEF SessionTypeOK

(***************************************************************************)
(* An instruction that ends a call sequence, or a step between two         *)
(* instructions, leaves no Execute running.                                *)
(***************************************************************************)
LEMMA NotRunning ==
    ASSUME exec' = Idle \/ (~ Running /\ exec' = exec)
    PROVE  ExecutionInv'
  BY DEF ExecutionInv, Running, Idle

(***************************************************************************)
(* What comes before the loop checks every call that it will make.         *)
(***************************************************************************)
LEMMA ExecuteKeeps ==
    ASSUME TypeOK, SessionInv, NEW w \in Wallets, NEW s \in SessionIds,
           NEW signer, NEW stackHeight, NEW programs \in CallLists,
           SessionExecute(w, s, signer, stackHeight, programs)
    PROVE  SessionInv'
  <1> DEFINE new == [running |-> TRUE, session |-> s, programs |-> programs,
                     before |-> vault[w], controlBefore |-> control[w],
                     prev |-> vault[w]["SOL"], grossOut |-> 0,
                     low |-> vault[w]["SOL"]]
  <1>1. /\ w = s[1] /\ IsSession(s) /\ SessionAlive(s)
        /\ HasActions(s) => \A i \in DOMAIN programs :
                              MayCall(session[s].actions, programs[i], slot)
        /\ exec' = new
        /\ UNCHANGED <<vars, session, sclosing, vault, control, granted, spent>>
    BY DEF SessionExecute, BelongsTo
  <1>2. /\ vault[w] \in Balances /\ control[w] \in Controls
        /\ vault[w]["SOL"] \in Amounts /\ vault[w]["SOL"] \in Nat
    BY SessionsAssumption, ActionsAssumption
    DEF SessionInv, SessionTypeOK, Balances, Amounts
  <1>3. programs \in Seq(CallPrograms)
    <2>1. PICK n \in 0 .. MaxInner : programs \in [1 .. n -> CallPrograms]
      BY DEF CallLists
    <2>2. n \in Nat
      BY <2>1, SessionsAssumption
    <2> QED
      BY <2>1, <2>2, SeqDef
  <1>4. new \in Execution
    BY <1>2, <1>3 DEF Execution
  <1>5. SessionTypeOK'
    BY <1>1, <1>4 DEF SessionInv, SessionTypeOK
  <1>6. \A r \in SessionIds : Accounted(r)'
    BY <1>1, UntouchedAccount DEF SessionInv
  <1>7. \A i \in DOMAIN programs :
          MayCall(session[s].actions, programs[i], slot)
    BY <1>1 DEF HasActions, MayCall, Listed
  <1>8. slot' = slot
    BY <1>1 DEF vars
  <1>9. ExecutionInv'
    BY <1>1, <1>2, <1>7, <1>8 DEF ExecutionInv, IsSession, SessionAlive
  <1> QED
    BY <1>5, <1>6, <1>9 DEF SessionInv

(***************************************************************************)
(* A call keeps the gross outflow ahead of the drawdown, and has passed    *)
(* the lists of the session.                                               *)
(***************************************************************************)
LEMMA CpiKeeps ==
    ASSUME TypeOK, SessionInv, Running, NEW balances \in Balances,
           NEW controls \in Controls, Cpi(balances, controls)
    PROVE  SessionInv'
  <1>0. PICK s, w, post : s = exec.session /\ w = s[1] /\ post = balances["SOL"]
    OBVIOUS
  <1>1. /\ exec \in Execution /\ s \in SessionIds /\ w \in Wallets
        /\ exec.programs \in Seq(CallPrograms)
        /\ exec.prev \in Nat /\ exec.grossOut \in Nat /\ exec.low \in Nat
        /\ exec.before \in Balances
    BY <1>0, ExecutionTyping DEF SessionInv
  <1>2. /\ exec.programs # <<>>
        /\ vault' = [vault EXCEPT ![w] = balances]
        /\ control' = [control EXCEPT ![w] = controls]
        /\ exec' = [exec EXCEPT !.programs = Tail(@), !.prev = post,
                                !.grossOut = GrossOut(post),
                                !.low = IF post < @ THEN post ELSE @]
        /\ UNCHANGED <<vars, session, sclosing, granted, spent>>
    BY <1>0 DEF Cpi
  <1>3. /\ IsSession(s) /\ SessionAlive(s)
        /\ \A i \in DOMAIN exec.programs :
             MayCall(session[s].actions, exec.programs[i], slot)
        /\ exec.low <= exec.prev /\ exec.low <= exec.before["SOL"]
        /\ exec.before["SOL"] - exec.low <= exec.grossOut
        /\ exec.before["SOL"] - exec.prev <= exec.grossOut
    BY <1>0 DEF SessionInv, ExecutionInv
  <1>4. post \in Amounts /\ post \in Nat /\ exec.before["SOL"] \in Nat
    BY <1>0, <1>1, SessionsAssumption, ActionsAssumption DEF Balances, Amounts
  <1>5. /\ Tail(exec.programs) \in Seq(CallPrograms)
        /\ \A i \in DOMAIN Tail(exec.programs) :
             MayCall(session[s].actions, Tail(exec.programs)[i], slot)
    <2>1. /\ Tail(exec.programs) \in Seq(CallPrograms)
          /\ Len(Tail(exec.programs)) = Len(exec.programs) - 1
          /\ \A i \in 1 .. Len(Tail(exec.programs)) :
               Tail(exec.programs)[i] = exec.programs[i + 1]
      BY <1>1, <1>2, HeadTailProperties
    <2>2. /\ Len(exec.programs) \in Nat
          /\ DOMAIN exec.programs = 1 .. Len(exec.programs)
          /\ DOMAIN Tail(exec.programs) = 1 .. Len(Tail(exec.programs))
      BY <1>1, <2>1, LenProperties
    <2>3. ASSUME NEW i \in DOMAIN Tail(exec.programs)
          PROVE  /\ i + 1 \in DOMAIN exec.programs
                 /\ Tail(exec.programs)[i] = exec.programs[i + 1]
      BY <2>1, <2>2, <2>3
    <2> QED
      BY <1>3, <2>1, <2>3
  <1>6. MayCallSomething(s)
    <2>1. 1 \in DOMAIN exec.programs
      BY <1>1, <1>2, EmptySeq, LenProperties
    <2>2. MayCall(session[s].actions, exec.programs[1], slot)
      BY <1>3, <2>1
    <2> QED
      BY <2>2 DEF MayCallSomething, MayCall, Listed
  <1>7. GrossOut(post) \in Nat /\ GrossOut(post) >= exec.grossOut
        /\ GrossOut(post) >= exec.grossOut + (exec.prev - post)
    BY <1>1, <1>4 DEF GrossOut, SaturatingSub
  <1>8. /\ exec'.running /\ exec'.session = s /\ exec'.before = exec.before
        /\ exec'.programs = Tail(exec.programs)
        /\ exec'.prev = post /\ exec'.grossOut = GrossOut(post)
        /\ exec'.low = IF post < exec.low THEN post ELSE exec.low
        /\ exec' \in Execution
    <2>1. (IF post < exec.low THEN post ELSE exec.low) \in Amounts
      BY <1>1, <1>4 DEF Execution
    <2> QED
      BY <1>0, <1>1, <1>2, <1>4, <1>5, <1>7, <2>1 DEF Execution
  <1>9. SessionTypeOK'
    BY <1>1, <1>2, <1>8 DEF SessionInv, SessionTypeOK
  <1>10. \A r \in SessionIds : Accounted(r)'
    BY <1>2, UntouchedAccount DEF SessionInv
  <1>11. ExecutionInv'
    <2>1. slot' = slot /\ session' = session /\ vault'[w] = balances
      BY <1>1, <1>2 DEF vars, SessionInv, SessionTypeOK
    <2>2. /\ exec'.low <= post /\ exec'.low <= exec.before["SOL"]
          /\ exec.before["SOL"] - exec'.low <= GrossOut(post)
          /\ exec.before["SOL"] - post <= GrossOut(post)
      BY <1>1, <1>3, <1>4, <1>7, <1>8
    <2>3. IsSession(s)' /\ SessionAlive(s)' /\ MayCallSomething(s)'
      BY <1>3, <1>6, <2>1 DEF IsSession, SessionAlive, MayCallSomething
    <2> QED
      BY <1>0, <1>5, <1>8, <2>1, <2>2, <2>3
      DEF ExecutionInv, IsSession, SessionAlive, MayCallSomething
  <1> QED
    BY <1>9, <1>10, <1>11 DEF SessionInv

(***************************************************************************)
(* CreateSession opens an account, which no running Execute looks at.      *)
(***************************************************************************)
LEMMA CreateKeeps ==
    ASSUME SessionInv, NEW w \in Wallets, NEW acct \in Accounts,
           NEW key \in SessionKeys, NEW expiresAt \in 0 .. MaxSlot + 1,
           NEW actions \in Policies,
           CreateSession(w, acct, key, expiresAt, actions)
    PROVE  SessionInv'
  <1> DEFINE s == <<w, key>>
             new == [disc |-> "session", expiresAt |-> expiresAt,
                     actions |-> actions]
  <1>1. /\ ~ Running /\ ValidActions(actions)
        /\ session' = [session EXCEPT ![s] = new]
        /\ granted' = [granted EXCEPT ![s] = actions]
        /\ spent' = [spent EXCEPT ![s] = NothingSpent]
        /\ UNCHANGED <<sclosing, vault, control, exec>>
    BY DEF CreateSession
  <1>2. s \in SessionIds /\ actions \in SUBSET Actions /\ expiresAt \in Nat
    BY SessionsAssumption, ConstantsAssumption DEF SessionIds
  <1>3. NothingSpent \in [Assets -> Spending]
    BY DEF NothingSpent, Spending
  <1> HIDE DEF s
  <1>4. /\ session'[s] = new /\ granted'[s] = actions
        /\ spent'[s] = NothingSpent
        /\ \A r \in SessionIds \ {s} :
             /\ session'[r] = session[r] /\ granted'[r] = granted[r]
             /\ spent'[r] = spent[r]
    BY <1>1, <1>2 DEF SessionInv, SessionTypeOK
  <1>5. SessionTypeOK'
    BY <1>1, <1>2, <1>3 DEF SessionInv, SessionTypeOK, SessionData
  <1>6. Accounted(s)'
    BY <1>1, <1>2, <1>4, NewAccount
  <1>7. \A r \in SessionIds : Accounted(r)'
    BY <1>4, <1>6, UntouchedAccount DEF SessionInv
  <1> QED
    BY <1>1, <1>5, <1>7, NotRunning DEF SessionInv

(***************************************************************************)
(* RevokeSession closes one.                                               *)
(***************************************************************************)
LEMMA RevokeKeeps ==
    ASSUME SessionInv, NEW w, NEW acct, NEW s \in SessionIds,
           RevokeSession(w, acct, s)
    PROVE  SessionInv'
  <1>1. /\ ~ Running
        /\ session' = [session EXCEPT ![s] = NoSession("zeroed")]
        /\ sclosing' = sclosing \cup {s}
        /\ UNCHANGED <<vault, control, exec, granted, spent>>
    BY DEF RevokeSession
  <1>2. /\ session'[s].disc # "session"
        /\ \A r \in SessionIds \ {s} : session'[r] = session[r]
    BY <1>1 DEF SessionInv, SessionTypeOK, NoSession
  <1>3. SessionTypeOK'
    BY <1>1 DEF SessionInv, SessionTypeOK, SessionData, NoSession
  <1>4. \A r \in SessionIds : Accounted(r)'
    BY <1>1, <1>2, UntouchedAccount, ClosedAccount DEF SessionInv
  <1> QED
    BY <1>1, <1>3, <1>4, NotRunning DEF SessionInv

(***************************************************************************)
(* The end of a transaction deletes accounts or leaves them.               *)
(***************************************************************************)
LEMMA RemoveSessionsKeeps ==
    ASSUME SessionInv, ~ Running, RemoveSessions
    PROVE  SessionInv'
  <1>1. PICK funded \in SUBSET sclosing :
          session' = [s \in SessionIds |->
                        IF s \in sclosing \ funded THEN NoSession("absent")
                        ELSE session[s]]
    BY DEF RemoveSessions
  <1>2. sclosing' = {} /\ UNCHANGED <<vault, control, exec, granted, spent>>
    BY DEF RemoveSessions
  <1>3. \A s \in SessionIds :
          session'[s] = session[s] \/ session'[s] = NoSession("absent")
    BY <1>1
  <1>4. NoSession("absent") \in SessionData
        /\ NoSession("absent").disc # "session"
    BY DEF NoSession, SessionData
  <1>5. SessionTypeOK'
    BY <1>1, <1>2, <1>4 DEF SessionInv, SessionTypeOK
  <1>6. \A s \in SessionIds : Accounted(s)'
    BY <1>2, <1>3, <1>4, UntouchedAccount, ClosedAccount DEF SessionInv
  <1> QED
    BY <1>2, <1>5, <1>6, NotRunning DEF SessionInv

(***************************************************************************)
(* A vault may be moved between the instructions of sessions.              *)
(***************************************************************************)
LEMMA VaultMovesKeeps ==
    ASSUME SessionInv, VaultMoves
    PROVE  SessionInv'
  <1>1. SessionTypeOK'
    BY DEF VaultMoves, SessionInv, SessionTypeOK
  <1>2. \A s \in SessionIds : Accounted(s)'
    BY UntouchedAccount DEF VaultMoves, SessionInv
  <1> QED
    BY <1>1, <1>2, NotRunning DEF VaultMoves, SessionInv

(***************************************************************************)
(* An authority's Execute moves a vault.                                   *)
(***************************************************************************)
LEMMA ExecuteMoves ==
    ASSUME SessionTypeOK, NEW w \in Wallets, NEW acct, NEW payload,
           NEW balances \in Balances, NEW controls \in Controls,
           AuthorityExecute(w, acct, payload, balances, controls)
    PROVE  VaultMoves
  BY DEF AuthorityExecute, VaultMoves, SessionTypeOK

(***************************************************************************)
(* So does a deposit, which fits because the vault was not full.           *)
(***************************************************************************)
LEMMA DepositMoves ==
    ASSUME SessionTypeOK, NEW w \in Wallets, NEW asset \in Assets,
           Deposit(w, asset)
    PROVE  VaultMoves
  <1>1. vault[w] \in Balances /\ vault[w][asset] < MaxBalance
    BY DEF SessionTypeOK, Deposit
  <1>2. vault[w][asset] + 1 \in Amounts
    BY <1>1, SessionsAssumption DEF Balances, Amounts
  <1>3. [vault[w] EXCEPT ![asset] = @ + 1] \in Balances
    BY <1>1, <1>2 DEF Balances
  <1> QED
    BY <1>3 DEF SessionTypeOK, Deposit, VaultMoves

(***************************************************************************)
(* A failed Execute restores the vault.                                    *)
(***************************************************************************)
LEMMA AbortKeeps ==
    ASSUME SessionInv, SessionAbort
    PROVE  SessionInv'
  <1>1. /\ Running /\ exec.before \in Balances
        /\ exec.controlBefore \in Controls
    BY ExecutionTyping DEF SessionInv, SessionAbort
  <1>2. SessionTypeOK'
    BY <1>1 DEF SessionAbort, SessionInv, SessionTypeOK
  <1>3. \A s \in SessionIds : Accounted(s)'
    BY UntouchedAccount DEF SessionAbort, SessionInv
  <1> QED
    BY <1>2, <1>3, NotRunning DEF SessionAbort, SessionInv

(***************************************************************************)
(* Every effect keeps the invariant.                                       *)
(***************************************************************************)
LEMMA SessionStep == TypeOK /\ SessionInv /\ SessionEffect => SessionInv'
  <1> SUFFICES ASSUME TypeOK, SessionInv, SessionEffect PROVE SessionInv'
    OBVIOUS
  <1>1. ASSUME NEW w \in Wallets, NEW acct \in Accounts,
               NEW key \in SessionKeys, NEW expiresAt \in 0 .. MaxSlot + 1,
               NEW actions \in Policies,
               CreateSession(w, acct, key, expiresAt, actions)
        PROVE  SessionInv'
    BY <1>1, CreateKeeps
  <1>2. ASSUME NEW w \in Wallets, NEW acct \in Accounts, NEW s \in SessionIds,
               RevokeSession(w, acct, s)
        PROVE  SessionInv'
    BY <1>2, RevokeKeeps
  <1>3. ASSUME NEW w \in Wallets, NEW acct \in Accounts,
               NEW payload \in Payloads, NEW balances \in Balances,
               NEW controls \in Controls,
               AuthorityExecute(w, acct, payload, balances, controls)
        PROVE  SessionInv'
    BY <1>3, ExecuteMoves, VaultMovesKeeps DEF SessionInv
  <1>4. ASSUME NEW w \in Wallets, NEW s \in SessionIds, NEW signer \in SessionKeys,
               NEW stackHeight \in 1 .. 2, NEW programs \in CallLists,
               SessionExecute(w, s, signer, stackHeight, programs)
        PROVE  SessionInv'
    BY <1>4, ExecuteKeeps
  <1>5. ASSUME NEW balances \in Balances, NEW controls \in Controls,
               Running, Cpi(balances, controls)
        PROVE  SessionInv'
    BY <1>5, CpiKeeps
  <1>6. CASE SessionCommit
    <2>1. PICK s : s = exec.session
      OBVIOUS
    <2>2. /\ s \in SessionIds
          /\ \A r \in SessionIds \ {s} :
               session'[r] = session[r] /\ spent'[r] = spent[r]
          /\ granted' = granted
      BY <1>6, <2>1, CommitEffect
    <2>3. \A r \in SessionIds : Accounted(r)'
      BY <1>6, <2>1, <2>2, CommitAccount, UntouchedAccount DEF SessionInv
    <2>4. SessionTypeOK' /\ ExecutionInv'
      BY <1>6, CommitTyping, NotRunning DEF SessionCommit
    <2> QED
      BY <2>3, <2>4 DEF SessionInv
  <1>7. CASE SessionAbort
    BY <1>7, AbortKeeps
  <1>8. ASSUME NEW w \in Wallets, NEW asset \in Assets, Deposit(w, asset)
        PROVE  SessionInv'
    BY <1>8, DepositMoves, VaultMovesKeeps DEF SessionInv
  <1>9. CASE VaultMoves
    BY <1>9, VaultMovesKeeps
  <1>10. CASE ~ Running /\ RemoveSessions
    BY <1>10, RemoveSessionsKeeps
  <1>11. CASE UNCHANGED svars /\ (~ Running \/ slot' = slot)
    <2>1. SessionTypeOK'
      BY <1>11 DEF svars, SessionInv, SessionTypeOK
    <2>2. \A s \in SessionIds : Accounted(s)'
      BY <1>11, UntouchedAccount DEF svars, SessionInv
    <2>3. CASE ~ Running
      BY <1>11, <2>1, <2>2, <2>3, NotRunning DEF svars, SessionInv
    <2>4. CASE slot' = slot
      <3>1. ExecutionInv'
        BY <1>11, <2>4
        DEF svars, SessionInv, ExecutionInv, Running, IsSession, SessionAlive,
            MayCallSomething
      <3> QED
        BY <2>1, <2>2, <3>1 DEF SessionInv
    <2> QED
      BY <1>11, <2>3, <2>4
  <1> QED
    BY <1>1, <1>2, <1>3, <1>4, <1>5, <1>6, <1>7, <1>8, <1>9, <1>10, <1>11
    DEF SessionEffect, SessionInstruction

(***************************************************************************)
(* No session exists at first.                                             *)
(***************************************************************************)
LEMMA SessionStart == SessionInit => SessionInv
  <1> SUFFICES ASSUME SessionInit PROVE SessionInv
    OBVIOUS
  <1>1. MaxBalance \in Amounts /\ 0 \in Amounts
    BY SessionsAssumption DEF Amounts
  <1>2. NothingSpent \in [Assets -> Spending]
    BY DEF NothingSpent, Spending
  <1>3. NoSession("absent") \in SessionData
    BY DEF NoSession, SessionData
  <1>4. vault \in [Wallets -> Balances] /\ control \in [Wallets -> Controls]
    BY <1>1 DEF SessionInit, Balances, Controls
  <1>5. SessionTypeOK
    BY <1>2, <1>3, <1>4 DEF SessionInit, SessionTypeOK
  <1>6. ~ Running
    BY DEF SessionInit, Running, Idle
  <1>7. ASSUME NEW s \in SessionIds
        PROVE  Accounted(s)
    <2>1. /\ session[s].disc = "absent" /\ granted[s] = {}
          /\ \A asset \in Assets : spent[s][asset].total = 0
      BY <1>7 DEF SessionInit, NoSession, NothingSpent
    <2> QED
      BY <2>1
      DEF Accounted, GrantIsValid, Tracked, Capped, Uncapped, Timely,
          IsSession, LimitedAssets, Limits
  <1> QED
    BY <1>5, <1>6, <1>7 DEF SessionInv, ExecutionInv

(***************************************************************************)
(* So the invariant holds throughout.                                      *)
(***************************************************************************)
LEMMA SessionInvariant == SessionSpec => []SessionInv
  <1>1. TypeOK /\ SessionInv /\ [SessionNext]_sessionVars => SessionInv'
    BY SessionSteps, SessionStep
  <1> QED
    BY <1>1, SessionStart, SessionsKeepAuthorities, PTL DEF SessionSpec

(***************************************************************************)
(* The invariant implies every limit.                                      *)
(***************************************************************************)
LEMMA InvCaps ==
    SessionInv => /\ SessionTypeOK
                  /\ LifetimeCap
                  /\ WindowCap
                  /\ PerTxCap
                  /\ NoSpendAfterExpiry
  <1>1. SessionInv => LifetimeCap /\ WindowCap /\ PerTxCap
    BY DEF SessionInv, Accounted, Capped, LifetimeCap, WindowCap, PerTxCap
  <1>2. SessionInv => NoSpendAfterExpiry
    BY DEF SessionInv, Accounted, Timely, NoSpendAfterExpiry
  <1> QED
    BY <1>1, <1>2 DEF SessionInv

(***************************************************************************)
(* The data of every session, the Execute that runs and the histories have *)
(* their types: no limit is charged below zero, no balance leaves its      *)
(* range, whatever the calls of a session do.                              *)
(***************************************************************************)
THEOREM SessionTypeCorrect == SessionSpec => []SessionTypeOK
  BY InvCaps, SessionInvariant, PTL

(***************************************************************************)
(* A lifetime limit bounds what a session takes over its whole life: the   *)
(* session's action has lost exactly what the session took, and phase 1    *)
(* never lets it lose more than it has.                                    *)
(***************************************************************************)
THEOREM LifetimeCapHolds == SessionSpec => []LifetimeCap
  BY InvCaps, SessionInvariant, PTL

(***************************************************************************)
(* A recurring limit bounds what a session takes between two multiples of  *)
(* its window.  This needs that last_reset is a multiple of the window and *)
(* never behind the bucket the session last spent in.                      *)
(***************************************************************************)
THEOREM WindowCapHolds == SessionSpec => []WindowCap
  BY InvCaps, SessionInvariant, PTL

(***************************************************************************)
(* A per-transaction limit bounds how far one Execute draws the vault down *)
(* at any moment: the gross outflow is at least that, call after call.     *)
(***************************************************************************)
THEOREM PerTxCapHolds == SessionSpec => []PerTxCap
  BY InvCaps, SessionInvariant, PTL

(***************************************************************************)
(* Nothing leaves a vault by a session after its expiry, the expiry of a   *)
(* limit on the asset or that of its whole whitelist.                      *)
(***************************************************************************)
THEOREM ExpiryHolds == SessionSpec => []NoSpendAfterExpiry
  BY InvCaps, SessionInvariant, PTL
=============================================================================
