---------------------------- MODULE PdaAccounts ----------------------------
(***************************************************************************)
(* The lamports of the accounts the program creates and closes.            *)
(*                                                                         *)
(* Anyone may send lamports to an address before the program creates an    *)
(* account there, so initialize_pda_account makes an account in three      *)
(* calls of the System Program: a transfer of what is missing for rent     *)
(* exemption, Allocate and Assign.  Closing an account moves its lamports  *)
(* to a refund account and zeroes the data; the runtime deletes it when    *)
(* the transaction ends, if it then holds no lamports.                     *)
(*                                                                         *)
(* Here an action is one call or one instruction.  committed is the ledger *)
(* as the last transaction left it, to which a failure returns.            *)
(***************************************************************************)
EXTENDS Integers, FiniteSets, FiniteSetsExt

CONSTANTS
    Pdas,           \* addresses derived by the program
    Users,          \* accounts that pay and receive refunds
    Rent,           \* least balance of an account of the program
    EmptyRent,      \* least balance of an account without data
    InitialLamports \* what each user holds at first

ASSUME PdaAssumption ==
    /\ Rent \in Nat \ {0}
    /\ EmptyRent \in 0 .. Rent
    /\ InitialLamports \in Nat
    /\ Pdas \cap Users = {}

VARIABLES
    ledger,     \* every account, as the running transaction sees it
    committed,  \* every account between transactions
    init,       \* the initialisation that is running, if any
    refilled    \* history: addresses paid while closed, and never deleted since

pvars == <<ledger, committed, init, refilled>>

-----------------------------------------------------------------------------
LedgerIds == Pdas \cup Users

(***************************************************************************)
(* data is "none" for no bytes, "zeroed" for bytes that are all zero.      *)
(***************************************************************************)
Empty(lamports) ==
    [lamports |-> lamports, owner |-> "system", data |-> "none"]

Total(l) == MapThenSumSet(LAMBDA a : l[a].lamports, LedgerIds)

NoInit == [step |-> "idle"]

Settled == init.step = "idle"

Move(l, from, to, n) ==
    [l EXCEPT ![from].lamports = @ - n, ![to].lamports = @ + n]

Shortfall(pda) ==
    IF ledger[pda].lamports < Rent THEN Rent - ledger[pda].lamports ELSE 0

-----------------------------------------------------------------------------
(* initialize_pda_account *)

(***************************************************************************)
(* Every handler but Authorize first verifies that the account has no      *)
(* data.  able is history: an address without data and a payer with enough.*)
(***************************************************************************)
InitializePda(payer, pda, verified) ==
    /\ Settled
    /\ verified => ledger[pda].data = "none"
    /\ init' = [step |-> "transfer", payer |-> payer, pda |-> pda,
                able |-> /\ ledger[pda].data = "none"
                         /\ ledger[payer].lamports >= Shortfall(pda)]
    /\ UNCHANGED <<ledger, committed, refilled>>

\* Mutant of TopUp: CreateAccount, which refuses an address with lamports.
TopUpIfEmpty ==
    /\ init.step = "transfer"
    /\ ledger[init.pda].lamports = 0
    /\ ledger[init.payer].lamports >= Rent
    /\ ledger' = Move(ledger, init.payer, init.pda, Rent)
    /\ init' = [init EXCEPT !.step = "allocate"]
    /\ UNCHANGED <<committed, refilled>>

\* Mutant of TopUp: an address that holds anything is not topped up.
TopUpUnlessFunded ==
    /\ init.step = "transfer"
    /\ \/ /\ ledger[init.pda].lamports = 0
          /\ ledger[init.payer].lamports >= Rent
          /\ ledger' = Move(ledger, init.payer, init.pda, Rent)
       \/ ledger[init.pda].lamports > 0 /\ UNCHANGED ledger
    /\ init' = [init EXCEPT !.step = "allocate"]
    /\ UNCHANGED <<committed, refilled>>

TopUp ==
    /\ init.step = "transfer"
    /\ ledger[init.payer].lamports >= Shortfall(init.pda)
    /\ ledger' = Move(ledger, init.payer, init.pda, Shortfall(init.pda))
    /\ init' = [init EXCEPT !.step = "allocate"]
    /\ UNCHANGED <<committed, refilled>>

Allocate ==
    /\ init.step = "allocate"
    /\ ledger[init.pda].data = "none"
    /\ ledger[init.pda].owner = "system"
    /\ ledger' = [ledger EXCEPT ![init.pda].data = "zeroed"]
    /\ init' = [init EXCEPT !.step = "assign"]
    /\ UNCHANGED <<committed, refilled>>

(***************************************************************************)
(* The handler then writes the new account's contents.                     *)
(***************************************************************************)
Assign ==
    /\ init.step = "assign"
    /\ ledger[init.pda].owner = "system"
    /\ ledger' = [ledger EXCEPT ![init.pda].owner = "program",
                                ![init.pda].data = "live"]
    /\ init' = NoInit
    /\ UNCHANGED <<committed, refilled>>

InitStep == TopUp \/ Allocate \/ Assign

-----------------------------------------------------------------------------
(* Closing. *)

\* Mutant of Drained: only the rent is refunded.
DrainedOfRent(pda, refund) ==
    LET credited == [ledger EXCEPT ![refund].lamports = @ + Rent]
    IN  [credited EXCEPT ![pda].lamports = @ - Rent, ![pda].data = "zeroed"]

(***************************************************************************)
(* The two writes: the refund account is credited with all that the        *)
(* account holds, then the account is set to zero.                         *)
(***************************************************************************)
Drained(pda, refund) ==
    LET credited == [ledger EXCEPT ![refund].lamports =
                       @ + ledger[pda].lamports]
    IN  [credited EXCEPT ![pda].lamports = 0, ![pda].data = "zeroed"]

(***************************************************************************)
(* RemoveAuthority, RevokeSession and TransferOwnership refuse the account *)
(* itself as the refund account; ExecuteDeferred and ReclaimDeferred do    *)
(* not, but then the two writes destroy lamports, and the runtime fails an *)
(* instruction that does.                                                  *)
(***************************************************************************)
Close(pda, refund, guarded) ==
    /\ Settled
    /\ ledger[pda].owner = "program"
    /\ ledger[pda].data = "live"
    /\ guarded => pda # refund
    /\ Total(Drained(pda, refund)) = Total(ledger)
    /\ ledger' = Drained(pda, refund)
    /\ refilled' = IF refund \in Pdas /\ ledger[refund].data = "zeroed"
                   THEN refilled \cup {refund} ELSE refilled
    /\ UNCHANGED <<committed, init>>

-----------------------------------------------------------------------------
(* Everybody else. *)

Pay(user, pda, n) ==
    /\ Settled
    /\ n <= ledger[user].lamports
    /\ ledger' = Move(ledger, user, pda, n)
    /\ refilled' = IF ledger[pda].data = "zeroed" THEN refilled \cup {pda}
                   ELSE refilled
    /\ UNCHANGED <<committed, init>>

LeastBalance(account) ==
    IF account.data = "none" THEN EmptyRent ELSE Rent

(***************************************************************************)
(* The transaction commits unless it leaves an account with lamports, but  *)
(* too few; accounts without any are deleted.                              *)
(***************************************************************************)
EndTx ==
    /\ Settled
    /\ \A a \in LedgerIds :
         ledger[a].lamports \in 1 .. LeastBalance(ledger[a]) - 1
           => ledger[a] = committed[a]
    /\ ledger' = [a \in LedgerIds |->
                    IF ledger[a].lamports = 0 THEN Empty(0) ELSE ledger[a]]
    /\ committed' = ledger'
    /\ refilled' = {a \in refilled : ledger[a].lamports > 0}
    /\ UNCHANGED init

(***************************************************************************)
(* A transaction may fail at any point.                                    *)
(***************************************************************************)
Fail ==
    /\ ledger' = committed
    /\ init' = NoInit
    /\ refilled' = {a \in refilled : committed[a].data = "zeroed"}
    /\ UNCHANGED committed

PdaInit ==
    /\ ledger = [a \in LedgerIds |->
                   Empty(IF a \in Users THEN InitialLamports ELSE 0)]
    /\ committed = ledger
    /\ init = NoInit
    /\ refilled = {}

PdaNext ==
    \/ \E payer \in Users, pda \in Pdas, verified \in BOOLEAN :
         InitializePda(payer, pda, verified)
    \/ InitStep
    \/ \E pda \in Pdas, refund \in LedgerIds, guarded \in BOOLEAN :
         Close(pda, refund, guarded)
    \/ \E user \in Users, pda \in Pdas, n \in 1 .. InitialLamports :
         Pay(user, pda, n)
    \/ EndTx
    \/ Fail

PdaSpec == PdaInit /\ [][PdaNext]_pvars

-----------------------------------------------------------------------------
(***************************************************************************)
(* Lamports sent to an address in advance never block the creation of an   *)
(* account there: an initialisation of an address without data, by a payer *)
(* who can pay what is missing, does not get stuck in any of its calls.    *)
(***************************************************************************)
NeverBlocked == ~ Settled /\ init.able => ENABLED InitStep

(***************************************************************************)
(* Every account of the program that is in use is rent exempt, however     *)
(* its balance came about, so that no transaction that creates one is      *)
(* refused for its rent.                                                   *)
(***************************************************************************)
LiveAreExempt ==
    Settled => \A pda \in Pdas :
              ledger[pda].data = "live" => ledger[pda].lamports >= Rent

(***************************************************************************)
(* Closing an account pays out all it holds, lamports sent in advance      *)
(* included: lamports stay behind in an account nobody can use again only  *)
(* when they are sent to it after it was closed.                           *)
(***************************************************************************)
NothingLeftBehind ==
    Settled => \A pda \in Pdas :
              ledger[pda].data = "zeroed" /\ ledger[pda].lamports > 0
                => pda \in refilled
=============================================================================
