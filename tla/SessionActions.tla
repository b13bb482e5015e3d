--------------------------- MODULE SessionActions ---------------------------
(***************************************************************************)
(* The actions of a session: what a session key may call and spend.        *)
(*                                                                         *)
(* An action is a record.  For the limits ("Limit", "Recurring" and        *)
(* "MaxPerTx") target is an asset, "SOL" or a mint, and amount is what the *)
(* code calls remaining, limit and max; for "Whitelist" and "Blacklist"    *)
(* target is a program.  The actions buffer is the set of its actions: no  *)
(* check depends on their order.                                           *)
(***************************************************************************)
EXTENDS Integers, FiniteSets

CONSTANTS
    MAX_ACTIONS,    \* actions a session can hold, 16
    Assets,         \* "SOL" and the mints
    CallPrograms    \* programs a session may be asked to call

ASSUME ActionsAssumption ==
    /\ MAX_ACTIONS \in Nat
    /\ "SOL" \in Assets

LimitKinds == {"Limit", "Recurring", "MaxPerTx"}

ListKinds == {"Whitelist", "Blacklist"}

ActionsOn(kinds, targets) ==
    [kind: kinds, target: targets, amount: Nat, spent: Nat, window: Nat,
     lastReset: Nat, expiresAt: Nat]

Actions == ActionsOn(LimitKinds, Assets) \cup ActionsOn(ListKinds, CallPrograms)

-----------------------------------------------------------------------------
(* CreateSession: is the buffer acceptable? *)

(***************************************************************************)
(* A recurring limit starts unspent, with a window, at reset slot 0.       *)
(***************************************************************************)
FreshRecurring(action) ==
    action.spent = 0 /\ action.window > 0 /\ action.lastReset = 0

(***************************************************************************)
(* validate_actions_buffer: the number of actions, no white and black list *)
(* together, at most one limit of a kind per asset, fresh recurring state. *)
(***************************************************************************)
ValidActions(actions) ==
    /\ Cardinality(actions) <= MAX_ACTIONS
    /\ ~ \E a, b \in actions : a.kind = "Whitelist" /\ b.kind = "Blacklist"
    /\ \A a, b \in actions :
         a.kind \in LimitKinds /\ a.kind = b.kind /\ a.target = b.target
           => a = b
    /\ \A a \in actions : a.kind = "Recurring" => FreshRecurring(a)

-----------------------------------------------------------------------------
(* Execute, before the calls. *)

IsExpired(action, slot) == action.expiresAt # 0 /\ slot > action.expiresAt

\* Mutant of Listed: expired entries still count.
ListedForEver(actions, kind, slot) ==
    {a.target : a \in {b \in actions : b.kind = kind}}

(***************************************************************************)
(* Programs on a list whose entry has not expired.                         *)
(***************************************************************************)
Listed(actions, kind, slot) ==
    {a.target : a \in {b \in actions : b.kind = kind /\ ~ IsExpired(b, slot)}}

(***************************************************************************)
(* evaluate_pre_actions: once there was a whitelist, only its live entries *)
(* may be called (none, when all have expired); a blacklist entry that     *)
(* expires lifts its ban.                                                  *)
(***************************************************************************)
MayCall(actions, program, slot) ==
    /\ (\E a \in actions : a.kind = "Whitelist")
         => program \in Listed(actions, "Whitelist", slot)
    /\ program \notin Listed(actions, "Blacklist", slot)

-----------------------------------------------------------------------------
(* Execute, after the calls. *)

SaturatingSub(a, b) == IF a > b THEN a - b ELSE 0

\* Mutant of WindowElapsed: the window is one slot shorter.
WindowElapsedEarly(action, slot) ==
    SaturatingSub(slot, action.lastReset) >= action.window

WindowElapsed(action, slot) ==
    SaturatingSub(slot, action.lastReset) > action.window

SpentSoFar(action, slot) ==
    IF WindowElapsed(action, slot) THEN 0 ELSE action.spent

\* Mutant of Allows: an expired limit no longer limits.
AllowsOnceExpired(action, spend, slot) ==
    spend > 0 /\ ~ IsExpired(action, slot) =>
      IF action.kind = "Recurring"
      THEN SpentSoFar(action, slot) + spend <= action.amount
      ELSE spend <= action.amount

(***************************************************************************)
(* Phase 1 of evaluate_post_actions, for one limit: an expired limit       *)
(* allows nothing.                                                         *)
(***************************************************************************)
Allows(action, spend, slot) ==
    spend > 0 =>
      /\ ~ IsExpired(action, slot)
      /\ IF action.kind = "Recurring"
         THEN SpentSoFar(action, slot) + spend <= action.amount
         ELSE spend <= action.amount

(***************************************************************************)
(* A window that elapsed restarts at the last multiple of its length.      *)
(***************************************************************************)
AlignedReset(action, slot) ==
    IF WindowElapsed(action, slot)
    THEN (slot \div action.window) * action.window
    ELSE action.lastReset

\* Mutant of Charge: a lifetime limit is charged in both phases.
ChargeTwice(action, spend, slot) ==
    IF spend = 0 \/ IsExpired(action, slot) \/ action.kind # "Limit"
    THEN action
    ELSE [action EXCEPT !.amount = @ - spend - spend]

\* Mutant of Charge: a lifetime limit is not reduced.
ChargeRecurringOnly(action, spend, slot) ==
    IF spend = 0 \/ IsExpired(action, slot) \/ action.kind # "Recurring"
    THEN action
    ELSE [action EXCEPT !.spent = SpentSoFar(action, slot) + spend,
                        !.lastReset = AlignedReset(action, slot)]

(***************************************************************************)
(* Phase 2: what is written back.  Only "Limit" and "Recurring" have state.*)
(***************************************************************************)
Charge(action, spend, slot) ==
    IF spend = 0 \/ IsExpired(action, slot) THEN action
    ELSE IF action.kind = "Limit"
    THEN [action EXCEPT !.amount = SaturatingSub(@, spend)]
    ELSE IF action.kind = "Recurring"
    THEN [action EXCEPT !.spent = SpentSoFar(action, slot) + spend,
                        !.lastReset = AlignedReset(action, slot)]
    ELSE action
=============================================================================
