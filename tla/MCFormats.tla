----------------------------- MODULE MCFormats -----------------------------
(***************************************************************************)
(* Instance for TLC of the four modules about the bytes of an instruction. *)
(* They share no state: each behaviour looks at one of them.               *)
(***************************************************************************)
EXTENDS Compact, ClientData, Passkey, ActionBuffer, TLC

VARIABLE format

FormatsInit ==
    /\ format \in {"compact", "client data", "passkey", "actions"}
    /\ CompactInit /\ ClientDataInit /\ PasskeyInit /\ BufferInit

FormatsNext ==
    /\ \/ /\ format = "compact" /\ CompactNext
          /\ UNCHANGED <<jvars, kvars, bvars>>
       \/ /\ format = "client data" /\ ClientDataNext
          /\ UNCHANGED <<cvars, kvars, bvars>>
       \/ /\ format = "passkey" /\ PasskeyNext
          /\ UNCHANGED <<cvars, jvars, bvars>>
       \/ /\ format = "actions" /\ BufferNext
          /\ UNCHANGED <<cvars, jvars, kvars>>
    /\ UNCHANGED format

FormatsSpec == FormatsInit /\ [][FormatsNext]_<<cvars, jvars, kvars, bvars, format>>

-----------------------------------------------------------------------------
(* Compact: all lists of at most three keys out of two. *)

CONSTANTS K1, K2

MCAccountLists == UNION {[1 .. n -> {K1, K2}] : n \in 0 .. 3}

-----------------------------------------------------------------------------
(* ClientData: the name is cut to one letter. *)

MCStrings == { <<"c">>, <<"close_brace", "comma">>, <<"escape", "quote">> }

MCFields == { <<"c">> }

MCDigestBytes == {0, 1, 63, 64, 170, 255}

-----------------------------------------------------------------------------
(***************************************************************************)
(* Passkey: the passkey K has signed with the user present and without;    *)
(* the key L of somebody else signs something else.                        *)
(***************************************************************************)
CONSTANTS K, L, SK, SN, SL, Rp, Up, No, H, G

MCSays ==
    (SK :> [key |-> K, msg |-> <<Rp, Up, H>>])
      @@ (SN :> [key |-> K, msg |-> <<Rp, No, H>>])
      @@ (SL :> [key |-> L, msg |-> <<Rp, Up, G>>])

MCAuthDatas == { <<Rp, Up>>, <<Rp, No>>, <<Rp, Up, H>> }

MCCells ==
    {<<s, k>> \o m : s \in {SK, SN, SL}, k \in {K, L},
                     m \in {<<Rp, Up, H>>, <<Rp, Up, G>>, <<Rp, No, H, G>>}}

MCOffsets ==
    [sig: {0, 1}, sigIx: {Here, 0}, key: {1, 2}, keyIx: {Here, 0},
     msg: {2, 3}, size: {2, 3}, msgIx: {Here, 0}]

Fixed == [sig |-> 0, sigIx |-> Here, key |-> 1, keyIx |-> Here,
          msg |-> 2, size |-> 3, msgIx |-> Here]

MCOtherData == [num: {1}, offsets: {Fixed}, cells: MCCells]

MCPrecompileData == [num: {0, 1, 2}, offsets: MCOffsets, cells: MCCells]

-----------------------------------------------------------------------------
(* ActionBuffer: a client's buffer of actions and stray cells. *)

CONSTANTS M, N, Q

\* Programs that nobody calls have the keys that are left.
MCUncalled == {"k0", "k1", "k2", "k3", "k4", "k5", "k6", "k10", "k11"}

MCPrograms == {Q} \cup MCUncalled

MCKeyCell ==
    (M :> 7) @@ (N :> 8) @@ (Q :> 9)
      @@ ("k0" :> 0) @@ ("k1" :> 1) @@ ("k2" :> 2) @@ ("k3" :> 3)
      @@ ("k4" :> 4) @@ ("k5" :> 5) @@ ("k6" :> 6)
      @@ ("k10" :> 10) @@ ("k11" :> 11)

Action(kind, target, amount, window, expiresAt) ==
    [kind |-> kind, target |-> target, amount |-> amount, spent |-> 0,
     window |-> window, lastReset |-> 0, expiresAt |-> expiresAt]

MCPayloads == { <<>>, <<1>> }

MCCandidates ==
    {Action("Limit", "SOL", 2, 0, 0), Action("Limit", M, 2, 0, 0),
     Action("Limit", M, 1, 0, 1),
     Action("MaxPerTx", "SOL", 1, 0, 0), Action("MaxPerTx", M, 1, 0, 1),
     Action("Recurring", "SOL", 2, 2, 0), Action("Recurring", M, 2, 1, 0),
     Action("Recurring", N, 1, 0, 0),
     Action("Whitelist", Q, 0, 0, 1), Action("Blacklist", Q, 0, 0, 0)}
=============================================================================
