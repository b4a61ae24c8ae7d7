--------------------------- MODULE MCStudioCommands ---------------------------
(***************************************************************************)
(* Values for the constants of StudioCommands.                             *)
(***************************************************************************)
EXTENDS StudioCommands

\* DammV1: nobody, one wallet with part of it, exact and uneven divisions, one of nearly
\* nothing (which rounds to 0), and more than all.
Allocation(l) == [i \in DOMAIN l |-> [to |-> l[i][1], tenths |-> l[i][2]]]
AllocationLists == {<<>>, Allocation(<<<<"a", 800>>>>),
                    Allocation(<<<<"a", 300>>, <<"farm", 700>>>>),
                    Allocation(<<<<"a", 333>>, <<"farm", 333>>, <<"b", 334>>>>),
                    Allocation(<<<<"a", 3>>, <<"b", 4>>>>),
                    Allocation(<<<<"a", 600>>, <<"b", 500>>>>)}

\* Farming: a pool with one farm and a pool with two; a list longer than a batch.
FarmsByPool == [p \in Pools |-> IF p = "P" THEN {"f"} ELSE {"f", "g"}]
ListsOfFarms == {<<>>, <<"f">>, <<"f", "g", "h">>}

\* Lock: cliffs at and after the start, no periods, nothing at the cliff, no frequency.
Schedule(s, c, f, at, per, n) ==
    [start |-> s, cliff |-> c, freq |-> f, atCliff |-> at, per |-> per, periods |-> n]
LockSchedules == {Schedule(0, 1, 1, 1, 1, 2), Schedule(2, 1, 1, 1, 0, 0),
                  Schedule(1, 1, 0, 0, 1, 1), Schedule(0, 0, 2, 0, 2, 2)}

\* Presale: every mode, every whitelist, withdrawing barred once.
Sale(m, w, d) == [mode |-> m, whitelist |-> w, disableWithdraw |-> d]
PresaleKinds == {Sale("Fcfs", "merkle", FALSE), Sale("Prorata", "merkle", FALSE),
                 Sale("FixedPrice", "permissionless", FALSE),
                 Sale("FixedPrice", "merkle", TRUE), Sale("Fcfs", "authority", FALSE)}
LeastByRegistry == [registry \in 0..1 |-> registry + 1]
MostByRegistry  == [registry \in 0..1 |-> 2]

\* DAMM v2 positions: one that vests, one that is locked in part, one that is free.
FirstPositions == {[unl |-> 2, vest |-> 2, perm |-> 0], [unl |-> 3, vest |-> 0, perm |-> 2],
                   [unl |-> 2, vest |-> 0, perm |-> 0]}

\* Fee sharing: too few recipients, a share of nothing, and two that are valid.
ShareLists == {<<1>>, <<1, 0>>, <<2, 1>>}

\* Alpha Vault: both modes, the three whitelists; three escrows are two batches.
Kind(m, w) == [mode |-> m, whitelist |-> w]
VaultKinds == {Kind("fcfs", "permissionless"), Kind("prorata", "permissionless"),
               Kind("prorata", "authority"), Kind("fcfs", "merkle")}
Listed == <<"a", "b", "me">>

\* DLMM: nothing, prices on and between bins, two that share a bin, one bin too many.
Asked(ps) == [i \in DOMAIN ps |-> [price |-> ps[i], amount |-> i]]
LimitOrders == {<<>>, Asked(<<1, 2>>), Asked(<<3, 2, 4>>), Asked(<<1, 2, 3, 4>>)}
=============================================================================
