---------------------------- MODULE StudioCommands ----------------------------
(***************************************************************************)
(* The studio's single commands, component by component: a behaviour is    *)
(* one of the component that component names, which the initial state      *)
(* chooses.  They share the variables of Submission; the constants of each *)
(* are described in its module.                                            *)
(***************************************************************************)
EXTENDS Naturals, Sequences, FiniteSets

CONSTANTS
    MaxRuns, MaxScriptRuns,     \* commands, at most; of the components with many inputs
    MaxLate,                    \* transactions lost at a time, at most
    Wallets, FarmVault, Allocations, MintedLp, FarmStart,               \* DammV1
    StakeTokens, UnstakeLock, FarmLastTime,                             \* Stake2Earn
    Farms, Pools, FarmsOf, ClaimLists, MaxClaimAll, FarmTokens, MaxClaims,  \* Farming
    VaultTokens, TxFee, MaxLpPrice,                     \* DynamicVault; TxFee: FeeSharing too
    Schedules, LockTokens, LockLastTime,                                \* Lock
    Sales, Start, End, MinCap, SaleCap, CapLeast, CapMost, Quote, SaleLastTime,  \* Presale
    Deposits, SplitParts, MaxPrice, LpTokens,                           \* DammV2Positions
    UserShares, ShareTokens,                                            \* FeeSharing
    Kinds, Whitelist, BatchSize, Cap, MaxCap, QuoteTokens, Fills,       \* AlphaVault
    Hooks, NoHook,                                                      \* DbcPool
    AskedBins, LastBin, MaxBins, Positions,                             \* Dlmm
    Programs, MaxRate, Slippage, Funds,                                 \* Trading
    PoolPrograms, FundedPrograms                                        \* PoolScripts

ASSUME BoundAssumption == MaxRuns \in Nat /\ MaxScriptRuns \in Nat

\* Percentages are not negative; the amount and the timestamp are unsigned integers.
ASSUME SplitAssumption ==
    /\ Allocations \subseteq Seq([to : Wallets, tenths : Nat])
    /\ MintedLp \in Nat /\ FarmStart \in Nat

\* Rates and the slippage are amounts of a token.
ASSUME TradingAssumption == MaxRate \in Nat /\ Slippage \in Nat /\ Funds \in Nat

ASSUME StakeAssumption == StakeTokens \in Nat /\ UnstakeLock \in Nat

\* The service answers with farms, and a list holds farms; the SDK's batches are not empty.
ASSUME FarmAssumption ==
    /\ FarmsOf \in [Pools -> SUBSET Farms] /\ ClaimLists \subseteq Seq(Farms)
    /\ MaxClaimAll \in Nat \ {0} /\ FarmTokens \in Nat

\* The shares of the configuration are unsigned integers.
ASSUME ShareAssumption == UserShares \subseteq Seq(Nat) /\ ShareTokens \in Nat

ASSUME VaultAssumption == VaultTokens \in Nat /\ TxFee \in Nat

\* The fields of a schedule are unsigned integers, and so is what the wallet owns.
ASSUME LockAssumption ==
    /\ LockTokens \in Nat
    /\ Schedules \subseteq [start : Nat, cliff : Nat, freq : Nat, atCliff : Nat, per : Nat,
                           periods : Nat]

\* Liquidity is an unsigned integer, and so is what the wallet owns.
ASSUME PositionAssumption ==
    /\ LpTokens \in Nat /\ Deposits \subseteq [unl : Nat, vest : Nat, perm : Nat]
    /\ SplitParts \subseteq SUBSET {"unl", "vest", "perm", "fee"}

\* Registries are counted, their caps and the amounts of the presale are unsigned integers.
ASSUME SaleAssumption ==
    /\ Sales \subseteq [mode : {"Fcfs", "Prorata", "FixedPrice"}, disableWithdraw : BOOLEAN,
                       whitelist : {"permissionless", "merkle", "authority"}]
    /\ IsFiniteSet(DOMAIN CapMost) /\ CapMost \in [DOMAIN CapMost -> Nat]
    /\ CapLeast \in [DOMAIN CapMost -> Nat]
    /\ Start \in Nat /\ End \in Nat /\ MinCap \in Nat /\ SaleCap \in Nat /\ Quote \in Nat

\* Caps are unsigned integers, and a transaction creates at least one escrow.
ASSUME WhitelistAssumption ==
    /\ Kinds \subseteq [mode : {"fcfs", "prorata"},
                        whitelist : {"permissionless", "merkle", "authority"}]
    /\ Whitelist \in Seq({Whitelist[i] : i \in DOMAIN Whitelist})
    /\ BatchSize \in Nat \ {0} /\ Cap \in Nat /\ MaxCap \in Nat /\ QuoteTokens \in Nat

\* Amounts are unsigned integers, and no price lies above the last bin.
ASSUME OrderAssumption ==
    /\ LastBin \in Nat /\ AskedBins \subseteq Seq([price : 0..(2 * LastBin), amount : Nat])

VARIABLES component, chain, cmd, queue, late, status

V1 == INSTANCE DammV1 WITH LastTime <- FarmLastTime
SE == INSTANCE Stake2Earn WITH Tokens <- StakeTokens, LockTime <- UnstakeLock,
                               LastTime <- FarmLastTime
FA == INSTANCE Farming WITH Tokens <- FarmTokens
DV == INSTANCE DynamicVault WITH Tokens <- VaultTokens, Fee <- TxFee, MaxPrice <- MaxLpPrice
LO == INSTANCE Lock WITH Tokens <- LockTokens, LastTime <- LockLastTime
PS == INSTANCE Presale WITH MaxCap <- SaleCap, Least <- CapLeast, Most <- CapMost,
                            LastTime <- SaleLastTime, MaxRuns <- MaxScriptRuns
V2 == INSTANCE DammV2Positions WITH Tokens <- LpTokens
FS == INSTANCE FeeSharing WITH Tokens <- ShareTokens, Fee <- TxFee
VA == INSTANCE AlphaVault WITH Tokens <- QuoteTokens
DP == INSTANCE DbcPool WITH MaxRuns <- MaxScriptRuns
DL == INSTANCE Dlmm
SW == INSTANCE Trading
PC == INSTANCE PoolScripts WITH Programs <- PoolPrograms, Funded <- FundedPrograms,
                                MaxRuns <- MaxScriptRuns

-----------------------------------------------------------------------------
vars == <<component, chain, cmd, queue, late, status>>

Init == \/ component = "dammV1"          /\ V1!Init
        \/ component = "stake2earn"      /\ SE!Init
        \/ component = "farming"         /\ FA!Init
        \/ component = "dynamicVault"    /\ DV!Init
        \/ component = "lock"            /\ LO!Init
        \/ component = "presale"         /\ PS!Init
        \/ component = "dammV2Positions" /\ V2!Init
        \/ component = "feeSharing"      /\ FS!Init
        \/ component = "alphaVault"      /\ VA!Init
        \/ component = "dbcPool"         /\ DP!Init
        \/ component = "dlmm"            /\ DL!Init
        \/ component = "trading"         /\ SW!Init
        \/ component = "poolScripts"     /\ PC!Init

Next == /\ UNCHANGED component
        /\ \/ component = "dammV1"          /\ V1!Next
           \/ component = "stake2earn"      /\ SE!Next
           \/ component = "farming"         /\ FA!Next
           \/ component = "dynamicVault"    /\ DV!Next
           \/ component = "lock"            /\ LO!Next
           \/ component = "presale"         /\ PS!Next
           \/ component = "dammV2Positions" /\ V2!Next
           \/ component = "feeSharing"      /\ FS!Next
           \/ component = "alphaVault"      /\ VA!Next
           \/ component = "dbcPool"         /\ DP!Next
           \/ component = "dlmm"            /\ DL!Next
           \/ component = "trading"         /\ SW!Next
           \/ component = "poolScripts"     /\ PC!Next

Spec == Init /\ [][Next]_vars

-----------------------------------------------------------------------------
\* Every account, command and transaction is one that its component can have.
TypeOK == /\ component = "dammV1"          => V1!TypeOK
          /\ component = "stake2earn"      => SE!TypeOK
          /\ component = "farming"         => FA!TypeOK
          /\ component = "dynamicVault"    => DV!TypeOK
          /\ component = "lock"            => LO!TypeOK
          /\ component = "presale"         => PS!TypeOK
          /\ component = "dammV2Positions" => V2!TypeOK
          /\ component = "feeSharing"      => FS!TypeOK
          /\ component = "alphaVault"      => VA!TypeOK
          /\ component = "dbcPool"         => DP!TypeOK
          /\ component = "dlmm"            => DL!TypeOK
          /\ component = "trading"         => SW!TypeOK
          /\ component = "poolScripts"     => PC!TypeOK

\* A command whose own checks passed, and that nobody interfered with, is not refused by the
\* program, not even in its second or third transaction; the exceptions are each component's.
LoneRunNeverRefused ==
    /\ component = "dammV1"          => V1!LoneRunNeverRefused
    /\ component = "stake2earn"      => SE!LoneRunNeverRefused
    /\ component = "farming"         => FA!LoneRunNeverRefused
    /\ component = "dynamicVault"    => DV!LoneRunNeverRefused
    /\ component = "lock"            => LO!LoneRunNeverRefused
    /\ component = "presale"         => PS!LoneRunNeverRefused
    /\ component = "dammV2Positions" => V2!LoneRunNeverRefused
    /\ component = "feeSharing"      => FS!LoneRunNeverRefused
    /\ component = "alphaVault"      => VA!LoneRunNeverRefused
    /\ component = "dbcPool"         => DP!LoneRunNeverRefused
    /\ component = "dlmm"            => DL!LoneRunNeverRefused
    /\ component = "trading"         => SW!LoneRunNeverRefused
    /\ component = "poolScripts"     => PC!LoneRunNeverRefused

\* A command of several transactions or of several items that reports success has done all
\* of it.
OkMeansDone ==
    /\ component = "farming"         => FA!OkMeansDone
    /\ component = "presale"         => PS!OkMeansDone
    /\ component = "dammV2Positions" => V2!OkMeansDone
    /\ component = "feeSharing"      => FS!OkMeansDone
    /\ component = "alphaVault"      => VA!OkMeansDone
    /\ component = "dbcPool"         => DP!OkMeansDone
    /\ component = "dlmm"            => DL!OkMeansDone
    /\ component = "poolScripts"     => PC!OkMeansDone

\* DammV1: what is locked for the wallets of the list are their shares, the last one's the rest.
LockedByShare == component = "dammV1" => V1!LockedByShare

\* Lock: nothing is vested before the cliff, all of it in the end, never less than was claimed.
VestingSound == component = "lock" => LO!VestingSound

\* Dlmm: limit orders hold what was asked for, at no worse a price.
OrdersAsAsked == component = "dlmm" => DL!OrdersAsAsked

\* Trading: no swap, however late it lands, brings less than its quote less the slippage.
SlippageBounded == component = "trading" => SW!SlippageBounded
=============================================================================
