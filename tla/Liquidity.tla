-------------------------------- MODULE Liquidity -------------------------------
(***************************************************************************)
(* The commands that move liquidity in bundles: zap-in, zap-out and the    *)
(* seeding of a DLMM pool.  A behaviour is one of the command that command *)
(* names, which the initial state chooses; the variables of the others     *)
(* stay Off.                                                               *)
(***************************************************************************)
EXTENDS Integers, Sequences, FiniteSets

CONSTANTS
    MaxSteps, MaxRuns, MaxSwaps, Patience,      \* zap-in
    MaxChunks, MaxAmount, Held, Shifts,         \* zap-out
    Inits, Adds, SeedRuns,                      \* seeding
    Faults                                      \* zap-out and seeding

VARIABLES
    command,
    work, verdict, late, phase, ghosts,                     \* zap-in and zap-out
    run, landed, faults,                                    \* two of the three
    steps, deferred, target, protocol, patient,             \* zap-in
    positions, deposits, open, reported,
    position, closed, wallet, converted, plan, shifts,      \* zap-out
    seedOwner, dryRun, pc, todo, next, awaited, sent, flying, proved    \* seeding

Off == "off"

In   == INSTANCE ZapIn
Out  == INSTANCE ZapOut
Seed == INSTANCE SeedLiquidity WITH Runs <- SeedRuns

ASSUME Constants == In!ZapInConstants /\ Out!ZapOutConstants /\ Seed!SeedLiquidityConstants

bundle == <<work, verdict, late, phase, ghosts>>
ofIn   == <<steps, deferred, target, protocol, patient, positions, deposits, open, reported>>
ofOut  == <<position, closed, wallet, converted, plan, shifts>>
ofSeed == <<seedOwner, dryRun, pc, todo, next, awaited, sent, flying, proved>>
vars   == <<command, bundle, run, landed, faults, ofIn, ofOut, ofSeed>>

BundleOff == work = Off /\ verdict = Off /\ late = Off /\ phase = Off /\ ghosts = Off
InOff     == /\ steps = Off /\ deferred = Off /\ target = Off /\ protocol = Off /\ patient = Off
             /\ positions = Off /\ deposits = Off /\ open = Off /\ reported = Off
OutOff    == /\ position = Off /\ closed = Off /\ wallet = Off /\ converted = Off
             /\ plan = Off /\ shifts = Off
SeedOff   == /\ seedOwner = Off /\ dryRun = Off /\ pc = Off /\ todo = Off /\ next = Off
             /\ awaited = Off /\ sent = Off /\ flying = Off /\ proved = Off

Init == \/ command = "zapIn" /\ In!Init /\ faults = Off /\ OutOff /\ SeedOff
        \/ command = "zapOut" /\ Out!Init /\ run = Off /\ InOff /\ SeedOff
        \/ command = "seed" /\ Seed!Init /\ BundleOff /\ InOff /\ OutOff

ZapIn(A)  == command = "zapIn" /\ A /\ UNCHANGED <<command, faults, ofOut, ofSeed>>
ZapOut(A) == command = "zapOut" /\ A /\ UNCHANGED <<command, run, ofIn, ofSeed>>
Seeding(A) == command = "seed" /\ A /\ UNCHANGED <<command, bundle, ofIn, ofOut>>

Next == ZapIn(In!Next) \/ ZapOut(Out!Next) \/ Seeding(Seed!Next)

\* The fairness of ZapOut and of SeedLiquidity; zap-in has none.
Spec == /\ Init /\ [][Next]_vars
        /\ WF_vars(ZapOut(Out!Run))
        /\ WF_vars(Seeding(Seed!Client)) /\ WF_vars(Seeding(Seed!Chain))

-----------------------------------------------------------------------------
\* The chain, the bundle and the reports hold only what the command can put there.
TypeOK == /\ command = "zapIn"  => In!TypeOK
          /\ command = "zapOut" => Out!TypeOK
          /\ command = "seed"   => Seed!TypeOK

\* ZapIn: with a patient operator one deposit and one new position, however often it is run.
OneDeposit == command = "zapIn" => In!OneDeposit

\* ZapIn: the ledger and the position are there when the deposit's turn comes.
DepositReady == command = "zapIn" => In!DepositReady

\* ZapIn: a bundle that runs to its end leaves no temporary account behind.
CompleteIsClean == command = "zapIn" => In!CompleteIsClean

\* ZapOut: the tokens the wallet held beforehand stay.
OwnTokensKept == command = "zapOut" => Out!OwnTokensKept

\* ZapOut: what a bundle freed, it converts.
FreedIsConverted == command = "zapOut" => Out!FreedIsConverted

\* ZapOut: running the command again gets all the liquidity out.
WithdrawalConverges == <>[](command = "zapOut" => Out!Withdrawn)

\* SeedLiquidity: positions before deposits, deposits in order, late ones included.
SeedInOrder == command = "seed" => Seed!StagesInOrder /\ Seed!DepositsInOrder

\* SeedLiquidity: "finished" means that every deposit of the run is on chain.
DoneMeansSeeded == command = "seed" => Seed!DoneMeansSeeded

\* SeedLiquidity: whatever becomes of its transactions, a run ends.
RunEnds == (command = "seed" /\ Seed!Underway) ~> Seed!Ended
=============================================================================
