----------------------------- MODULE OrderedChain -----------------------------
(***************************************************************************)
(* What an ordered transaction bundle promises to whoever looks at the     *)
(* chain: the steps take effect one at a time and in order, success is     *)
(* announced only when every one of them has, and a bundle that gave up    *)
(* may still see at most one more step land (the one whose confirmation    *)
(* was being awaited).                                                     *)
(***************************************************************************)
EXTENDS Integers, FiniteSets

CONSTANT N              \* number of steps in the bundle

VARIABLES work,         \* the steps that have something to do
          landed,       \* the steps whose effects are on chain
          verdict,      \* "running", "complete" or "stopped"
          late          \* may one more step land after the bundle stopped?

vars == <<work, landed, verdict, late>>

Init ==
    /\ work \in SUBSET (1..N)
    /\ landed = {}
    /\ verdict = "running"
    /\ late = FALSE

\* The earliest step that has not landed takes effect.
Land ==
    /\ verdict = "running" \/ (verdict = "stopped" /\ late)
    /\ \E s \in work \ landed :
          /\ \A r \in work : r < s => r \in landed
          /\ landed' = landed \union {s}
    /\ late' = FALSE
    /\ UNCHANGED <<work, verdict>>

Complete ==
    /\ verdict = "running"
    /\ landed = work
    /\ verdict' = "complete"
    /\ UNCHANGED <<work, landed, late>>

Stop ==
    /\ verdict = "running"
    /\ verdict' = "stopped"
    /\ late' \in BOOLEAN
    /\ UNCHANGED <<work, landed>>

\* The awaited step expires: nothing more can land.
Settle ==
    /\ late
    /\ late' = FALSE
    /\ UNCHANGED <<work, landed, verdict>>

Next == Land \/ Complete \/ Stop \/ Settle

Spec == Init /\ [][Next]_vars
=============================================================================
