------------------------------ MODULE Submission ------------------------------
(***************************************************************************)
(* What the single commands of the studio have in common.  A command reads *)
(* the chain once, checks what it read, builds its transactions and then   *)
(* simulates them (config.dryRun) or sends them, one after the other, each *)
(* confirmed before the next: simulateOrSend and its copies.  The first    *)
(* failure ends the command.  A command of a component is an action that   *)
(* hands its checks and its transactions to Command; which transactions    *)
(* the program accepts and what they do are the component's operators      *)
(* Accepts and Effect.                                                     *)
(*                                                                         *)
(* Between the read and the landing anybody may change the chain, and a    *)
(* transaction whose confirmation is lost may land later, during another   *)
(* run.                                                                    *)
(***************************************************************************)
EXTENDS Naturals, Sequences, FiniteSets

CONSTANTS
    Accepts(_, _),      \* chain, transaction: the program executes it
    Effect(_, _),       \* chain, transaction: the chain afterwards
    Resumes,            \* commands that go on after their transactions
    Forgives,           \* commands that only print that a simulation failed
    MaxRuns,            \* commands, at most
    MaxLate             \* transactions lost at a time, at most

VARIABLES
    chain,              \* the accounts the component's commands read and write
    cmd,                \* the command: name, what it remembers, dryRun, its number,
                        \*   and whether the chain moved since it was given
    queue,              \* transactions it still has to simulate or send
    late,               \* sent, never confirmed: these may still land
    status              \* "idle", "running", "resumed", "ok", "threw" by a check of
                        \*   its own, "refused" by the program, "lost" confirmation

vars == <<chain, cmd, queue, late, status>>

NoCommand == [op |-> "none", arg |-> "none", dry |-> FALSE, n |-> 0, moved |-> FALSE]

Begin(c) == /\ chain = c /\ cmd = NoCommand /\ queue = <<>> /\ late = {}
            /\ status = "idle"

Busy == status \in {"running", "resumed"}

\* One command: ok are its checks, txs what it sends when they pass.
Command(op, arg, ok, txs) ==
    /\ ~Busy /\ cmd.n < MaxRuns
    /\ \E d \in BOOLEAN :
          cmd' = [op |-> op, arg |-> arg, dry |-> d, n |-> cmd.n + 1, moved |-> FALSE]
    /\ queue' = IF ok THEN txs ELSE <<>>
    /\ status' = IF ~ok THEN "threw" ELSE IF txs = <<>> THEN "ok" ELSE "running"
    /\ UNCHANGED <<chain, late>>

\* No SOL in the wallet, a block missing in the configuration, a node that does not answer.
Unready == Command("unready", "none", FALSE, <<>>)

After == /\ queue' = Tail(queue)
         /\ status' = IF Len(queue) > 1 THEN "running"
                      ELSE IF cmd.op \in Resumes THEN "resumed" ELSE "ok"

\* A command that goes on reads the chain again, then sends more transactions or returns.
Resume(op, arg, ok, txs) ==
    /\ status = "resumed"
    /\ cmd' = [cmd EXCEPT !.op = op, !.arg = arg]
    /\ queue' = IF ok THEN txs ELSE <<>>
    /\ status' = IF ~ok THEN "threw" ELSE IF txs = <<>> THEN "ok" ELSE "running"
    /\ UNCHANGED <<chain, late>>

Land ==
    /\ status = "running" /\ ~cmd.dry
    /\ Accepts(chain, Head(queue))
    /\ chain' = Effect(chain, Head(queue))
    /\ After
    /\ UNCHANGED <<cmd, late>>

\* Each transaction is simulated against the chain as it is.
Simulate ==
    /\ status = "running" /\ cmd.dry
    /\ Accepts(chain, Head(queue))
    /\ After
    /\ UNCHANGED <<chain, cmd, late>>

Forgiven == cmd.dry /\ cmd.op \in Forgives

Forgive ==
    /\ status = "running" /\ ~Accepts(chain, Head(queue)) /\ Forgiven
    /\ After
    /\ UNCHANGED <<chain, cmd, late>>

\* Variant: what was still to be sent is kept.
RefuseKeepsQueue ==
    /\ status = "running" /\ ~Accepts(chain, Head(queue)) /\ ~Forgiven
    /\ status' = "refused"
    /\ UNCHANGED <<chain, cmd, queue, late>>

\* The first failure ends the command.
Refuse ==
    /\ status = "running" /\ ~Accepts(chain, Head(queue)) /\ ~Forgiven
    /\ status' = "refused" /\ queue' = <<>>
    /\ UNCHANGED <<chain, cmd, late>>

\* No confirmation in time, or the operator interrupts the command.
Lose ==
    /\ status = "running" /\ ~cmd.dry /\ Cardinality(late) < MaxLate
    /\ late' = late \union {[tx |-> Head(queue), run |-> cmd.n]}
    /\ status' = "lost" /\ queue' = <<>>
    /\ UNCHANGED <<chain, cmd>>

\* Somebody else changes the chain.
World(c) ==
    /\ chain' = c
    /\ cmd' = [cmd EXCEPT !.moved = TRUE]
    /\ UNCHANGED <<queue, late, status>>

LandsLate(l) ==
    /\ Accepts(chain, l.tx)
    /\ late' = late \ {l}
    /\ chain' = Effect(chain, l.tx)
    /\ cmd' = [cmd EXCEPT !.moved = TRUE]
    /\ UNCHANGED <<queue, status>>

Expires(l) == late' = late \ {l} /\ UNCHANGED <<chain, cmd, queue, status>>

\* Every step that is not a component's own.
Step == \/ Land \/ Simulate \/ Forgive \/ Refuse \/ Lose \/ Unready
        \/ \E l \in late : LandsLate(l) \/ Expires(l)

\* Txs are the transactions the component can build.
TypeOK(Ops, Txs) ==
    /\ cmd.op \in Ops \union {"none", "unready"} /\ cmd.dry \in BOOLEAN
    /\ cmd.n \in 0..MaxRuns /\ cmd.moved \in BOOLEAN
    /\ \A i \in DOMAIN queue : queue[i] \in Txs
    /\ \A l \in late : l.tx \in Txs /\ l.run \in 1..cmd.n
    /\ status \in {"idle", "running", "resumed", "ok", "threw", "refused", "lost"}
    /\ (queue # <<>>) = (status = "running")

\* The command has reached its end with its transactions on chain.
Succeeded(op) == status = "ok" /\ cmd.op = op /\ ~cmd.dry
=============================================================================
