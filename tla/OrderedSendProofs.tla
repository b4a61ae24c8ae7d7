--------------------------- MODULE OrderedSendProofs ---------------------------
(***************************************************************************)
(* For every number of steps and every bundle: the effects of a bundle     *)
(* reach the chain in order, its abort message is right about what was not *)
(* sent, success means everything landed, and the invocation implements    *)
(* the abstract OrderedChain.  A dry run blames a step only for a fault of *)
(* its own, and a clean one is right about the live run after it.          *)
(***************************************************************************)
EXTENDS OrderedSend, TLAPS

Ended == {"aborted", "killed"}

\* What was submitted, what landed and what is in flight, at each place the
\* invocation can be: everything before the current step is on chain, and the
\* current step is the only one that can be in flight.
Before == {r \in Runnable : r < cur}

ChainInv ==
    /\ cause # "none" <=> pc = "aborted"
    /\ pc = "dry" => mode = "dry"
    /\ (mode = "dry" \/ pc \in {"call", "dry"}) => sent = {} /\ pc \notin {"send", "await"} \union Ended
    /\ flying \subseteq sent
    /\ landed \subseteq sent
    /\ flying \intersect landed = {}
    /\ pc = "send" => /\ cur \in Runnable
                      /\ sent = Before /\ landed = Before
    /\ pc \in {"await"} \union Ended => /\ cur \in Runnable
                                        /\ sent \subseteq Before \union {cur}
                                        /\ Before \subseteq landed
                                        /\ flying \subseteq {cur}
    /\ pc = "done" /\ mode = "live" => landed = Runnable /\ sent = Runnable
    /\ pc = "aborted" => report = AbortReport(cur)

IInv == TypeOK /\ ChainInv

USE NAssumption DEF Steps

-----------------------------------------------------------------------------
\* The loop's next position is a position.
LEMMA FollowsType ==
    ASSUME TypeOK, NEW s \in 0..(N + 1), NEW t, Follows(s, t)
    PROVE  t \in 1..(N + 1) /\ (t # N + 1 => t \in Runnable)
BY DEF Follows, Runnable, TypeOK

\* Nothing runnable is skipped by one turn of the loop.
LEMMA FollowsBefore ==
    ASSUME TypeOK, NEW s \in 0..(N + 1), NEW t, Follows(s, t)
    PROVE  {r \in Runnable : r < t} = {r \in Runnable : r <= s}
BY DEF Follows, Runnable, TypeOK

\* The initial states satisfy the inductive invariant.
LEMMA InitIInv == Init => IInv
<1> SUFFICES ASSUME Init PROVE IInv
  OBVIOUS
<1>1. TypeOK
  BY DEF Init, TypeOK, NoReport
<1>2. ChainInv
  BY DEF Init, ChainInv, Ended
<1>3. QED
  BY <1>1, <1>2 DEF IInv

\* An abort while a step is being sent reports sets of steps and a known cause.
LEMMA AbortType ==
    ASSUME TypeOK, NEW why \in {"program", "rpc", "expired"}, Abort(why)
    PROVE  /\ pc' = "aborted" /\ cur' \in 0..(N + 1)
           /\ cause' \in {"none", "program", "rpc", "expired"}
           /\ report' \in [landed : SUBSET Steps, unsent : SUBSET Steps]
BY DEF Abort, AbortReport, Runnable, TypeOK

\* Every step keeps the type invariant; that the submitted step is a step is
\* the part that needs ChainInv.
LEMMA NextTypeOK == IInv /\ [Next]_vars => TypeOK'
<1> SUFFICES ASSUME IInv, [Next]_vars PROVE TypeOK'
  OBVIOUS
<1> TypeOK /\ ChainInv
  BY DEF IInv
<1> USE DEF TypeOK, vars, chainVars, dryVars, liveVars
<1>1. CASE Call
  <2>1. cur' \in 1..(N + 1)
    BY <1>1, FollowsType DEF Call
  <2>2. QED
    BY <1>1, <2>1 DEF Call
<1>2. CASE Defer \/ SimulateOk \/ SimulateFail \/ SimulateRpcError
  <2>1. cur' \in 1..(N + 1)
    BY <1>2, FollowsType DEF Defer, SimulateOk, SimulateFail, SimulateRpcError
  <2>2. CASE Defer
    BY <2>2, <2>1 DEF Defer
  <2>3. CASE SimulateOk
    BY <2>3, <2>1 DEF SimulateOk
  <2>4. CASE SimulateFail
    BY <2>4, <2>1 DEF SimulateFail
  <2>5. CASE SimulateRpcError
    <3>1. failures' \in SUBSET Steps /\ rpcErrors' \in SUBSET Steps
      BY <2>5 DEF SimulateRpcError
    <3>2. QED
      BY <2>5, <2>1, <3>1 DEF SimulateRpcError
  <2>6. QED
    BY <1>2, <2>2, <2>3, <2>4, <2>5
<1>3. CASE DryVerdict
  BY <1>3 DEF DryVerdict
<1>4. CASE GoLive \/ Kill
  <2>1. CASE GoLive
    BY <2>1 DEF GoLive
  <2>2. CASE Kill
    BY <2>2 DEF Kill
  <2>3. QED
    BY <1>4, <2>1, <2>2
<1>5. CASE ConfirmOk
  <2>1. cur' \in 1..(N + 1)
    BY <1>5, FollowsType DEF ConfirmOk
  <2>2. QED
    BY <1>5, <2>1 DEF ConfirmOk
<1>6. CASE PreflightRejects \/ SubmitError \/ ConfirmFailed \/ ConfirmError
  <2>1. PICK why \in {"program", "rpc", "expired"} : Abort(why)
    BY <1>6 DEF PreflightRejects, SubmitError, ConfirmFailed, ConfirmError
  <2>2. UNCHANGED <<bundle, mode, chainVars, dryVars>>
    BY <1>6 DEF PreflightRejects, SubmitError, ConfirmFailed, ConfirmError
  <2>3. QED
    BY <2>1, <2>2, AbortType
<1>7. CASE Submit
  <2>1. cur \in Steps
    BY <1>7 DEF Submit, ChainInv, Runnable
  <2>2. QED
    BY <1>7, <2>1 DEF Submit
<1>8. ASSUME NEW s \in Steps, Land(s) \/ Drop(s)
      PROVE  TypeOK'
  BY <1>8 DEF Land, Drop
<1>9. CASE UNCHANGED vars
  BY <1>9
<1>10. QED
  BY <1>1, <1>2, <1>3, <1>4, <1>5, <1>6, <1>7, <1>8, <1>9
     DEF Next, Progress, RpcError, Operator, Chain

-----------------------------------------------------------------------------
\* An abort while the current step is the only one in doubt.
LEMMA AbortChainInv ==
    ASSUME IInv, NEW why \in {"program", "rpc", "expired"}, Abort(why),
           pc \in {"send", "await"}, UNCHANGED <<bundle, mode, chainVars, dryVars>>
    PROVE  ChainInv'
<1> USE DEF chainVars
<1>1. /\ cur \in Runnable /\ sent \subseteq Before \union {cur}
      /\ Before \subseteq landed /\ flying \subseteq {cur}
      /\ flying \subseteq sent /\ landed \subseteq sent /\ flying \intersect landed = {}
      /\ mode # "dry"
  <2>1. CASE pc = "send"
    <3>1. flying = {}
      BY <2>1 DEF IInv, ChainInv
    <3>2. QED
      BY <2>1, <3>1 DEF IInv, ChainInv
  <2>2. CASE pc = "await"
    BY <2>2 DEF IInv, ChainInv
  <2>3. QED
    BY <2>1, <2>2
<1>2. Runnable' = Runnable /\ Before' = Before
  BY DEF Runnable, Before, Abort
<1>3. report' = AbortReport(cur)'
  BY DEF Abort, AbortReport, Runnable
<1>4. pc' = "aborted" /\ cause' # "none" /\ cur' = cur
  BY DEF Abort
<1>5. QED
  BY <1>1, <1>2, <1>3, <1>4 DEF ChainInv, Ended

\* Every step keeps ChainInv: one case per action.
LEMMA NextChainInv == IInv /\ [Next]_vars => ChainInv'
<1> SUFFICES ASSUME IInv, [Next]_vars PROVE ChainInv'
  OBVIOUS
<1> TypeOK /\ ChainInv
  BY DEF IInv
<1> USE DEF vars, chainVars, dryVars, liveVars
<1>1. CASE Call
  <2>1. cur' \in 1..(N + 1) /\ (cur' # N + 1 => cur' \in Runnable)
    BY <1>1, FollowsType DEF Call
  <2>2. /\ {r \in Runnable : r < cur'} = {}
        /\ (cur' = N + 1 => Runnable = {})
    <3>1. Follows(0, cur') /\ 0 \in 0..(N + 1)
      BY <1>1 DEF Call
    <3>2. {r \in Runnable : r < cur'} = {r \in Runnable : r <= 0}
      BY <3>1, FollowsBefore
    <3>3. {r \in Runnable : r <= 0} = {}
      BY DEF Runnable
    <3>4. cur' = N + 1 => Runnable = {r \in Runnable : r < cur'}
      BY DEF Runnable
    <3>5. QED
      BY <3>2, <3>3, <3>4
  <2>3. Runnable' = Runnable /\ Before' = {}
    BY <1>1, <2>2 DEF Call, Runnable, Before
  <2>4. sent = {} /\ landed = {} /\ flying = {} /\ cause = "none"
    BY <1>1 DEF Call, ChainInv
  <2>5. UNCHANGED <<mode, sent, landed, flying, cause>>
    BY <1>1 DEF Call
  <2>6. pc' \in {"done", "dry", "send"} /\ (mode = "dry" => pc' # "send")
        /\ (pc' = "send" => cur' # N + 1) /\ (pc' = "dry" => mode = "dry")
        /\ (pc' = "done" => cur' = N + 1)
    BY <1>1 DEF Call
  <2>7. QED
    BY <2>1, <2>2, <2>3, <2>4, <2>5, <2>6 DEF ChainInv, Ended
<1>2. CASE Defer \/ SimulateOk \/ SimulateFail \/ SimulateRpcError
  <2>1. pc = "dry" /\ UNCHANGED <<bundle, mode, pc, chainVars, liveVars>>
    BY <1>2 DEF Defer, SimulateOk, SimulateFail, SimulateRpcError
  <2>2. QED
    BY <2>1 DEF ChainInv, Ended
<1>3. CASE DryVerdict
  <2>1. mode = "dry" /\ pc = "dry" /\ pc' = "done" /\ UNCHANGED <<mode, chainVars, liveVars>>
    BY <1>3 DEF DryVerdict, ChainInv
  <2>2. QED
    BY <2>1 DEF ChainInv, Ended
<1>4. CASE GoLive
  <2>1. sent = {} /\ landed = {} /\ flying = {} /\ pc' = "call" /\ cause = "none"
    BY <1>4 DEF GoLive, ChainInv
  <2>2. QED
    BY <1>4, <2>1 DEF GoLive, ChainInv, Ended
<1>5. CASE Kill
  <2>1. /\ cur \in Runnable /\ sent \subseteq Before \union {cur}
        /\ Before \subseteq landed /\ flying \subseteq {cur} /\ cause = "none"
    BY <1>5 DEF Kill, ChainInv
  <2>2. Runnable' = Runnable /\ Before' = Before /\ cur' = cur
    BY <1>5 DEF Kill, Runnable, Before
  <2>3. QED
    BY <1>5, <2>1, <2>2 DEF Kill, ChainInv, Ended
<1>6. CASE Submit
  <2>1. cur \in Runnable /\ sent = Before /\ landed = Before /\ flying = {} /\ cur \notin Before
    BY <1>6 DEF Submit, ChainInv, Before, Runnable
  <2>2. Runnable' = Runnable /\ Before' = Before /\ cur' = cur
    BY <1>6 DEF Submit, Runnable, Before
  <2>3. QED
    BY <1>6, <2>1, <2>2 DEF Submit, ChainInv, Ended
<1>7. CASE ConfirmOk
  <2>1. cur \in Runnable /\ sent \subseteq Before \union {cur} /\ Before \subseteq landed
        /\ cur \in landed /\ landed \subseteq sent /\ flying = {} /\ mode = "live"
        /\ cause = "none"
    <3>1. mode = "live"
      BY <1>7 DEF ConfirmOk, ChainInv, TypeOK
    <3>2. QED
      BY <1>7, <3>1 DEF ConfirmOk, ChainInv
  <2>2. cur' \in 1..(N + 1) /\ (cur' # N + 1 => cur' \in Runnable)
    <3>1. Follows(cur, cur') /\ cur \in 0..(N + 1)
      BY <1>7 DEF ConfirmOk, TypeOK
    <3>2. QED
      BY <3>1, FollowsType
  <2>3. {r \in Runnable : r < cur'} = Before \union {cur}
    <3>1. {r \in Runnable : r < cur'} = {r \in Runnable : r <= cur}
      <4>1. Follows(cur, cur') /\ cur \in 0..(N + 1)
        BY <1>7 DEF ConfirmOk, TypeOK
      <4>2. QED
        BY <4>1, FollowsBefore
    <3>2. QED
      BY <3>1, <2>1 DEF Before, Runnable
  <2>4. Runnable' = Runnable /\ Before' = Before \union {cur}
    BY <1>7, <2>3 DEF ConfirmOk, Runnable, Before
  <2>5. sent = Before' /\ landed = Before'
    BY <2>1, <2>4
  <2>6. cur' = N + 1 => Before' = Runnable
    BY <2>3, <2>4 DEF Runnable
  <2>7. UNCHANGED <<mode, sent, landed, flying, cause>> /\ pc' \in {"done", "send"}
        /\ (pc' = "done" <=> cur' = N + 1)
    BY <1>7 DEF ConfirmOk
  <2>8. QED
    BY <2>1, <2>2, <2>4, <2>5, <2>6, <2>7 DEF ChainInv, Ended
<1>8. CASE PreflightRejects \/ SubmitError \/ ConfirmFailed \/ ConfirmError
  <2>1. PICK why \in {"program", "rpc", "expired"} : Abort(why)
    BY <1>8 DEF PreflightRejects, SubmitError, ConfirmFailed, ConfirmError
  <2>2. pc \in {"send", "await"} /\ UNCHANGED <<bundle, mode, chainVars, dryVars>>
    BY <1>8 DEF PreflightRejects, SubmitError, ConfirmFailed, ConfirmError
  <2>3. QED
    BY <2>1, <2>2, AbortChainInv
<1>9. ASSUME NEW s \in Steps, Land(s) \/ Drop(s)
      PROVE  ChainInv'
  <2>1. UNCHANGED <<bundle, mode, pc, cur, sent, liveVars>>
    BY <1>9 DEF Land, Drop
  <2>2. Runnable' = Runnable /\ Before' = Before /\ AbortReport(cur)' = AbortReport(cur)
    BY <2>1 DEF Runnable, Before, AbortReport
  <2>3. s \in flying /\ flying' \subseteq flying \ {s} /\ landed \subseteq landed'
        /\ landed' \subseteq landed \union {s}
    BY <1>9 DEF Land, Drop
  <2>4. pc \in {"await"} \union Ended
    <3>1. sent # {} /\ ~(sent = landed) /\ mode # "dry" /\ pc # "call" /\ pc # "dry"
      BY <2>3 DEF ChainInv
    <3>2. mode = "live"
      BY <3>1 DEF TypeOK
    <3>3. pc # "send" /\ pc # "done"
      BY <3>1, <3>2 DEF ChainInv
    <3>4. QED
      BY <3>1, <3>3 DEF TypeOK, Ended
  <2>5. QED
    BY <2>1, <2>2, <2>3, <2>4 DEF ChainInv, Ended
<1>10. CASE UNCHANGED vars
  <2>1. Runnable' = Runnable /\ Before' = Before /\ AbortReport(cur)' = AbortReport(cur)
    BY <1>10 DEF Runnable, Before, AbortReport
  <2>2. QED
    BY <1>10, <2>1 DEF ChainInv, Ended
<1>11. QED
  BY <1>1, <1>2, <1>3, <1>4, <1>5, <1>6, <1>7, <1>8, <1>9, <1>10
     DEF Next, Progress, RpcError, Operator, Chain

\* The invariant is inductive: no step of the client, the operator or the chain breaks it.
LEMMA NextIInv == IInv /\ [Next]_vars => IInv'
BY NextTypeOK, NextChainInv DEF IInv

\* The inductive invariant holds of every behaviour.
THEOREM Invariance == Spec => []IInv
<1>1. QED
  BY InitIInv, NextIInv, PTL DEF Spec

\* sendOrderedTransactions keeps its variables in range for every bundle.
THEOREM TypeCorrect == Spec => []TypeOK
<1>1. IInv => TypeOK
  BY DEF IInv
<1>2. QED
  BY <1>1, Invariance, PTL

\* Effects reach the chain in the order of the bundle, whatever its length,
\* whichever confirmations fail and however late a transaction lands.
THEOREM Ordered == Spec => []LandedInOrder
<1>1. IInv => LandedInOrder
  <2> SUFFICES ASSUME IInv, NEW s \in landed, NEW r \in Runnable, r < s
               PROVE  r \in landed
    BY DEF LandedInOrder
  <2> TypeOK /\ ChainInv
    BY DEF IInv
  <2>1. s \in Runnable /\ s \in sent /\ mode = "live" /\ pc \notin {"call", "dry"}
    <3>1. s \in sent /\ mode # "dry" /\ pc \notin {"call", "dry"}
      BY DEF ChainInv
    <3>2. mode = "live"
      BY <3>1 DEF TypeOK
    <3>3. sent \subseteq Runnable
      BY <3>1, <3>2 DEF ChainInv, TypeOK, Ended, Before
    <3>4. QED
      BY <3>1, <3>2, <3>3
  <2>2. CASE pc = "done"
    BY <2>1, <2>2 DEF ChainInv
  <2>3. CASE pc = "send"
    BY <2>1, <2>3 DEF ChainInv, Before, Runnable
  <2>4. CASE pc \in {"await"} \union Ended
    <3>1. cur \in Runnable /\ s <= cur /\ Before \subseteq landed
      BY <2>1, <2>4 DEF ChainInv, Before, Runnable
    <3>2. r \in Before
      BY <3>1, <2>1 DEF Before, Runnable
    <3>3. QED
      BY <3>1, <3>2
  <2>5. QED
    BY <2>1, <2>2, <2>3, <2>4 DEF TypeOK, Ended
<1>2. QED
  BY <1>1, Invariance, PTL

\* An operator may trust the abort message on the steps it says were not sent:
\* they are not on chain, and none of them can still land.
THEOREM ReportCorrect == Spec => []ReportUsable
<1>1. IInv => ReportUsable
  <2> SUFFICES ASSUME IInv, pc = "aborted"
               PROVE  /\ report.unsent \intersect (landed \union flying) = {}
                      /\ report.landed \ {cur} \subseteq landed
    BY DEF ReportUsable
  <2>1. /\ cur \in Runnable /\ sent \subseteq Before \union {cur} /\ Before \subseteq landed
        /\ flying \subseteq sent /\ landed \subseteq sent
        /\ report.landed = {r \in Runnable : r <= cur}
        /\ report.unsent = {r \in Runnable : r > cur}
    BY DEF IInv, ChainInv, AbortReport, Ended
  <2>2. {r \in Runnable : r > cur} \intersect (Before \union {cur}) = {}
    BY <2>1 DEF Before, Runnable
  <2>3. {r \in Runnable : r <= cur} \ {cur} \subseteq Before
    BY <2>1 DEF Before, Runnable
  <2>4. QED
    BY <2>1, <2>2, <2>3
<1>2. QED
  BY <1>1, Invariance, PTL

\* A live run that returns has every runnable step on chain and none in flight.
THEOREM SuccessCorrect == Spec => []SuccessMeansAll
<1>1. IInv => SuccessMeansAll
  BY DEF IInv, ChainInv, SuccessMeansAll
<1>2. QED
  BY <1>1, Invariance, PTL

-----------------------------------------------------------------------------
\* Step r can be executed on a chain where nothing of the bundle has landed.
Alone(r) == r \notin bundle.bad /\ bundle.needs[r] \ bundle.empty = {}

\* A dry run has put every step it has passed to that test, or blames it, or was told not to
\* simulate it; it blames no step that would stand the test; and no step that would stand it
\* is ever rejected by the program in the live run.
DryInv ==
    /\ pc = "dry" => /\ cur \in Runnable \union {N + 1}
                     /\ \A r \in Runnable :
                            r < cur => r \in failures \union bundle.deferred \/ Alone(r)
    /\ \A r \in failures \ rpcErrors : r \in Runnable \ bundle.deferred /\ ~Alone(r)
    /\ dryVerdict = "clean" => \A r \in Runnable : Alone(r)
    /\ cause = "program" => \E r \in Runnable : ~Alone(r)

\* The bundle does not change.
LEMMA BundleKept ==
    ASSUME [Next]_vars
    PROVE  bundle' = bundle /\ Runnable' = Runnable /\ \A r : Alone(r)' <=> Alone(r)
<1>1. bundle' = bundle
  BY DEF Next, Progress, RpcError, Operator, Chain, vars, Call, Defer, SimulateOk,
         SimulateFail, SimulateRpcError, DryVerdict, GoLive, Submit, ConfirmOk,
         PreflightRejects, SubmitError, ConfirmFailed, ConfirmError, Kill, Land, Drop
<1>2. QED
  BY <1>1 DEF Runnable, Alone

\* In a dry run nothing is on chain, so a simulation is the test; in a live run, what would
\* stand it can be executed whatever has landed.
LEMMA AloneExecutable ==
    ASSUME IInv, NEW r
    PROVE  /\ Alone(r) => Executable(r)
           /\ pc = "dry" => (Alone(r) <=> Executable(r))
BY DEF IInv, ChainInv, Alone, Executable

\* One turn of the dry run's loop: the step at which it stands is simulated, blamed or left
\* out, and everything before the next position is then accounted for.
LEMMA DryTurn ==
    ASSUME IInv, DryInv, Defer \/ SimulateOk \/ SimulateFail \/ SimulateRpcError
    PROVE  DryInv'
<1> TypeOK /\ ChainInv
  BY DEF IInv
<1>1. /\ pc = "dry" /\ cur \in Runnable /\ Follows(cur, cur') /\ cur \in 0..(N + 1)
      /\ UNCHANGED <<pc, dryVerdict, cause>>
  <2>1. /\ pc = "dry" /\ Follows(cur, cur') /\ UNCHANGED <<pc, dryVerdict, cause>>
        /\ cur \in bundle.deferred \union Steps
    BY DEF Defer, SimulateOk, SimulateFail, SimulateRpcError, dryVars, liveVars
  <2>2. bundle.deferred \subseteq Steps
    BY DEF TypeOK, Bundles
  <2>3. cur # N + 1 /\ cur \in 0..(N + 1)
    BY <2>1, <2>2
  <2>4. QED
    BY <2>1, <2>3 DEF DryInv
<1>2. bundle' = bundle /\ Runnable' = Runnable /\ \A r : Alone(r)' <=> Alone(r)
  BY BundleKept DEF Next, Progress, RpcError
<1>3. /\ cur' \in Runnable \union {N + 1}
      /\ {r \in Runnable : r < cur'} = {r \in Runnable : r <= cur}
  BY <1>1, FollowsType, FollowsBefore
<1>4. \A r \in Runnable : r < cur' => r = cur \/ r < cur
  BY <1>1, <1>3 DEF Runnable
<1>5. /\ failures \subseteq failures' /\ (cur \in failures' \union bundle.deferred \/ Alone(cur))
      /\ \A r \in failures' \ rpcErrors' :
            r \in failures \ rpcErrors \/ (r = cur /\ cur \notin bundle.deferred /\ ~Alone(cur))
  <2>1. Alone(cur) <=> Executable(cur)
    BY <1>1, AloneExecutable
  <2>2. CASE Defer \/ SimulateOk
    BY <2>1, <2>2 DEF Defer, SimulateOk, dryVars
  <2>3. CASE SimulateFail
    BY <2>1, <2>3 DEF SimulateFail
  <2>4. CASE SimulateRpcError
    BY <2>4 DEF SimulateRpcError
  <2>5. QED
    BY <2>2, <2>3, <2>4
<1>6. QED
  BY <1>1, <1>2, <1>3, <1>4, <1>5 DEF DryInv

\* The program rejects only a step that cannot be executed.
LEMMA AbortedFor ==
    ASSUME IInv, PreflightRejects \/ SubmitError \/ ConfirmFailed \/ ConfirmError
    PROVE  /\ pc' # "dry" /\ UNCHANGED <<failures, rpcErrors, dryVerdict>>
           /\ cause' = "program" => \E r \in Runnable : ~Alone(r)
<1>1. pc' = "aborted" /\ UNCHANGED dryVars /\ pc \in {"send", "await"}
  BY DEF PreflightRejects, SubmitError, ConfirmFailed, ConfirmError, Abort
<1>2. cause' = "program" => ~Executable(cur)
  BY DEF PreflightRejects, SubmitError, ConfirmFailed, ConfirmError, Abort
<1>3. cur \in Runnable
  BY <1>1 DEF IInv, ChainInv
<1>4. QED
  BY <1>1, <1>2, <1>3, AloneExecutable DEF dryVars

\* Every step keeps DryInv.
LEMMA NextDryInv == IInv /\ DryInv /\ [Next]_vars => DryInv'
<1> SUFFICES ASSUME IInv, DryInv, [Next]_vars PROVE DryInv'
  OBVIOUS
<1> USE DEF chainVars, dryVars, liveVars
<1>0. bundle' = bundle /\ Runnable' = Runnable /\ \A r : Alone(r)' <=> Alone(r)
  BY BundleKept
<1>1. CASE Call
  <2>1. /\ cur' \in Runnable \union {N + 1}
        /\ {r \in Runnable : r < cur'} = {r \in Runnable : r <= 0}
    <3>1. Follows(0, cur') /\ 0 \in 0..(N + 1)
      BY <1>1 DEF Call
    <3>2. QED
      BY <3>1, FollowsType, FollowsBefore DEF IInv
  <2>2. \A r \in Runnable : ~(r < cur')
    BY <2>1 DEF Runnable
  <2>3. QED
    BY <1>0, <1>1, <2>1, <2>2 DEF Call, DryInv
<1>2. CASE Defer \/ SimulateOk \/ SimulateFail \/ SimulateRpcError
  BY <1>2, DryTurn
<1>3. CASE DryVerdict
  <2>1. /\ pc = "dry" /\ cur = N + 1 /\ pc' = "done" /\ UNCHANGED <<failures, rpcErrors, cause>>
        /\ dryVerdict' = "clean" => failures = {} /\ Runnable \intersect bundle.deferred = {}
    BY <1>3 DEF DryVerdict
  <2>2. \A r \in Runnable : r < N + 1
    BY DEF Runnable
  <2>3. dryVerdict' = "clean" => \A r \in Runnable : Alone(r)
    BY <2>1, <2>2 DEF DryInv
  <2>4. QED
    BY <1>0, <2>1, <2>3 DEF DryInv
<1>4. CASE PreflightRejects \/ SubmitError \/ ConfirmFailed \/ ConfirmError
  <2>1. /\ pc' # "dry" /\ UNCHANGED <<failures, rpcErrors, dryVerdict>>
        /\ cause' = "program" => \E r \in Runnable : ~Alone(r)
    BY <1>4, AbortedFor
  <2>2. QED
    BY <1>0, <2>1 DEF DryInv
<1>5. CASE GoLive \/ Kill \/ Submit \/ ConfirmOk
  <2>1. pc' # "dry" /\ UNCHANGED <<failures, rpcErrors, dryVerdict, cause>>
    BY <1>5 DEF GoLive, Kill, Submit, ConfirmOk
  <2>2. QED
    BY <1>0, <2>1 DEF DryInv
<1>6. CASE UNCHANGED vars \/ \E s \in Steps : Land(s) \/ Drop(s)
  <2>1. UNCHANGED <<pc, cur, failures, rpcErrors, dryVerdict, cause>>
    BY <1>6 DEF vars, Land, Drop
  <2>2. QED
    BY <1>0, <2>1 DEF DryInv
<1>7. QED
  BY <1>1, <1>2, <1>3, <1>4, <1>5, <1>6 DEF Next, Progress, RpcError, Operator, Chain

\* What a dry run has found out holds in every reachable state.
LEMMA DryAlways == Spec => []DryInv
<1>1. Init => DryInv
  BY DEF Init, DryInv
<1>2. QED
  BY <1>1, NextDryInv, Invariance, PTL DEF Spec

\* A dry run of any bundle blames a step only for a fault of its own, if every step that
\* reads what an earlier one creates carries the dependsOnPriorStep mark.
THEOREM NoAlarm == Spec => []NoFalseAlarm
<1>1. DryInv => NoFalseAlarm
  BY DEF DryInv, NoFalseAlarm, Alone
<1>2. QED
  BY <1>1, DryAlways, PTL

\* The advice to go live once the simulation passes is right of a simulation that left nothing
\* out: the program aborts no live run that follows it, only the network does.
THEOREM CleanDryRun == Spec => []CleanDryRunHolds
<1>1. DryInv => CleanDryRunHolds
  BY DEF DryInv, CleanDryRunHolds
<1>2. QED
  BY <1>1, DryAlways, PTL

-----------------------------------------------------------------------------
\* Initial states map to initial states.
LEMMA InitRefines == Init => OC!Init
BY DEF Init, OC!Init, Runnable

\* Every step maps to a step of the abstract bundle or to a stutter.
LEMMA NextRefines == IInv /\ IInv' /\ [Next]_vars => [OC!Next]_(OC!vars)
<1> SUFFICES ASSUME IInv, IInv', [Next]_vars PROVE [OC!Next]_(OC!vars)
  OBVIOUS
<1> USE DEF chainVars, dryVars, liveVars
<1>0. Runnable' = Runnable
  BY DEF Next, Progress, RpcError, Operator, Chain, vars, Runnable, Call, Defer, SimulateOk,
         SimulateFail, SimulateRpcError, DryVerdict, GoLive, Submit, ConfirmOk,
         PreflightRejects, SubmitError, ConfirmFailed, ConfirmError, Kill, Land, Drop
<1>1. CASE Call \/ ConfirmOk
  <2>1. pc \in {"call", "await"} /\ pc' \in {"done", "dry", "send"} /\ UNCHANGED <<mode, chainVars>>
        /\ (mode = "dry" => pc = "call")
    BY <1>1 DEF Call, ConfirmOk, IInv, ChainInv
  <2>2. CASE pc' = "done" /\ mode = "live"
    <3>1. landed = Runnable
      BY <2>1, <2>2, <1>0 DEF IInv, ChainInv
    <3>2. OC!Complete
      BY <2>1, <2>2, <3>1, <1>0 DEF OC!Complete
    <3>3. QED
      BY <3>2 DEF OC!Next
  <2>3. CASE ~(pc' = "done" /\ mode = "live")
    BY <2>1, <2>3, <1>0 DEF OC!vars
  <2>4. QED
    BY <2>2, <2>3
<1>2. CASE Defer \/ SimulateOk \/ SimulateFail \/ SimulateRpcError \/ DryVerdict \/ GoLive
  <2>1. /\ pc \in {"dry", "done"} /\ pc' \in {"dry", "done", "call"}
        /\ (pc = "done" => mode = "dry") /\ (pc' = "done" => mode' = "dry")
        /\ UNCHANGED chainVars
    BY <1>2 DEF Defer, SimulateOk, SimulateFail, SimulateRpcError, DryVerdict, GoLive, IInv, ChainInv
  <2>2. QED
    BY <2>1, <1>0 DEF OC!vars
<1>3. CASE Submit
  BY <1>3, <1>0 DEF Submit, OC!vars
<1>4. CASE PreflightRejects \/ SubmitError \/ ConfirmFailed \/ ConfirmError \/ Kill
  <2>1. pc \in {"send", "await"} /\ pc' \in Ended /\ UNCHANGED <<mode, chainVars>>
    BY <1>4 DEF PreflightRejects, SubmitError, ConfirmFailed, ConfirmError, Kill, Abort, Ended
  <2>2. OC!Stop
    BY <2>1, <1>0 DEF OC!Stop, Ended
  <2>3. QED
    BY <2>2 DEF OC!Next
<1>5. ASSUME NEW s \in Steps, Land(s)
      PROVE  [OC!Next]_(OC!vars)
  <2>1. /\ s \in flying /\ landed' = landed \union {s} /\ flying' = flying \ {s}
        /\ UNCHANGED <<pc, mode, cur>>
    BY <1>5 DEF Land
  <2>2. pc \in {"await"} \union Ended
    BY <2>1 DEF IInv, ChainInv, TypeOK, Ended
  <2>3. /\ s = cur /\ s \in Runnable \ landed /\ flying = {s}
        /\ \A r \in Runnable : r < s => r \in landed
    BY <2>1, <2>2 DEF IInv, ChainInv, Before
  <2>4. OC!Land
    BY <2>1, <2>2, <2>3, <1>0 DEF OC!Land, Ended
  <2>5. QED
    BY <2>4 DEF OC!Next
<1>6. ASSUME NEW s \in Steps, Drop(s)
      PROVE  [OC!Next]_(OC!vars)
  <2>1. s \in flying /\ flying' = flying \ {s} /\ UNCHANGED <<pc, mode, landed>>
    BY <1>6 DEF Drop
  <2>2. pc \in {"await"} \union Ended
    BY <2>1 DEF IInv, ChainInv, TypeOK, Ended
  <2>3. flying = {s}
    BY <2>1, <2>2 DEF IInv, ChainInv
  <2>4. CASE pc = "await"
    BY <2>1, <2>4, <1>0 DEF OC!vars
  <2>5. CASE pc \in Ended
    <3>1. OC!Settle
      BY <2>1, <2>3, <2>5, <1>0 DEF OC!Settle, Ended
    <3>2. QED
      BY <3>1 DEF OC!Next
  <2>6. QED
    BY <2>2, <2>4, <2>5
<1>7. CASE UNCHANGED vars
  BY <1>7, <1>0 DEF vars, OC!vars
<1>8. QED
  BY <1>1, <1>2, <1>3, <1>4, <1>5, <1>6, <1>7 DEF Next, Progress, RpcError, Operator, Chain

\* sendOrderedTransactions implements the abstract ordered bundle.
THEOREM Implementation == Spec => Refines
<1>1. QED
  BY InitRefines, NextRefines, Invariance, PTL DEF Spec, Refines, OC!Spec
=============================================================================
