---------------------------- MODULE MCLockLiquidity ----------------------------
EXTENDS DammV1

\* One wallet with 80 percent of the LP.
List == {<<[to |-> "a", tenths |-> 800]>>}
=============================================================================
