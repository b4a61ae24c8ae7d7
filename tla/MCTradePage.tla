----------------------------- MODULE MCTradePage -----------------------------
EXTENDS TradePage
CONSTANTS m1, m2, w1, w2
=============================================================================
