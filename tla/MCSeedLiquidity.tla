---------------------------- MODULE MCSeedLiquidity ----------------------------
EXTENDS SeedLiquidity
=============================================================================
