---------------------------- MODULE MCFeeRetransfer ----------------------------
EXTENDS FeeSharing

Shares == {<<1, 1>>}
=============================================================================
