------------------------------- MODULE MCZapOut -------------------------------
EXTENDS ZapOut
=============================================================================
