------------------------------- MODULE MCTokenScan -------------------------------
EXTENDS TokenScan
=============================================================================
