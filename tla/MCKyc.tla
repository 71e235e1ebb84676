------------------------------- MODULE MCKyc -------------------------------
EXTENDS Kyc
CONSTANTS u1, u2, h1, h2
=============================================================================
