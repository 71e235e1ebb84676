---------------------------- MODULE MCAccounts ----------------------------
EXTENDS Accounts
CONSTANTS admin, mixed, a1, h1, h2
LowerCase == [e \in Email |-> IF e = mixed THEN admin ELSE e]
=============================================================================
