------------------------------ MODULE MCVault ------------------------------
EXTENDS Vault

\* The second credentials are preferred to the first ones.
SecondFirst == [i \in Infos |-> IF i = 2 THEN 1 ELSE 0]
=============================================================================
