------------------------------- MODULE MCExpiry -------------------------------
EXTENDS Expiry

CONSTANTS t1, t3

SoonTtl == [t \in Txs |-> IF t = t3 THEN 2 ELSE 1]
===============================================================================
