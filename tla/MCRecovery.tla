----------------------------- MODULE MCRecovery -----------------------------
\* Two orders that trade, an account creation between them, and a request that cannot be
\* decoded.
EXTENDS Recovery

MCKindOf(r) == IF r = 2 THEN "account" ELSE "order"
MCTradesOf(r) == IF r = 1 THEN 1 ELSE IF r = 4 THEN 2 ELSE 0
=============================================================================
