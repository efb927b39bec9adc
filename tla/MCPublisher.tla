---------------------------- MODULE MCPublisher -----------------------------
\* Two rows set in turn; the second record has a trade.
EXTENDS Publisher

MCRowOf(i) == IF i % 2 = 1 THEN "account" ELSE "order"
MCHasTrade(i) == i = 2
=============================================================================
