----------------------------- MODULE MCCompanions -----------------------------
EXTENDS Companions
MCFold == [n \in Names |-> IF n = "Ana" THEN "ana" ELSE n]
===============================================================================
