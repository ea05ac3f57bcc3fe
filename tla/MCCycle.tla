------------------------------- MODULE MCCycle --------------------------------
(* AgentCycle on small instances; all parameters are given in the .cfg.    *)
EXTENDS AgentCycle, TLC
===============================================================================
