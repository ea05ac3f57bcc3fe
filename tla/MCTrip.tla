-------------------------------- MODULE MCTrip --------------------------------
(* TripRuns on small instances: the runs of one or two trips.              *)
EXTENDS TripRuns, TLC

\* Runs are taken in any order and streams are alike: both may be permuted.
RunSymmetry == Permutations(Runs)
RunStreamSymmetry == Permutations(Runs) \cup Permutations(Streams)
===============================================================================
