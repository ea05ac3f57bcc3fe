------------------------------- MODULE MCPages -------------------------------
EXTENDS TripPages, TLC
TripSymmetry == Permutations(Trips)
===============================================================================
