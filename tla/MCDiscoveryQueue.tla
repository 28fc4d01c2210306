-------------------------- MODULE MCDiscoveryQueue --------------------------
(* Instances of DiscoveryQueue for TLC.                                    *)
EXTENDS DiscoveryQueue, TLC

\* Workers and refreshes are interchangeable, and so are sources; tokens are
\* not, FreshToken picks them.  For the runs without temporal properties.
Symmetry ==
    Permutations(Worker) \cup Permutations(Run) \cup Permutations(Source)
=============================================================================
