-------------------------- MODULE MCDiscoverySync ---------------------------
EXTENDS DiscoverySync, TLC

ASSUME SoundConstants

\* The requests are interchangeable, and the viewports that differ in nothing
\* but where they are.
Symmetry == Permutations(Slot) \cup Permutations(Query \ (TooLarge \cup OtherFilter))
=============================================================================
