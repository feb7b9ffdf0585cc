----------------------------- MODULE MCInstall ------------------------------
EXTENDS Install, TLC

MCRelease == 0..2
Symmetric == Permutations(Command) \cup Permutations(Domains)

=============================================================================
