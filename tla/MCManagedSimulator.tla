------------------------ MODULE MCManagedSimulator ------------------------
EXTENDS ManagedSimulator
=============================================================================
