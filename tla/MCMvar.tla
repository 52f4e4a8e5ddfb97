-------------------------------- MODULE MCMvar --------------------------------
EXTENDS Mvar

NoPid == {NO_PROCESS}
=============================================================================
