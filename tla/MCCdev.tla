-------------------------------- MODULE MCCdev --------------------------------
EXTENDS Cdev
=============================================================================
