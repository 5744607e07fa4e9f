------------------------------ MODULE MCSystem ------------------------------
EXTENDS MCController, SystemProperties
=============================================================================
