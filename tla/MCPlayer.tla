------------------------------ MODULE MCPlayer ------------------------------
\* Instances of Player for TLC; the cfg files choose the constants.
EXTENDS PlayerProperties
==============================================================================
