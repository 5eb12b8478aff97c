----------------------------- MODULE MCPlayerArgs -----------------------------
\* Instances of PlayerArgs for TLC; the cfg files choose the constants.
EXTENDS PlayerArgs
==============================================================================
