---------------------------- MODULE MCRawVideoFrame ----------------------------
\* Instances of RawVideoFrame for TLC; the cfg files choose the constants.
EXTENDS RawVideoFrame, TLC

\* Which addresses malloc returns makes no difference.
Addresses == Permutations(Buffers)
==============================================================================
