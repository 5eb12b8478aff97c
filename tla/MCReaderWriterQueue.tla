------------------------ MODULE MCReaderWriterQueue ------------------------
\* Instances of ReaderWriterQueue for TLC; the cfg files choose the constants.
EXTENDS ReaderWriterQueueProperties
==============================================================================
