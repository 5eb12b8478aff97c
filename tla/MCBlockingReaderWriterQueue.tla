--------------------- MODULE MCBlockingReaderWriterQueue ---------------------
\* Instances of BlockingReaderWriterQueue for TLC; the cfg files choose the constants.
EXTENDS BlockingReaderWriterQueueProperties
==============================================================================
