--------------------------- MODULE MCMediaImporter ---------------------------
\* Instance of MediaImporter for TLC; the cfg files choose the constants.
EXTENDS MediaImporterProperties
==============================================================================
