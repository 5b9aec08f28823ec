---------------------------- MODULE MCProcessing ----------------------------
EXTENDS Processing
=============================================================================
