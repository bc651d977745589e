--------------------------- MODULE MCReceivePath ---------------------------
\* An instance of ReceivePath for TLC; the bounds are in the .cfg.
EXTENDS ReceivePath
=============================================================================
