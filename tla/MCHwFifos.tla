----------------------------- MODULE MCHwFifos -----------------------------
EXTENDS HwFifos
MCChunks == {0, 2}
=============================================================================
