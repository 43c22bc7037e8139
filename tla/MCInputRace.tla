----------------------------- MODULE MCInputRace -----------------------------
EXTENDS InputRace
=============================================================================
