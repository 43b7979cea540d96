------------------------------- MODULE MC_Setup -------------------------------
EXTENDS Setup
==============================================================================
