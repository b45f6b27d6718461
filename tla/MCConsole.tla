------------------------------ MODULE MCConsole ------------------------------
EXTENDS ConsoleProperties, TLC
=============================================================================
