------------------------------ MODULE MCAttach ------------------------------
EXTENDS AttachProperties, TLC
=============================================================================
