-------------------------- MODULE MCLoadTransaction --------------------------
EXTENDS LoadTransaction
===============================================================================
