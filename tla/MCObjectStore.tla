---------------------------- MODULE MCObjectStore ----------------------------
EXTENDS ObjectStore

CONSTANTS cli, agent, f1

=============================================================================
