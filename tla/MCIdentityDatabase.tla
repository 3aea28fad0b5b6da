-------------------------- MODULE MCIdentityDatabase -------------------------
EXTENDS IdentityDatabase

\* One link: its first and its second peer.
MCPairs == {<<1, 2>>}

=============================================================================
