---------------------------- MODULE MCChainSync ----------------------------
(* Two devices; block labels are numbered in the order of hashes.            *)
EXTENDS ChainSync

CONSTANTS n1, n2

\* Each makes one block at every height.
MCPair == <<n1, n2>>
=============================================================================
