-------------------------- MODULE MCPausedRequests --------------------------
(* Two requests over two documents.                                        *)
EXTENDS PausedRequests
CONSTANTS r1, r2

MCReqs == {r1, r2}
=============================================================================
