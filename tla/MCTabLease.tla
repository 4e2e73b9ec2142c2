----------------------------- MODULE MCTabLease -----------------------------
(* Two clients in two tabs, and no agent run.                              *)
EXTENDS TabLease
CONSTANTS t1, t2, a, b

MCTabs == {t1, t2}
MCClients == {a, b}
MCNoRuns == {}
MCTtls == {0, 1, 9}
=============================================================================
