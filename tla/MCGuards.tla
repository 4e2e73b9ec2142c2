------------------------------ MODULE MCGuards ------------------------------
(* The leases and the interception, which share nothing: a behaviour is of *)
(* the one or of the other. Two clients, one agent run and one tab, with   *)
(* claims that outlast the default lifetime, fall short of it or ask for   *)
(* more than is allowed; two requests over two documents.                  *)
EXTENDS TabLease, PausedRequests, TLC
CONSTANTS t1, a, b, p1, r1, r2

VARIABLE part

MCTabs == {t1}
MCClients == {a, b}
MCRuns == {p1}
MCTtls == {0, 1, 9}
MCReqs == {r1, r2}

Symmetric == Permutations(MCClients) \cup Permutations(MCReqs)

MCInit ==
  /\ part \in {"leases", "interception"}
  /\ Init /\ PausedInit
  /\ part = "interception" => Open = {}

MCNext ==
  \/ part = "leases" /\ Next /\ UNCHANGED <<part, fVars>>
  \/ part = "interception" /\ PausedNext /\ UNCHANGED <<part, vars>>
=============================================================================
