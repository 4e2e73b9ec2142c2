------------------------------ MODULE MCWaits ------------------------------
(* Components somebody waits for, which share nothing here: a session's    *)
(* calls, its ingress, exports, a run of the agent. A behaviour picks one  *)
(* and is a behaviour of it, the others staying where they start, so that  *)
(* one exploration is the sum of theirs and not the product.               *)
(* Of the calls: two, a party closing the session, one unreadable pause    *)
(* and one message of the host runtime's own; any number of each is proved *)
(* about in Session_proofs. Of the exports: two, so that one may be        *)
(* admitted while another is drained.                                      *)
EXTENDS CdpSession, Ingress, ExportJobs, AgentRun

CONSTANTS c1, c2, k1, p1, j1, j2
VARIABLE part

MCCalls == {c1, c2}
MCClosers == {k1}
MCPauses == {p1}
MCRuntimeIds == {1000000}
MCSizes == {1, 2}
MCJobs == {j1, j2}

MCInit ==
  /\ part \in {"calls", "ingress", "export", "agent"}
  /\ Init /\ IngressInit /\ ExportInit /\ AgentRunInit

MCNext ==
  \/ part = "calls" /\ Next /\ UNCHANGED <<part, iVars, eVars, aVars>>
  \/ part = "ingress" /\ IngressNext /\ UNCHANGED <<part, vars, eVars, aVars>>
  \/ part = "export" /\ ExportNext /\ UNCHANGED <<part, vars, iVars, aVars>>
  \/ part = "agent" /\ AgentRunNext /\ UNCHANGED <<part, vars, iVars, eVars>>

(* What is fair is not enabled where a part only starts.                   *)
MCSpec ==
  /\ MCInit /\ [][MCNext]_<<part, vars, iVars, eVars, aVars>>
  /\ Fairness /\ IngressFairness /\ ExportFairness /\ AgentFairness
=============================================================================
