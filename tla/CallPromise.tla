---------------------------- MODULE CallPromise ----------------------------
(***************************************************************************)
(* What a protocol session promises to the code that calls it, without the *)
(* tables, locks and channels it uses to keep the promise: every call gets *)
(* one outcome, an answer is the answer to that very call, and a call only *)
(* reports a closed session when the session was closed.                   *)
(* CdpSession implements this specification (see Promise there).           *)
(***************************************************************************)

CONSTANT Calls       \* the calls callers make, each made once

VARIABLES
  status,            \* of each call: "new", "live", or its one outcome
  shut               \* the session has been closed

vars == <<status, shut>>

(* Outcomes a call may end with at any time; its own answer is the call    *)
(* itself, standing for the payload the browser computed for it.           *)
Failures == {"Timeout", "Transport", "Cancelled"}
Allowed(c) == {c} \cup Failures \cup (IF shut THEN {"Closed"} ELSE {})

Init == /\ status = [c \in Calls |-> "new"]
        /\ shut = FALSE

Start(c) == /\ status[c] = "new"
            /\ status' = [status EXCEPT ![c] = "live"]
            /\ UNCHANGED shut

Refuse(c) == /\ shut
             /\ status[c] = "new"
             /\ status' = [status EXCEPT ![c] = "Closed"]
             /\ UNCHANGED shut

Settle(c) == /\ status[c] = "live"
             /\ \E o \in Allowed(c) : status' = [status EXCEPT ![c] = o]
             /\ UNCHANGED shut

Shut == /\ shut' = TRUE
        /\ UNCHANGED status

Next == Shut \/ \E c \in Calls : Start(c) \/ Refuse(c) \/ Settle(c)

Safety == Init /\ [][Next]_vars

(* Once the session is shut nobody is left waiting.                        *)
Live == \A c \in Calls : WF_vars(shut /\ Settle(c))

Spec == Safety /\ Live
=============================================================================
