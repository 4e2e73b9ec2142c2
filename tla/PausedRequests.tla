--------------------------- MODULE PausedRequests ---------------------------
(***************************************************************************)
(* A request the browser paused stands between a page and its resource.    *)
(* One listener per tab reads the pauses off the event bus and decides;    *)
(* each request is then resolved by a task of its own, with one fallback   *)
(* and, when both fail, a stop of the page's load. Navigation, timeouts,   *)
(* an overrun of the bus and the close of the session come at any moment.  *)
(*                                                                         *)
(* The two directions of the DevTools channel are first in, first out. An  *)
(* answer reaches only the call it answers (module CdpSession).            *)
(***************************************************************************)
EXTENDS Integers, Sequences, FiniteSets

CONSTANTS
  Reqs,         \* requests, each made at most once
  MaxDoc,       \* documents the tab shows, one after another
  MaxInFlight,  \* MAX_IN_FLIGHT
  BusCap,       \* events the bus keeps for a slow listener
  MaxErrors     \* commands the browser may refuse

Listener == "listener"
None == "nobody"
Kinds == {"block", "rewrite", "continue"}

ASSUME PausedAssumption ==
  /\ MaxDoc \in Nat \ {0} /\ MaxInFlight \in Nat \ {0} /\ BusCap \in Nat \ {0}
  /\ MaxErrors \in Nat
  /\ Reqs \cap {Listener, None} = {}

VARIABLES
  doc,          \* the document the browser shows
  req,          \* each request: its document, its kind, what became of it
  fetch,        \* whether the Fetch domain pauses requests
  out,          \* commands on their way to the browser: [by, cmd]
  wire,         \* answers and events on their way from it
  errors,       \* refusals so far
  epoch,        \* CdpSession's navigation epoch
  bus,          \* pauses published and not read: [r, epoch]
  lagged,       \* whether the listener lost some
  closed,       \* the session is closed
  listener,     \* the listener: where it is, the pause it holds
  task,         \* each request's task: where it is, its epoch
  running       \* RequestRecovery.running

browser == <<doc, req, fetch>>
tasks == <<listener, task, running>>
fVars == <<doc, req, fetch, out, wire, errors, epoch, bus, lagged, closed, listener, task,
           running>>

PausedInit ==
  /\ doc = 1
  /\ req = [r \in Reqs |-> [doc |-> 0, kind |-> "continue", status |-> "unmade"]]
  /\ fetch = TRUE
  /\ out = <<>> /\ wire = <<>> /\ bus = <<>>
  /\ errors = 0 /\ epoch = 1
  /\ lagged = FALSE /\ closed = FALSE /\ running = FALSE
  /\ listener = [at |-> "recv", r |-> None, epoch |-> 0]
  /\ task = [r \in Reqs |-> [at |-> "none", epoch |-> 0]]

Paused(r) == req[r].status = "paused"

(* What became of the paused requests in a set.                            *)
Becomes(rs, status) ==
  req' = [r \in Reqs |-> IF r \in rs /\ Paused(r)
                         THEN [req[r] EXCEPT !.status = status] ELSE req[r]]

-----------------------------------------------------------------------------
(* The browser.                                                            *)

(* A page makes a request; off the Fetch domain it simply goes out.        *)
Request(r) ==
  /\ ~closed /\ req[r].status = "unmade"
  /\ \E kind \in Kinds :
       req' = [req EXCEPT ![r] = [doc |-> doc, kind |-> kind,
                                  status |-> IF fetch THEN "paused" ELSE "unseen"]]
  /\ wire' = IF fetch THEN Append(wire, [by |-> r, msg |-> "paused"]) ELSE wire
  /\ UNCHANGED <<doc, fetch, out, errors, epoch, bus, lagged, closed, tasks>>

(* Another document starts loading; the old one's requests go with it.     *)
Navigate ==
  /\ ~closed /\ doc < MaxDoc
  /\ doc' = doc + 1
  /\ Becomes(Reqs, "cancelled")
  /\ wire' = Append(wire, [by |-> None, msg |-> "loading"])
  /\ UNCHANGED <<fetch, out, errors, epoch, bus, lagged, closed, tasks>>

(* What a command does to the requests and the domain, when it is obeyed.  *)
Terminal == [fail |-> "failed", continue |-> "continued", fulfill |-> "fulfilled"]

Obey(c) ==
  CASE c.cmd \in DOMAIN Terminal ->
         Becomes({c.r}, Terminal[c.cmd]) /\ UNCHANGED fetch
    [] c.cmd = "stop" ->
         Becomes(Reqs, "cancelled") /\ UNCHANGED fetch
    [] c.cmd = "disable" -> Becomes(Reqs, "released") /\ fetch' = FALSE
    [] c.cmd = "enable" -> fetch' = TRUE /\ UNCHANGED req

Reply(c, how) == wire' = Append(wire, [by |-> c.by, msg |-> how])

(* The browser takes a command: it obeys, finds the request gone, or       *)
(* refuses for a reason of its own and leaves everything as it was.        *)
Carry ==
  /\ out # <<>>
  /\ out' = Tail(out)
  /\ LET c == Head(out) IN
       \/ /\ c.cmd \in DOMAIN Terminal => Paused(c.r)
          /\ Obey(c) /\ Reply(c, "ok")
          /\ UNCHANGED errors
       \/ /\ c.cmd \in DOMAIN Terminal /\ ~Paused(c.r)
          /\ Reply(c, "gone")
          /\ UNCHANGED <<req, fetch, errors>>
       \/ /\ errors < MaxErrors
          /\ errors' = errors + 1
          /\ Reply(c, "error")
          /\ UNCHANGED <<req, fetch>>
  /\ UNCHANGED <<doc, epoch, bus, lagged, closed, tasks>>

-----------------------------------------------------------------------------
(* The calls of the listener and of the tasks.                             *)

Send(by, r, cmd) == out' = Append(out, [by |-> by, r |-> r, cmd |-> cmd])

(* A call that timed out is no longer waited for, wherever it has got to.  *)
Orphaned(seq, by) ==
  [i \in DOMAIN seq |-> IF seq[i].by = by /\ ("cmd" \in DOMAIN seq[i] \/ seq[i].msg # "paused")
                        THEN [seq[i] EXCEPT !.by = None] ELSE seq[i]]

(* execute_action's choice of method, and of the one fallback.             *)
Primary(r) ==
  CASE req[r].kind = "block" -> {"fail"}
    [] req[r].kind = "rewrite" -> {"fulfill", "continue"}
    [] req[r].kind = "continue" -> {"continue"}

(* Mutant: whatever failed is continued.                                   *)
FallbackContinues(r) == "continue"

(* What is blocked stays blocked; a rewrite falls back on the plain thing. *)
Fallback(r) == IF req[r].kind = "rewrite" THEN "continue" ELSE "fail"

ToTask(r, at) == task' = [task EXCEPT ![r].at = at]

(* Where a task goes when its call ends: `gone` covers a closed session.   *)
AfterPrimary(r, how) ==
  IF how \in {"ok", "gone"}
  THEN ToTask(r, "done") /\ UNCHANGED out
  ELSE ToTask(r, "fallback") /\ Send(r, r, Fallback(r))

AfterFallback(r, how) == ToTask(r, IF how \in {"ok", "gone"} THEN "done" ELSE "check")

TaskReturns(r, how) ==
  \/ task[r].at = "primary" /\ AfterPrimary(r, how) /\ UNCHANGED <<listener, running>>
  \/ /\ task[r].at = "fallback" /\ AfterFallback(r, how)
     /\ UNCHANGED <<out, listener, running>>
  \/ /\ task[r].at = "stop" /\ ToTask(r, "after")
     /\ UNCHANGED <<out, listener, running>>

(* Mutant: the listener does not turn interception back on.                *)
ListenerReturnsEarly ==
  /\ listener.at \in {"disable", "enable"}
  /\ listener' = [listener EXCEPT !.at = "recv"]
  /\ UNCHANGED <<out, task, running>>

(* reset_interception: each step once, whatever the one before came to.    *)
ListenerReturns ==
  /\ \/ /\ listener.at = "disable"
        /\ listener' = [listener EXCEPT !.at = "enable"]
        /\ Send(Listener, None, "enable")
     \/ /\ listener.at = "enable"
        /\ listener' = [listener EXCEPT !.at = "recv"]
        /\ UNCHANGED out
  /\ UNCHANGED <<task, running>>

-----------------------------------------------------------------------------
(* The session's worker: one message at a time, in order.                  *)

(* Mutant: a full bus drops the event without telling the listener.        *)
PublishSilently(e) ==
  /\ bus' = Append(IF Len(bus) = BusCap THEN Tail(bus) ELSE bus, e)
  /\ UNCHANGED lagged

(* A full bus forgets its oldest event, and the listener is told.          *)
Publish(e) ==
  /\ bus' = Append(IF Len(bus) = BusCap THEN Tail(bus) ELSE bus, e)
  /\ lagged' = (lagged \/ Len(bus) = BusCap)

Incoming ==
  /\ wire # <<>> /\ ~closed
  /\ LET m == Head(wire) IN
       CASE m.msg = "loading" ->
              /\ epoch' = epoch + 1 /\ wire' = Tail(wire)
              /\ UNCHANGED <<out, bus, lagged, tasks>>
         [] m.msg = "paused" ->
              /\ Publish([r |-> m.by, epoch |-> epoch]) /\ wire' = Tail(wire)
              /\ UNCHANGED <<out, epoch, tasks>>
         [] m.msg \in {"ok", "gone", "error"} ->
              /\ wire' = Tail(wire)
              /\ CASE m.by = None -> UNCHANGED <<out, tasks>>
                   [] m.by = Listener -> ListenerReturns
                   [] m.by \in Reqs -> TaskReturns(m.by, m.msg)
              /\ UNCHANGED <<epoch, bus, lagged>>
  /\ UNCHANGED <<browser, errors, closed>>

-----------------------------------------------------------------------------
(* The listener's loop.                                                    *)

Resets ==
  /\ listener' = [listener EXCEPT !.at = "disable"]
  /\ Send(Listener, None, "disable")

Lagged ==
  /\ listener.at = "recv" /\ lagged
  /\ lagged' = FALSE
  /\ IF closed THEN UNCHANGED <<listener, out>> ELSE Resets
  /\ UNCHANGED <<browser, wire, errors, epoch, bus, closed, task, running>>

Take ==
  /\ listener.at = "recv" /\ ~lagged /\ bus # <<>>
  /\ listener' = [at |-> "permit", r |-> Head(bus).r, epoch |-> Head(bus).epoch]
  /\ bus' = Tail(bus)
  /\ UNCHANGED <<browser, out, wire, errors, epoch, lagged, closed, task, running>>

(* A pause without a request id can only be answered by a reset.           *)
TakeUnidentified ==
  /\ listener.at = "recv" /\ ~lagged /\ bus # <<>>
  /\ ~closed
  /\ bus' = Tail(bus)
  /\ Resets
  /\ UNCHANGED <<browser, wire, errors, epoch, lagged, closed, task, running>>

InFlight == {r \in Reqs : task[r].at \notin {"none", "done"}}

(* A pause decided on waits for a permit, and the listener with it.        *)
Spawn ==
  /\ listener.at = "permit"
  /\ Cardinality(InFlight) < MaxInFlight
  /\ task' = [task EXCEPT ![listener.r] = [at |-> "spawned", epoch |-> listener.epoch]]
  /\ listener' = [at |-> "recv", r |-> None, epoch |-> 0]
  /\ UNCHANGED <<browser, out, wire, errors, epoch, bus, lagged, closed, running>>

ListenerEnds ==
  /\ listener.at = "recv" /\ ~lagged /\ bus = <<>> /\ closed
  /\ listener' = [listener EXCEPT !.at = "ended"]
  /\ UNCHANGED <<browser, out, wire, errors, epoch, bus, lagged, closed, task, running>>

ListenerTimeout ==
  /\ wire' = Orphaned(wire, Listener)
  /\ listener.at \in {"disable", "enable"}
  /\ \/ /\ listener.at = "disable"
        /\ listener' = [listener EXCEPT !.at = "enable"]
        /\ out' = Append(Orphaned(out, Listener), [by |-> Listener, r |-> None, cmd |-> "enable"])
     \/ /\ listener.at = "enable"
        /\ listener' = [listener EXCEPT !.at = "recv"]
        /\ out' = Orphaned(out, Listener)
  /\ UNCHANGED <<browser, errors, epoch, bus, lagged, closed, task, running>>

-----------------------------------------------------------------------------
(* A request's task.                                                       *)

Act(r) ==
  /\ task[r].at = "spawned"
  /\ IF closed
     THEN ToTask(r, "done") /\ UNCHANGED out
     ELSE \E cmd \in Primary(r) : ToTask(r, "primary") /\ Send(r, r, cmd)
  /\ UNCHANGED <<browser, wire, errors, epoch, bus, lagged, closed, listener, running>>

TaskTimeout(r) ==
  /\ wire' = Orphaned(wire, r)
  /\ LET left == Orphaned(out, r) IN
       \/ /\ task[r].at = "primary" /\ ToTask(r, "fallback")
          /\ out' = Append(left, [by |-> r, r |-> r, cmd |-> Fallback(r)])
       \/ task[r].at = "fallback" /\ AfterFallback(r, "timeout") /\ out' = left
       \/ task[r].at = "stop" /\ ToTask(r, "after") /\ out' = left
  /\ UNCHANGED <<browser, errors, epoch, bus, lagged, closed, listener, running>>

(* recover: is the document this request belonged to still on top?         *)
RecoverCheck(r) ==
  /\ task[r].at = "check"
  /\ ToTask(r, IF closed \/ epoch # task[r].epoch THEN "done" ELSE "claim")
  /\ UNCHANGED <<browser, out, wire, errors, epoch, bus, lagged, closed, listener, running>>

(* One recovery at a time: a second one is dropped, not queued.            *)
RecoverClaim(r) ==
  /\ task[r].at = "claim"
  /\ IF running
     THEN ToTask(r, "done") /\ UNCHANGED <<running, out>>
     ELSE /\ running' = TRUE
          /\ IF closed THEN ToTask(r, "after") /\ UNCHANGED out
                       ELSE ToTask(r, "stop") /\ Send(r, r, "stop")
  /\ UNCHANGED <<browser, wire, errors, epoch, bus, lagged, closed, listener>>

(* The failed load is reported if the document is still the one on top.    *)
RecoverEnds(r) ==
  /\ task[r].at = "after"
  /\ running' = FALSE
  /\ ToTask(r, IF ~closed /\ epoch = task[r].epoch THEN "reported" ELSE "done")
  /\ UNCHANGED <<browser, out, wire, errors, epoch, bus, lagged, closed, listener>>

(* The task is over, and its permit with it, once the report is out.       *)
Reported(r) ==
  /\ task[r].at = "reported"
  /\ ToTask(r, "done")
  /\ UNCHANGED <<browser, out, wire, errors, epoch, bus, lagged, closed, listener, running>>

-----------------------------------------------------------------------------
(* The session closes: every call under way ends, nothing more is read,    *)
(* and the browser, whose client is gone, lets every request go.           *)
Close ==
  /\ ~closed
  /\ closed' = TRUE
  /\ out' = <<>> /\ wire' = <<>>
  /\ fetch' = FALSE /\ Becomes(Reqs, "released")
  /\ task' = [r \in Reqs |->
       CASE task[r].at \in {"primary", "fallback"} -> [task[r] EXCEPT !.at = "done"]
         [] task[r].at = "stop" -> [task[r] EXCEPT !.at = "after"]
         [] OTHER -> task[r]]
  /\ listener' = IF listener.at \in {"disable", "enable"}
                 THEN [listener EXCEPT !.at = "recv"] ELSE listener
  /\ UNCHANGED <<doc, errors, epoch, bus, lagged, running>>

TaskStep(r) ==
  Act(r) \/ RecoverCheck(r) \/ RecoverClaim(r) \/ RecoverEnds(r) \/ Reported(r)
ListenerStep == Lagged \/ Take \/ Spawn \/ ListenerEnds

PausedNext ==
  \/ \E r \in Reqs : Request(r) \/ TaskStep(r) \/ TaskTimeout(r)
  \/ Navigate \/ Carry \/ Incoming
  \/ ListenerStep \/ TakeUnidentified \/ ListenerTimeout
  \/ Close

PausedSafety == PausedInit /\ [][PausedNext]_fVars

(* The browser carries out commands, the worker delivers, and ready tasks  *)
(* are run. Nothing obliges a timeout, a navigation or a close.            *)
Fairness ==
  /\ WF_fVars(Carry) /\ WF_fVars(Incoming) /\ WF_fVars(ListenerStep)
  /\ \A r \in Reqs : WF_fVars(TaskStep(r))

PausedSpec == PausedSafety /\ Fairness

-----------------------------------------------------------------------------
(* Properties.                                                             *)

Statuses == {"unmade", "paused", "unseen", "cancelled", "released", "failed", "continued",
             "fulfilled"}
Places == {"none", "spawned", "primary", "fallback", "check", "claim", "stop", "after",
           "reported", "done"}

(* Types, and no more tasks than there are permits.                        *)
PausedTypeOK ==
  /\ doc \in 1..MaxDoc /\ epoch \in 1..MaxDoc /\ errors \in 0..MaxErrors
  /\ \A r \in Reqs : /\ req[r].doc \in 0..MaxDoc /\ req[r].kind \in Kinds
                     /\ req[r].status \in Statuses
                     /\ task[r].at \in Places /\ task[r].epoch \in 0..MaxDoc
  /\ {fetch, lagged, closed, running} \subseteq BOOLEAN
  /\ Len(bus) <= BusCap
  /\ listener.at \in {"recv", "permit", "disable", "enable", "ended"}
  /\ listener.r \in Reqs \cup {None}
  /\ Cardinality(InFlight) <= MaxInFlight

(* At most one recovery of a tab runs, and the flag says so exactly: a     *)
(* recovery that ended never locks the next one out.                       *)
OneRecovery ==
  /\ Cardinality({r \in Reqs : task[r].at \in {"stop", "after"}}) <= 1
  /\ running <=> \E r \in Reqs : task[r].at \in {"stop", "after"}

(* A request that policy blocks is never let through by an answer, however *)
(* its answers fail, time out or come late, and never because another      *)
(* request failed: only a reset of the whole domain lets it go, and one    *)
(* recovery at a time leads to that.                                       *)
Protected ==
  /\ OneRecovery
  /\ \A r \in Reqs :
       req[r].kind = "block" => req[r].status \notin {"continued", "fulfilled"}

(* An unanswered request is always in somebody's hands: on its way to the  *)
(* listener, with the listener or a task, covered by a reset still to run, *)
(* or about to be gone with its document.                                  *)
OnItsWay(r) ==
  \/ \E i \in DOMAIN wire : wire[i] = [by |-> r, msg |-> "paused"]
  \/ \E i \in DOMAIN bus : bus[i].r = r
  \/ listener.at = "permit" /\ listener.r = r
  \/ r \in InFlight
  \/ lagged \/ \E i \in DOMAIN out : out[i].cmd = "disable" \/ out[i].r = r
NoOrphan == PausedTypeOK /\ \A r \in Reqs : Paused(r) => OnItsWay(r)

(* With a browser that refuses nothing, every paused request is let go,    *)
(* whatever is lost by a slow listener and whichever calls time out.       *)
Unstuck == \A r \in Reqs : Paused(r) ~> ~Paused(r)

(* A reset never leaves interception off.                                  *)
StaysOn == []<>(fetch \/ closed)
=============================================================================
