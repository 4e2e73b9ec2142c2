------------------------------ MODULE AgentRun ------------------------------
(***************************************************************************)
(* One run of Dive's own agent: rounds of a streamed reply and the tool    *)
(* calls it asks for, each put to the person when the settings or its      *)
(* nature want it. The person may stop the run at any moment: a flag, and  *)
(* a waker that every wait but those on the host races. Ids of calls are   *)
(* unique in a run here; what becomes of a provider that repeats them is   *)
(* in the README. What the run shares with other clients is in TabLease,   *)
(* the light on the tab it works in is in Presence.                        *)
(***************************************************************************)
EXTENDS Naturals, Sequences

CONSTANTS
  Attempts,  \* STREAM_ATTEMPTS
  MaxSteps,  \* tool calls a run may make
  MaxRows    \* calls announced (bounds Announces)

ASSUME AgentAssumption == Attempts \in Nat \ {0} /\ MaxSteps \in Nat /\ MaxRows \in Nat

VARIABLES
  run,        \* where the loop is
  attempt,    \* how often the round has been asked for
  rows,       \* the calls announced, of all rounds
  next,       \* the row dealt with, or the first of the round
  steps,      \* steps_used
  cancelled,  \* the person stopped the run
  asking,     \* the row the approval table has a sender for; 0 none
  verdict,    \* what came of asking
  word,       \* the answer on its way to the run
  listening,  \* the chrome still takes deltas
  late        \* history: tools begun after the stop

aVars == <<run, attempt, rows, next, steps, cancelled, asking, verdict, word, listening, late>>

Row == [answers |-> 0, ran |-> FALSE, exempt |-> FALSE, allowed |-> FALSE]
Alive == run \notin {"idle", "closing", "over"}

AgentRunInit ==
  /\ run = "idle" /\ attempt = 1 /\ rows = <<>> /\ next = 1 /\ steps = 0
  /\ cancelled = FALSE /\ asking = 0 /\ verdict = "none" /\ word = "none"
  /\ listening = TRUE /\ late = 0

Goes(from, to) == run = from /\ run' = to
Round == next .. Len(rows)

(* ToolDone for one row; abandon, for those the round announced.           *)
Done(i) == [rows EXCEPT ![i].answers = @ + 1]
Abandon ==
  rows' = [i \in DOMAIN rows |->
             IF i \in Round THEN [rows[i] EXCEPT !.answers = @ + 1] ELSE rows[i]]

-----------------------------------------------------------------------------
(* The person and the chrome.                                              *)

Sends ==
  /\ \E first \in {"context", "page"} : Goes("idle", first)
  /\ UNCHANGED <<attempt, rows, next, steps, cancelled, asking, verdict, word, listening, late>>

Stop ==
  /\ run \notin {"idle", "over"} /\ ~cancelled
  /\ cancelled' = TRUE
  /\ UNCHANGED <<run, attempt, rows, next, steps, asking, verdict, word, listening, late>>

(* agent_approve takes the sender, so that a question has one answer.      *)
Approve(allow) ==
  /\ asking # 0
  /\ asking' = 0
  /\ word' = IF allow THEN "allow" ELSE "deny"
  /\ rows' = [rows EXCEPT ![asking].allowed = allow]
  /\ UNCHANGED <<run, attempt, next, steps, cancelled, verdict, listening, late>>

ChromeGoes ==
  /\ listening /\ listening' = FALSE
  /\ UNCHANGED <<run, attempt, rows, next, steps, cancelled, asking, verdict, word, late>>

-----------------------------------------------------------------------------
(* Before the loop: a context of its own, or a read of the page.           *)

OpensContext ==
  /\ run = "context"
  /\ run' \in {"top", "over"}
  /\ UNCHANGED <<attempt, rows, next, steps, cancelled, asking, verdict, word, listening, late>>

ReadsPage ==
  /\ Goes("page", "top")
  /\ UNCHANGED <<attempt, rows, next, steps, cancelled, asking, verdict, word, listening, late>>

-----------------------------------------------------------------------------
(* A round. `halted` wins over, or loses to, what it races as they come.   *)

Tops ==
  /\ run = "top"
  /\ run' = IF cancelled THEN "closing" ELSE "open"
  /\ attempt' = 1 /\ next' = Len(rows) + 1
  /\ UNCHANGED <<rows, steps, cancelled, asking, verdict, word, listening, late>>

(* Mutant: the wait between two attempts does not hear the stop.           *)
HaltsDeaf ==
  /\ cancelled /\ run \in {"page", "open", "reply"}
  /\ run' = "closing"
  /\ Abandon
  /\ UNCHANGED <<attempt, next, steps, cancelled, asking, verdict, word, listening, late>>

Halts ==
  /\ cancelled /\ run \in {"page", "open", "backoff", "reply"}
  /\ run' = "closing"
  /\ Abandon
  /\ UNCHANGED <<attempt, next, steps, cancelled, asking, verdict, word, listening, late>>

(* start_stream: nothing has been said yet, so that it may ask again.      *)
Opens ==
  /\ run = "open"
  /\ \/ run' \in {"reply", "closing"} /\ UNCHANGED attempt
     \/ attempt < Attempts /\ run' = "backoff" /\ attempt' = attempt + 1
  /\ UNCHANGED <<rows, next, steps, cancelled, asking, verdict, word, listening, late>>

TriesAgain ==
  /\ Goes("backoff", "open")
  /\ UNCHANGED <<attempt, rows, next, steps, cancelled, asking, verdict, word, listening, late>>

Announces ==
  /\ run = "reply" /\ Len(rows) < MaxRows
  /\ rows' = Append(rows, Row)
  /\ UNCHANGED <<run, attempt, next, steps, cancelled, asking, verdict, word, listening, late>>

(* It fails, falls silent for two minutes, or is cut short.                *)
ReplyFails ==
  /\ Goes("reply", "closing")
  /\ Abandon
  /\ UNCHANGED <<attempt, next, steps, cancelled, asking, verdict, word, listening, late>>

(* Text nobody takes ends the run.                                         *)
TextIsLost ==
  /\ ~listening /\ Goes("reply", "closing")
  /\ UNCHANGED <<attempt, rows, next, steps, cancelled, asking, verdict, word, listening, late>>

Asked == Len(rows) + 1 - next
(* Mutant: the rows over the limit are left spinning.                      *)
ReplyEndsSilent ==
  /\ run = "reply"
  /\ \/ Asked > 0 /\ steps + Asked <= MaxSteps
        /\ run' = "aim" /\ steps' = steps + Asked /\ UNCHANGED rows
     \/ run' = "closing" /\ Asked = 0 /\ Abandon /\ UNCHANGED steps
     \/ steps + Asked > MaxSteps /\ run' = "closing" /\ UNCHANGED <<rows, steps>>
  /\ UNCHANGED <<attempt, next, cancelled, asking, verdict, word, listening, late>>

(* A reply that asks for no tools, or ends first; one over the limit; or   *)
(* one whose calls are now run in order.                                   *)
ReplyEnds ==
  /\ run = "reply"
  /\ \/ Asked > 0 /\ steps + Asked <= MaxSteps
        /\ run' = "aim" /\ steps' = steps + Asked /\ UNCHANGED rows
     \/ run' = "closing" /\ Abandon /\ UNCHANGED steps
  /\ UNCHANGED <<attempt, next, cancelled, asking, verdict, word, listening, late>>

-----------------------------------------------------------------------------
(* run_calls.                                                              *)

(* What it is aimed at is found, or the wait for that is cut short; then   *)
(* the person is asked, unless the run is over or this needs no asking.    *)
Aims(asks) ==
  /\ run = "aim"
  /\ \/ cancelled /\ run' = "look" /\ verdict' = "denied" /\ UNCHANGED <<rows, asking>>
     \/ /\ ~cancelled /\ ~asks
        /\ run' = "look" /\ verdict' = "allowed"
        /\ rows' = [rows EXCEPT ![next].exempt = TRUE] /\ UNCHANGED asking
     \/ /\ ~cancelled /\ asks /\ ~listening
        /\ run' = "look" /\ verdict' = "denied" /\ UNCHANGED <<rows, asking>>
     \/ /\ ~cancelled /\ asks /\ listening
        /\ run' = "ask" /\ asking' = next /\ UNCHANGED <<rows, verdict>>
  /\ word' = "none"
  /\ UNCHANGED <<attempt, next, steps, cancelled, listening, late>>

(* Mutant: nobody said no within the time.                                 *)
HearsSilence ==
  /\ run = "ask"
  /\ \/ cancelled /\ verdict' = "denied"
     \/ word # "none" /\ verdict' = IF word = "allow" THEN "allowed" ELSE "denied"
     \/ word = "none" /\ verdict' = "allowed"
  /\ run' = "look" /\ asking' = 0
  /\ UNCHANGED <<attempt, rows, next, steps, cancelled, word, listening, late>>

(* approved: the stop, the answer, or two minutes; the question goes.      *)
Hears ==
  /\ run = "ask"
  /\ \/ cancelled /\ verdict' = "denied"
     \/ word # "none" /\ verdict' = IF word = "allow" THEN "allowed" ELSE "denied"
     \/ word = "none" /\ verdict' = "unanswered"
  /\ run' = "look" /\ asking' = 0
  /\ UNCHANGED <<attempt, rows, next, steps, cancelled, word, listening, late>>

(* On to the next call, or the next round.                                 *)
Proceeds ==
  /\ next' = next + 1
  /\ run' = IF next < Len(rows) THEN "aim" ELSE "top"

(* A stop overrules the answer.                                            *)
Looks ==
  /\ run = "look"
  /\ IF cancelled \/ verdict # "allowed"
     THEN Proceeds /\ rows' = Done(next)
     ELSE run' = "launch" /\ UNCHANGED <<rows, next>>
  /\ UNCHANGED <<attempt, steps, cancelled, asking, verdict, word, listening, late>>

(* Tool and stop are polled in no order: it may begin once more.           *)
Launches ==
  /\ Goes("launch", "tool")
  /\ rows' = [rows EXCEPT ![next].ran = TRUE]
  /\ late' = IF cancelled THEN late + 1 ELSE late
  /\ UNCHANGED <<attempt, next, steps, cancelled, asking, verdict, word, listening>>

ToolEnds ==
  /\ run = "tool"
  /\ Proceeds /\ rows' = Done(next)
  /\ UNCHANGED <<attempt, steps, cancelled, asking, verdict, word, listening, late>>

(* The call is dropped where it is.                                        *)
ToolHalts ==
  /\ cancelled /\ run \in {"launch", "tool"}
  /\ Proceeds /\ rows' = Done(next)
  /\ UNCHANGED <<attempt, steps, cancelled, asking, verdict, word, listening, late>>

(* The lease is given back, the run's own context closed.                  *)
Closes ==
  /\ Goes("closing", "over")
  /\ UNCHANGED <<attempt, rows, next, steps, cancelled, asking, verdict, word, listening, late>>

-----------------------------------------------------------------------------
(* What comes of itself, or once the person has stopped the run; a         *)
(* context opens or fails by the host's own deadline.                      *)
Own == OpensContext \/ Tops \/ Halts \/ Looks \/ ToolHalts \/ Closes
Hurry == cancelled /\ (Hears \/ \E asks \in BOOLEAN : Aims(asks))
World == ReadsPage \/ Opens \/ TriesAgain \/ Announces \/ ReplyFails \/ TextIsLost
         \/ ReplyEnds \/ Launches \/ ToolEnds

AgentRunNext ==
  \/ Sends \/ Stop \/ ChromeGoes \/ Own \/ World \/ Hears
  \/ \E allow \in BOOLEAN : Approve(allow)
  \/ \E asks \in BOOLEAN : Aims(asks)

AgentSafety == AgentRunInit /\ [][AgentRunNext]_aVars
AgentFairness == WF_aVars(Own) /\ WF_aVars(Hurry)

AgentRunTypeOK ==
  /\ run \in {"idle", "context", "page", "top", "open", "backoff", "reply", "aim", "ask",
              "look", "launch", "tool", "closing", "over"}
  /\ attempt \in 1 .. Attempts /\ steps \in 0 .. MaxSteps
  /\ next \in 1 .. MaxRows + 1 /\ asking \in 0 .. Len(rows)
  /\ {cancelled, listening} \subseteq BOOLEAN
  /\ verdict \in {"none", "allowed", "denied", "unanswered"} /\ word \in {"none", "allow", "deny"}

(* Nothing is done to a page that the person did not allow, for this very  *)
(* call, unless it is one they said needs no asking; and after a stop at   *)
(* most one call begins, that which was being launched.                    *)
ToolsAllowed ==
  /\ AgentRunTypeOK
  /\ \A i \in DOMAIN rows : rows[i].ran => rows[i].exempt \/ rows[i].allowed
  /\ late <= 1

(* When a run is over every call it announced has been answered, and once, *)
(* whichever way it ended and at whatever moment it was stopped; and no    *)
(* question of it is left that could still be answered.                    *)
RowsAnswered ==
  /\ \A i \in DOMAIN rows : rows[i].answers <= 1
  /\ run = "over" /\ listening => \A i \in DOMAIN rows : rows[i].answers = 1
  /\ run = "over" => asking = 0

(* A stop ends the run, whatever it was waiting for: a provider that       *)
(* never answers, a person who does not, a page that never loads.          *)
StopEnds == cancelled ~> run = "over"
=============================================================================
