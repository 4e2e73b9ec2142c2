------------------------------- MODULE Ingress -------------------------------
(***************************************************************************)
(* The way of a DevTools message from the engine to its session. The       *)
(* engine's callback, on the main thread, only hands the bytes over to a   *)
(* queue with a bound on messages and one on bytes; one worker per session *)
(* reads them. What does not fit stops the session. The queue is           *)
(* dive-cdp's, the callback and the worker are attach_cdp's.               *)
(***************************************************************************)
EXTENDS Integers, Sequences, SequencesExt

CONSTANTS
  Slots,      \* messages the queue holds
  Bytes,      \* bytes admitted and not yet parsed
  Sizes,      \* sizes a message may have
  MaxSent     \* messages the engine sends

ASSUME IngressAssumption ==
  /\ Slots \in Nat \ {0} /\ Bytes \in Nat \ {0} /\ MaxSent \in Nat
  /\ Sizes \subseteq Nat \ {0}

Messages == [n : 1 .. MaxSent, size : Sizes, text : BOOLEAN]
None == <<>>

VARIABLES
  arrived,    \* history: every message the engine sent, in its order
  callback,   \* the message the callback holds: it found the session open
  handlers,   \* the view still has the callback
  queue,      \* admitted and not taken
  free,       \* permits of the byte budget nobody holds
  overflow,   \* what the callback tells the worker when a message does not fit
  reader,     \* the worker: waiting, polled, parsing, report or ended
  parsing,    \* the message it parses, which keeps its reservation
  panicked,   \* it ended by a panic
  shut,       \* the session is closed
  handled,    \* the messages the session has acted on
  failed      \* the chrome was told that the tab failed

iVars == <<arrived, callback, handlers, queue, free, overflow, reader, parsing, panicked,
          shut, handled, failed>>

IngressInit ==
  /\ arrived = <<>> /\ handled = <<>> /\ queue = <<>>
  /\ callback = None /\ parsing = None
  /\ handlers = TRUE /\ free = Bytes
  /\ reader = "waiting"
  /\ overflow = FALSE /\ panicked = FALSE /\ shut = FALSE /\ failed = FALSE

(* What messages hold of the budget, and those of them that are text, each *)
(* from the first on, as functions so that they can be reasoned about.     *)
Weight(ms) ==
  LET upTo[i \in 0 .. Len(ms)] == IF i = 0 THEN 0 ELSE upTo[i - 1] + ms[i].size
  IN  upTo[Len(ms)]
OnlyText(m) == IF m.text THEN <<m>> ELSE <<>>
Readable(ms) ==
  LET upTo[i \in 0 .. Len(ms)] == IF i = 0 THEN <<>> ELSE upTo[i - 1] \o OnlyText(ms[i])
  IN  upTo[Len(ms)]

-----------------------------------------------------------------------------
(* The main thread.                                                        *)

(* A message arrives; one that finds the session shut is dropped.          *)
Arrive ==
  /\ handlers /\ callback = None /\ Len(arrived) < MaxSent
  /\ \E size \in Sizes, text \in BOOLEAN :
       LET m == [n |-> Len(arrived) + 1, size |-> size, text |-> text] IN
         /\ arrived' = Append(arrived, m)
         /\ callback' = IF shut THEN None ELSE <<m>>
  /\ UNCHANGED <<handlers, queue, free, overflow, reader, parsing, panicked, shut,
                 handled, failed>>

(* `try_send`: the bytes are reserved first, then a slot.                  *)
Fits(m) == m.size <= free /\ Len(queue) < Slots /\ reader # "ended"

(* Mutant: what does not fit is dropped.                                   *)
AdmitOrDrop ==
  /\ callback # None
  /\ callback' = None
  /\ IF Fits(callback[1])
     THEN queue' = queue \o callback /\ free' = free - callback[1].size
     ELSE UNCHANGED <<queue, free>>
  /\ UNCHANGED <<shut, overflow>>
  /\ UNCHANGED <<arrived, handlers, reader, parsing, panicked, handled, failed>>

Admit ==
  /\ callback # None
  /\ callback' = None
  /\ \/ /\ Fits(callback[1])
        /\ queue' = queue \o callback /\ free' = free - callback[1].size
        /\ UNCHANGED <<shut, overflow>>
     \/ /\ ~Fits(callback[1])
        /\ shut' = TRUE /\ overflow' = TRUE
        /\ UNCHANGED <<queue, free>>
  /\ UNCHANGED <<arrived, handlers, reader, parsing, panicked, handled, failed>>

(* The channel could not be created. The chrome hears of it unless the tab *)
(* has another view by now.                                                *)
CreationFailed ==
  /\ handlers /\ callback = None /\ arrived = <<>>
  /\ shut' = TRUE /\ failed' \in {failed, TRUE}
  /\ UNCHANGED <<arrived, callback, handlers, queue, free, overflow, reader, parsing,
                 panicked, handled>>

(* The host forgets the tab's view; later the view itself goes.            *)
HostCloses ==
  /\ callback = None /\ ~shut
  /\ shut' = TRUE
  /\ UNCHANGED <<arrived, callback, handlers, queue, free, overflow, reader, parsing,
                 panicked, handled, failed>>

ViewGoes ==
  /\ handlers /\ callback = None
  /\ handlers' = FALSE
  /\ UNCHANGED <<arrived, callback, queue, free, overflow, reader, parsing, panicked,
                 shut, handled, failed>>

-----------------------------------------------------------------------------
(* The worker. Its select asks for an overload first, then for a message:  *)
(* an overload that comes between the two waits for the next round.        *)

(* However the worker ends, its guard closes the session and its queue is  *)
(* dropped with the reservations in it.                                    *)
Ends ==
  /\ reader' = "ended" /\ shut' = TRUE
  /\ queue' = <<>> /\ parsing' = None /\ free' = Bytes

NoOverload ==
  /\ reader = "waiting" /\ ~overflow /\ handlers /\ queue # <<>>
  /\ reader' = "polled"
  /\ UNCHANGED <<arrived, callback, handlers, queue, free, overflow, parsing, panicked,
                 shut, handled, failed>>

Take ==
  /\ reader = "polled"
  /\ parsing' = <<Head(queue)>> /\ queue' = Tail(queue)
  /\ reader' = "parsing"
  /\ UNCHANGED <<arrived, callback, handlers, free, overflow, panicked, shut, handled,
                 failed>>

(* Mutant: the reservation is not given back.                              *)
ParseKeeping ==
  /\ reader = "parsing"
  /\ handled' = IF shut THEN handled ELSE handled \o Readable(parsing)
  /\ parsing' = None
  /\ reader' = "waiting"
  /\ UNCHANGED <<arrived, callback, handlers, queue, free, overflow, panicked, shut, failed>>

(* A session that is closed ignores what it is given; so does one given    *)
(* bytes that are not text.                                                *)
Parse ==
  /\ reader = "parsing"
  /\ handled' = IF shut THEN handled ELSE handled \o Readable(parsing)
  /\ free' = free + parsing[1].size
  /\ parsing' = None
  /\ reader' = "waiting"
  /\ UNCHANGED <<arrived, callback, handlers, queue, overflow, panicked, shut, failed>>

Panics ==
  /\ reader = "parsing" /\ panicked' = TRUE
  /\ Ends
  /\ UNCHANGED <<arrived, callback, handlers, overflow, handled, failed>>

(* The callback is gone, and with it the sender the overload would come    *)
(* from; whatever is still queued is not read.                             *)
NobodySends ==
  /\ reader = "waiting" /\ ~overflow /\ ~handlers
  /\ Ends
  /\ UNCHANGED <<arrived, callback, handlers, overflow, panicked, handled, failed>>

Overload ==
  /\ reader = "waiting" /\ overflow
  /\ reader' = "report" /\ shut' = TRUE
  /\ UNCHANGED <<arrived, callback, handlers, queue, free, overflow, parsing, panicked,
                 handled, failed>>

(* Mutant: the session just stops.                                         *)
ReportNothing ==
  /\ reader = "report"
  /\ Ends
  /\ UNCHANGED <<arrived, callback, handlers, overflow, panicked, handled, failed>>

(* Native loading is stopped, and the chrome told.                         *)
Report ==
  /\ reader = "report"
  /\ failed' = TRUE
  /\ Ends
  /\ UNCHANGED <<arrived, callback, handlers, overflow, panicked, handled>>

WorkerStep == NoOverload \/ Take \/ Parse \/ NobodySends \/ Overload \/ Report
MainStep == Arrive \/ Admit \/ CreationFailed \/ HostCloses \/ ViewGoes

IngressNext == MainStep \/ WorkerStep \/ Panics

IngressSafety == IngressInit /\ [][IngressNext]_iVars

(* The runtime runs the worker, and the callback finishes what it began.   *)
IngressFairness == WF_iVars(WorkerStep) /\ WF_iVars(Admit)

-----------------------------------------------------------------------------
IngressTypeOK ==
  /\ \A i \in DOMAIN arrived : arrived[i] \in Messages
  /\ Len(callback) <= 1 /\ Len(parsing) <= 1 /\ Len(queue) <= Slots
  /\ free \in 0 .. Bytes
  /\ reader \in {"waiting", "polled", "parsing", "report", "ended"}
  /\ {handlers, overflow, panicked, shut, failed} \subseteq BOOLEAN

(* While the session is open nothing the engine sent is missing: it was    *)
(* handled, or is on its way, in the order it came; and even a session     *)
(* that was stopped has acted on the messages without a gap.               *)
InOrder ==
  /\ ~shut => Readable(arrived) = handled \o Readable(parsing \o queue \o callback)
  /\ IsPrefix(handled, Readable(arrived))

(* Nobody waits on a session that no worker reads for.                     *)
EndsClosed == reader = "ended" => shut

(* However the worker ends, every byte of the budget is free or reserved   *)
(* by a message that is queued or being parsed, whatever became of the     *)
(* others, and no call is left waiting on the session.                     *)
BudgetKept == IngressTypeOK /\ EndsClosed /\ free + Weight(queue) + Weight(parsing) = Bytes

(* An overload is put to the person, unless the worker died first.         *)
OverloadReported == overflow ~> failed \/ panicked
=============================================================================
