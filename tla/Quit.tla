-------------------------------- MODULE Quit --------------------------------
(***************************************************************************)
(* Quitting. A request to exit passes three guards on the main thread: the *)
(* question what would be lost, the recordings still open, and the exports *)
(* (ExitGate). Each may hold the exit while a task of its own looks, saves *)
(* or drains, and that task asks for the exit again; meanwhile the person  *)
(* may quit once more, answer questions of earlier quits, start, save or   *)
(* throw away recordings, and an update may ask to be restarted into.      *)
(***************************************************************************)
EXTENDS Integers, FiniteSets

CONSTANTS
  Tabs,       \* tabs that are recorded
  MaxLooks,   \* looks and questions of quits at once (bounds Lapse)
  MaxStarts,  \* recordings started in all
  MaxPosted   \* requests to exit the person lets pile up

ASSUME BoundsAssumption == {MaxLooks, MaxStarts, MaxPosted} \subseteq Nat \ {0}

VARIABLES
  posted,     \* requests to exit the event loop has still to hand over
  confirm,    \* CONFIRM; a confirmation that has lapsed is "idle"
  looks,      \* check_then_exit: how many tasks look, how many ask
  shown,      \* the main window is on screen
  restart,    \* RESTART_AFTER_UPDATE
  rec,        \* each tab's recording
  starting,   \* tabs whose recording is in the registry and not yet begun
  recExit,    \* the registry's word on the exit
  savers,     \* save_for_exit: how many tasks list, poll, ask
  starts,     \* recordings started so far
  exit, busy, drain,   \* the exports' gate
  phase,      \* the program: up, exiting, gone
  held,       \* history: recordings an exit was held for
  agreed,     \* history: recordings open when the person gave up what failed ...
  lost        \* ... and those of them that had failed

looking == <<confirm, looks>>
given == <<agreed, lost>>
recording == <<rec, starting, recExit, starts, held, given>>
gate == <<exit, busy, drain>>
vars == <<posted, looking, shown, restart, recording, savers, gate, phase>>

Gate == INSTANCE ExitGate

Init ==
  /\ posted = 0 /\ confirm = "idle" /\ looks = [look |-> 0, ask |-> 0]
  /\ shown = TRUE /\ restart = FALSE
  /\ rec = [t \in Tabs |-> "none"] /\ starting = {} /\ recExit = "idle"
  /\ savers = [list |-> 0, poll |-> 0, ask |-> 0]
  /\ starts = 0 /\ held = {} /\ agreed = {} /\ lost = {}
  /\ Gate!Init
  /\ phase = "up"

Active == {t \in Tabs : rec[t] # "none"}
Move(bag, from, to) == [bag EXCEPT ![from] = @ - 1, ![to] = @ + 1]
Leave(bag, from) == [bag EXCEPT ![from] = @ - 1]
Enter(bag, to) == [bag EXCEPT ![to] = @ + 1]
Up == phase = "up"

-----------------------------------------------------------------------------
(* Where requests to exit come from.                                       *)

(* The menu, the keyboard or a close of the main window.                   *)
Press ==
  /\ Up /\ posted < MaxPosted
  /\ posted' = posted + 1
  /\ UNCHANGED <<looking, shown, restart, recording, savers, gate, phase>>

Update ==
  /\ Up /\ posted < MaxPosted
  /\ restart' = TRUE /\ posted' = posted + 1
  /\ UNCHANGED <<looking, shown, recording, savers, gate, phase>>

(* The main window was closed behind others, and the last of these goes.   *)
LastWindowGoes ==
  /\ Up /\ shown /\ posted < MaxPosted
  /\ shown' = FALSE /\ posted' = posted + 1
  /\ UNCHANGED <<looking, restart, recording, savers, gate, phase>>

-----------------------------------------------------------------------------
(* ExitRequested.                                                          *)

(* may_exit holds the first request of a person who can be asked.          *)
LooksFirst ==
  /\ shown /\ confirm = "idle"
  /\ confirm' = "checking" /\ looks' = Enter(looks, "look")
  /\ UNCHANGED <<shown, restart, recording, savers, gate, phase>>

MayExit ==
  /\ ~shown \/ confirm # "idle"
  /\ confirm' = IF shown /\ confirm = "checking" THEN "confirmed" ELSE confirm
  /\ UNCHANGED looks

(* Mutant: a second quit waits for the save like the first.                *)
SavePatiently ==
  /\ Active # {} /\ recExit # "released"
  /\ recExit' = "saving" /\ held' = held \cup Active
  /\ savers' = IF recExit = "idle" THEN Enter(savers, "list") ELSE savers
  /\ UNCHANGED <<rec, starting, starts, given, gate, phase>>

(* prepare_exit of the recordings.                                         *)
SaveFirst ==
  /\ Active # {} /\ recExit = "idle"
  /\ recExit' = "saving" /\ held' = held \cup Active
  /\ savers' = Enter(savers, "list")
  /\ UNCHANGED <<rec, starting, starts, given, gate, phase>>

LetGo ==
  /\ Active = {} \/ recExit # "idle"
  /\ recExit' = IF Active = {} THEN recExit ELSE "released"
  /\ UNCHANGED <<rec, starting, starts, held, given, savers>>

(* prepare_exit of the exports.                                            *)
ExportsNext ==
  \/ exit = 1 /\ UNCHANGED <<gate, phase>>
  \/ exit = 3 /\ phase' = "exiting" /\ UNCHANGED gate
  \/ Gate!Claim /\ UNCHANGED phase

Requested ==
  /\ Up /\ posted > 0 /\ drain # "claimed"
  /\ posted' = posted - 1
  /\ \/ LooksFirst
     \/ /\ MayExit
        /\ SaveFirst \/ (LetGo /\ ExportsNext)
        /\ UNCHANGED <<shown, restart>>

ExportsCounted ==
  /\ \/ Gate!CountsNone /\ phase' = "exiting"
     \/ Gate!CountsSome /\ UNCHANGED phase
  /\ UNCHANGED <<posted, looking, shown, restart, recording, savers>>

(* Exit: what is still open is thrown away.                                *)
Exits ==
  /\ phase = "exiting"
  /\ phase' = "gone"
  /\ rec' = [t \in Tabs |-> "none"]
  /\ UNCHANGED <<posted, looking, shown, restart, starting, recExit, starts, held, given,
                 savers, gate>>

-----------------------------------------------------------------------------
(* check_then_exit, and how a confirmation ends. There is, or is not,      *)
(* something to lose: downloads, runs and pages come and go as they like.  *)

Goes == confirm' = "confirmed" /\ posted' = posted + 1

LookEnds ==
  /\ Up /\ looks.look > 0
  /\ \/ confirm # "checking" /\ looks' = Leave(looks, "look") /\ UNCHANGED <<confirm, posted>>
     \/ /\ confirm = "checking"
        /\ \/ looks' = Move(looks, "look", "ask") /\ UNCHANGED <<confirm, posted>>
           \/ looks' = Leave(looks, "look") /\ Goes
  /\ UNCHANGED <<shown, restart, recording, savers, gate, phase>>

QuitsAnyway ==
  /\ Up /\ looks.ask > 0
  /\ looks' = Leave(looks, "ask") /\ Goes
  /\ UNCHANGED <<shown, restart, recording, savers, gate, phase>>

Cancels ==
  /\ Up /\ looks.ask > 0
  /\ looks' = Leave(looks, "ask")
  /\ confirm' = "idle" /\ restart' = FALSE
  /\ UNCHANGED <<posted, shown, recording, savers, gate, phase>>

(* Sixty seconds on, a confirmation no longer answers for a quit. The      *)
(* event loop hands over a request much sooner than that.                  *)
Lapse ==
  /\ Up /\ confirm = "confirmed" /\ posted = 0 /\ looks.look + looks.ask < MaxLooks
  /\ confirm' = "idle"
  /\ UNCHANGED <<posted, looks, shown, restart, recording, savers, gate, phase>>

-----------------------------------------------------------------------------
(* Recordings.                                                             *)

Start(t) ==
  /\ Up /\ shown /\ rec[t] = "none" /\ t \notin starting /\ starts < MaxStarts
  /\ rec' = [rec EXCEPT ![t] = "live"]
  /\ starting' = starting \cup {t} /\ starts' = starts + 1
  /\ held' = held \ {t} /\ agreed' = agreed \ {t} /\ lost' = lost \ {t}
  /\ UNCHANGED <<posted, looking, shown, restart, recExit, savers, gate, phase>>

(* Mutant: a quit that was called off waves the next recording through.    *)
BegunLate(t) ==
  /\ phase # "gone" /\ t \in starting
  /\ starting' = starting \ {t}
  /\ UNCHANGED <<posted, looking, shown, restart, recExit, rec, starts, held, given, savers,
                 gate, phase>>

Begun(t) ==
  /\ phase # "gone" /\ t \in starting
  /\ starting' = starting \ {t}
  /\ recExit' = "idle"
  /\ UNCHANGED <<posted, looking, shown, restart, rec, starts, held, given, savers, gate, phase>>

(* The chrome saves it, or its tab closes.                                 *)
Stop(t) ==
  /\ Up /\ rec[t] \in {"live", "failed"}
  /\ rec' = [rec EXCEPT ![t] = "saving"]
  /\ UNCHANGED <<posted, looking, shown, restart, starting, recExit, starts, held, given,
                 savers, gate, phase>>

(* Thrown away; one being saved is not, its save fails instead.            *)
Discard(t) ==
  /\ Up /\ rec[t] \in {"live", "failed"}
  /\ rec' = [rec EXCEPT ![t] = "none"]
  /\ UNCHANGED <<posted, looking, shown, restart, starting, recExit, starts, held, given,
                 savers, gate, phase>>

SaveEnds(t) ==
  /\ phase # "gone" /\ rec[t] = "saving"
  /\ \E end \in {"none", "failed"} : rec' = [rec EXCEPT ![t] = end]
  /\ UNCHANGED <<posted, looking, shown, restart, starting, recExit, starts, held, given,
                 savers, gate, phase>>

-----------------------------------------------------------------------------
(* save_for_exit.                                                          *)

SaverLists ==
  /\ Up /\ savers.list > 0
  /\ rec' = [t \in Tabs |-> IF t \in Active THEN "saving" ELSE "none"]
  /\ held' = held \cup Active
  /\ savers' = Move(savers, "list", "poll")
  /\ UNCHANGED <<posted, looking, shown, restart, starting, recExit, starts, given, gate,
                 phase>>

Saving == \E t \in Tabs : rec[t] = "saving"
Failure == \E t \in Tabs : rec[t] = "failed"

(* Mutant: a task that finds everything saved leaves it at that.           *)
SaverPollsQuiet ==
  /\ Up /\ savers.poll > 0 /\ ~(Saving /\ recExit # "released")
  /\ savers' = IF ~Saving /\ Failure THEN Move(savers, "poll", "ask")
                                     ELSE Leave(savers, "poll")
  /\ UNCHANGED <<posted, looking, shown, restart, recording, gate, phase>>

SaverPolls ==
  /\ Up /\ savers.poll > 0
  /\ \/ Saving /\ recExit = "released"
        /\ savers' = Leave(savers, "poll") /\ UNCHANGED posted
     \/ ~Saving /\ Failure
        /\ savers' = Move(savers, "poll", "ask") /\ UNCHANGED posted
     \/ ~Saving /\ ~Failure
        /\ savers' = Leave(savers, "poll") /\ posted' = posted + 1
  /\ UNCHANGED <<looking, shown, restart, recording, gate, phase>>

(* The question about a recording that could not be saved.                 *)
LosesIt ==
  /\ Up /\ savers.ask > 0
  /\ savers' = Leave(savers, "ask")
  /\ recExit' = "released" /\ posted' = posted + 1
  /\ agreed' = Active /\ lost' = {t \in Tabs : rec[t] = "failed"}
  /\ UNCHANGED <<looking, shown, restart, rec, starting, starts, held, gate, phase>>

Stays ==
  /\ Up /\ savers.ask > 0
  /\ savers' = Leave(savers, "ask")
  /\ recExit' = "idle"
  /\ UNCHANGED <<posted, looking, shown, restart, rec, starting, starts, held, given, gate,
                 phase>>

-----------------------------------------------------------------------------
(* Exports.                                                                *)
OfGate(step) ==
  /\ Up /\ step
  /\ UNCHANGED <<looking, shown, restart, recording, savers, phase>>
ExportBegins == OfGate(Gate!Admit /\ UNCHANGED posted)
ExportEnds == OfGate(Gate!Rest /\ UNCHANGED posted)
DrainDone == OfGate(Gate!Drained /\ posted' = posted + 1)
DrainStuck == OfGate(Gate!DrainFails /\ UNCHANGED posted)
MessageCloses == OfGate(Gate!MessageCloses /\ UNCHANGED posted)

-----------------------------------------------------------------------------
Main == Requested \/ ExportsCounted \/ Exits
Called == Cancels \/ Stays
Person ==
  \/ Press \/ Update \/ LastWindowGoes
  \/ QuitsAnyway \/ LosesIt \/ Called \/ MessageCloses \/ ExportBegins
  \/ \E t \in Tabs : Start(t) \/ Stop(t) \/ Discard(t)
Next ==
  \/ Main \/ Person \/ LookEnds \/ Lapse \/ SaverLists \/ SaverPolls
  \/ ExportEnds \/ DrainDone \/ DrainStuck
  \/ \E t \in Tabs : Begun(t) \/ SaveEnds(t)

Safety == Init /\ [][Next]_vars

(* The event loop and tasks that wait for nothing run, and a drain has a   *)
(* deadline. A look is not assumed to end here, nor a save, nor is anybody *)
(* obliged to answer.                                                      *)
Spec ==
  /\ Safety
  /\ WF_vars(Requested) /\ WF_vars(ExportsCounted) /\ WF_vars(Exits)
  /\ WF_vars(SaverLists) /\ WF_vars(SaverPolls) /\ WF_vars(DrainDone \/ DrainStuck)
  /\ \A t \in Tabs : WF_vars(Begun(t))

-----------------------------------------------------------------------------
TypeOK ==
  /\ posted \in 0 .. MaxPosted + MaxLooks + MaxStarts + 2
  /\ confirm \in {"idle", "checking", "confirmed"}
  /\ looks \in [look : 0 .. MaxLooks, ask : 0 .. MaxLooks]
  /\ {shown, restart, busy} \subseteq BOOLEAN
  /\ rec \in [Tabs -> {"none", "live", "saving", "failed"}]
  /\ {starting, held, agreed, lost} \subseteq SUBSET Tabs /\ starts \in 0 .. MaxStarts
  /\ recExit \in {"idle", "saving", "released"}
  /\ savers \in [list : 0 .. MaxStarts + 1, poll : 0 .. MaxStarts + 1, ask : 0 .. MaxStarts + 1]
  /\ exit \in 0 .. 3 /\ drain \in {"idle", "claimed", "drain", "message"}
  /\ phase \in {"up", "exiting", "gone"}

Asked == looks.ask > 0 \/ savers.ask > 0 \/ drain = "message"

(* Dive goes with the gate shut behind it: no export is on or begins, and  *)
(* no drain still runs.                                                    *)
GateKept == phase # "up" => exit = 3 /\ ~busy /\ drain = "idle"

(* However many quits there were, Dive goes only with the gate shut, and a *)
(* recording is let past only if an exit was held to save it; or it was    *)
(* open when the person, asked about one that could not be saved, let Dive *)
(* go; or its start has not come to forget what earlier quits were told.   *)
LetPast == drain # "claimed" /\ (drain' = "claimed" \/ (phase = "up" /\ phase' = "exiting"))
RecordingsHeld ==
  /\ [](TypeOK /\ GateKept)
  /\ [][LetPast => Active \subseteq held \cup agreed \cup starting]_vars

(* No guard holds an exit and forgets it: Dive goes, or the person has a   *)
(* question or a message to answer: if looks and saves end, and nobody     *)
(* saves a failing recording again and again between two polls.            *)
Prompt ==
  /\ WF_vars(LookEnds)
  /\ \A t \in Tabs : WF_vars(SaveEnds(t))
  /\ <>[][~\E t \in Tabs : Stop(t)]_vars
QuitComes ==
  Prompt => (posted > 0 ~> phase = "gone" \/ Asked)

(* However long a page keeps the look, a save does not end or a question   *)
(* goes unanswered: a person who keeps quitting and calls nothing off gets *)
(* Dive to go, unless an export will not stop.                             *)
InsistenceWins ==
  (WF_vars(Press) /\ <>[][~Called /\ ~\E t \in Tabs : Begun(t)]_vars)
    => <>(phase = "gone" \/ drain = "message")

-----------------------------------------------------------------------------
(* What the comments say and the code does not do.                         *)

(* "The first request with recordings open holds the exit while they are   *)
(* saved": of what no exit was held for, the person's word about what      *)
(* could not be saved lets only that past.                                 *)
OnlyFailedLost == [][LetPast => Active \subseteq held \cup lost \cup starting]_vars
=============================================================================
