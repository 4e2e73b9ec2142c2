------------------------------ MODULE Recorder ------------------------------
(***************************************************************************)
(* Screen recordings of one tab, from the work directory made for one to   *)
(* the file it is saved as or the person throwing it away. Starting waits  *)
(* for devices and for the page; frames arrive from the page, or a capture *)
(* process writes stretches between pauses; a watchdog ends a recording at *)
(* its length cap; the chrome, the closing of the tab and a quit may all   *)
(* stop it, and a save that failed may be tried again. What a quit waits   *)
(* for is in Quit.                                                         *)
(***************************************************************************)
EXTENDS Naturals, Sequences

CONSTANTS
  Stoppers,  \* who may be stopping the recording: the chrome, the tab closing
  Modes      \* of the page or of its window: each recording made

ASSUME RecorderAssumption == Modes \in Seq({"window", "page"})

VARIABLES
  recording, \* the registry's recording of the tab; 0 none
  made,      \* recordings so far
  rec,       \* each recording
  start,     \* where its start is
  watch,     \* where its watchdog is
  pauser,    \* a pause or resume past its checks
  stopper,   \* where each stop is, with which recording
  tossing,   \* thrown away; the blocking pool still ends what runs
  settled    \* history: those saved, thrown away or refused a start

cVars == <<recording, made, rec, start, watch, pauser, stopper, tossing, settled>>

Recs == DOMAIN Modes
Fresh(mode) == [mode |-> mode, stopped |-> FALSE, paused |-> FALSE, limit |-> FALSE,
                finishing |-> FALSE, child |-> "none", kept |-> FALSE, dir |-> TRUE]
Released == [Fresh("page") EXCEPT !.dir = FALSE, !.stopped = TRUE]
NotPausing == [of |-> 0, to |-> FALSE]
NotStopping == [at |-> "idle", of |-> 0]

RecorderInit ==
  /\ recording = 0 /\ made = 0
  /\ rec = [r \in Recs |-> Released]
  /\ start = [r \in Recs |-> "none"] /\ watch = [r \in Recs |-> "off"]
  /\ pauser = NotPausing /\ tossing = {}
  /\ stopper = [k \in Stoppers |-> NotStopping]
  /\ settled = {}

IsOver(r) == rec[r].stopped \/ rec[r].limit

(* Mutant: whatever recording the tab has is taken out.                    *)
ForgetTab(r) == recording' = 0
(* It may be another's turn by now.                                        *)
Forget(r) == recording' = IF recording = r THEN 0 ELSE recording

(* A stretch ends: its process is told to, and what it wrote is kept.      *)
SegmentEnded(r) ==
  [rec[r] EXCEPT !.child = "none",
                 !.kept = @ \/ (rec[r].mode = "window" /\ rec[r].child # "none")]

-----------------------------------------------------------------------------
(* start. It fails where a device does, and gives up what was stopped.     *)

Starts(mic) ==
  /\ recording = 0 /\ made < Len(Modes)
  /\ made' = made + 1 /\ recording' = made'
  /\ rec' = [rec EXCEPT ![made'] = Fresh(Modes[made'])]
  /\ start' = [start EXCEPT ![made'] = IF Modes[made'] = "window" \/ mic THEN "begins" ELSE "asks"]
  /\ UNCHANGED <<watch, pauser, stopper, tossing, settled>>

Gone(r) == start' = [start EXCEPT ![r] = "over"]
Refused(r) == Gone(r) /\ settled' = settled \cup {r}
Fails(r) ==
  /\ rec' = [rec EXCEPT ![r].stopped = TRUE]
  /\ Forget(r) /\ Refused(r)
  /\ UNCHANGED watch

StartCaptures(r) ==
  /\ start[r] = "begins"
  /\ \/ /\ rec' = [rec EXCEPT ![r].child = "live"]
        /\ start' = [start EXCEPT ![r] = "settles"] /\ UNCHANGED <<recording, watch, settled>>
     \/ rec[r].mode = "window" /\ Fails(r)
     \/ /\ rec[r].mode = "page" /\ start' = [start EXCEPT ![r] = "settles"]
        /\ UNCHANGED <<recording, rec, watch, settled>>
  /\ UNCHANGED <<made, pauser, stopper, tossing>>

(* Almost a second on: the process is still there, or access was refused.  *)
StartSettles(r) ==
  /\ start[r] = "settles"
  /\ \/ /\ rec[r].mode = "window" /\ rec[r].stopped
        /\ Refused(r) /\ UNCHANGED <<recording, rec, watch>>
     \/ /\ rec[r].child # "live" /\ (rec[r].mode = "window" => ~rec[r].stopped)
        /\ Fails(r)
     \/ /\ rec[r].mode = "window" /\ ~rec[r].stopped /\ rec[r].child = "live"
        /\ watch' = [watch EXCEPT ![r] = "on"]
        /\ Gone(r) /\ UNCHANGED <<recording, rec, settled>>
     \/ /\ rec[r].mode = "page" /\ rec[r].child = "live"
        /\ start' = [start EXCEPT ![r] = "asks"]
        /\ UNCHANGED <<recording, rec, watch, settled>>
  /\ UNCHANGED <<made, pauser, stopper, tossing>>

Filming(r) == ~rec[r].paused /\ ~IsOver(r)

(* The first picture, if the page gives one.                               *)
StartShows(r, pictured) ==
  /\ start[r] = "asks"
  /\ start' = [start EXCEPT ![r] = IF pictured THEN "pictured" ELSE "blank"]
  /\ rec' = IF pictured /\ Filming(r) THEN [rec EXCEPT ![r].kept = TRUE] ELSE rec
  /\ UNCHANGED <<recording, made, watch, pauser, stopper, tossing, settled>>

StartEnds(r) ==
  /\ start[r] \in {"pictured", "blank"}
  /\ \/ rec[r].stopped /\ Refused(r) /\ UNCHANGED <<recording, rec, watch>>
     \/ ~rec[r].stopped /\ start[r] = "blank" /\ Fails(r)
     \/ /\ ~rec[r].stopped
        /\ watch' = [watch EXCEPT ![r] = "on"]
        /\ Gone(r) /\ UNCHANGED <<recording, rec, settled>>
  /\ UNCHANGED <<made, pauser, stopper, tossing>>

-----------------------------------------------------------------------------
(* While it runs.                                                          *)

(* The frame tasks end with the recording; push looks again. The frame may *)
(* be the one past the cap.                                                *)
Frame(r) ==
  /\ rec[r].mode = "page" /\ watch[r] = "on" /\ Filming(r)
  /\ \/ rec' = [rec EXCEPT ![r].kept = TRUE]
     \/ rec' = [rec EXCEPT ![r].limit = TRUE]
  /\ UNCHANGED <<recording, made, start, watch, pauser, stopper, tossing, settled>>

(* The device goes, or the process has run for as long as it may.          *)
ProcessEnds(r) ==
  /\ rec[r].child = "live"
  /\ rec' = [rec EXCEPT ![r].child = "dead"]
  /\ UNCHANGED <<recording, made, start, watch, pauser, stopper, tossing, settled>>

(* The watchdog, while the recording runs: the cap, then, elsewhere, the   *)
(* stretches; or a microphone that went.                                   *)
Watches(r) ==
  /\ \/ /\ watch[r] = "on" /\ ~rec[r].stopped
        /\ watch' = [watch EXCEPT ![r] = "cap"]
        /\ rec' = [rec EXCEPT ![r].limit = TRUE]
     \/ /\ watch[r] = "cap"
        /\ watch' = [watch EXCEPT ![r] = "off"]
        /\ rec' = [rec EXCEPT ![r] = SegmentEnded(r)]
     \/ /\ watch[r] = "on" /\ ~rec[r].stopped /\ ~rec[r].paused
        /\ rec[r].mode = "page" /\ rec[r].child = "dead"
        /\ rec' = [rec EXCEPT ![r].child = "none"] /\ UNCHANGED watch
  /\ UNCHANGED <<recording, made, start, pauser, stopper, tossing, settled>>

(* The chrome offers a pause once the start has come back.                 *)
Pauses(to) ==
  /\ pauser = NotPausing
  /\ recording # 0 /\ start[recording] = "over" /\ ~IsOver(recording) /\ rec[recording].paused # to
  /\ rec' = [rec EXCEPT ![recording].paused = to]
  /\ pauser' = [of |-> recording, to |-> to]
  /\ UNCHANGED <<recording, made, start, watch, stopper, tossing, settled>>

(* Its stretch ends, or a new one begins or cannot.                        *)
PauseActs ==
  LET r == pauser.of IN
  /\ r # 0
  /\ \/ pauser.to /\ rec' = [rec EXCEPT ![r] = SegmentEnded(r)]
     \/ /\ ~pauser.to /\ rec[r].child = "none"
        /\ \E child \in {"none", "live"} : rec' = [rec EXCEPT ![r].child = child]
     \/ ~pauser.to /\ rec[r].child # "none" /\ UNCHANGED rec
  /\ pauser' = NotPausing
  /\ UNCHANGED <<recording, made, start, watch, stopper, tossing, settled>>

-----------------------------------------------------------------------------
(* Stopping: begin_stop and complete_stop, or finish_detached's task.      *)

StopLooks(k) ==
  /\ stopper[k].at = "idle" /\ recording # 0
  /\ stopper' = [stopper EXCEPT ![k] = [at |-> "found", of |-> recording]]
  /\ UNCHANGED <<recording, made, rec, start, watch, pauser, tossing, settled>>

StopBegins(k) ==
  LET r == stopper[k].of IN
  /\ stopper[k].at = "found"
  /\ IF rec[r].finishing
     THEN stopper' = [stopper EXCEPT ![k] = NotStopping] /\ UNCHANGED rec
     ELSE /\ stopper' = [stopper EXCEPT ![k].at = "begun"]
          /\ rec' = [rec EXCEPT ![r].finishing = TRUE, ![r].stopped = TRUE]
  /\ UNCHANGED <<recording, made, start, watch, pauser, tossing, settled>>

(* The page has been told; encode ends the stretches first.                *)
Encodes(k) ==
  LET r == stopper[k].of IN
  /\ stopper[k].at = "begun"
  /\ rec' = [rec EXCEPT ![r] = SegmentEnded(r)]
  /\ stopper' = [stopper EXCEPT ![k].at = "encoding"]
  /\ UNCHANGED <<recording, made, start, watch, pauser, tossing, settled>>

(* A file, and then its frames go; or it fails, is told to stop, or there  *)
(* is nothing to save.                                                     *)
Encoded(k) ==
  LET r == stopper[k].of IN
  /\ stopper[k].at = "encoding"
  /\ \/ /\ rec[r].kept /\ rec[r].dir
        /\ stopper' = [stopper EXCEPT ![k].at = "saved"]
        /\ rec' = [rec EXCEPT ![r].dir = FALSE]
        /\ settled' = settled \cup {r}
     \/ stopper' = [stopper EXCEPT ![k].at = "failed"] /\ UNCHANGED <<rec, settled>>
  /\ UNCHANGED <<recording, made, start, watch, pauser, tossing>>

SaveEnds(k) ==
  LET r == stopper[k].of IN
  /\ stopper[k].at \in {"saved", "failed"}
  /\ IF stopper[k].at = "failed" /\ rec[r].kept THEN UNCHANGED recording ELSE Forget(r)
  /\ rec' = [rec EXCEPT ![r].finishing = FALSE]
  /\ stopper' = [stopper EXCEPT ![k] = NotStopping]
  /\ UNCHANGED <<made, start, watch, pauser, tossing, settled>>

(* discard; one that is being saved is not thrown away.                    *)
Discards ==
  /\ recording # 0 /\ ~rec[recording].finishing
  /\ recording' = 0
  /\ rec' = [rec EXCEPT ![recording].stopped = TRUE]
  /\ tossing' = tossing \cup {recording}
  /\ settled' = settled \cup {recording}
  /\ UNCHANGED <<made, start, watch, pauser, stopper>>

DiscardEnds(r) ==
  /\ r \in tossing /\ tossing' = tossing \ {r}
  /\ rec' = [rec EXCEPT ![r] = [SegmentEnded(r) EXCEPT !.dir = FALSE]]
  /\ UNCHANGED <<recording, made, start, watch, pauser, stopper, settled>>

(* Drop: nobody has it any more, its watchdog has looked for the last      *)
(* time, and what is left of it goes.                                      *)
Owned(r) ==
  \/ recording = r \/ r \in tossing \/ pauser.of = r
  \/ start[r] # "over" \/ watch[r] = "cap"
  \/ \E k \in Stoppers : stopper[k].of = r
Drops(r) ==
  /\ r <= made /\ ~Owned(r) /\ rec[r] # Released
  /\ rec' = [rec EXCEPT ![r] = Released]
  /\ watch' = [watch EXCEPT ![r] = "off"]
  /\ UNCHANGED <<recording, made, start, pauser, stopper, tossing, settled>>

RecorderNext ==
  \/ \E mic \in BOOLEAN : Starts(mic)
  \/ \E r \in Recs :
       \/ StartCaptures(r) \/ StartSettles(r) \/ StartEnds(r)
       \/ \E pictured \in BOOLEAN : StartShows(r, pictured)
       \/ Frame(r) \/ ProcessEnds(r) \/ Watches(r)
       \/ DiscardEnds(r) \/ Drops(r)
  \/ \E to \in BOOLEAN : Pauses(to)
  \/ PauseActs \/ Discards
  \/ \E k \in Stoppers :
       StopLooks(k) \/ StopBegins(k) \/ Encodes(k) \/ Encoded(k) \/ SaveEnds(k)

RecorderSafety == RecorderInit /\ [][RecorderNext]_cVars

-----------------------------------------------------------------------------
RecorderTypeOK ==
  /\ recording \in 0 .. made /\ made \in 0 .. Len(Modes)
  /\ \A r \in Recs :
       /\ rec[r].child \in {"none", "live", "dead"}
       /\ start[r] \in {"none", "begins", "settles", "asks", "pictured", "blank", "over"}
       /\ watch[r] \in {"off", "on", "cap"}
  /\ tossing \cup settled \subseteq 1 .. made

(* What a recording that did start has recorded stays where the person can *)
(* save it, in the registry and on the disk, until it has been saved or    *)
(* they threw it away: a save that fails or is stopped loses nothing, nor  *)
(* does anything that another recording's start or stop does when it comes *)
(* late.                                                                   *)
FramesKept ==
  /\ RecorderTypeOK
  /\ \A r \in Recs :
       rec[r].kept /\ start[r] = "over" /\ r \notin settled => recording = r /\ rec[r].dir
=============================================================================
