------------------------------ MODULE Subtitles ------------------------------
(***************************************************************************)
(* Live subtitles of one tab: one session at a time, from the request that *)
(* loads a model and puts a tap for the audio into the page, to the thread *)
(* that transcribes. The person, the tab's end and the session itself may  *)
(* end it while its start still waits; starts of new sessions come while   *)
(* old threads and clean-ups have yet to end. What is heard and written is *)
(* left out.                                                               *)
(***************************************************************************)
EXTENDS Naturals

CONSTANT MaxSessions  \* sessions begun (bounds BeginSession)

ASSUME SessionsAssumption == MaxSessions \in Nat

VARIABLES
  sessions,  \* sessions so far
  entry,     \* the registry's session of the tab; 0 none
  at,        \* where each session is
  stopped,   \* sessions whose flag is set
  cleaning,  \* sessions whose clean-up of the page is on its way
  tap,       \* the session whose tap is in the page; 0 none
  unwanted,  \* history: stopped by the person or with the tab
  unheard,   \* history: a tap whose answer was lost after its session's clean-up
  uncleaned  \* history: sessions whose tap a failed clean-up left in the page

sVars == <<sessions, entry, at, stopped, cleaning, tap, unwanted, unheard, uncleaned>>

Sessions == 1 .. MaxSessions
Starting == {"load", "install", "installed"}

SubtitlesInit ==
  /\ sessions = 0 /\ entry = 0 /\ tap = 0
  /\ at = [b \in Sessions |-> "none"]
  /\ stopped = {} /\ cleaning = {} /\ unwanted = {} /\ unheard = {} /\ uncleaned = {}

(* take, and what follows when there was something to take.                *)
TakeOut(b) ==
  /\ entry' = 0
  /\ stopped' = stopped \cup {b} /\ cleaning' = cleaning \cup {b}

(* finish with a binding: its own session only.                            *)
Finish(b) ==
  IF entry = b THEN TakeOut(b) ELSE UNCHANGED <<entry, stopped, cleaning>>

Reaches(b, from, to) == at[b] = from /\ at' = [at EXCEPT ![b] = to]

-----------------------------------------------------------------------------
(* The setup's mutex is held until the start has come back.                *)
BeginSession ==
  /\ sessions < MaxSessions /\ \A b \in Sessions : at[b] \notin Starting
  /\ entry = 0
  /\ sessions' = sessions + 1 /\ entry' = sessions'
  /\ at' = [at EXCEPT ![sessions'] = "load"]
  /\ UNCHANGED <<stopped, cleaning, tap, unwanted, unheard, uncleaned>>

ModelLoads(b) ==
  /\ \/ b \notin stopped /\ Reaches(b, "load", "install") /\ UNCHANGED <<entry, stopped, cleaning>>
     \/ b \in stopped /\ Reaches(b, "load", "over") /\ UNCHANGED <<entry, stopped, cleaning>>
     \/ Reaches(b, "load", "over") /\ Finish(b)
  /\ UNCHANGED <<sessions, tap, unwanted, unheard, uncleaned>>

(* The page refuses, or has the tap, which takes the place of an older.    *)
TapInstalls(b) ==
  /\ \/ Reaches(b, "install", "installed") /\ tap' = b /\ UNCHANGED <<entry, stopped, cleaning>>
     \/ Reaches(b, "install", "over") /\ Finish(b) /\ UNCHANGED tap
  /\ UNCHANGED <<sessions, unwanted, unheard, uncleaned>>

(* The page did as it was told and its answer does not come.               *)
TapUnheard(b) ==
  /\ Reaches(b, "installed", "over") /\ Finish(b)
  /\ unheard' = IF b \in cleaning' THEN unheard ELSE unheard \cup {b}
  /\ UNCHANGED <<sessions, tap, unwanted, uncleaned>>

(* Mutant: whoever stopped it has cleaned up, it is thought.               *)
TapChecksBlind(b) ==
  /\ \/ b \in stopped /\ Reaches(b, "installed", "over") /\ UNCHANGED cleaning
     \/ b \notin stopped /\ Reaches(b, "installed", "work") /\ UNCHANGED cleaning
  /\ UNCHANGED <<sessions, entry, stopped, tap, unwanted, unheard, uncleaned>>

(* Stopped in the meantime, the page was perhaps cleaned up too early.     *)
TapChecks(b) ==
  /\ \/ b \in stopped /\ Reaches(b, "installed", "over") /\ cleaning' = cleaning \cup {b}
     \/ b \notin stopped /\ Reaches(b, "installed", "work") /\ UNCHANGED cleaning
  /\ UNCHANGED <<sessions, entry, stopped, tap, unwanted, unheard, uncleaned>>

(* The thread sees the flag, or the audio ends or fails.                   *)
WorkEnds(b) ==
  /\ Reaches(b, "work", "over") /\ Finish(b)
  /\ UNCHANGED <<sessions, tap, unwanted, unheard, uncleaned>>

(* stop_tab: the person, or the tab's end.                                 *)
StopTab ==
  /\ entry # 0 /\ TakeOut(entry) /\ unwanted' = unwanted \cup {entry}
  /\ UNCHANGED <<sessions, at, tap, unheard, uncleaned>>

(* cleanup_page stops its own tap only; that it fails, on a DevTools       *)
(* session that was closed, is nobody's business.                          *)
PageCleaned(b) ==
  /\ b \in cleaning /\ cleaning' = cleaning \ {b}
  /\ \/ tap' = (IF tap = b THEN 0 ELSE tap) /\ UNCHANGED uncleaned
     \/ uncleaned' = (IF tap = b THEN uncleaned \cup {b} ELSE uncleaned) /\ UNCHANGED tap
  /\ UNCHANGED <<sessions, entry, at, stopped, unwanted, unheard>>

(* A navigation takes the tap with the page.                               *)
PageLeaves ==
  /\ tap # 0 /\ tap' = 0
  /\ UNCHANGED <<sessions, entry, at, stopped, cleaning, unwanted, unheard, uncleaned>>

SubtitlesNext ==
  \/ BeginSession \/ StopTab \/ PageLeaves
  \/ \E b \in Sessions :
       ModelLoads(b) \/ TapInstalls(b) \/ TapUnheard(b) \/ TapChecks(b) \/ WorkEnds(b)
       \/ PageCleaned(b)

SubtitlesSafety == SubtitlesInit /\ [][SubtitlesNext]_sVars

-----------------------------------------------------------------------------
SubtitlesTypeOK ==
  /\ sessions \in 0 .. MaxSessions /\ entry \in 0 .. sessions /\ tap \in 0 .. sessions
  /\ \A b \in Sessions : at[b] \in Starting \cup {"none", "work", "over"}
  /\ stopped \cup cleaning \cup unwanted \cup unheard \cup uncleaned \subseteq 1 .. sessions

(* The tab's entry is the one session that goes on, and while one does,    *)
(* starting or transcribing, it is the entry: a session nobody can stop    *)
(* would listen on, an entry without one would keep every later start out. *)
(* And one is ended by the person, the tab or itself, never by the late    *)
(* end of another.                                                         *)
EntryExact ==
  \A b \in Sessions :
    /\ entry = b <=> at[b] \in Starting \cup {"work"} /\ b \notin stopped
    /\ b \in stopped => b \in unwanted \/ at[b] = "over"

(* The tab has the one session it shows, which only its own end or the     *)
(* person ends, and the page's audio is tapped for a session that goes on  *)
(* or whose clean-up is to come, at whatever moment of its start it was    *)
(* stopped; unless that clean-up was tried and did not reach the page, or  *)
(* the page's answer to the tap was lost after it.                         *)
TapAccounted ==
  /\ SubtitlesTypeOK
  /\ EntryExact
  /\ tap # 0 => \/ tap = entry \/ tap \in cleaning \cup unheard \cup uncleaned
                \/ at[tap] = "installed"
=============================================================================
