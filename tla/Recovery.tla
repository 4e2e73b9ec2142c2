------------------------------ MODULE Recovery ------------------------------
(***************************************************************************)
(* The marker file that lies in the data folder while Dive runs. A launch  *)
(* that finds it counts how many runs in a row did not end cleanly, and    *)
(* from the second on holds back what it would have opened. The process    *)
(* may be killed between any two steps, also between the two halves of a   *)
(* write, which first empties the file.                                    *)
(***************************************************************************)
EXTENDS Integers

CONSTANT MaxStreak    \* bounds the crashes in a row

ASSUME RecoveryAssumption == MaxStreak \in Nat

Absent == -2
Emptied == -1         \* no number in it
Markers == {Absent, Emptied} \cup 0 .. MaxStreak

VARIABLES
  marker,    \* the file
  run,       \* the process: where it is
  streak,    \* STREAK
  settler,   \* the task that settles this run
  heldBack,  \* DEFERRED
  opened,    \* whether this run opened what the last one ended on
  owed,      \* history: runs in a row that ended unclean, before they settled
  cut        \* history: one of them was killed while the marker was written

rVars == <<marker, run, streak, settler, heldBack, opened, owed, cut>>
rHistory == <<owed, cut>>

RecoveryInit ==
  /\ marker = Absent /\ run = "off" /\ streak = 0 /\ settler = "none"
  /\ heldBack = FALSE /\ opened = FALSE
  /\ owed = 0 /\ cut = FALSE

(* streak_after.                                                           *)
StreakAfter(m) == IF m = Absent THEN 0 ELSE IF m = Emptied THEN 1 ELSE m + 1

SafeStart == streak >= 2

(* begin: the last run's marker is read, and this one's written.           *)
Begins ==
  /\ run = "off" /\ StreakAfter(marker) < MaxStreak /\ owed < MaxStreak
  /\ streak' = StreakAfter(marker)
  /\ marker' = Emptied /\ run' = "writing"
  /\ settler' = "none" /\ heldBack' = FALSE /\ opened' = FALSE
  /\ UNCHANGED rHistory

(* Mutant: every run is the first.                                         *)
BeginWritesZero ==
  /\ run = "writing"
  /\ marker' = 0 /\ run' = "setup"
  /\ UNCHANGED <<streak, settler, heldBack, opened, rHistory>>

BeginWrites ==
  /\ run = "writing"
  /\ marker' = streak /\ run' = "setup"
  /\ UNCHANGED <<streak, settler, heldBack, opened, rHistory>>

(* restore_session, whatever the startup setting is, and settle's task.    *)
RestoreSession ==
  /\ run = "setup"
  /\ run' = "up" /\ settler' = "asleep"
  /\ heldBack' = SafeStart /\ opened' = ~SafeStart
  /\ UNCHANGED <<marker, streak, rHistory>>

(* session_recovery_resolve: the first answer takes the question.          *)
Resolve(restore) ==
  /\ run = "up" /\ heldBack
  /\ heldBack' = FALSE /\ opened' = restore
  /\ UNCHANGED <<marker, run, streak, settler, rHistory>>

(* settle, STABLE_AFTER later: it looks, and then writes.                  *)
SettleLooks ==
  /\ run \in {"up", "ended"} /\ settler = "asleep"
  /\ settler' = IF marker = Absent THEN "done" ELSE "looked"
  /\ UNCHANGED <<marker, run, streak, heldBack, opened, rHistory>>

SettleEmpties ==
  /\ run \in {"up", "ended"} /\ settler = "looked"
  /\ marker' = Emptied /\ settler' = "open"
  /\ UNCHANGED <<run, streak, heldBack, opened, rHistory>>

(* A file that was removed meanwhile is written to no effect.              *)
SettleWrites ==
  /\ run \in {"up", "ended"} /\ settler = "open"
  /\ marker' = IF marker = Absent THEN Absent ELSE 0
  /\ settler' = "done"
  /\ UNCHANGED <<run, streak, heldBack, opened, rHistory>>

(* end: the event loop is left, or setup failed. Tasks go on until the     *)
(* process is gone.                                                        *)
EndsRun ==
  /\ run \in {"setup", "up"}
  /\ marker' = Absent /\ run' = "ended"
  /\ owed' = 0 /\ cut' = FALSE
  /\ UNCHANGED <<streak, settler, heldBack, opened>>

Exits ==
  /\ run = "ended" /\ run' = "off"
  /\ UNCHANGED <<marker, streak, settler, heldBack, opened, rHistory>>

(* Settled runs are not held against the next, only their own crash is.    *)
Killed ==
  /\ run \in {"writing", "setup", "up"}
  /\ run' = "off"
  /\ owed' = IF settler = "done" THEN 1 ELSE owed + 1
  /\ cut' = (marker = Emptied \/ (cut /\ settler # "done"))
  /\ UNCHANGED <<marker, streak, settler, heldBack, opened>>

RecoveryNext ==
  \/ Begins \/ BeginWrites \/ RestoreSession \/ EndsRun \/ Exits \/ Killed
  \/ SettleLooks \/ SettleEmpties \/ SettleWrites
  \/ \E restore \in BOOLEAN : Resolve(restore)

RecoverySpec == RecoveryInit /\ [][RecoveryNext]_rVars

RecoveryTypeOK ==
  /\ marker \in Markers /\ streak \in 0 .. MaxStreak /\ owed \in 0 .. MaxStreak
  /\ run \in {"off", "writing", "setup", "up", "ended"}
  /\ settler \in {"none", "asleep", "looked", "open", "done"}
  /\ {heldBack, opened, cut} \subseteq BOOLEAN

(* A run counts the runs before it that ended unclean, in a row and before *)
(* they settled. Never fewer, so that a page that takes the browser down   *)
(* is not opened by a third launch; only a marker cut off in writing loses *)
(* some. And one more at most: that there may be one more is a marker that *)
(* settling put back while its run came to a clean end. What was held back *)
(* is opened on the person's word only.                                    *)
CountsCrashes ==
  /\ RecoveryTypeOK
  /\ run \in {"writing", "setup", "up"} =>
       /\ streak <= owed + 1
       /\ cut \/ streak >= owed
       /\ heldBack => SafeStart /\ ~opened
=============================================================================
