---------------------------- MODULE Startup_proofs ----------------------------
(***************************************************************************)
(* What a launch may rely on: the safety of the database's recovery, for   *)
(* any number of schemas, and of the marker that counts the runs that did  *)
(* not end cleanly, for any number of them.                                *)
(***************************************************************************)
EXTENDS DbRecovery, Recovery, TLAPS

(* Where the launch is says what of the person's data there must be: the   *)
(* database is open from the first query on, and once it has been moved    *)
(* the person's data is aside; at every other place their say has been     *)
(* had.                                                                    *)
DbPlaces ==
  /\ launch \in {"copy", "migrate", "damaged", "up"} => db # NoFile
  /\ launch \in {"moved", "ask", "restore"} => \E f \in aside : f.mine
  /\ launch \notin {"off", "moved", "ask", "restore"} => ~unsaid

DataSomewhere == db.mine \/ \E f \in aside : f.mine

DbInductive == DbTypeOK /\ DbPlaces /\ DataSomewhere

LEMMA NextRoundTypes ==
  ASSUME DbTypeOK, NextRound
  PROVE  /\ launch' \in {"begin", "off"} /\ unclean' \in BOOLEAN
         /\ round' \in 1 .. Rounds /\ build' = build
<1>. USE DEF NextRound, DbTypeOK, Rounds
<1>1. CASE round < Rounds
  BY <1>1
<1>2. CASE ~(round < Rounds)
  BY <1>2
<1>. QED
  BY <1>1, <1>2

LEMMA DbTypeStep == DbInductive /\ [DbNext]_bVars => DbTypeOK'
<1>. SUFFICES ASSUME DbTypeOK, DbPlaces, [DbNext]_bVars PROVE DbTypeOK'
  BY DEF DbInductive
<1>. USE DbAssumption DEF DbTypeOK, Files, NoFile, Empty, Builds, Rounds
<1>1. CASE Launches
  <2>1. unsaid' \in BOOLEAN
    BY <1>1 DEF Launches
  <2>2. {unclean', without', unsaid'} \subseteq BOOLEAN
    BY <1>1, <2>1 DEF Launches, disk
  <2>. QED
    BY <1>1, <2>2 DEF Launches, disk
<1>2. CASE SkipsCopy
  BY <1>2 DEF SkipsCopy, disk, Goes
<1>3. CASE StartsCopy
  BY <1>3 DEF StartsCopy, Goes
<1>4. CASE Copying
  BY <1>4 DEF Copying, Cut
<1>5. CASE Copied
  BY <1>5 DEF Copied, Goes
<1>6. CASE CopyFails
  BY <1>6 DEF CopyFails, Goes
<1>7. CASE RemovesOlder
  BY <1>7 DEF RemovesOlder, Goes
<1>8. CASE OpensDb
  <2>1. db' \in Files /\ db'.state # "cut"
    BY <1>8 DEF OpensDb
  <2>2. launch' \in {"off", "migrate"} /\ unclean' \in BOOLEAN /\ UNCHANGED <<build, round>>
    BY <1>8 DEF OpensDb, Goes, Aborts
  <2>. QED
    BY <1>8, <2>1, <2>2 DEF OpensDb
<1>9. CASE Migrates
  <2>1. db \in [v : 0 .. Newest, mine : BOOLEAN, state : {"whole", "damaged", "cut"}]
    BY <1>9 DEF Migrates, DbPlaces
  <2>2. db'.v = db.v + 1 /\ db'.v \in 0 .. Newest
    BY <1>9, <2>1 DEF Migrates
  <2>3. db' \in [v : 0 .. Newest, mine : BOOLEAN, state : {"whole", "damaged", "cut"}]
    BY <1>9, <2>1, <2>2 DEF Migrates
  <2>. QED
    BY <1>9, <2>3 DEF Migrates
<1>10. CASE Passes
  BY <1>10 DEF Passes, disk, Goes
<1>11. CASE FailsCheck
  BY <1>11 DEF FailsCheck, disk, Goes
<1>12. CASE MeetsDamage
  BY <1>12 DEF MeetsDamage, disk, Goes, Unsound
<1>13. CASE LaunchRefused
  BY <1>13 DEF LaunchRefused, disk, Aborts
<1>14. CASE SetsAside
  <2>1. db.mine \in BOOLEAN
    <3>1. db \in [v : 0 .. Newest, mine : BOOLEAN, state : {"whole", "damaged", "cut"}]
      BY <1>14 DEF SetsAside, DbPlaces
    <3>. QED
      BY <3>1
  <2>2. [mine |-> db.mine, whole |-> db.state = "whole"] \in [mine : BOOLEAN, whole : BOOLEAN]
    <3>1. CASE db.state = "whole"
      BY <2>1, <3>1
    <3>2. CASE db.state # "whole"
      BY <2>1, <3>2
    <3>. QED
      BY <3>1, <3>2
  <2>3. aside' \subseteq [mine : BOOLEAN, whole : BOOLEAN]
    BY <1>14, <2>2 DEF SetsAside
  <2>. QED
    BY <1>14, <2>3 DEF SetsAside, Goes
<1>15. CASE SetsRestAside
  BY <1>15 DEF SetsRestAside, disk, Goes
<1>16. CASE QuarantineFails
  BY <1>16 DEF QuarantineFails, disk, Aborts
<1>17. CASE StartsFresh
  <2>1. /\ launch' \in {"begin", "off"} /\ unclean' \in BOOLEAN
        /\ round' \in 1 .. 3 /\ build' = build
    BY <1>17, NextRoundTypes DEF StartsFresh
  <2>. QED
    BY <1>17, <2>1 DEF StartsFresh, disk
<1>18. CASE ChoosesQuit
  BY <1>18 DEF ChoosesQuit, disk, Aborts
<1>19. CASE Restores
  BY <1>19 DEF Restores, Goes, Offered
<1>20. CASE Restoring
  BY <1>20 DEF Restoring, Offered, Cut
<1>21. CASE Restored
  <2>1. /\ launch' \in {"begin", "off"} /\ unclean' \in BOOLEAN
        /\ round' \in 1 .. 3 /\ build' = build
    BY <1>21, NextRoundTypes DEF Restored
  <2>. QED
    BY <1>21, <2>1 DEF Restored, Offered
<1>22. CASE RestoreFails
  BY <1>22 DEF RestoreFails, Aborts
<1>23. CASE Damaged
  BY <1>23 DEF Damaged
<1>24. CASE Quits
  BY <1>24 DEF Quits, disk, Aborts
<1>25. CASE Kills
  BY <1>25 DEF Kills, disk
<1>26. CASE UNCHANGED bVars
  BY <1>26 DEF bVars, disk
<1>. QED
  BY <1>1, <1>2, <1>3, <1>4, <1>5, <1>6, <1>7, <1>8, <1>9, <1>10, <1>11, <1>12, <1>13, <1>14, <1>15, <1>16, <1>17, <1>18, <1>19, <1>20, <1>21, <1>22, <1>23, <1>24, <1>25, <1>26 DEF DbNext

LEMMA DbPlacesStep == DbInductive /\ [DbNext]_bVars => DbPlaces' /\ DataSomewhere'
<1>. SUFFICES ASSUME DbTypeOK, DbPlaces, DataSomewhere, [DbNext]_bVars
              PROVE DbPlaces' /\ DataSomewhere'
  BY DEF DbInductive
<1>. USE DbAssumption DEF DbTypeOK, DbPlaces, DataSomewhere, Files, NoFile, Empty, Builds
<1>1. CASE Launches
  BY <1>1 DEF Launches, disk
<1>2. CASE SkipsCopy
  BY <1>2 DEF SkipsCopy, disk, Goes
<1>3. CASE StartsCopy
  BY <1>3 DEF StartsCopy, Goes
<1>4. CASE Copying
  BY <1>4 DEF Copying, Cut
<1>5. CASE Copied
  BY <1>5 DEF Copied, Goes
<1>6. CASE CopyFails
  BY <1>6 DEF CopyFails, Goes
<1>7. CASE RemovesOlder
  BY <1>7 DEF RemovesOlder, Goes
<1>8. CASE OpensDb
  BY <1>8 DEF OpensDb, Goes, Aborts
<1>9. CASE Migrates
  BY <1>9 DEF Migrates
<1>10. CASE Passes
  BY <1>10 DEF Passes, disk, Goes
<1>11. CASE FailsCheck
  BY <1>11 DEF FailsCheck, disk, Goes
<1>12. CASE MeetsDamage
  BY <1>12 DEF MeetsDamage, disk, Goes, Unsound
<1>13. CASE LaunchRefused
  BY <1>13 DEF LaunchRefused, disk, Aborts
<1>14. CASE SetsAside
  <2>1. CASE db.mine
    <3>. DEFINE moved == [mine |-> db.mine, whole |-> db.state = "whole"]
    <3>1. moved \in aside' /\ moved.mine
      BY <1>14, <2>1 DEF SetsAside
    <3>. QED
      BY <1>14, <3>1 DEF SetsAside, Goes
  <2>2. CASE \E f \in aside : f.mine
    BY <1>14, <2>2 DEF SetsAside, Goes
  <2>. QED
    BY <2>1, <2>2
<1>15. CASE SetsRestAside
  BY <1>15 DEF SetsRestAside, disk, Goes
<1>16. CASE QuarantineFails
  BY <1>16 DEF QuarantineFails, disk, Aborts
<1>17. CASE StartsFresh
  BY <1>17 DEF StartsFresh, disk, NextRound
<1>18. CASE ChoosesQuit
  BY <1>18 DEF ChoosesQuit, disk, Aborts
<1>19. CASE Restores
  BY <1>19 DEF Restores, Goes, Offered
<1>20. CASE Restoring
  BY <1>20 DEF Restoring, Offered, Cut
<1>21. CASE Restored
  BY <1>21 DEF Restored, Offered, NextRound
<1>22. CASE RestoreFails
  BY <1>22 DEF RestoreFails, Aborts
<1>23. CASE Damaged
  BY <1>23 DEF Damaged
<1>24. CASE Quits
  BY <1>24 DEF Quits, disk, Aborts
<1>25. CASE Kills
  BY <1>25 DEF Kills, disk
<1>26. CASE UNCHANGED bVars
  BY <1>26 DEF bVars, disk
<1>. QED
  BY <1>1, <1>2, <1>3, <1>4, <1>5, <1>6, <1>7, <1>8, <1>9, <1>10, <1>11, <1>12, <1>13, <1>14, <1>15, <1>16, <1>17, <1>18, <1>19, <1>20, <1>21, <1>22, <1>23, <1>24, <1>25, <1>26 DEF DbNext

(* The recovery's inductive invariant, for any number of schemas, wherever *)
(* damage lies.                                                            *)
THEOREM DbInvariance == DbSpec => []DbInductive
<1>1. ASSUME DbInit PROVE DbInductive
  <2>. USE <1>1, DbAssumption DEF DbInit, Files, NoFile, Builds, Rounds
  <2>1. db \in Files /\ db.mine /\ copies \in [Builds -> Files] /\ build \in Builds
    OBVIOUS
  <2>2. {unclean, without, unsaid} \subseteq BOOLEAN
    OBVIOUS
  <2>3. aside \subseteq [mine : BOOLEAN, whole : BOOLEAN]
    OBVIOUS
  <2>4. DbTypeOK
    BY <2>1, <2>2, <2>3 DEF DbTypeOK
  <2>. QED
    BY <2>1, <2>4 DEF DbInductive, DbPlaces, DataSomewhere
<1>2. DbInductive /\ [DbNext]_bVars => DbInductive'
  BY DbTypeStep, DbPlacesStep DEF DbInductive
<1>. QED
  BY <1>1, <1>2, PTL DEF DbSpec

(* However often Dive is killed or the disk fails, and with whatever       *)
(* builds, the person's data is still there, in place or aside; and a      *)
(* launch that sets it aside comes up only by their answer, to start fresh *)
(* or by a copy that was restored whole (open in db_recovery.rs, and in    *)
(* store.rs). What a later launch does that finds no database is not said. *)
THEOREM DataIsKept == DbSpec => []DataKept
<1>1. DbInductive => DataKept
  BY DEF DbInductive, DbPlaces, DataSomewhere, DataKept
<1>. QED
  BY <1>1, DbInvariance, PTL

-------------------------------------------------------------------------------
(* The marker.                                                             *)

OnNow == run \in {"writing", "setup", "up"}

(* What lies in the file at each place of a run and of its settling, and   *)
(* that a run stays within the bound it began under.                       *)
MarkerPlaces ==
  /\ OnNow => owed < MaxStreak /\ streak < MaxStreak
  /\ run = "writing" => marker = Emptied /\ settler = "none"
  /\ run = "setup" => marker = streak /\ settler = "none"
  /\ run = "up" => \/ settler \in {"asleep", "looked"} /\ marker = streak
                   \/ settler = "open" /\ marker = Emptied
                   \/ settler = "done" /\ marker = 0
  /\ run = "ended" => /\ owed = 0 /\ ~cut
                      /\ marker = Absent \/ marker \in {Emptied, 0}

(* Between two runs the file says what the next will count.                *)
FileCounts ==
  run = "off" => /\ StreakAfter(marker) <= owed + 1
                 /\ cut \/ StreakAfter(marker) >= owed

RunCounts ==
  OnNow => /\ streak <= owed + 1
           /\ cut \/ streak >= owed
           /\ heldBack => SafeStart /\ ~opened

RecoveryInductive == RecoveryTypeOK /\ MarkerPlaces /\ FileCounts /\ RunCounts

LEMMA MarkerStep ==
  RecoveryInductive /\ [RecoveryNext]_rVars => RecoveryTypeOK' /\ MarkerPlaces'
<1>. SUFFICES ASSUME RecoveryTypeOK, MarkerPlaces, [RecoveryNext]_rVars
              PROVE RecoveryTypeOK' /\ MarkerPlaces'
  BY DEF RecoveryInductive
<1>. USE RecoveryAssumption DEF RecoveryTypeOK, MarkerPlaces, OnNow, Markers, Absent, Emptied
<1>1. CASE Begins
  <2>1. {heldBack', opened', cut'} \subseteq BOOLEAN
    BY <1>1 DEF Begins, rHistory, StreakAfter
  <2>. QED
    BY <1>1, <2>1 DEF Begins, rHistory, StreakAfter
<1>2. CASE BeginWrites
  BY <1>2 DEF BeginWrites, rHistory
<1>3. CASE RestoreSession
  BY <1>3 DEF RestoreSession, rHistory, SafeStart
<1>4. CASE EndsRun
  <2>1. {heldBack', opened', cut'} \subseteq BOOLEAN
    BY <1>4 DEF EndsRun
  <2>. QED
    BY <1>4, <2>1 DEF EndsRun
<1>5. CASE Exits
  BY <1>5 DEF Exits, rHistory
<1>6. CASE Killed
  BY <1>6 DEF Killed
<1>7. CASE SettleLooks
  BY <1>7 DEF SettleLooks, rHistory
<1>8. CASE SettleEmpties
  BY <1>8 DEF SettleEmpties, rHistory
<1>9. CASE SettleWrites
  BY <1>9 DEF SettleWrites, rHistory
<1>10. ASSUME NEW restore \in BOOLEAN, Resolve(restore) PROVE RecoveryTypeOK' /\ MarkerPlaces'
  BY <1>10 DEF Resolve, rHistory
<1>11. CASE UNCHANGED rVars
  BY <1>11 DEF rVars, rHistory
<1>. QED
  BY <1>1, <1>2, <1>3, <1>4, <1>5, <1>6, <1>7, <1>8, <1>9, <1>10, <1>11 DEF RecoveryNext

LEMMA CountStep ==
  RecoveryInductive /\ [RecoveryNext]_rVars => FileCounts' /\ RunCounts'
<1>. SUFFICES ASSUME RecoveryTypeOK, MarkerPlaces, FileCounts, RunCounts, [RecoveryNext]_rVars
              PROVE FileCounts' /\ RunCounts'
  BY DEF RecoveryInductive
<1>. USE RecoveryAssumption DEF RecoveryTypeOK, MarkerPlaces, FileCounts, RunCounts, OnNow,
                                Markers, Absent, Emptied, StreakAfter, SafeStart
<1>1. CASE Begins
  BY <1>1 DEF Begins, rHistory
<1>2. CASE BeginWrites
  BY <1>2 DEF BeginWrites, rHistory
<1>3. CASE RestoreSession
  BY <1>3 DEF RestoreSession, rHistory
<1>4. CASE EndsRun
  BY <1>4 DEF EndsRun
<1>5. CASE Exits
  BY <1>5 DEF Exits, rHistory
<1>6. CASE Killed
  <2>1. ~OnNow' /\ marker' = marker
    BY <1>6 DEF Killed
  <2>2. CASE settler # "done"
    <3>1. owed' = owed + 1 /\ (cut' <=> marker = Emptied \/ cut)
      BY <1>6, <2>2 DEF Killed
    <3>2. marker = Emptied \/ marker = streak
      BY <1>6, <2>2 DEF Killed
    <3>. QED
      BY <1>6, <2>1, <3>1, <3>2 DEF Killed
  <2>3. CASE settler = "done"
    <3>1. owed' = 1 /\ marker = 0
      BY <1>6, <2>3 DEF Killed
    <3>. QED
      BY <2>1, <3>1
  <2>. QED
    BY <2>2, <2>3
<1>7. CASE SettleLooks
  BY <1>7 DEF SettleLooks, rHistory
<1>8. CASE SettleEmpties
  BY <1>8 DEF SettleEmpties, rHistory
<1>9. CASE SettleWrites
  BY <1>9 DEF SettleWrites, rHistory
<1>10. ASSUME NEW restore \in BOOLEAN, Resolve(restore) PROVE FileCounts' /\ RunCounts'
  BY <1>10 DEF Resolve, rHistory
<1>11. CASE UNCHANGED rVars
  BY <1>11 DEF rVars, rHistory
<1>. QED
  BY <1>1, <1>2, <1>3, <1>4, <1>5, <1>6, <1>7, <1>8, <1>9, <1>10, <1>11 DEF RecoveryNext

(* The marker's inductive invariant, for any bound on the runs counted.    *)
THEOREM RecoveryInvariance == RecoverySpec => []RecoveryInductive
<1>1. ASSUME RecoveryInit PROVE RecoveryInductive
  <2>. USE <1>1, RecoveryAssumption DEF RecoveryInit, Absent, Emptied
  <2>1. {heldBack, opened, cut} \subseteq BOOLEAN
    OBVIOUS
  <2>2. RecoveryTypeOK
    BY <2>1 DEF RecoveryTypeOK, Markers
  <2>3. MarkerPlaces /\ RunCounts
    BY DEF MarkerPlaces, RunCounts, OnNow
  <2>4. FileCounts
    BY DEF FileCounts, StreakAfter
  <2>. QED
    BY <2>2, <2>3, <2>4 DEF RecoveryInductive
<1>2. RecoveryInductive /\ [RecoveryNext]_rVars => RecoveryInductive'
  BY MarkerStep, CountStep DEF RecoveryInductive
<1>. QED
  BY <1>1, <1>2, PTL DEF RecoverySpec

(* A launch counts the runs in a row that ended unclean before they        *)
(* settled: unless a kill cut the marker short, never fewer than there     *)
(* were, and at most one more; and what it held back is not open           *)
(* (recovery::begin, settle and end).                                      *)
THEOREM CrashesAreCounted == RecoverySpec => []CountsCrashes
<1>1. RecoveryInductive => CountsCrashes
  BY DEF RecoveryInductive, RunCounts, OnNow, CountsCrashes
<1>. QED
  BY <1>1, RecoveryInvariance, PTL
===============================================================================
