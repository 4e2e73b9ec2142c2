----------------------------- MODULE DbRecovery -----------------------------
(***************************************************************************)
(* What a launch does with the database file: it copies it aside before a  *)
(* migration, migrates it, checks it after an unclean exit, and if it is   *)
(* damaged sets it aside and asks the person. The process may be killed    *)
(* and the disk may fail at every step, and the next launch may be of      *)
(* another build. A file is what it holds: the schema version, whether the *)
(* person's data is in it, and its state. The log beside the database goes *)
(* where it goes; what SQLite makes of one left behind by a kill between   *)
(* the two renames is not modelled.                                        *)
(***************************************************************************)
EXTENDS Integers

CONSTANTS
  Newest,      \* the schema of the newest build; the person's data starts at 1
  DeepDamage   \* whether damage may lie where the first query does not look

ASSUME DbAssumption == Newest \in Nat \ {0}

Rounds == 3
Builds == 1 .. Newest

VARIABLES
  db,         \* the file at the database's path
  copies,     \* the pre-migration copies, by the build that made them
  aside,      \* what lies under .corrupt- names: [mine, whole]
  launch,     \* the launch: where it is
  build,      \* and of which build
  round,
  unclean,    \* the last run did not end cleanly
  without,    \* history: the person chose a fresh start, or a copy without their data
  unsaid      \* history: this launch set the file aside, and had no answer to go on by

disk == <<db, copies, aside>>
bVars == <<db, copies, aside, launch, build, round, unclean, without, unsaid>>

NoFile == [v |-> -1, mine |-> FALSE, state |-> "none"]
Empty == [v |-> 0, mine |-> FALSE, state |-> "whole"]
Cut(f) == [f EXCEPT !.state = "cut"]
Files == {NoFile} \cup [v : 0 .. Newest, mine : BOOLEAN, state : {"whole", "damaged", "cut"}]

DbInit ==
  /\ db = [v |-> 1, mine |-> TRUE, state |-> "whole"]
  /\ copies = [n \in Builds |-> NoFile] /\ aside = {}
  /\ launch = "off" /\ build = 1 /\ round = 1
  /\ unclean = FALSE /\ without = FALSE /\ unsaid = FALSE

Unsound == db # NoFile /\ db.state # "whole"

(* The dialog is shown, and the event loop is left in order.               *)
Aborts == launch' = "off" /\ unclean' = FALSE /\ UNCHANGED <<build, round>>
Goes(to) == launch' = to /\ UNCHANGED <<build, round, unclean>>
NextRound ==
  /\ IF round < Rounds THEN launch' = "begin" /\ round' = round + 1 /\ UNCHANGED unclean
                       ELSE launch' = "off" /\ unclean' = FALSE /\ UNCHANGED round
  /\ UNCHANGED build

Launches ==
  /\ launch = "off"
  /\ build' \in Builds /\ launch' = "begin" /\ round' = 1 /\ unsaid' = FALSE
  /\ UNCHANGED <<disk, unclean, without>>

------------------------------------------------------------------------------
(* backup_before_migrating: nothing to protect, or the file made for the   *)
(* copy. The first query does not get past a file that was cut off.        *)
SkipsCopy ==
  /\ launch = "begin" /\ db.state # "cut"
  /\ db = NoFile \/ db.v >= build
  /\ Goes("open")
  /\ UNCHANGED <<disk, without, unsaid>>

StartsCopy ==
  /\ launch = "begin" /\ db # NoFile /\ db.state # "cut" /\ db.v < build
  /\ copies' = [copies EXCEPT ![build] = Empty]
  /\ Goes("copy")
  /\ UNCHANGED <<db, aside, without, unsaid>>

Copying ==
  /\ launch = "copy" /\ db.v > 0
  /\ copies' = [copies EXCEPT ![build] = Cut(db)]
  /\ UNCHANGED <<db, aside, launch, build, round, unclean, without, unsaid>>

Copied ==
  /\ launch = "copy"
  /\ copies' = [copies EXCEPT ![build] = db]
  /\ Goes("older")
  /\ UNCHANGED <<db, aside, without, unsaid>>

(* The migration goes on without a copy; what there is of it is removed,   *)
(* if that works.                                                          *)
CopyFails ==
  /\ launch = "copy"
  /\ copies' \in {copies, [copies EXCEPT ![build] = NoFile]}
  /\ Goes("open")
  /\ UNCHANGED <<db, aside, without, unsaid>>

(* remove_older_backups: all but the newest, as far as it gets.            *)
RemovesOlder ==
  /\ launch = "older"
  /\ \E gone \in SUBSET (Builds \ {build}) :
       copies' = [n \in Builds |-> IF n \in gone THEN NoFile ELSE copies[n]]
  /\ Goes("open")
  /\ UNCHANGED <<db, aside, without, unsaid>>

(* Connection::open makes a file where there is none; a newer schema is    *)
(* left alone.                                                             *)
OpensDb ==
  /\ launch = "open" /\ db.state # "cut"
  /\ db' = IF db = NoFile THEN Empty ELSE db
  /\ IF db.v > build THEN Aborts ELSE Goes("migrate")
  /\ UNCHANGED <<copies, aside, without, unsaid>>

(* Each migration and its version are one transaction.                     *)
Migrates ==
  /\ launch = "migrate" /\ db.v < build
  /\ db' = [db EXCEPT !.v = @ + 1]
  /\ UNCHANGED <<copies, aside, launch, build, round, unclean, without, unsaid>>

(* quick_check, after an unclean exit only, and the seeds.                 *)
Passes ==
  /\ launch = "migrate" /\ db.v = build
  /\ ~(unclean /\ Unsound)
  /\ Goes("up")
  /\ UNCHANGED <<disk, without, unsaid>>

(* A check that cannot be run counts as failed.                            *)
FailsCheck ==
  /\ launch = "migrate" /\ db.v = build /\ unclean
  /\ Goes("damaged")
  /\ UNCHANGED <<disk, without, unsaid>>

(* A statement meets the damage.                                           *)
MeetsDamage ==
  /\ launch \in {"begin", "open", "migrate"} /\ Unsound
  /\ Goes("damaged")
  /\ UNCHANGED <<disk, without, unsaid>>

(* In use, read-only, a full disk: explained, and the launch is over.      *)
LaunchRefused ==
  /\ launch \in {"begin", "open", "migrate"}
  /\ Aborts
  /\ UNCHANGED <<disk, without, unsaid>>

------------------------------------------------------------------------------
(* quarantine: the database first, then the files beside it.               *)
SetsAside ==
  /\ launch = "damaged"
  /\ aside' = aside \cup {[mine |-> db.mine, whole |-> db.state = "whole"]} /\ db' = NoFile
  /\ Goes("moved") /\ unsaid' = TRUE
  /\ UNCHANGED <<copies, without>>

SetsRestAside ==
  /\ launch = "moved"
  /\ Goes("ask")
  /\ UNCHANGED <<disk, without, unsaid>>

QuarantineFails ==
  /\ launch \in {"damaged", "moved"}
  /\ Aborts
  /\ UNCHANGED <<disk, without, unsaid>>

(* migration_backups: the newest first.                                    *)
Offered == {n \in Builds : copies[n] # NoFile /\ \A m \in Builds : m > n => copies[m] = NoFile}

StartsFresh ==
  /\ launch = "ask"
  /\ without' = TRUE /\ unsaid' = FALSE
  /\ NextRound
  /\ UNCHANGED disk

ChoosesQuit ==
  /\ launch = "ask"
  /\ Aborts
  /\ UNCHANGED <<disk, without, unsaid>>

(* restore copies the newest to the database's path, and may be cut short. *)
Restores ==
  /\ launch = "ask" /\ Offered # {}
  /\ db' = Empty
  /\ Goes("restore")
  /\ UNCHANGED <<copies, aside, without, unsaid>>

Restoring ==
  /\ launch = "restore"
  /\ \E n \in Offered : copies[n].v > 0 /\ db' = Cut(copies[n])
  /\ UNCHANGED <<copies, aside, launch, build, round, unclean, without, unsaid>>

(* With their data back, what the person said before is past; a copy that  *)
(* lacks it is as much their choice as a fresh start.                      *)
Restored ==
  /\ launch = "restore"
  /\ \E n \in Offered : db' = copies[n]
  /\ without' = ~db'.mine /\ unsaid' = FALSE
  /\ NextRound
  /\ UNCHANGED <<copies, aside>>

(* Mutant: a restore that fails is logged, and the launch goes on.         *)
RestoreFailsOpen ==
  /\ launch = "restore"
  /\ db' \in {db, NoFile}
  /\ NextRound
  /\ UNCHANGED <<copies, aside, without, unsaid>>

(* Some systems remove what was copied so far.                             *)
RestoreFails ==
  /\ launch = "restore"
  /\ db' \in {db, NoFile}
  /\ Aborts
  /\ UNCHANGED <<copies, aside, without, unsaid>>

------------------------------------------------------------------------------
(* A running Dive writes to the database, and the disk may get it wrong.   *)
Damaged ==
  /\ launch = "up" /\ db.state = "whole"
  /\ db' \in {[db EXCEPT !.state = s] : s \in IF DeepDamage THEN {"damaged", "cut"} ELSE {"cut"}}
  /\ UNCHANGED <<copies, aside, launch, build, round, unclean, without, unsaid>>

Quits ==
  /\ launch = "up"
  /\ Aborts
  /\ UNCHANGED <<disk, without, unsaid>>

Kills ==
  /\ launch # "off"
  /\ launch' = "off" /\ unclean' = TRUE
  /\ UNCHANGED <<disk, build, round, without, unsaid>>

DbNext ==
  \/ Launches \/ SkipsCopy \/ StartsCopy \/ Copying \/ Copied \/ CopyFails \/ RemovesOlder
  \/ OpensDb \/ Migrates \/ Passes \/ FailsCheck \/ MeetsDamage \/ LaunchRefused
  \/ SetsAside \/ SetsRestAside \/ QuarantineFails
  \/ StartsFresh \/ ChoosesQuit \/ Restores \/ Restoring \/ Restored \/ RestoreFails
  \/ Damaged \/ Quits \/ Kills

DbSpec == DbInit /\ [][DbNext]_bVars

------------------------------------------------------------------------------
DbTypeOK ==
  /\ db \in Files /\ copies \in [Builds -> Files] /\ aside \subseteq [mine : BOOLEAN, whole : BOOLEAN]
  /\ launch \in {"off", "begin", "copy", "older", "open", "migrate", "damaged", "moved", "ask",
                 "restore", "up"}
  /\ build \in Builds /\ round \in 1 .. Rounds
  /\ {unclean, without, unsaid} \subseteq BOOLEAN

(* However often Dive is killed or the disk fails, in whatever order and   *)
(* with whatever builds: the person's data is still there, in place or     *)
(* aside. And a launch that sets it aside comes up only by their answer,   *)
(* to start fresh or by a copy that was restored whole. (What a later      *)
(* launch does that finds no database, after Quit or a kill, is not        *)
(* claimed: it starts a fresh one.)                                        *)
DataKept ==
  /\ DbTypeOK
  /\ db.mine \/ \E f \in aside : f.mine
  /\ launch = "up" => ~unsaid

(* Only damage takes the last whole file of the person's data away, never  *)
(* Dive itself, unless they chose to start without it.                     *)
Whole(f) == f.mine /\ f.state = "whole"
Safe == Whole(db) \/ (\E n \in Builds : Whole(copies[n])) \/ \E f \in aside : f.mine /\ f.whole
CopyKept == [][Safe /\ ~without => Safe' \/ launch = "up"]_bVars
=============================================================================
