------------------------------ MODULE ExitGate ------------------------------
(***************************************************************************)
(* What the registry of exports promises to a quit: once it lets the exit  *)
(* through no export is on, and none begins after; a quit that has to wait *)
(* is told in the end, or goes through. ExportJobs implements it, with its *)
(* jobs, workers, leases and cancels; Quit is built on it.                 *)
(***************************************************************************)
EXTENDS Integers

VARIABLES
  exit,    \* 0 idle, 1 draining, 2 the drain failed, 3 done
  busy,    \* an export has, or is about to have, something to clean up
  drain    \* where the quit that asked is

vars == <<exit, busy, drain>>

Init == exit = 0 /\ busy = FALSE /\ drain = "idle"

(* Exports are admitted only while no quit has been asked for.             *)
Admit == exit = 0 /\ busy' = TRUE /\ UNCHANGED <<exit, drain>>
Rest == busy /\ busy' = FALSE /\ UNCHANGED <<exit, drain>>

(* prepare_exit: claim, then count. While a claim stands another quit is   *)
(* held (exit = 1), and after a drain that is done it goes (exit = 3).     *)
Claim ==
  /\ drain = "idle" /\ exit \in {0, 2}
  /\ exit' = 1 /\ drain' = "claimed"
  /\ UNCHANGED busy

CountsNone ==
  /\ drain = "claimed" /\ ~busy
  /\ exit' = 3 /\ drain' = "idle"
  /\ UNCHANGED busy

CountsSome ==
  /\ drain = "claimed"
  /\ drain' = "drain"
  /\ UNCHANGED <<exit, busy>>

(* drain_shutdown and finish_exit.                                         *)
Drained ==
  /\ drain = "drain" /\ ~busy
  /\ exit' = 3 /\ drain' = "idle"
  /\ UNCHANGED busy

DrainFails ==
  /\ drain = "drain"
  /\ drain' = "message"
  /\ UNCHANGED <<exit, busy>>

MessageCloses ==
  /\ drain = "message"
  /\ exit' = 2 /\ drain' = "idle"
  /\ UNCHANGED busy

Counts == CountsNone \/ CountsSome
Ends == Drained \/ DrainFails
Next == Admit \/ Rest \/ Claim \/ Counts \/ Ends \/ MessageCloses

Safety == Init /\ [][Next]_vars

(* The main thread counts what it claimed, and a drain has a deadline.     *)
Spec == Safety /\ WF_vars(Counts) /\ WF_vars(Ends)
=============================================================================
