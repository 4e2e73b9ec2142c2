----------------------------- MODULE ExportJobs -----------------------------
(***************************************************************************)
(* Recording exports. Each job owns a directory of private files, the      *)
(* children that encode them and a lease on the life of the program. The   *)
(* chrome uploads, finishes and cancels; a worker encodes and publishes;   *)
(* Quit may come at any moment and goes through only once nothing is left  *)
(* to clean up. Admission and Quit meet in two atomics, `active` and       *)
(* `exit`; a job's phase is guarded by its own mutex.                      *)
(***************************************************************************)
EXTENDS Integers, FiniteSets

CONSTANTS
  Jobs,         \* jobs that are begun at most once each
  MaxFailures   \* children that will not stop, directories that will not go

Nobody == "nobody"
UI == "ui"
Quit == "quit"
Cancellers == {UI, Quit}   \* the chrome's cancel, and the drain of a quit

ASSUME ExportAssumption ==
  MaxFailures \in Nat /\ Nobody \notin Jobs /\ IsFiniteSet(Jobs)

VARIABLES
  exit,       \* 0 idle, 1 draining, 2 the drain failed, 3 done
  active,     \* leases counted
  begin,      \* who holds the registry's mutex to begin a job, and how far it is
  job,        \* each job
  encoder,    \* where its worker is
  cancel,     \* where each canceller is, with which job
  drain,      \* where the quit is; the jobs it has still to cancel; an error so far
  told,       \* history: what a cancel of the job was answered
  failures,   \* failures so far
  gone        \* history: the program was let go

eVars == <<exit, active, begin, job, encoder, cancel, drain, told, failures, gone>>

Unborn == [phase |-> "none", frames |-> FALSE, cancelled |-> FALSE, published |-> FALSE,
           files |-> FALSE, child |-> "none", lease |-> FALSE, error |-> FALSE]

ExportInit ==
  /\ exit = 0 /\ active = 0 /\ failures = 0 /\ gone = FALSE
  /\ begin = [at |-> "idle", of |-> Nobody]
  /\ job = [j \in Jobs |-> Unborn]
  /\ encoder = [j \in Jobs |-> "none"]
  /\ cancel = [k \in Cancellers |-> [at |-> "idle", of |-> Nobody]]
  /\ drain = [at |-> "idle", todo |-> {}, failed |-> FALSE]
  /\ told = [j \in Jobs |-> "nothing"]

Check(j) == ~job[j].cancelled /\ exit = 0

-----------------------------------------------------------------------------
(* begin: the mutex, a look at `exit`, the lease, a second look, the job.  *)

BeginEnters(j) ==
  /\ begin.at = "idle" /\ job[j].phase = "none" /\ exit = 0
  /\ begin' = [at |-> "looked", of |-> j]
  /\ UNCHANGED <<exit, active, job, encoder, cancel, drain, told, failures, gone>>

BeginCounts ==
  /\ begin.at = "looked"
  /\ active' = active + 1
  /\ begin' = [begin EXCEPT !.at = "counted"]
  /\ UNCHANGED <<exit, job, encoder, cancel, drain, told, failures, gone>>

BeginGivesUp ==
  /\ active' = active - 1
  /\ begin' = [at |-> "idle", of |-> Nobody]

(* Mutant: one look at `exit` is thought to be enough.                     *)
BeginLooksOnce ==
  /\ begin.at = "counted"
  /\ begin' = [begin EXCEPT !.at = "admitted"] /\ UNCHANGED active
  /\ UNCHANGED <<exit, job, encoder, cancel, drain, told, failures, gone>>

BeginLooksAgain ==
  /\ begin.at = "counted"
  /\ IF exit # 0 THEN BeginGivesUp
     ELSE begin' = [begin EXCEPT !.at = "admitted"] /\ UNCHANGED active
  /\ UNCHANGED <<exit, job, encoder, cancel, drain, told, failures, gone>>

(* Too many jobs, or no directory for one: the lease goes with the attempt. *)
BeginFails ==
  /\ begin.at = "admitted"
  /\ BeginGivesUp
  /\ UNCHANGED <<exit, job, encoder, cancel, drain, told, failures, gone>>

BeginInserts ==
  /\ begin.at = "admitted"
  /\ job' = [job EXCEPT ![begin.of] =
               [Unborn EXCEPT !.phase = "uploading", !.files = TRUE, !.lease = TRUE]]
  /\ begin' = [at |-> "idle", of |-> Nobody]
  /\ UNCHANGED <<exit, active, encoder, cancel, drain, told, failures, gone>>

-----------------------------------------------------------------------------
(* Uploading, and the worker.                                              *)

(* Frames arrive; a write that fails cancels the job.                      *)
Appends(j) ==
  /\ job[j].phase = "uploading" /\ Check(j)
  /\ \/ job' = [job EXCEPT ![j].frames = TRUE]
     \/ job' = [job EXCEPT ![j].cancelled = TRUE]
  /\ UNCHANGED <<exit, active, begin, encoder, cancel, drain, told, failures, gone>>

Claim(j) ==
  /\ job[j].phase = "uploading" /\ Check(j) /\ job[j].frames
  /\ job' = [job EXCEPT ![j].phase = "running"]
  /\ encoder' = [encoder EXCEPT ![j] = "work"]
  /\ UNCHANGED <<exit, active, begin, cancel, drain, told, failures, gone>>

(* A child is started only by a job that may go on, looked at just before. *)
MayStart(j) ==
  /\ encoder[j] = "work" /\ Check(j)
  /\ encoder' = [encoder EXCEPT ![j] = "start"]
  /\ UNCHANGED <<exit, active, begin, job, cancel, drain, told, failures, gone>>

Start(j) ==
  /\ encoder[j] = "start"
  /\ job' = [job EXCEPT ![j].child = "live"]
  /\ encoder' = [encoder EXCEPT ![j] = "encode"]
  /\ UNCHANGED <<exit, active, begin, cancel, drain, told, failures, gone>>

(* It ends or is stopped, or will not stop and is kept to be tried again.  *)
ChildEnds(j) ==
  /\ encoder[j] = "encode"
  /\ \/ /\ job' = [job EXCEPT ![j].child = "none"]
        /\ UNCHANGED failures
     \/ /\ failures < MaxFailures /\ failures' = failures + 1
        /\ job' = [job EXCEPT ![j].child = "unreaped"]
  /\ encoder' = [encoder EXCEPT ![j] = "encoded"]
  /\ UNCHANGED <<exit, active, begin, cancel, drain, told, gone>>

Publish(j) ==
  /\ encoder[j] = "encoded" /\ job[j].child = "none" /\ Check(j)
  /\ job' = [job EXCEPT ![j].published = TRUE]
  /\ encoder' = [encoder EXCEPT ![j] = "settle"]
  /\ UNCHANGED <<exit, active, begin, cancel, drain, told, failures, gone>>

(* Something failed, or the job is not to go on.                           *)
WorkFails(j) ==
  /\ encoder[j] \in {"work", "encoded"}
  /\ encoder' = [encoder EXCEPT ![j] = "settle"]
  /\ UNCHANGED <<exit, active, begin, job, cancel, drain, told, failures, gone>>

-----------------------------------------------------------------------------
(* cleanup, outside the phase's mutex: children are stopped, the files go, *)
(* and only then the lease. Any failure leaves the rest as it is.          *)

CleanedUp(j) == [job[j] EXCEPT !.child = "none", !.files = FALSE, !.lease = FALSE,
                               !.error = FALSE]

Cleanup(j) ==
  \/ /\ job' = [job EXCEPT ![j] = CleanedUp(j)]
     /\ active' = IF job[j].lease THEN active - 1 ELSE active
     /\ UNCHANGED failures
  \/ /\ failures < MaxFailures /\ failures' = failures + 1
     /\ \/ job' = [job EXCEPT ![j].error = TRUE]
        \/ job' = [job EXCEPT ![j].error = TRUE, ![j].child = "none"]
     /\ UNCHANGED active

WorkerCleans(j) ==
  /\ encoder[j] = "settle"
  /\ Cleanup(j)
  /\ encoder' = [encoder EXCEPT ![j] = "cleaned"]
  /\ UNCHANGED <<exit, begin, cancel, drain, told, gone>>

(* Mutant: a failed cleanup returns before the phase is set.               *)
WorkerSettlesClean(j) ==
  /\ encoder[j] = "cleaned" /\ ~job[j].error
  /\ job' = [job EXCEPT ![j].phase = "terminal"]
  /\ encoder' = [encoder EXCEPT ![j] = "done"]
  /\ UNCHANGED <<exit, active, begin, cancel, drain, told, failures, gone>>

WorkerSettles(j) ==
  /\ encoder[j] = "cleaned"
  /\ job' = [job EXCEPT ![j].phase = "terminal"]
  /\ encoder' = [encoder EXCEPT ![j] = "done"]
  /\ UNCHANGED <<exit, active, begin, cancel, drain, told, failures, gone>>

-----------------------------------------------------------------------------
(* cancel_for, by the chrome or by the drain.                              *)

Failed(j) == job[j].phase = "terminal" /\ job[j].error
Settled(j) == job[j].phase = "terminal" /\ ~job[j].error

(* The canceller is free again; what it heard is told, or stops the drain. *)
Answered(k, j, confirmed) ==
  /\ cancel' = [cancel EXCEPT ![k] = [at |-> "idle", of |-> Nobody]]
  /\ told' = IF confirmed
             THEN [told EXCEPT ![j] = IF job[j].published THEN "completed" ELSE "cancelled"]
             ELSE told
  /\ drain' = IF k = Quit
              THEN [drain EXCEPT !.todo = @ \ {j}, !.failed = @ \/ ~confirmed]
              ELSE drain

MayCancel(k, j) ==
  /\ cancel[k].at = "idle"
  /\ k = Quit => drain.at = "cancel" /\ j \in drain.todo

(* A job nobody works on is cleaned up by whoever cancels it.              *)
CancelTakes(k, j) ==
  /\ MayCancel(k, j)
  /\ job[j].phase = "uploading" \/ Failed(j)
  /\ job' = [job EXCEPT ![j].phase = "running", ![j].cancelled = TRUE]
  /\ cancel' = [cancel EXCEPT ![k] = [at |-> "clean", of |-> j]]
  /\ UNCHANGED <<exit, active, begin, encoder, drain, told, failures, gone>>

CancelWaits(k, j) ==
  /\ MayCancel(k, j)
  /\ job[j].phase = "running"
  /\ job' = [job EXCEPT ![j].cancelled = TRUE]
  /\ cancel' = [cancel EXCEPT ![k] = [at |-> "wait", of |-> j]]
  /\ UNCHANGED <<exit, active, begin, encoder, drain, told, failures, gone>>

CancelFindsDone(k, j) ==
  /\ MayCancel(k, j) /\ Settled(j)
  /\ Answered(k, j, TRUE)
  /\ UNCHANGED <<exit, active, begin, job, encoder, failures, gone>>

CancelCleans(k) ==
  /\ cancel[k].at = "clean"
  /\ Cleanup(cancel[k].of)
  /\ cancel' = [cancel EXCEPT ![k].at = "cleaned"]
  /\ UNCHANGED <<exit, begin, encoder, drain, told, gone>>

CancelSettles(k) ==
  /\ cancel[k].at = "cleaned"
  /\ job' = [job EXCEPT ![cancel[k].of].phase = "terminal"]
  /\ Answered(k, cancel[k].of, ~job[cancel[k].of].error)
  /\ UNCHANGED <<exit, active, begin, encoder, failures, gone>>

CancelHears(k) ==
  /\ cancel[k].at = "wait" /\ job[cancel[k].of].phase = "terminal"
  /\ Answered(k, cancel[k].of, ~job[cancel[k].of].error)
  /\ UNCHANGED <<exit, active, begin, job, encoder, failures, gone>>

(* Mutant: giving up the wait is taken for the cancellation.               *)
CancelTimeoutConfirms(k) ==
  /\ cancel[k].at = "wait" /\ job[cancel[k].of].phase = "running"
  /\ Answered(k, cancel[k].of, TRUE)
  /\ UNCHANGED <<exit, active, begin, job, encoder, failures, gone>>

(* The wait runs out.                                                      *)
CancelTimeout(k) ==
  /\ cancel[k].at = "wait" /\ job[cancel[k].of].phase = "running"
  /\ Answered(k, cancel[k].of, FALSE)
  /\ UNCHANGED <<exit, active, begin, job, encoder, failures, gone>>

-----------------------------------------------------------------------------
(* Quit: prepare_exit on the main thread, then the drain behind it.        *)

QuitClaims ==
  /\ drain.at = "idle" /\ exit \in {0, 2}
  /\ exit' = 1
  /\ drain' = [drain EXCEPT !.at = "claimed"]
  /\ UNCHANGED <<active, begin, job, encoder, cancel, told, failures, gone>>

QuitCounts ==
  /\ drain.at = "claimed"
  /\ IF active = 0
     THEN /\ exit' = 3 /\ gone' = TRUE
          /\ drain' = [drain EXCEPT !.at = "idle"]
     ELSE /\ drain' = [drain EXCEPT !.at = "list"]
          /\ UNCHANGED <<exit, gone>>
  /\ UNCHANGED <<active, begin, job, encoder, cancel, told, failures>>

(* A quit asked for again once the drain has confirmed the first.          *)
QuitGoes ==
  /\ drain.at = "idle" /\ exit = 3 /\ ~gone
  /\ gone' = TRUE
  /\ UNCHANGED <<exit, active, begin, job, encoder, cancel, drain, told, failures>>

DrainLists ==
  /\ drain.at = "list" /\ begin.at = "idle"
  /\ drain' = [at |-> "cancel", todo |-> {j \in Jobs : job[j].phase # "none"},
               failed |-> FALSE]
  /\ UNCHANGED <<exit, active, begin, job, encoder, cancel, told, failures, gone>>

(* Mutant: a drain that failed never ends.                                 *)
DrainEndsClean ==
  /\ drain.at = "cancel" /\ drain.todo = {} /\ ~drain.failed /\ active = 0
  /\ exit' = 3
  /\ drain' = [drain EXCEPT !.at = "idle"]
  /\ UNCHANGED <<active, begin, job, encoder, cancel, told, failures, gone>>

DrainEnds ==
  /\ drain.at = "cancel" /\ drain.todo = {}
  /\ IF drain.failed \/ active # 0
     THEN drain' = [drain EXCEPT !.at = "message"] /\ UNCHANGED exit
     ELSE drain' = [drain EXCEPT !.at = "idle"] /\ exit' = 3
  /\ UNCHANGED <<active, begin, job, encoder, cancel, told, failures, gone>>

(* The person closes the message that says Dive is still open.             *)
MessageCloses ==
  /\ drain.at = "message"
  /\ exit' = 2
  /\ drain' = [drain EXCEPT !.at = "idle"]
  /\ UNCHANGED <<active, begin, job, encoder, cancel, told, failures, gone>>

-----------------------------------------------------------------------------
BeginStep == BeginCounts \/ BeginLooksAgain \/ BeginFails \/ BeginInserts
EncoderStep(j) ==
  \/ MayStart(j) \/ Start(j) \/ ChildEnds(j) \/ Publish(j) \/ WorkFails(j)
  \/ WorkerCleans(j) \/ WorkerSettles(j)
CancelStep(k) ==
  CancelCleans(k) \/ CancelSettles(k) \/ CancelHears(k) \/ CancelTimeout(k)
Cancel(k, j) == CancelTakes(k, j) \/ CancelWaits(k, j) \/ CancelFindsDone(k, j)
DrainStep ==
  QuitCounts \/ DrainLists \/ DrainEnds \/ \E j \in Jobs : Cancel(Quit, j)

ExportNext ==
  \/ BeginStep \/ DrainStep \/ QuitClaims \/ QuitGoes \/ MessageCloses
  \/ \E j \in Jobs : \/ BeginEnters(j) \/ Appends(j) \/ Claim(j)
                     \/ EncoderStep(j) \/ Cancel(UI, j)
  \/ \E k \in Cancellers : CancelStep(k)

ExportSafety == ExportInit /\ [][ExportNext]_eVars

(* Threads run, children end at their deadline at the latest, and so does  *)
(* a wait. The chrome and the person owe nothing.                          *)
ExportFairness ==
  /\ WF_eVars(BeginStep) /\ WF_eVars(DrainStep)
  /\ \A j \in Jobs : WF_eVars(EncoderStep(j))
  /\ \A k \in Cancellers : WF_eVars(CancelStep(k))

-----------------------------------------------------------------------------
ExportTypeOK ==
  /\ exit \in 0 .. 3 /\ active \in 0 .. Cardinality(Jobs) + 1 /\ failures \in 0 .. MaxFailures
  /\ begin.at \in {"idle", "looked", "counted", "admitted"}
  /\ begin.of \in Jobs \cup {Nobody}
  /\ \A j \in Jobs :
       /\ job[j].phase \in {"none", "uploading", "running", "terminal"}
       /\ job[j].child \in {"none", "live", "unreaped"}
       /\ {job[j].frames, job[j].cancelled, job[j].published, job[j].files, job[j].lease,
           job[j].error} \subseteq BOOLEAN
       /\ encoder[j] \in {"none", "work", "start", "encode", "encoded", "settle", "cleaned",
                         "done"}
       /\ told[j] \in {"nothing", "cancelled", "completed"}
  /\ \A k \in Cancellers : cancel[k].at \in {"idle", "clean", "cleaned", "wait"}
  /\ drain.at \in {"idle", "claimed", "list", "cancel", "message"} /\ drain.todo \subseteq Jobs
  /\ drain.failed \in BOOLEAN /\ gone \in BOOLEAN

(* A lease is counted for every job that has something to clean up, and    *)
(* for a job about to have it.                                             *)
Leases == Cardinality({j \in Jobs : job[j].lease})
LeasesCounted ==
  /\ ExportTypeOK
  /\ active = Leases + IF begin.at \in {"counted", "admitted"} THEN 1 ELSE 0

(* Once Quit has been let through, no job has a file or a child left and   *)
(* none is on the point of getting them, however admission and Quit raced; *)
(* and until then no lease of an attempt or a job is missed or left over.  *)
ExitClean ==
  /\ LeasesCounted
  /\ exit = 3 => /\ begin.at # "admitted"
                 /\ \A j \in Jobs : ~job[j].files /\ job[j].child = "none"

(* Nobody but one cleans a job up, and none while its worker is at it.     *)
Cleaners(j) == {k \in Cancellers : cancel[k].at \in {"clean", "cleaned"} /\ cancel[k].of = j}
OneCleaner ==
  \A j \in Jobs : Cardinality(Cleaners(j)) + (IF encoder[j] \in {"none", "done"} THEN 0 ELSE 1) <= 1

(* A cancel that was confirmed is final: the job's files and children are  *)
(* gone, and its result is published exactly if that was the answer; for   *)
(* nobody but one ever cleans a job up.                                    *)
CancelHonest ==
  /\ OneCleaner
  /\ \A j \in Jobs : told[j] # "nothing" =>
       /\ ~job[j].files /\ job[j].child = "none"
       /\ job[j].published <=> told[j] = "completed"

(* No job runs for ever, whoever cancels it and whatever fails.            *)
JobSettles == \A j \in Jobs : job[j].phase = "running" ~> job[j].phase = "terminal"

-----------------------------------------------------------------------------
(* What a quit sees of all this is ExitGate.                               *)
Gate == INSTANCE ExitGate WITH
  busy <- (begin.at = "admitted" \/ \E j \in Jobs : job[j].lease),
  drain <- IF drain.at \in {"list", "cancel"} THEN "drain" ELSE drain.at

(* Admission, jobs and the drain keep the gate's promise: no export begins *)
(* behind a quit that goes through, and a quit that has to wait goes       *)
(* through or its message comes, whatever hangs.                           *)
ImplementsGate == Gate!Spec
=============================================================================
