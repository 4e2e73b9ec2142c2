----------------------------- MODULE Files_proofs -----------------------------
(***************************************************************************)
(* What writes files beside the pages. The safety of ExportJobs for any    *)
(* finite set of jobs and any number of failures, and that it implements   *)
(* the safety part of ExitGate; and what the list says of a download, for  *)
(* any addresses and any number of downloads.                              *)
(***************************************************************************)
EXTENDS ExportJobs, Downloads, FiniteSetTheorems, WellFoundedInduction, TLAPS

JobRecords ==
  [phase : {"none", "uploading", "running", "terminal"}, frames : BOOLEAN,
   cancelled : BOOLEAN, published : BOOLEAN, files : BOOLEAN,
   child : {"none", "live", "unreaped"}, lease : BOOLEAN, error : BOOLEAN]

(* The shape of the state: ExportTypeOK, and what is a function or record. *)
Shapes ==
  /\ exit \in 0 .. 3 /\ active \in Int /\ failures \in 0 .. MaxFailures /\ gone \in BOOLEAN
  /\ begin \in [at : {"idle", "looked", "counted", "admitted"}, of : Jobs \cup {Nobody}]
  /\ job \in [Jobs -> JobRecords]
  /\ encoder \in [Jobs -> {"none", "work", "start", "encode", "encoded", "settle", "cleaned",
                           "done"}]
  /\ cancel \in [Cancellers -> [at : {"idle", "clean", "cleaned", "wait"},
                                of : Jobs \cup {Nobody}]]
  /\ drain \in [at : {"idle", "claimed", "list", "cancel", "message"}, todo : SUBSET Jobs,
                failed : BOOLEAN]
  /\ told \in [Jobs -> {"nothing", "cancelled", "completed"}]

Cleans(k, j) == cancel[k].at \in {"clean", "cleaned"} /\ cancel[k].of = j
Idles(j) == encoder[j] \in {"none", "done"}

(* Who is at what: a job that is being begun is unborn, one that runs is   *)
(* in the hands of its worker or of the one who cancelled it.              *)
PhaseInv ==
  /\ begin.at # "idle" => begin.of \in Jobs /\ job[begin.of].phase = "none"
  /\ \A k \in Cancellers : cancel[k].at # "idle" => cancel[k].of \in Jobs
  /\ \A j \in Jobs :
       /\ job[j].phase \in {"none", "uploading"} => encoder[j] = "none"
       /\ ~Idles(j) => job[j].phase = "running"
       /\ \A k \in Cancellers : Cleans(k, j) => job[j].phase = "running" /\ Idles(j)
       /\ \A k, l \in Cancellers : Cleans(k, j) /\ Cleans(l, j) => k = l

(* The lease goes last, and with the error that kept it.                   *)
LeaseInv ==
  \A j \in Jobs :
    /\ job[j].phase = "none" => ~job[j].lease
    /\ job[j].phase = "uploading" => job[j].lease
    /\ ~job[j].lease => ~job[j].files /\ job[j].child = "none"
    /\ encoder[j] \in {"work", "start", "encode", "encoded", "settle"} => job[j].lease
    /\ (job[j].phase = "terminal" \/ encoder[j] = "cleaned") /\ job[j].lease => job[j].error
    /\ \A k \in Cancellers :
         cancel[k].at = "cleaned" /\ cancel[k].of = j /\ job[j].lease => job[j].error

(* A lease is counted for each job that has one and for one to come.       *)
Pending == IF begin.at \in {"counted", "admitted"} THEN 1 ELSE 0
CountInv == active = Leases + Pending

(* What a quit has claimed stays claimed, and what it let go stays shut.   *)
GateInv ==
  /\ exit = 1 <=> drain.at # "idle"
  /\ exit = 3 => begin.at # "admitted" /\ \A j \in Jobs : ~job[j].lease

(* Whoever was told of an end was told of the last one.                    *)
ToldInv ==
  \A j \in Jobs : told[j] # "nothing" =>
    /\ job[j].phase = "terminal" /\ ~job[j].error
    /\ job[j].published <=> told[j] = "completed"

ExportInductive == Shapes /\ PhaseInv /\ LeaseInv /\ CountInv /\ GateInv /\ ToldInv

-------------------------------------------------------------------------------
(* What the steps do to a job, field by field.                             *)

Touched(j) ==
  job' \in [Jobs -> JobRecords] /\ \A i \in Jobs : i # j => job'[i] = job[i]
Holdings(j) ==
  /\ (job'[j].files <=> job[j].files) /\ (job'[j].lease <=> job[j].lease)
  /\ (job'[j].error <=> job[j].error)
SameChild(j) == job'[j].child = job[j].child
SamePublished(j) == job'[j].published <=> job[j].published
SamePhase(j) == job'[j].phase = job[j].phase

(* A record put in a job's place.                                          *)
LEMMA Placed ==
  ASSUME Shapes, NEW j \in Jobs, NEW r \in JobRecords, job' = [job EXCEPT ![j] = r]
  PROVE  Touched(j) /\ job'[j] = r
  BY DEF Touched, Shapes

LEMMA Updates ==
  ASSUME NEW r \in JobRecords, NEW b \in BOOLEAN, NEW p \in {"running", "terminal"},
         NEW c \in {"none", "live", "unreaped"}
  PROVE  /\ [r EXCEPT !.frames = b] \in JobRecords
         /\ [r EXCEPT !.cancelled = b] \in JobRecords
         /\ [r EXCEPT !.published = b] \in JobRecords
         /\ [r EXCEPT !.child = c] \in JobRecords
         /\ [r EXCEPT !.phase = p] \in JobRecords
         /\ [r EXCEPT !.phase = p, !.cancelled = b] \in JobRecords
         /\ [r EXCEPT !.error = b] \in JobRecords
         /\ [r EXCEPT !.error = b, !.child = c] \in JobRecords
         /\ [r EXCEPT !.child = c, !.files = b, !.lease = b, !.error = b] \in JobRecords
  BY DEF JobRecords

LEMMA AppendsEffect ==
  ASSUME Shapes, NEW j \in Jobs, Appends(j)
  PROVE  Touched(j) /\ SamePhase(j) /\ Holdings(j) /\ SameChild(j) /\ SamePublished(j)
<1>1. job[j] \in JobRecords
  BY DEF Shapes
<1>. USE <1>1 DEF Holdings, SameChild, SamePublished, SamePhase
<1>2. CASE job' = [job EXCEPT ![j].frames = TRUE]
  <2>. DEFINE r == [job[j] EXCEPT !.frames = TRUE]
  <2>1. r \in JobRecords /\ job' = [job EXCEPT ![j] = r]
    BY <1>2, Updates DEF Shapes
  <2>. QED
    BY <2>1, Placed DEF JobRecords
<1>3. CASE job' = [job EXCEPT ![j].cancelled = TRUE]
  <2>. DEFINE r == [job[j] EXCEPT !.cancelled = TRUE]
  <2>1. r \in JobRecords /\ job' = [job EXCEPT ![j] = r]
    BY <1>3, Updates DEF Shapes
  <2>. QED
    BY <2>1, Placed DEF JobRecords
<1>. QED
  BY <1>2, <1>3 DEF Appends

LEMMA ClaimEffect ==
  ASSUME Shapes, NEW j \in Jobs, Claim(j)
  PROVE  Touched(j) /\ job'[j].phase = "running" /\ Holdings(j) /\ SameChild(j) /\ SamePublished(j)
<1>1. job[j] \in JobRecords
  BY DEF Shapes
<1>. DEFINE r == [job[j] EXCEPT !.phase = "running"]
<1>2. r \in JobRecords
  BY <1>1, Updates
<1>3. job' = [job EXCEPT ![j] = r]
  BY DEF Claim, Shapes
<1>. QED
  BY <1>1, <1>2, <1>3, Placed DEF JobRecords, Holdings, SameChild, SamePublished, SamePhase

LEMMA StartEffect ==
  ASSUME Shapes, NEW j \in Jobs, Start(j)
  PROVE  Touched(j) /\ SamePhase(j) /\ Holdings(j) /\ SamePublished(j)
<1>1. job[j] \in JobRecords
  BY DEF Shapes
<1>. DEFINE r == [job[j] EXCEPT !.child = "live"]
<1>2. r \in JobRecords
  BY <1>1, Updates
<1>3. job' = [job EXCEPT ![j] = r]
  BY DEF Start, Shapes
<1>. QED
  BY <1>1, <1>2, <1>3, Placed DEF JobRecords, Holdings, SameChild, SamePublished, SamePhase

LEMMA ChildEndsEffect ==
  ASSUME Shapes, NEW j \in Jobs, ChildEnds(j)
  PROVE  Touched(j) /\ SamePhase(j) /\ Holdings(j) /\ SamePublished(j)
<1>1. job[j] \in JobRecords
  BY DEF Shapes
<1>2. PICK c \in {"none", "unreaped"} : job' = [job EXCEPT ![j].child = c]
  BY DEF ChildEnds
<1>. DEFINE r == [job[j] EXCEPT !.child = c]
<1>3. r \in JobRecords /\ job' = [job EXCEPT ![j] = r]
  BY <1>1, <1>2, Updates DEF Shapes
<1>. QED
  BY <1>1, <1>3, Placed DEF JobRecords, Holdings, SamePublished, SamePhase

LEMMA PublishEffect ==
  ASSUME Shapes, NEW j \in Jobs, Publish(j)
  PROVE  Touched(j) /\ SamePhase(j) /\ Holdings(j) /\ SameChild(j)
<1>1. job[j] \in JobRecords
  BY DEF Shapes
<1>. DEFINE r == [job[j] EXCEPT !.published = TRUE]
<1>2. r \in JobRecords
  BY <1>1, Updates
<1>3. job' = [job EXCEPT ![j] = r]
  BY DEF Publish, Shapes
<1>. QED
  BY <1>1, <1>2, <1>3, Placed DEF JobRecords, Holdings, SameChild, SamePublished, SamePhase

LEMMA SettlesEffect ==
  ASSUME Shapes, NEW j \in Jobs, job' = [job EXCEPT ![j].phase = "terminal"]
  PROVE  Touched(j) /\ job'[j].phase = "terminal" /\ Holdings(j) /\ SameChild(j) /\ SamePublished(j)
<1>1. job[j] \in JobRecords
  BY DEF Shapes
<1>. DEFINE r == [job[j] EXCEPT !.phase = "terminal"]
<1>2. r \in JobRecords
  BY <1>1, Updates
<1>3. job' = [job EXCEPT ![j] = r]
  BY DEF Shapes
<1>. QED
  BY <1>1, <1>2, <1>3, Placed DEF JobRecords, Holdings, SameChild, SamePublished, SamePhase

LEMMA TakesEffect ==
  ASSUME Shapes, NEW j \in Jobs, job' = [job EXCEPT ![j].phase = "running", ![j].cancelled = TRUE]
  PROVE  Touched(j) /\ job'[j].phase = "running" /\ Holdings(j) /\ SameChild(j) /\ SamePublished(j)
<1>1. job[j] \in JobRecords
  BY DEF Shapes
<1>. DEFINE r == [job[j] EXCEPT !.phase = "running", !.cancelled = TRUE]
<1>2. r \in JobRecords
  BY <1>1, Updates
<1>3. job' = [job EXCEPT ![j] = r]
  BY DEF Shapes
<1>4. /\ r.phase = "running" /\ r.child = job[j].child /\ r.published = job[j].published
      /\ r.files = job[j].files /\ r.lease = job[j].lease /\ r.error = job[j].error
  BY <1>1 DEF JobRecords
<1>. HIDE DEF r
<1>. QED
  BY <1>2, <1>3, <1>4, Placed DEF Holdings, SameChild, SamePublished

LEMMA WaitsEffect ==
  ASSUME Shapes, NEW j \in Jobs, job' = [job EXCEPT ![j].cancelled = TRUE]
  PROVE  Touched(j) /\ SamePhase(j) /\ Holdings(j) /\ SameChild(j) /\ SamePublished(j)
<1>1. job[j] \in JobRecords
  BY DEF Shapes
<1>. DEFINE r == [job[j] EXCEPT !.cancelled = TRUE]
<1>2. r \in JobRecords
  BY <1>1, Updates
<1>3. job' = [job EXCEPT ![j] = r]
  BY DEF Shapes
<1>. QED
  BY <1>1, <1>2, <1>3, Placed DEF JobRecords, Holdings, SameChild, SamePublished, SamePhase

LEMMA InsertsEffect ==
  ASSUME Shapes, PhaseInv, BeginInserts
  PROVE  /\ begin.of \in Jobs /\ Touched(begin.of)
         /\ job'[begin.of].phase = "uploading" /\ job'[begin.of].lease
         /\ ~job'[begin.of].error
<1>. DEFINE r == [Unborn EXCEPT !.phase = "uploading", !.files = TRUE, !.lease = TRUE]
<1>1. begin.of \in Jobs
  BY DEF BeginInserts, PhaseInv
<1>2. r \in JobRecords /\ r.phase = "uploading" /\ r.lease /\ ~r.error
  BY DEF Unborn, JobRecords
<1>3. job' = [job EXCEPT ![begin.of] = r]
  BY DEF BeginInserts
<1>. QED
  BY <1>1, <1>2, <1>3, Placed

(* What cleanup does, also to the leases counted: all of it, or an error   *)
(* that leaves the lease where it was.                                     *)
Cleaned(j) ==
  /\ ~job'[j].lease /\ ~job'[j].files /\ job'[j].child = "none" /\ ~job'[j].error
  /\ active' = IF job[j].lease THEN active - 1 ELSE active
  /\ failures' = failures
Kept(j) ==
  /\ job'[j].error /\ (job'[j].lease <=> job[j].lease) /\ (job'[j].files <=> job[j].files)
  /\ job'[j].child \in {job[j].child, "none"}
  /\ active' = active /\ failures' \in 0 .. MaxFailures

LEMMA CleanupEffect ==
  ASSUME Shapes, NEW j \in Jobs, Cleanup(j)
  PROVE  Touched(j) /\ SamePhase(j) /\ SamePublished(j) /\ (Cleaned(j) \/ Kept(j))
<1>1. job[j] \in JobRecords
  BY DEF Shapes
<1>. USE <1>1, ExportAssumption DEF SamePublished, SamePhase
<1>2. CASE /\ job' = [job EXCEPT ![j] = CleanedUp(j)]
           /\ active' = IF job[j].lease THEN active - 1 ELSE active
           /\ UNCHANGED failures
  <2>. DEFINE r == CleanedUp(j)
  <2>1. r \in JobRecords
    BY Updates DEF CleanedUp
  <2>2. /\ ~r.lease /\ ~r.files /\ r.child = "none" /\ ~r.error
        /\ r.phase = job[j].phase /\ (r.published <=> job[j].published)
    BY DEF CleanedUp, JobRecords
  <2>3. Touched(j) /\ job'[j] = r
    BY <1>2, <2>1, Placed
  <2>. HIDE DEF r
  <2>. QED
    BY <1>2, <2>2, <2>3 DEF Cleaned
<1>3. CASE /\ failures < MaxFailures /\ failures' = failures + 1
           /\ job' = [job EXCEPT ![j].error = TRUE]
           /\ UNCHANGED active
  <2>. DEFINE r == [job[j] EXCEPT !.error = TRUE]
  <2>1. r \in JobRecords /\ job' = [job EXCEPT ![j] = r]
    BY <1>3, Updates DEF Shapes
  <2>2. failures' \in 0 .. MaxFailures
    BY <1>3 DEF Shapes
  <2>3. /\ r.error /\ (r.lease <=> job[j].lease) /\ (r.files <=> job[j].files)
        /\ r.child = job[j].child /\ r.phase = job[j].phase
        /\ (r.published <=> job[j].published)
    BY DEF JobRecords
  <2>4. Touched(j) /\ job'[j] = r
    BY <2>1, Placed
  <2>. HIDE DEF r
  <2>. QED
    BY <1>3, <2>2, <2>3, <2>4 DEF Kept
<1>4. CASE /\ failures < MaxFailures /\ failures' = failures + 1
           /\ job' = [job EXCEPT ![j].error = TRUE, ![j].child = "none"]
           /\ UNCHANGED active
  <2>. DEFINE r == [job[j] EXCEPT !.error = TRUE, !.child = "none"]
  <2>1. r \in JobRecords /\ job' = [job EXCEPT ![j] = r]
    BY <1>4, Updates DEF Shapes
  <2>2. failures' \in 0 .. MaxFailures
    BY <1>4 DEF Shapes
  <2>. QED
    BY <1>4, <2>1, <2>2, Placed DEF Kept, JobRecords
<1>. QED
  BY <1>2, <1>3, <1>4 DEF Cleanup

(* What an answer does to those it is given to.                            *)
LEMMA AnsweredTypes ==
  ASSUME Shapes, NEW k \in Cancellers, NEW j \in Jobs, NEW confirmed, Answered(k, j, confirmed)
  PROVE  /\ told' \in [Jobs -> {"nothing", "cancelled", "completed"}]
         /\ drain' \in [at : {"idle", "claimed", "list", "cancel", "message"},
                        todo : SUBSET Jobs, failed : BOOLEAN]
         /\ drain'.at = drain.at
<1>1. told' \in [Jobs -> {"nothing", "cancelled", "completed"}]
  BY DEF Answered, Shapes
<1>2. CASE k = Quit
  BY <1>1, <1>2 DEF Answered, Shapes
<1>3. CASE k # Quit
  BY <1>1, <1>3 DEF Answered, Shapes
<1>. QED
  BY <1>2, <1>3

LEMMA ShapesStep == ExportInductive /\ [ExportNext]_eVars => Shapes'
<1>. SUFFICES ASSUME Shapes, PhaseInv, [ExportNext]_eVars PROVE Shapes'
  BY DEF ExportInductive
<1>. USE ExportAssumption DEF Shapes
<1>1. ASSUME NEW j \in Jobs, BeginEnters(j) PROVE Shapes'
  BY <1>1 DEF BeginEnters
<1>2. CASE BeginCounts
  BY <1>2 DEF BeginCounts
<1>3. CASE BeginLooksAgain
  BY <1>3 DEF BeginLooksAgain, BeginGivesUp
<1>4. CASE BeginFails
  BY <1>4 DEF BeginFails, BeginGivesUp
<1>5. CASE BeginInserts
  <2>1. job' \in [Jobs -> JobRecords]
    BY <1>5, InsertsEffect DEF BeginInserts, Touched
  <2>. QED
    BY <1>5, <2>1 DEF BeginInserts
<1>6. ASSUME NEW j \in Jobs, Appends(j) PROVE Shapes'
  <2>1. job' \in [Jobs -> JobRecords]
    BY <1>6, AppendsEffect DEF Appends, Touched
  <2>. QED
    BY <1>6, <2>1 DEF Appends
<1>7. ASSUME NEW j \in Jobs, Claim(j) PROVE Shapes'
  <2>1. job' \in [Jobs -> JobRecords]
    BY <1>7, ClaimEffect DEF Claim, Touched
  <2>. QED
    BY <1>7, <2>1 DEF Claim
<1>8. ASSUME NEW j \in Jobs, MayStart(j) PROVE Shapes'
  BY <1>8 DEF MayStart
<1>9. ASSUME NEW j \in Jobs, Start(j) PROVE Shapes'
  <2>1. job' \in [Jobs -> JobRecords]
    BY <1>9, StartEffect DEF Start, Touched
  <2>. QED
    BY <1>9, <2>1 DEF Start
<1>10. ASSUME NEW j \in Jobs, ChildEnds(j) PROVE Shapes'
  <2>1. job' \in [Jobs -> JobRecords]
    BY <1>10, ChildEndsEffect DEF ChildEnds, Touched
  <2>. QED
    BY <1>10, <2>1 DEF ChildEnds
<1>11. ASSUME NEW j \in Jobs, Publish(j) PROVE Shapes'
  <2>1. job' \in [Jobs -> JobRecords]
    BY <1>11, PublishEffect DEF Publish, Touched
  <2>. QED
    BY <1>11, <2>1 DEF Publish
<1>12. ASSUME NEW j \in Jobs, WorkFails(j) PROVE Shapes'
  BY <1>12 DEF WorkFails
<1>13. ASSUME NEW j \in Jobs, WorkerCleans(j) PROVE Shapes'
  <2>1. j \in Jobs
    BY <1>13
  <2>2. /\ job' \in [Jobs -> JobRecords] /\ active' \in Int
        /\ failures' \in 0 .. MaxFailures
    BY <1>13, <2>1, CleanupEffect DEF WorkerCleans, Touched, Cleaned, Kept
  <2>. QED
    BY <1>13, <2>2 DEF WorkerCleans
<1>14. ASSUME NEW j \in Jobs, WorkerSettles(j) PROVE Shapes'
  <2>1. job' \in [Jobs -> JobRecords]
    BY <1>14, SettlesEffect DEF WorkerSettles, Touched
  <2>. QED
    BY <1>14, <2>1 DEF WorkerSettles
<1>15. ASSUME NEW k \in Cancellers, NEW j \in Jobs, CancelTakes(k, j) PROVE Shapes'
  <2>1. job' \in [Jobs -> JobRecords]
    BY <1>15, TakesEffect DEF CancelTakes, Touched
  <2>. QED
    BY <1>15, <2>1 DEF CancelTakes
<1>16. ASSUME NEW k \in Cancellers, NEW j \in Jobs, CancelWaits(k, j) PROVE Shapes'
  <2>1. job' \in [Jobs -> JobRecords]
    BY <1>16, WaitsEffect DEF CancelWaits, Touched
  <2>. QED
    BY <1>16, <2>1 DEF CancelWaits
<1>17. ASSUME NEW k \in Cancellers, NEW j \in Jobs, CancelFindsDone(k, j) PROVE Shapes'
  <2>1. j \in Jobs
    BY <1>17 DEF CancelFindsDone
  <2>2. cancel' \in [Cancellers -> [at : {"idle", "clean", "cleaned", "wait"},
                                    of : Jobs \cup {Nobody}]]
    BY <1>17 DEF CancelFindsDone, Answered
  <2>3. /\ told' \in [Jobs -> {"nothing", "cancelled", "completed"}]
        /\ drain' \in [at : {"idle", "claimed", "list", "cancel", "message"},
                       todo : SUBSET Jobs, failed : BOOLEAN]
    BY <1>17, <2>1, AnsweredTypes DEF CancelFindsDone
  <2>. QED
    BY <1>17, <2>2, <2>3 DEF CancelFindsDone
<1>18. ASSUME NEW k \in Cancellers, CancelCleans(k) PROVE Shapes'
  <2>1. cancel[k].of \in Jobs
    BY <1>18 DEF CancelCleans, PhaseInv
  <2>2. /\ job' \in [Jobs -> JobRecords] /\ active' \in Int
        /\ failures' \in 0 .. MaxFailures
    BY <1>18, <2>1, CleanupEffect DEF CancelCleans, Touched, Cleaned, Kept
  <2>. QED
    BY <1>18, <2>2 DEF CancelCleans
<1>19. ASSUME NEW k \in Cancellers, CancelSettles(k) PROVE Shapes'
  <2>1. cancel[k].of \in Jobs
    BY <1>19 DEF CancelSettles, PhaseInv
  <2>2. cancel' \in [Cancellers -> [at : {"idle", "clean", "cleaned", "wait"},
                                    of : Jobs \cup {Nobody}]]
    BY <1>19 DEF CancelSettles, Answered
  <2>3. /\ told' \in [Jobs -> {"nothing", "cancelled", "completed"}]
        /\ drain' \in [at : {"idle", "claimed", "list", "cancel", "message"},
                       todo : SUBSET Jobs, failed : BOOLEAN]
    BY <1>19, <2>1, AnsweredTypes DEF CancelSettles
  <2>4. job' \in [Jobs -> JobRecords]
    BY <1>19, <2>1, SettlesEffect DEF CancelSettles, Touched
  <2>. QED
    BY <1>19, <2>2, <2>3, <2>4 DEF CancelSettles
<1>20. ASSUME NEW k \in Cancellers, CancelHears(k) PROVE Shapes'
  <2>1. cancel[k].of \in Jobs
    BY <1>20 DEF CancelHears, PhaseInv
  <2>2. cancel' \in [Cancellers -> [at : {"idle", "clean", "cleaned", "wait"},
                                    of : Jobs \cup {Nobody}]]
    BY <1>20 DEF CancelHears, Answered
  <2>3. /\ told' \in [Jobs -> {"nothing", "cancelled", "completed"}]
        /\ drain' \in [at : {"idle", "claimed", "list", "cancel", "message"},
                       todo : SUBSET Jobs, failed : BOOLEAN]
    BY <1>20, <2>1, AnsweredTypes DEF CancelHears
  <2>. QED
    BY <1>20, <2>2, <2>3 DEF CancelHears
<1>21. ASSUME NEW k \in Cancellers, CancelTimeout(k) PROVE Shapes'
  <2>1. cancel[k].of \in Jobs
    BY <1>21 DEF CancelTimeout, PhaseInv
  <2>2. cancel' \in [Cancellers -> [at : {"idle", "clean", "cleaned", "wait"},
                                    of : Jobs \cup {Nobody}]]
    BY <1>21 DEF CancelTimeout, Answered
  <2>3. /\ told' \in [Jobs -> {"nothing", "cancelled", "completed"}]
        /\ drain' \in [at : {"idle", "claimed", "list", "cancel", "message"},
                       todo : SUBSET Jobs, failed : BOOLEAN]
    BY <1>21, <2>1, AnsweredTypes DEF CancelTimeout
  <2>. QED
    BY <1>21, <2>2, <2>3 DEF CancelTimeout
<1>22. CASE QuitClaims
  BY <1>22 DEF QuitClaims
<1>23. CASE QuitCounts
  <2>. USE <1>23 DEF QuitCounts
  <2>1. CASE active = 0
    BY <2>1
  <2>2. CASE active # 0
    BY <2>2
  <2>. QED
    BY <2>1, <2>2
<1>24. CASE QuitGoes
  BY <1>24 DEF QuitGoes
<1>25. CASE DrainLists
  BY <1>25 DEF DrainLists
<1>26. CASE DrainEnds
  BY <1>26 DEF DrainEnds
<1>27. CASE MessageCloses
  BY <1>27 DEF MessageCloses
<1>28. CASE UNCHANGED eVars
  BY <1>28 DEF eVars
<1>. QED
  BY <1>1, <1>2, <1>3, <1>4, <1>5, <1>6, <1>7, <1>8, <1>9, <1>10, <1>11, <1>12, <1>13,
     <1>14, <1>15, <1>16, <1>17, <1>18, <1>19, <1>20, <1>21, <1>22, <1>23, <1>24, <1>25,
     <1>26, <1>27, <1>28 DEF ExportNext, BeginStep, EncoderStep,
     CancelStep, Cancel, DrainStep, Cancellers

(* Who is at what, step by step.                                           *)
LEMMA PhaseStep == ExportInductive /\ [ExportNext]_eVars => PhaseInv'
<1>. SUFFICES ASSUME Shapes, PhaseInv, [ExportNext]_eVars PROVE PhaseInv'
  BY DEF ExportInductive
<1>. USE ExportAssumption DEF PhaseInv, Cleans, Idles
<1>1. ASSUME NEW j \in Jobs, BeginEnters(j) PROVE PhaseInv'
  BY <1>1 DEF BeginEnters
<1>2. CASE BeginCounts
  BY <1>2 DEF BeginCounts
<1>3. CASE BeginLooksAgain
  <2>. USE <1>3 DEF BeginLooksAgain, BeginGivesUp, Shapes
  <2>1. CASE exit # 0
    BY <2>1
  <2>2. CASE exit = 0
    BY <2>2
  <2>. QED
    BY <2>1, <2>2
<1>4. CASE BeginFails
  BY <1>4 DEF BeginFails, BeginGivesUp
<1>5. CASE BeginInserts
  BY <1>5, InsertsEffect DEF BeginInserts, Touched, SamePhase, Shapes
<1>6. ASSUME NEW j \in Jobs, Appends(j) PROVE PhaseInv'
  <2>1. \A i \in Jobs : job'[i].phase = job[i].phase
    BY <1>6, AppendsEffect DEF Touched, SamePhase
  <2>2. begin' = begin /\ encoder' = encoder /\ cancel' = cancel
    BY <1>6 DEF Appends
  <2>. QED
    BY <2>1, <2>2
<1>7. ASSUME NEW j \in Jobs, Claim(j) PROVE PhaseInv'
  BY <1>7, ClaimEffect DEF Claim, Touched, SamePhase, Shapes
<1>8. ASSUME NEW j \in Jobs, MayStart(j) PROVE PhaseInv'
  BY <1>8 DEF MayStart
<1>9. ASSUME NEW j \in Jobs, Start(j) PROVE PhaseInv'
  BY <1>9, StartEffect DEF Start, Touched, SamePhase, Shapes
<1>10. ASSUME NEW j \in Jobs, ChildEnds(j) PROVE PhaseInv'
  <2>1. \A i \in Jobs : job'[i].phase = job[i].phase
    BY <1>10, ChildEndsEffect DEF Touched, SamePhase
  <2>2. begin' = begin /\ cancel' = cancel /\ encoder[j] = "encode"
    BY <1>10 DEF ChildEnds
  <2>3. encoder' = [encoder EXCEPT ![j] = "encoded"]
    BY <1>10 DEF ChildEnds
  <2>. QED
    BY <2>1, <2>2, <2>3 DEF Shapes
<1>11. ASSUME NEW j \in Jobs, Publish(j) PROVE PhaseInv'
  BY <1>11, PublishEffect DEF Publish, Touched, SamePhase, Shapes
<1>12. ASSUME NEW j \in Jobs, WorkFails(j) PROVE PhaseInv'
  BY <1>12 DEF WorkFails
<1>13. ASSUME NEW j \in Jobs, WorkerCleans(j) PROVE PhaseInv'
  BY <1>13, CleanupEffect DEF WorkerCleans, Touched, SamePhase, Shapes
<1>14. ASSUME NEW j \in Jobs, WorkerSettles(j) PROVE PhaseInv'
  BY <1>14, SettlesEffect DEF WorkerSettles, Touched, SamePhase, Shapes
<1>15. ASSUME NEW k \in Cancellers, NEW j \in Jobs, CancelTakes(k, j) PROVE PhaseInv'
  <2>1. /\ job'[j].phase = "running"
        /\ \A i \in Jobs : i # j => job'[i].phase = job[i].phase
    BY <1>15, TakesEffect DEF CancelTakes, Touched
  <2>2. /\ begin' = begin /\ encoder' = encoder
        /\ cancel'[k] = [at |-> "clean", of |-> j]
        /\ \A l \in Cancellers : l # k => cancel'[l] = cancel[l]
    BY <1>15 DEF CancelTakes, Shapes
  <2>3. job[j].phase \in {"uploading", "terminal"}
    BY <1>15 DEF CancelTakes, Failed
  <2>4. Idles(j) /\ \A l \in Cancellers : ~Cleans(l, j)
    BY <2>3
  <2>. QED
    BY <2>1, <2>2, <2>3, <2>4
<1>16. ASSUME NEW k \in Cancellers, NEW j \in Jobs, CancelWaits(k, j) PROVE PhaseInv'
  BY <1>16, WaitsEffect DEF CancelWaits, MayCancel, Touched, SamePhase, Shapes
<1>17. ASSUME NEW k \in Cancellers, NEW j \in Jobs, CancelFindsDone(k, j) PROVE PhaseInv'
  BY <1>17 DEF CancelFindsDone, MayCancel, Settled, Answered
<1>18. ASSUME NEW k \in Cancellers, CancelCleans(k) PROVE PhaseInv'
  BY <1>18, CleanupEffect DEF CancelCleans, Touched, SamePhase, Shapes
<1>19. ASSUME NEW k \in Cancellers, CancelSettles(k) PROVE PhaseInv'
  BY <1>19, SettlesEffect DEF CancelSettles, Answered, Touched, SamePhase, Shapes
<1>20. ASSUME NEW k \in Cancellers, CancelHears(k) PROVE PhaseInv'
  BY <1>20 DEF CancelHears, Answered
<1>21. ASSUME NEW k \in Cancellers, CancelTimeout(k) PROVE PhaseInv'
  BY <1>21 DEF CancelTimeout, Answered
<1>22. CASE QuitClaims
  BY <1>22 DEF QuitClaims
<1>23. CASE QuitCounts
  BY <1>23 DEF QuitCounts
<1>24. CASE QuitGoes
  BY <1>24 DEF QuitGoes
<1>25. CASE DrainLists
  BY <1>25 DEF DrainLists
<1>26. CASE DrainEnds
  BY <1>26 DEF DrainEnds
<1>27. CASE MessageCloses
  BY <1>27 DEF MessageCloses
<1>28. CASE UNCHANGED eVars
  BY <1>28 DEF eVars
<1>. QED
  BY <1>1, <1>2, <1>3, <1>4, <1>5, <1>6, <1>7, <1>8, <1>9, <1>10, <1>11, <1>12, <1>13,
     <1>14, <1>15, <1>16, <1>17, <1>18, <1>19, <1>20, <1>21, <1>22, <1>23, <1>24, <1>25,
     <1>26, <1>27, <1>28 DEF ExportNext, BeginStep, EncoderStep,
     CancelStep, Cancel, DrainStep, Cancellers

(* What is left of a job, step by step.                                    *)
LEMMA LeaseStep == ExportInductive /\ [ExportNext]_eVars => LeaseInv'
<1>. SUFFICES ASSUME Shapes, PhaseInv, LeaseInv, [ExportNext]_eVars PROVE LeaseInv'
  BY DEF ExportInductive
<1>. USE ExportAssumption DEF LeaseInv
<1>1. ASSUME NEW j \in Jobs, BeginEnters(j) PROVE LeaseInv'
  BY <1>1 DEF BeginEnters
<1>2. CASE BeginCounts
  BY <1>2 DEF BeginCounts
<1>3. CASE BeginLooksAgain
  <2>. USE <1>3 DEF BeginLooksAgain, BeginGivesUp
  <2>1. CASE exit # 0
    BY <2>1
  <2>2. CASE exit = 0
    BY <2>2
  <2>. QED
    BY <2>1, <2>2
<1>4. CASE BeginFails
  BY <1>4 DEF BeginFails, BeginGivesUp
<1>5. CASE BeginInserts
  BY <1>5, InsertsEffect DEF BeginInserts, Touched, SamePhase, Holdings, SameChild, SamePublished,
     PhaseInv, Cleans, Idles, Cleaned, Kept, Shapes
<1>6. ASSUME NEW j \in Jobs, Appends(j) PROVE LeaseInv'
  BY <1>6, AppendsEffect DEF Appends, Touched, SamePhase, Holdings, SameChild, SamePublished,
     PhaseInv, Cleans, Idles, Cleaned, Kept, Shapes
<1>7. ASSUME NEW j \in Jobs, Claim(j) PROVE LeaseInv'
  <2>1. \A i \in Jobs : /\ job'[i].lease <=> job[i].lease
                        /\ job'[i].files <=> job[i].files
                        /\ job'[i].error <=> job[i].error
                        /\ job'[i].child = job[i].child
    BY <1>7, ClaimEffect DEF Claim, Touched, Holdings, SameChild

  <2>2. /\ job'[j].phase = "running" /\ \A i \in Jobs : i # j => job'[i].phase = job[i].phase
    BY <1>7, ClaimEffect DEF Touched
  <2>3. /\ encoder'[j] = "work" /\ cancel' = cancel /\ job[j].phase = "uploading"
        /\ \A i \in Jobs : i # j => encoder'[i] = encoder[i]
    BY <1>7 DEF Claim, Shapes
  <2>. QED
    BY <2>1, <2>2, <2>3
<1>8. ASSUME NEW j \in Jobs, MayStart(j) PROVE LeaseInv'
  BY <1>8 DEF MayStart
<1>9. ASSUME NEW j \in Jobs, Start(j) PROVE LeaseInv'
  BY <1>9, StartEffect DEF Start, Touched, SamePhase, Holdings, SameChild, SamePublished,
     PhaseInv, Cleans, Idles, Cleaned, Kept, Shapes
<1>10. ASSUME NEW j \in Jobs, ChildEnds(j) PROVE LeaseInv'
  <2>1. \A i \in Jobs : /\ job'[i].lease <=> job[i].lease
                        /\ job'[i].files <=> job[i].files
                        /\ job'[i].error <=> job[i].error
                        /\ job'[i].phase = job[i].phase
                        /\ i # j => job'[i].child = job[i].child
    BY <1>10, ChildEndsEffect DEF Touched, Holdings, SamePhase
  <2>2. cancel' = cancel /\ encoder[j] = "encode" /\ encoder' = [encoder EXCEPT ![j] = "encoded"]
    BY <1>10 DEF ChildEnds
  <2>. QED
    BY <2>1, <2>2 DEF Shapes
<1>11. ASSUME NEW j \in Jobs, Publish(j) PROVE LeaseInv'
  BY <1>11, PublishEffect DEF Publish, Touched, SamePhase, Holdings, SameChild, SamePublished,
     PhaseInv, Cleans, Idles, Cleaned, Kept, Shapes
<1>12. ASSUME NEW j \in Jobs, WorkFails(j) PROVE LeaseInv'
  BY <1>12 DEF WorkFails
<1>13. ASSUME NEW j \in Jobs, WorkerCleans(j) PROVE LeaseInv'
  BY <1>13, CleanupEffect DEF WorkerCleans, Touched, SamePhase, Holdings, SameChild, SamePublished,
     PhaseInv, Cleans, Idles, Cleaned, Kept, Shapes
<1>14. ASSUME NEW j \in Jobs, WorkerSettles(j) PROVE LeaseInv'
  BY <1>14, SettlesEffect DEF WorkerSettles, Touched, SamePhase, Holdings, SameChild, SamePublished,
     PhaseInv, Cleans, Idles, Cleaned, Kept, Shapes
<1>15. ASSUME NEW k \in Cancellers, NEW j \in Jobs, CancelTakes(k, j) PROVE LeaseInv'
  <2>1. \A i \in Jobs : /\ job'[i].lease <=> job[i].lease
                        /\ job'[i].files <=> job[i].files
                        /\ job'[i].error <=> job[i].error
                        /\ job'[i].child = job[i].child
    BY <1>15, TakesEffect DEF CancelTakes, Touched, Holdings, SameChild

  <2>2. /\ job'[j].phase = "running" /\ \A i \in Jobs : i # j => job'[i].phase = job[i].phase
    BY <1>15, TakesEffect DEF CancelTakes, Touched
  <2>3. /\ encoder' = encoder /\ cancel'[k] = [at |-> "clean", of |-> j]
        /\ \A l \in Cancellers : l # k => cancel'[l] = cancel[l]
    BY <1>15 DEF CancelTakes, Shapes
  <2>4. job[j].phase \in {"uploading", "terminal"} /\ encoder[j] \in {"none", "done"}
    BY <1>15 DEF CancelTakes, Failed, PhaseInv, Idles

  <2>. QED
    BY <2>1, <2>2, <2>3, <2>4
<1>16. ASSUME NEW k \in Cancellers, NEW j \in Jobs, CancelWaits(k, j) PROVE LeaseInv'
  BY <1>16, WaitsEffect DEF CancelWaits, MayCancel, Touched, SamePhase, Holdings, SameChild, SamePublished,
     PhaseInv, Cleans, Idles, Cleaned, Kept, Shapes
<1>17. ASSUME NEW k \in Cancellers, NEW j \in Jobs, CancelFindsDone(k, j) PROVE LeaseInv'
  BY <1>17 DEF CancelFindsDone, MayCancel, Settled, Answered
<1>18. ASSUME NEW k \in Cancellers, CancelCleans(k) PROVE LeaseInv'
  BY <1>18, CleanupEffect DEF CancelCleans, Touched, SamePhase, Holdings, SameChild, SamePublished,
     PhaseInv, Cleans, Idles, Cleaned, Kept, Shapes
<1>19. ASSUME NEW k \in Cancellers, CancelSettles(k) PROVE LeaseInv'
  BY <1>19, SettlesEffect DEF CancelSettles, Answered, Touched, SamePhase, Holdings, SameChild, SamePublished,
     PhaseInv, Cleans, Idles, Cleaned, Kept, Shapes
<1>20. ASSUME NEW k \in Cancellers, CancelHears(k) PROVE LeaseInv'
  BY <1>20 DEF CancelHears, Answered
<1>21. ASSUME NEW k \in Cancellers, CancelTimeout(k) PROVE LeaseInv'
  BY <1>21 DEF CancelTimeout, Answered
<1>22. CASE QuitClaims
  BY <1>22 DEF QuitClaims
<1>23. CASE QuitCounts
  BY <1>23 DEF QuitCounts
<1>24. CASE QuitGoes
  BY <1>24 DEF QuitGoes
<1>25. CASE DrainLists
  BY <1>25 DEF DrainLists
<1>26. CASE DrainEnds
  BY <1>26 DEF DrainEnds
<1>27. CASE MessageCloses
  BY <1>27 DEF MessageCloses
<1>28. CASE UNCHANGED eVars
  BY <1>28 DEF eVars
<1>. QED
  BY <1>1, <1>2, <1>3, <1>4, <1>5, <1>6, <1>7, <1>8, <1>9, <1>10, <1>11, <1>12, <1>13,
     <1>14, <1>15, <1>16, <1>17, <1>18, <1>19, <1>20, <1>21, <1>22, <1>23, <1>24, <1>25,
     <1>26, <1>27, <1>28 DEF ExportNext, BeginStep, EncoderStep,
     CancelStep, Cancel, DrainStep, Cancellers

(* The gate, step by step: what a begin was counted for is never let in    *)
(* behind an exit that was.                                                *)
LEMMA NoneLeased == Shapes /\ CountInv /\ active = 0 =>
  begin.at \notin {"counted", "admitted"} /\ \A j \in Jobs : ~job[j].lease
<1>. SUFFICES ASSUME Shapes, CountInv, active = 0
              PROVE  begin.at \notin {"counted", "admitted"} /\ \A j \in Jobs : ~job[j].lease
  OBVIOUS
<1>. DEFINE L == {j \in Jobs : job[j].lease}
<1>1. IsFiniteSet(L) /\ Cardinality(L) \in Nat
  BY FS_Subset, FS_CardinalityType, ExportAssumption
<1>2. Cardinality(L) = 0 /\ begin.at \notin {"counted", "admitted"}
  BY <1>1 DEF CountInv, Leases, Pending
<1>3. L = {}
  BY <1>1, <1>2, FS_EmptySet
<1>. QED
  BY <1>2, <1>3

LEMMA GateStep == ExportInductive /\ [ExportNext]_eVars => GateInv'
<1>. SUFFICES ASSUME Shapes, PhaseInv, LeaseInv, CountInv, GateInv, [ExportNext]_eVars
              PROVE  GateInv'
  BY DEF ExportInductive
<1>. USE ExportAssumption DEF GateInv
<1>1. ASSUME NEW j \in Jobs, BeginEnters(j) PROVE GateInv'
  BY <1>1 DEF BeginEnters
<1>2. CASE BeginCounts
  BY <1>2 DEF BeginCounts
<1>3. CASE BeginLooksAgain
  <2>. USE <1>3 DEF BeginLooksAgain, BeginGivesUp
  <2>1. CASE exit # 0
    BY <2>1
  <2>2. CASE exit = 0
    BY <2>2
  <2>. QED
    BY <2>1, <2>2
<1>4. CASE BeginFails
  BY <1>4 DEF BeginFails, BeginGivesUp
<1>5. CASE BeginInserts
  BY <1>5, InsertsEffect DEF BeginInserts, Touched, SamePhase, Holdings, SameChild, SamePublished,
     PhaseInv, Cleans, Idles, Cleaned, Kept, Shapes
<1>6. ASSUME NEW j \in Jobs, Appends(j) PROVE GateInv'
  BY <1>6, AppendsEffect DEF Appends, Touched, SamePhase, Holdings, SameChild, SamePublished,
     PhaseInv, Cleans, Idles, Cleaned, Kept, Shapes
<1>7. ASSUME NEW j \in Jobs, Claim(j) PROVE GateInv'
  BY <1>7, ClaimEffect DEF Claim, Touched, SamePhase, Holdings, SameChild, SamePublished,
     PhaseInv, Cleans, Idles, Cleaned, Kept, Shapes
<1>8. ASSUME NEW j \in Jobs, MayStart(j) PROVE GateInv'
  BY <1>8 DEF MayStart
<1>9. ASSUME NEW j \in Jobs, Start(j) PROVE GateInv'
  BY <1>9, StartEffect DEF Start, Touched, SamePhase, Holdings, SameChild, SamePublished,
     PhaseInv, Cleans, Idles, Cleaned, Kept, Shapes
<1>10. ASSUME NEW j \in Jobs, ChildEnds(j) PROVE GateInv'
  <2>1. UNCHANGED <<exit, begin, drain>>
    BY <1>10 DEF ChildEnds
  <2>2. \A i \in Jobs : job'[i].lease <=> job[i].lease
    BY <1>10, ChildEndsEffect DEF Touched, Holdings
  <2>. QED
    BY <2>1, <2>2
<1>11. ASSUME NEW j \in Jobs, Publish(j) PROVE GateInv'
  BY <1>11, PublishEffect DEF Publish, Touched, SamePhase, Holdings, SameChild, SamePublished,
     PhaseInv, Cleans, Idles, Cleaned, Kept, Shapes
<1>12. ASSUME NEW j \in Jobs, WorkFails(j) PROVE GateInv'
  BY <1>12 DEF WorkFails
<1>13. ASSUME NEW j \in Jobs, WorkerCleans(j) PROVE GateInv'
  BY <1>13, CleanupEffect DEF WorkerCleans, Touched, SamePhase, Holdings, SameChild, SamePublished,
     PhaseInv, Cleans, Idles, Cleaned, Kept, Shapes
<1>14. ASSUME NEW j \in Jobs, WorkerSettles(j) PROVE GateInv'
  BY <1>14, SettlesEffect DEF WorkerSettles, Touched, SamePhase, Holdings, SameChild, SamePublished,
     PhaseInv, Cleans, Idles, Cleaned, Kept, Shapes
<1>15. ASSUME NEW k \in Cancellers, NEW j \in Jobs, CancelTakes(k, j) PROVE GateInv'
  <2>1. \A i \in Jobs : /\ job'[i].lease <=> job[i].lease
                        /\ job'[i].files <=> job[i].files
                        /\ job'[i].error <=> job[i].error
                        /\ job'[i].child = job[i].child
    BY <1>15, TakesEffect DEF CancelTakes, Touched, Holdings, SameChild

  <2>2. exit' = exit /\ drain' = drain /\ begin' = begin
    BY <1>15 DEF CancelTakes
  <2>. QED
    BY <2>1, <2>2
<1>16. ASSUME NEW k \in Cancellers, NEW j \in Jobs, CancelWaits(k, j) PROVE GateInv'
  BY <1>16, WaitsEffect DEF CancelWaits, MayCancel, Touched, SamePhase, Holdings, SameChild, SamePublished,
     PhaseInv, Cleans, Idles, Cleaned, Kept, Shapes
<1>17. ASSUME NEW k \in Cancellers, NEW j \in Jobs, CancelFindsDone(k, j) PROVE GateInv'
  BY <1>17 DEF CancelFindsDone, MayCancel, Settled, Answered
<1>18. ASSUME NEW k \in Cancellers, CancelCleans(k) PROVE GateInv'
  BY <1>18, CleanupEffect DEF CancelCleans, Touched, SamePhase, Holdings, SameChild, SamePublished,
     PhaseInv, Cleans, Idles, Cleaned, Kept, Shapes
<1>19. ASSUME NEW k \in Cancellers, CancelSettles(k) PROVE GateInv'
  BY <1>19, SettlesEffect DEF CancelSettles, Answered, Touched, SamePhase, Holdings, SameChild, SamePublished,
     PhaseInv, Cleans, Idles, Cleaned, Kept, Shapes
<1>20. ASSUME NEW k \in Cancellers, CancelHears(k) PROVE GateInv'
  BY <1>20 DEF CancelHears, Answered
<1>21. ASSUME NEW k \in Cancellers, CancelTimeout(k) PROVE GateInv'
  BY <1>21 DEF CancelTimeout, Answered
<1>22. CASE QuitClaims
  BY <1>22 DEF QuitClaims
<1>23. CASE QuitCounts
  <2>1. CASE active = 0
    BY <1>23, <2>1, NoneLeased DEF QuitCounts, Shapes
  <2>2. CASE active # 0
    BY <1>23, <2>2 DEF QuitCounts, Shapes
  <2>. QED
    BY <2>1, <2>2
<1>24. CASE QuitGoes
  BY <1>24 DEF QuitGoes
<1>25. CASE DrainLists
  BY <1>25 DEF DrainLists
<1>26. CASE DrainEnds
  <2>1. CASE drain.failed \/ active # 0
    BY <1>26, <2>1 DEF DrainEnds, Shapes
  <2>2. CASE ~(drain.failed \/ active # 0)
    BY <1>26, <2>2, NoneLeased DEF DrainEnds, Shapes
  <2>. QED
    BY <2>1, <2>2
<1>27. CASE MessageCloses
  BY <1>27 DEF MessageCloses
<1>28. CASE UNCHANGED eVars
  BY <1>28 DEF eVars
<1>. QED
  BY <1>1, <1>2, <1>3, <1>4, <1>5, <1>6, <1>7, <1>8, <1>9, <1>10, <1>11, <1>12, <1>13,
     <1>14, <1>15, <1>16, <1>17, <1>18, <1>19, <1>20, <1>21, <1>22, <1>23, <1>24, <1>25,
     <1>26, <1>27, <1>28 DEF ExportNext, BeginStep, EncoderStep,
     CancelStep, Cancel, DrainStep, Cancellers

(* What was told stays true, step by step.                                 *)
LEMMA ToldStep == ExportInductive /\ [ExportNext]_eVars => ToldInv'
<1>. SUFFICES ASSUME Shapes, PhaseInv, LeaseInv, ToldInv, [ExportNext]_eVars
              PROVE  ToldInv'
  BY DEF ExportInductive
<1>. USE ExportAssumption DEF ToldInv
<1>1. ASSUME NEW j \in Jobs, BeginEnters(j) PROVE ToldInv'
  BY <1>1 DEF BeginEnters
<1>2. CASE BeginCounts
  BY <1>2 DEF BeginCounts
<1>3. CASE BeginLooksAgain
  <2>. USE <1>3 DEF BeginLooksAgain, BeginGivesUp
  <2>1. CASE exit # 0
    BY <2>1
  <2>2. CASE exit = 0
    BY <2>2
  <2>. QED
    BY <2>1, <2>2
<1>4. CASE BeginFails
  BY <1>4 DEF BeginFails, BeginGivesUp
<1>5. CASE BeginInserts
  BY <1>5, InsertsEffect DEF BeginInserts, Touched, SamePhase, Holdings, SameChild, SamePublished,
     PhaseInv, Cleans, Idles, Cleaned, Kept, Shapes
<1>6. ASSUME NEW j \in Jobs, Appends(j) PROVE ToldInv'
  BY <1>6, AppendsEffect DEF Appends, Touched, SamePhase, Holdings, SameChild, SamePublished,
     PhaseInv, Cleans, Idles, Cleaned, Kept, Shapes
<1>7. ASSUME NEW j \in Jobs, Claim(j) PROVE ToldInv'
  BY <1>7, ClaimEffect DEF Claim, Touched, SamePhase, Holdings, SameChild, SamePublished,
     PhaseInv, Cleans, Idles, Cleaned, Kept, Shapes
<1>8. ASSUME NEW j \in Jobs, MayStart(j) PROVE ToldInv'
  BY <1>8 DEF MayStart
<1>9. ASSUME NEW j \in Jobs, Start(j) PROVE ToldInv'
  BY <1>9, StartEffect DEF Start, Touched, SamePhase, Holdings, SameChild, SamePublished,
     PhaseInv, Cleans, Idles, Cleaned, Kept, Shapes
<1>10. ASSUME NEW j \in Jobs, ChildEnds(j) PROVE ToldInv'
  BY <1>10, ChildEndsEffect DEF ChildEnds, Touched, SamePhase, Holdings, SameChild, SamePublished,
     PhaseInv, Cleans, Idles, Cleaned, Kept, Shapes
<1>11. ASSUME NEW j \in Jobs, Publish(j) PROVE ToldInv'
  BY <1>11, PublishEffect DEF Publish, Touched, SamePhase, Holdings, SameChild, SamePublished,
     PhaseInv, Cleans, Idles, Cleaned, Kept, Shapes
<1>12. ASSUME NEW j \in Jobs, WorkFails(j) PROVE ToldInv'
  BY <1>12 DEF WorkFails
<1>13. ASSUME NEW j \in Jobs, WorkerCleans(j) PROVE ToldInv'
  BY <1>13, CleanupEffect DEF WorkerCleans, Touched, SamePhase, Holdings, SameChild, SamePublished,
     PhaseInv, Cleans, Idles, Cleaned, Kept, Shapes
<1>14. ASSUME NEW j \in Jobs, WorkerSettles(j) PROVE ToldInv'
  BY <1>14, SettlesEffect DEF WorkerSettles, Touched, SamePhase, Holdings, SameChild, SamePublished,
     PhaseInv, Cleans, Idles, Cleaned, Kept, Shapes
<1>15. ASSUME NEW k \in Cancellers, NEW j \in Jobs, CancelTakes(k, j) PROVE ToldInv'
  <2>1. \A i \in Jobs : i # j => job'[i] = job[i]
    BY <1>15, TakesEffect DEF CancelTakes, Touched
  <2>2. told' = told /\ told[j] = "nothing"
    BY <1>15 DEF CancelTakes, Failed, Shapes
  <2>. QED
    BY <2>1, <2>2
<1>16. ASSUME NEW k \in Cancellers, NEW j \in Jobs, CancelWaits(k, j) PROVE ToldInv'
  BY <1>16, WaitsEffect DEF CancelWaits, MayCancel, Touched, SamePhase, Holdings, SameChild, SamePublished,
     PhaseInv, Cleans, Idles, Cleaned, Kept, Shapes
<1>17. ASSUME NEW k \in Cancellers, NEW j \in Jobs, CancelFindsDone(k, j) PROVE ToldInv'
  BY <1>17 DEF CancelFindsDone, MayCancel, Settled, Answered
<1>18. ASSUME NEW k \in Cancellers, CancelCleans(k) PROVE ToldInv'
  BY <1>18, CleanupEffect DEF CancelCleans, Touched, SamePhase, Holdings, SameChild, SamePublished,
     PhaseInv, Cleans, Idles, Cleaned, Kept, Shapes
<1>19. ASSUME NEW k \in Cancellers, CancelSettles(k) PROVE ToldInv'
  BY <1>19, SettlesEffect DEF CancelSettles, Answered, Touched, SamePhase, Holdings, SameChild, SamePublished,
     PhaseInv, Cleans, Idles, Cleaned, Kept, Shapes
<1>20. ASSUME NEW k \in Cancellers, CancelHears(k) PROVE ToldInv'
  BY <1>20 DEF CancelHears, Answered
<1>21. ASSUME NEW k \in Cancellers, CancelTimeout(k) PROVE ToldInv'
  BY <1>21 DEF CancelTimeout, Answered
<1>22. CASE QuitClaims
  BY <1>22 DEF QuitClaims
<1>23. CASE QuitCounts
  BY <1>23 DEF QuitCounts
<1>24. CASE QuitGoes
  BY <1>24 DEF QuitGoes
<1>25. CASE DrainLists
  BY <1>25 DEF DrainLists
<1>26. CASE DrainEnds
  BY <1>26 DEF DrainEnds
<1>27. CASE MessageCloses
  BY <1>27 DEF MessageCloses
<1>28. CASE UNCHANGED eVars
  BY <1>28 DEF eVars
<1>. QED
  BY <1>1, <1>2, <1>3, <1>4, <1>5, <1>6, <1>7, <1>8, <1>9, <1>10, <1>11, <1>12, <1>13,
     <1>14, <1>15, <1>16, <1>17, <1>18, <1>19, <1>20, <1>21, <1>22, <1>23, <1>24, <1>25,
     <1>26, <1>27, <1>28 DEF ExportNext, BeginStep, EncoderStep,
     CancelStep, Cancel, DrainStep, Cancellers

(* How the leases are counted.                                             *)
LEMMA LeasesType == IsFiniteSet({j \in Jobs : job[j].lease}) /\ Leases \in Nat
                    /\ Leases <= Cardinality(Jobs)
<1>1. {j \in Jobs : job[j].lease} \subseteq Jobs
  OBVIOUS
<1>. QED
  BY <1>1, ExportAssumption, FS_Subset, FS_CardinalityType DEF Leases

LEMMA LeasesSame ==
  ASSUME \A j \in Jobs : job'[j].lease <=> job[j].lease
  PROVE  Leases' = Leases
<1>1. {j \in Jobs : job'[j].lease} = {j \in Jobs : job[j].lease}
  OBVIOUS
<1>. QED
  BY <1>1 DEF Leases

LEMMA LeasesMore ==
  ASSUME NEW i \in Jobs, ~job[i].lease, job'[i].lease,
         \A j \in Jobs : j # i => (job'[j].lease <=> job[j].lease)
  PROVE  Leases' = Leases + 1
<1>. DEFINE L == {j \in Jobs : job[j].lease}
<1>1. {j \in Jobs : job'[j].lease} = L \cup {i}
  OBVIOUS
<1>2. Cardinality(L \cup {i}) = Cardinality(L) + 1
  BY LeasesType, FS_AddElement
<1>. QED
  BY <1>1, <1>2 DEF Leases

LEMMA LeasesLess ==
  ASSUME NEW i \in Jobs, job[i].lease, ~job'[i].lease,
         \A j \in Jobs : j # i => (job'[j].lease <=> job[j].lease)
  PROVE  Leases' = Leases - 1
<1>. DEFINE L == {j \in Jobs : job[j].lease}
<1>1. {j \in Jobs : job'[j].lease} = L \ {i}
  OBVIOUS
<1>2. Cardinality(L \ {i}) = Cardinality(L) - 1
  BY LeasesType, FS_RemoveElement
<1>. QED
  BY <1>1, <1>2 DEF Leases

(* A cleanup gives the lease back, or keeps it and its count.              *)
LEMMA CleanupCounts ==
  ASSUME Shapes, CountInv, NEW j \in Jobs, Cleanup(j), begin' = begin
  PROVE  CountInv'
<1>1. \A i \in Jobs : i # j => (job'[i].lease <=> job[i].lease)
  BY CleanupEffect DEF Touched
<1>2. Pending' = Pending /\ Pending \in {0, 1} /\ Leases \in Nat
  BY LeasesType DEF Pending
<1>3. CASE Cleaned(j) /\ job[j].lease
  <2>1. Leases' = Leases - 1 /\ active' = active - 1
    BY <1>1, <1>3, LeasesLess DEF Cleaned
  <2>. QED
    BY <1>2, <2>1 DEF CountInv
<1>4. CASE Cleaned(j) /\ ~job[j].lease
  <2>1. Leases' = Leases /\ active' = active
    BY <1>1, <1>4, LeasesSame DEF Cleaned
  <2>. QED
    BY <1>2, <2>1 DEF CountInv
<1>5. CASE Kept(j)
  <2>1. Leases' = Leases /\ active' = active
    BY <1>1, <1>5, LeasesSame DEF Kept
  <2>. QED
    BY <1>2, <2>1 DEF CountInv
<1>. QED
  BY <1>3, <1>4, <1>5, CleanupEffect

LEMMA CountStep == ExportInductive /\ [ExportNext]_eVars => CountInv'
<1>. SUFFICES ASSUME Shapes, PhaseInv, LeaseInv, CountInv, [ExportNext]_eVars
              PROVE  CountInv'
  BY DEF ExportInductive
<1>1. Leases \in Nat
  BY LeasesType
<1>2. CASE BeginCounts
  <2>1. Leases' = Leases
    BY <1>2, LeasesSame DEF BeginCounts
  <2>. QED
    BY <1>2, <1>1, <2>1 DEF BeginCounts, CountInv, Pending, Shapes
<1>3. CASE BeginLooksAgain
  <2>1. Leases' = Leases
    BY <1>3, LeasesSame DEF BeginLooksAgain
  <2>2. CASE exit # 0
    BY <1>3, <1>1, <2>1, <2>2 DEF BeginLooksAgain, BeginGivesUp, CountInv, Pending
  <2>3. CASE exit = 0
    BY <1>3, <1>1, <2>1, <2>3 DEF BeginLooksAgain, CountInv, Pending, Shapes
  <2>. QED
    BY <2>2, <2>3
<1>4. CASE BeginFails
  <2>1. Leases' = Leases
    BY <1>4, LeasesSame DEF BeginFails
  <2>. QED
    BY <1>4, <1>1, <2>1 DEF BeginFails, BeginGivesUp, CountInv, Pending
<1>5. CASE BeginInserts
  <2>1. ~job[begin.of].lease
    BY <1>5, InsertsEffect DEF BeginInserts, PhaseInv, LeaseInv
  <2>2. Leases' = Leases + 1
    BY <1>5, <2>1, InsertsEffect, LeasesMore DEF Touched
  <2>. QED
    BY <1>5, <1>1, <2>2 DEF BeginInserts, CountInv, Pending
<1>6. ASSUME NEW j \in Jobs, WorkerCleans(j) PROVE CountInv'
  BY <1>6, CleanupCounts DEF WorkerCleans
<1>7. ASSUME NEW k \in Cancellers, CancelCleans(k) PROVE CountInv'
  BY <1>7, CleanupCounts DEF CancelCleans, PhaseInv
<1>8. ASSUME \E j \in Jobs :
               \/ Appends(j) \/ Claim(j) \/ Start(j) \/ ChildEnds(j) \/ Publish(j)
               \/ WorkerSettles(j)
               \/ \E k \in Cancellers : CancelTakes(k, j) \/ CancelWaits(k, j)
      PROVE CountInv'
  <2>1. \A i \in Jobs : job'[i].lease <=> job[i].lease
    BY <1>8, AppendsEffect, ClaimEffect, StartEffect, ChildEndsEffect, PublishEffect,
       SettlesEffect, TakesEffect, WaitsEffect
       DEF Touched, Holdings, WorkerSettles, CancelTakes, CancelWaits
  <2>2. active' = active /\ begin' = begin
    BY <1>8 DEF Appends, Claim, Start, ChildEnds, Publish, WorkerSettles, CancelTakes, CancelWaits
  <2>. QED
    BY <2>1, <2>2, LeasesSame DEF CountInv, Pending
<1>9. ASSUME NEW k \in Cancellers, CancelSettles(k) PROVE CountInv'
  <2>1. \A i \in Jobs : job'[i].lease <=> job[i].lease
    BY <1>9, SettlesEffect DEF CancelSettles, PhaseInv, Touched, Holdings
  <2>. QED
    BY <1>9, <2>1, LeasesSame DEF CancelSettles, CountInv, Pending
<1>10. ASSUME NEW j \in Jobs, BeginEnters(j) PROVE CountInv'
  <2>1. job' = job /\ active' = active /\ begin.at = "idle" /\ begin'.at = "looked"
    BY <1>10 DEF BeginEnters
  <2>. QED
    BY <2>1, LeasesSame DEF CountInv, Pending
<1>11. ASSUME \/ \E j \in Jobs : \/ MayStart(j) \/ WorkFails(j)
                                \/ \E k \in Cancellers : CancelFindsDone(k, j)
             \/ \E k \in Cancellers : CancelHears(k) \/ CancelTimeout(k)
             \/ QuitClaims \/ QuitCounts \/ QuitGoes \/ DrainLists \/ DrainEnds
             \/ MessageCloses \/ UNCHANGED eVars
      PROVE CountInv'
  <2>1. job' = job /\ active' = active /\ begin' = begin
    BY <1>11 DEF MayStart, WorkFails, CancelFindsDone, CancelHears, CancelTimeout,
             QuitClaims, QuitCounts, QuitGoes, DrainLists, DrainEnds, MessageCloses, eVars
  <2>. QED
    BY <2>1, LeasesSame DEF CountInv, Pending
<1>. QED
  BY <1>2, <1>3, <1>4, <1>5, <1>6, <1>7, <1>8, <1>9, <1>10, <1>11
     DEF ExportNext, BeginStep, EncoderStep,
     CancelStep, Cancel, DrainStep, Cancellers

-------------------------------------------------------------------------------
(* The inductive invariant, for any finite set of jobs and any number of   *)
(* failures.                                                               *)
THEOREM ExportInvariance == ExportSafety => []ExportInductive
<1>1. ASSUME ExportInit PROVE ExportInductive
  <2>. USE <1>1, ExportAssumption DEF ExportInit
  <2>1. Unborn \in JobRecords /\ Unborn.phase = "none" /\ ~Unborn.lease /\ ~Unborn.files
        /\ Unborn.child = "none"
    BY DEF Unborn, JobRecords
  <2>2. Shapes
    <3>1. begin \in [at : {"idle", "looked", "counted", "admitted"}, of : Jobs \cup {Nobody}]
      OBVIOUS
    <3>2. /\ job \in [Jobs -> JobRecords]
          /\ encoder \in [Jobs -> {"none", "work", "start", "encode", "encoded", "settle",
                                  "cleaned", "done"}]
          /\ told \in [Jobs -> {"nothing", "cancelled", "completed"}]
      BY <2>1
    <3>3. cancel \in [Cancellers -> [at : {"idle", "clean", "cleaned", "wait"},
                                     of : Jobs \cup {Nobody}]]
      OBVIOUS
    <3>4. drain \in [at : {"idle", "claimed", "list", "cancel", "message"}, todo : SUBSET Jobs,
                     failed : BOOLEAN]
      OBVIOUS
    <3>5. exit \in 0 .. 3 /\ active \in Int /\ failures \in 0 .. MaxFailures
      OBVIOUS
    <3>6. gone \in BOOLEAN
      BY Zenon
    <3>. QED
      BY <3>1, <3>2, <3>3, <3>4, <3>5, <3>6 DEF Shapes
  <2>3. PhaseInv /\ LeaseInv /\ ToldInv /\ GateInv
    BY <2>1 DEF PhaseInv, LeaseInv, ToldInv, GateInv, Cleans, Idles
  <2>4. {j \in Jobs : job[j].lease} = {}
    BY <2>1
  <2>5. CountInv
    BY <2>4, FS_EmptySet DEF CountInv, Leases, Pending
  <2>. QED
    BY <2>2, <2>3, <2>5 DEF ExportInductive
<1>2. ExportInductive /\ [ExportNext]_eVars => ExportInductive'
  BY ShapesStep, PhaseStep, LeaseStep, CountStep, GateStep, ToldStep DEF ExportInductive
<1>. QED
  BY <1>1, <1>2, PTL DEF ExportSafety

LEMMA ExportTypes == ExportInductive => ExportTypeOK
<1>. SUFFICES ASSUME Shapes, CountInv PROVE ExportTypeOK
  BY DEF ExportInductive
<1>1. active \in 0 .. Cardinality(Jobs) + 1
  <2>1. Cardinality(Jobs) \in Nat
    BY ExportAssumption, FS_CardinalityType
  <2>. QED
    BY <2>1, LeasesType DEF CountInv, Pending
<1>2. ASSUME NEW j \in Jobs
      PROVE  {job[j].frames, job[j].cancelled, job[j].published, job[j].files, job[j].lease,
              job[j].error} \subseteq BOOLEAN
  BY DEF Shapes, JobRecords
<1>3. ASSUME NEW j \in Jobs
      PROVE  /\ job[j].phase \in {"none", "uploading", "running", "terminal"}
             /\ job[j].child \in {"none", "live", "unreaped"}
             /\ encoder[j] \in {"none", "work", "start", "encode", "encoded", "settle",
                               "cleaned", "done"}
             /\ told[j] \in {"nothing", "cancelled", "completed"}
  BY DEF Shapes, JobRecords
<1>. QED
  BY <1>1, <1>2, <1>3 DEF ExportTypeOK, Shapes

(* However admission and a quit race, once the quit has been let through   *)
(* no job has a file or a child left or is about to get one; and every     *)
(* lease counted is one of a job or of an attempt (Lifecycle in            *)
(* screen_export_jobs.rs).                                                 *)
THEOREM ExitIsClean == ExportSafety => []ExitClean
<1>1. ExportInductive => ExitClean
  BY ExportTypes DEF ExportInductive, CountInv, Pending, LeasesCounted, GateInv, LeaseInv,
                     ExitClean
<1>. QED
  BY <1>1, ExportInvariance, PTL

LEMMA AtMostOne ==
  ASSUME NEW S, \A x, y \in S : x = y
  PROVE  IsFiniteSet(S) /\ Cardinality(S) \in {0, 1}
<1>1. CASE S = {}
  BY <1>1, FS_EmptySet
<1>2. ASSUME NEW x \in S PROVE IsFiniteSet(S) /\ Cardinality(S) \in {0, 1}
  <2>1. S = {x}
    BY <1>2
  <2>. QED
    BY <2>1, FS_Singleton
<1>. QED
  BY <1>1, <1>2

(* A cancel that was confirmed is final, its files and children gone and   *)
(* its result there exactly if that was the answer; and nobody cleans a    *)
(* job up that another is at (cancel_for in screen_export_jobs.rs).        *)
THEOREM CancelIsHonest == ExportSafety => []CancelHonest
<1>1. ASSUME ExportInductive PROVE CancelHonest
  <2>. USE <1>1 DEF ExportInductive
  <2>1. ASSUME NEW j \in Jobs
        PROVE  Cardinality(Cleaners(j)) + (IF encoder[j] \in {"none", "done"} THEN 0 ELSE 1) <= 1
    <3>1. \A k, l \in Cleaners(j) : k = l
      BY DEF PhaseInv, Cleans, Cleaners
    <3>2. Cardinality(Cleaners(j)) \in {0, 1}
      BY <3>1, AtMostOne
    <3>3. CASE Cleaners(j) = {}
      BY <3>3, FS_EmptySet
    <3>4. CASE Cleaners(j) # {}
      <4>1. encoder[j] \in {"none", "done"}
        BY <3>4 DEF PhaseInv, Cleans, Cleaners, Idles
      <4>. QED
        BY <3>2, <4>1
    <3>. QED
      BY <3>3, <3>4
  <2>2. \A j \in Jobs : told[j] # "nothing" =>
          /\ ~job[j].files /\ job[j].child = "none"
          /\ job[j].published <=> told[j] = "completed"
    BY DEF ToldInv, LeaseInv
  <2>. QED
    BY <2>1, <2>2 DEF CancelHonest, OneCleaner
<1>. QED
  BY <1>1, ExportInvariance, PTL

-------------------------------------------------------------------------------
(* What a quit sees: whether anything is on, and where the drain is.       *)
Busy == begin.at = "admitted" \/ \E j \in Jobs : job[j].lease
Stage == IF drain.at \in {"list", "cancel"} THEN "drain" ELSE drain.at

LEMMA Unseen ==
  ASSUME UNCHANGED <<exit, Stage>>, Busy' <=> Busy
  PROVE  UNCHANGED Gate!vars
<1>1. UNCHANGED (begin.at = "admitted" \/ \E j \in Jobs : job[j].lease)
  BY Zenon DEF Busy
<1>. QED
  BY <1>1 DEF Gate!vars, Stage

(* A step that only ever gives leases back is one the gate allows.         *)
LEMMA Rests ==
  ASSUME UNCHANGED <<exit, Stage>>, Busy' => Busy
  PROVE  [Gate!Next]_(Gate!vars)
<1>1. CASE Busy' <=> Busy
  BY <1>1, Unseen
<1>2. CASE Busy /\ ~Busy'
  BY <1>2 DEF Gate!Next, Gate!Rest, Busy, Stage
<1>. QED
  BY <1>1, <1>2

(* A job's step leaves what the quit sees, if it leaves the lease.         *)
LEMMA LeasesUnseen ==
  ASSUME UNCHANGED <<exit, begin, Stage>>, \A j \in Jobs : job'[j].lease <=> job[j].lease
  PROVE  [Gate!Next]_(Gate!vars)
  BY Rests DEF Busy

LEMMA CleanupRests ==
  ASSUME Shapes, NEW j \in Jobs, Cleanup(j), UNCHANGED <<exit, begin, Stage>>
  PROVE  [Gate!Next]_(Gate!vars)
<1>1. \A i \in Jobs : job'[i].lease => job[i].lease
  BY CleanupEffect DEF Touched, Cleaned, Kept
<1>. QED
  BY <1>1, Rests DEF Busy

LEMMA NotBusy ==
  ASSUME Shapes, CountInv, active = 0
  PROVE  ~Busy
  BY NoneLeased DEF Busy

(* Every step of the exports is one of the gate, or the gate sees nothing. *)
LEMMA GateRefines == ExportInductive /\ [ExportNext]_eVars => [Gate!Next]_(Gate!vars)
<1>. SUFFICES ASSUME Shapes, PhaseInv, LeaseInv, CountInv, [ExportNext]_eVars
              PROVE  [Gate!Next]_(Gate!vars)
  BY DEF ExportInductive
<1>1. ASSUME NEW j \in Jobs, BeginEnters(j) PROVE [Gate!Next]_(Gate!vars)
  <2>1. UNCHANGED <<exit, job, drain>> /\ begin.at # "admitted" /\ begin'.at # "admitted"
    BY <1>1 DEF BeginEnters
  <2>. QED
    BY <2>1, Rests DEF Busy, Stage
<1>2. CASE BeginCounts
  <2>1. UNCHANGED <<exit, job, drain>> /\ begin'.at # "admitted"
    BY <1>2 DEF BeginCounts, Shapes
  <2>. QED
    BY <2>1, Rests DEF Busy, Stage
<1>3. CASE BeginLooksAgain
  <2>1. CASE exit # 0
    <3>1. UNCHANGED <<exit, job, drain>> /\ begin'.at # "admitted"
      BY <1>3, <2>1 DEF BeginLooksAgain, BeginGivesUp
    <3>. QED
      BY <3>1, Rests DEF Busy, Stage
  <2>2. CASE exit = 0
    <3>1. UNCHANGED <<exit, job, drain>> /\ begin'.at = "admitted"
      BY <1>3, <2>2 DEF BeginLooksAgain, Shapes
    <3>. QED
      BY <2>2, <3>1 DEF Gate!Next, Gate!Admit
  <2>. QED
    BY <2>1, <2>2
<1>4. CASE BeginFails
  <2>1. UNCHANGED <<exit, job, drain>> /\ begin'.at # "admitted"
    BY <1>4 DEF BeginFails, BeginGivesUp
  <2>. QED
    BY <2>1, Rests DEF Busy, Stage
<1>5. CASE BeginInserts
  <2>1. UNCHANGED <<exit, drain>> /\ begin.at = "admitted"
    BY <1>5 DEF BeginInserts
  <2>2. Busy /\ Busy'
    BY <1>5, <2>1, InsertsEffect DEF Busy
  <2>. QED
    BY <2>1, <2>2, Rests DEF Stage
<1>6. ASSUME NEW j \in Jobs, WorkerCleans(j) PROVE [Gate!Next]_(Gate!vars)
  BY <1>6, CleanupRests DEF WorkerCleans, Stage
<1>7. ASSUME NEW k \in Cancellers, CancelCleans(k) PROVE [Gate!Next]_(Gate!vars)
  BY <1>7, CleanupRests DEF CancelCleans, PhaseInv, Stage
<1>8. ASSUME \E j \in Jobs :
               \/ Appends(j) \/ Claim(j) \/ Start(j) \/ ChildEnds(j) \/ Publish(j)
               \/ WorkerSettles(j)
               \/ \E k \in Cancellers : CancelTakes(k, j) \/ CancelWaits(k, j)
      PROVE [Gate!Next]_(Gate!vars)
  <2>1. \A i \in Jobs : job'[i].lease <=> job[i].lease
    BY <1>8, AppendsEffect, ClaimEffect, StartEffect, ChildEndsEffect, PublishEffect,
       SettlesEffect, TakesEffect, WaitsEffect
       DEF Touched, Holdings, WorkerSettles, CancelTakes, CancelWaits
  <2>2. UNCHANGED <<exit, begin, drain>>
    BY <1>8 DEF Appends, Claim, Start, ChildEnds, Publish, WorkerSettles, CancelTakes, CancelWaits
  <2>. QED
    BY <2>1, <2>2, LeasesUnseen DEF Stage
<1>9. ASSUME NEW k \in Cancellers, CancelSettles(k) PROVE [Gate!Next]_(Gate!vars)
  <2>1. \A i \in Jobs : job'[i].lease <=> job[i].lease
    BY <1>9, SettlesEffect DEF CancelSettles, PhaseInv, Touched, Holdings
  <2>2. drain'.at = drain.at /\ UNCHANGED <<exit, begin>>
    BY <1>9, AnsweredTypes DEF CancelSettles, PhaseInv
  <2>. QED
    BY <2>1, <2>2, LeasesUnseen DEF Stage
<1>10. ASSUME NEW k \in Cancellers, NEW j \in Jobs, CancelFindsDone(k, j)
      PROVE [Gate!Next]_(Gate!vars)
  <2>1. drain'.at = drain.at /\ UNCHANGED <<exit, begin, job>>
    BY <1>10, AnsweredTypes DEF CancelFindsDone
  <2>. QED
    BY <2>1, LeasesUnseen DEF Stage
<1>11. ASSUME NEW k \in Cancellers, CancelHears(k) \/ CancelTimeout(k)
      PROVE [Gate!Next]_(Gate!vars)
  <2>1. drain'.at = drain.at /\ UNCHANGED <<exit, begin, job>>
    BY <1>11, AnsweredTypes DEF CancelHears, CancelTimeout, PhaseInv
  <2>. QED
    BY <2>1, LeasesUnseen DEF Stage
<1>12. ASSUME \/ \E j \in Jobs : MayStart(j) \/ WorkFails(j)
             \/ QuitGoes \/ UNCHANGED eVars
      PROVE [Gate!Next]_(Gate!vars)
  <2>1. UNCHANGED <<exit, begin, job, drain>>
    BY <1>12 DEF MayStart, WorkFails, QuitGoes, eVars
  <2>. QED
    BY <2>1, LeasesUnseen DEF Stage
<1>13. CASE QuitClaims
  <2>1. drain' = [drain EXCEPT !.at = "claimed"] /\ drain'.at = "claimed"
    BY <1>13 DEF QuitClaims, Shapes
  <2>. QED
    BY <1>13, <2>1 DEF QuitClaims, Gate!Next, Gate!Claim
<1>14. CASE QuitCounts
  <2>1. CASE active = 0
    <3>1. exit' = 3 /\ drain.at = "claimed" /\ drain'.at = "idle" /\ UNCHANGED <<begin, job>>
      BY <1>14, <2>1 DEF QuitCounts, Shapes
    <3>. QED
      BY <2>1, <3>1, NotBusy DEF Busy, Gate!Next, Gate!Counts, Gate!CountsNone
  <2>2. CASE active # 0
    <3>1. UNCHANGED <<exit, begin, job>> /\ drain.at = "claimed" /\ drain'.at = "list"
      BY <1>14, <2>2 DEF QuitCounts, Shapes
    <3>. QED
      BY <3>1 DEF Gate!Next, Gate!Counts, Gate!CountsSome
  <2>. QED
    BY <2>1, <2>2
<1>15. CASE DrainLists
  <2>1. UNCHANGED <<exit, begin, job>> /\ drain.at = "list" /\ drain'.at = "cancel"
    BY <1>15 DEF DrainLists
  <2>. QED
    BY <2>1, LeasesUnseen DEF Stage
<1>16. CASE DrainEnds
  <2>1. CASE drain.failed \/ active # 0
    <3>1. UNCHANGED <<exit, begin, job>> /\ drain.at = "cancel" /\ drain'.at = "message"
      BY <1>16, <2>1 DEF DrainEnds, Shapes
    <3>. QED
      BY <3>1 DEF Gate!Next, Gate!Ends, Gate!DrainFails
  <2>2. CASE ~(drain.failed \/ active # 0)
    <3>1. exit' = 3 /\ drain.at = "cancel" /\ drain'.at = "idle" /\ UNCHANGED <<begin, job>>
      BY <1>16, <2>2 DEF DrainEnds, Shapes
    <3>. QED
      BY <2>2, <3>1, NotBusy DEF Busy, Gate!Next, Gate!Ends, Gate!Drained
  <2>. QED
    BY <2>1, <2>2
<1>17. CASE MessageCloses
  <2>1. exit' = 2 /\ drain.at = "message" /\ drain'.at = "idle" /\ UNCHANGED <<begin, job>>
    BY <1>17 DEF MessageCloses, Shapes
  <2>. QED
    BY <2>1 DEF Gate!Next, Gate!MessageCloses
<1>. QED
  BY <1>1, <1>2, <1>3, <1>4, <1>5, <1>6, <1>7, <1>8, <1>9, <1>10, <1>11, <1>12, <1>13, <1>14, <1>15, <1>16, <1>17
     DEF ExportNext, BeginStep, EncoderStep,
     CancelStep, Cancel, DrainStep, Cancellers

(* Admission, jobs, workers, cancels and the drain keep what the gate      *)
(* promises to a quit: no export begins behind one that goes through       *)
(* (Lifecycle and prepare_exit in screen_export_jobs.rs).                  *)
THEOREM GateRefined == ExportSafety => Gate!Safety
<1>1. ExportInit => Gate!Init
  BY DEF ExportInit, Unborn, Gate!Init
<1>. QED
  BY <1>1, GateRefines, ExportInvariance, PTL DEF ExportSafety, Gate!Safety

-----------------------------------------------------------------------------
(* Downloads. The invariant: a name that is taken is some download's, what *)
(* progress tracks is the download's own path, and the list says of every  *)
(* download that shares its name with no other what the theorem does.      *)
DownloadRecords == [url : Pages, path : Names, settled : BOOLEAN,
                    state : {"going", "done", "canceled"} \cup Interruptions]
ListRows == [status : {"none", "started", "finished", "cancelled", "failed"},
             id : 0 .. MaxDownloads, resumable : BOOLEAN]

DownloadShapes ==
  /\ items \in Seq(DownloadRecords) /\ Len(items) <= MaxDownloads
  /\ files \in [Names -> {"free", "empty", "full"}]
  /\ placeholders \in Seq(Pages \X Names) /\ removals \subseteq Names
  /\ seen \in [Names -> ListRows]
  /\ DOMAIN live = Ids
  /\ cancelled \subseteq asked /\ asked \subseteq Ids
NamesTaken == \A p \in Names : files[p] # "free" => \E i \in DOMAIN items : items[i].path = p
TrackedIs == \A j \in Ids : live[j][2] # NoPath => j \in DOMAIN items /\ live[j][2] = items[j].path
ResumeIs == \A p \in Names : seen[p].resumable => seen[p].id \in DOMAIN items
OutcomeOf(i) ==
  LET row == seen[items[i].path] IN
    /\ row.status = "finished" <=> items[i].state = "done"
    /\ row.status = "cancelled" => i \in asked
    /\ row.id \in {0, i}
OutcomeIs == \A i \in DOMAIN items : ~Shares(i) => OutcomeOf(i)

DownloadsInductive == DownloadShapes /\ NamesTaken /\ TrackedIs /\ ResumeIs /\ OutcomeIs

LEMMA ItemsAre ==
  ASSUME DownloadShapes
  PROVE  /\ Len(items) \in Nat /\ DOMAIN items = 1 .. Len(items) /\ DOMAIN items \subseteq Ids
         /\ \A i \in DOMAIN items : items[i] \in DownloadRecords
         /\ 0 \notin Names /\ 0 \notin Ids
<1>1. items \in Seq(DownloadRecords) /\ Len(items) <= MaxDownloads
  BY DEF DownloadShapes
<1>2. Len(items) \in Nat /\ DOMAIN items = 1 .. Len(items) /\ \A i \in DOMAIN items : items[i] \in DownloadRecords
  BY <1>1
<1>. QED
  BY <1>1, <1>2, DownloadsAssumption DEF Ids, Names

(* As long as fewer downloads were begun than there are names, one is free *)
(* and unique_path finds it.                                               *)
LEMMA LeastNumber ==
  ASSUME NEW S, S \subseteq Nat, S # {}
  PROVE  \E m \in S : \A x \in S : m <= x
<1>. DEFINE less == {s \in Nat \X Nat : s[1] < s[2]}
<1>1. IsWellFoundedOn(less, Nat)
  BY NatLessThanWellFounded DEF OpToRel
<1>2. \A x, m \in Nat : x < m => <<x, m>> \in less
  OBVIOUS
<1>. HIDE DEF less
<1>3. \E m \in S : \A x \in S : ~(<<x, m>> \in less)
  BY <1>1, WFMin
<1>4. PICK m \in S : \A x \in S : ~(<<x, m>> \in less)
  BY <1>3
<1>5. ASSUME NEW x \in S PROVE m <= x
  <2>1. x \in Nat /\ m \in Nat /\ ~(x < m)
    BY <1>2, <1>4
  <2>. QED
    BY <2>1
<1>. QED
  BY <1>5

FirstFree(q) == files[q] = "free" /\ \A r \in 1 .. q - 1 : files[r] # "free"

LEMMA SomeNameFree ==
  ASSUME DownloadShapes, NamesTaken, Len(items) < MaxDownloads
  PROVE  \E q \in Names : FirstFree(q)
<1>. DEFINE Free == {q \in Names : files[q] = "free"}
            path == [i \in DOMAIN items |-> items[i].path]
<1>1. Free # {}
  <2>. SUFFICES ASSUME Free = {} PROVE FALSE
    OBVIOUS
  <2>1. \A q \in Names : \E i \in DOMAIN items : path[i] = q
    BY DEF NamesTaken
  <2>2. path \in [DOMAIN items -> Names]
    BY ItemsAre DEF DownloadRecords
  <2>3. path \in Surjection(DOMAIN items, Names)
    BY <2>1, <2>2 DEF Surjection
  <2>4. 1 \in Int /\ Len(items) \in Int /\ MaxDownloads \in Int
    BY ItemsAre, DownloadsAssumption
  <2>5. IsFiniteSet(1 .. Len(items)) /\ Cardinality(1 .. Len(items)) = IF 1 > Len(items) THEN 0 ELSE Len(items) - 1 + 1
    BY <2>4, FS_Interval
  <2>6. Cardinality(1 .. MaxDownloads) = IF 1 > MaxDownloads THEN 0 ELSE MaxDownloads - 1 + 1
    BY <2>4, FS_Interval
  <2>7. Cardinality(Names) <= Cardinality(1 .. Len(items))
    BY <2>3, <2>5, ItemsAre, FS_Surjection
  <2>. QED
    BY <2>5, <2>6, <2>7, ItemsAre, DownloadsAssumption DEF Names
<1>2. Free \subseteq Nat
  BY DownloadsAssumption DEF Names
<1>. HIDE DEF path
<1>3. PICK q \in Free : \A x \in Free : q <= x
  BY <1>1, <1>2, LeastNumber
<1>4. \A r \in 1 .. q - 1 : r \in Names /\ ~(q <= r)
  BY <1>2, DownloadsAssumption DEF Names
<1>5. FirstFree(q)
  BY <1>3, <1>4 DEF FirstFree
<1>. QED
  BY <1>5

LEMMA NameFound ==
  ASSUME DownloadShapes, NamesTaken, Len(items) < MaxDownloads
  PROVE  LET p == CHOOSE q \in Names : files[q] = "free" /\ \A r \in 1 .. q - 1 : files[r] # "free"
         IN  p \in Names /\ files[p] = "free"
<1>1. PICK q \in Names : FirstFree(q)
  BY SomeNameFree
<1>. QED
  BY <1>1 DEF FirstFree

(* take_placeholder finds one of those held, or none.                      *)
LEMMA HolderFound ==
  ASSUME DownloadShapes, NEW url, NEW path
  PROVE  Placeholder(url, path) \in {0} \cup DOMAIN placeholders
<1>1. placeholders \in Seq(Pages \X Names) /\ Len(placeholders) \in Nat /\ DOMAIN placeholders = 1 .. Len(placeholders)
  BY DEF DownloadShapes
<1>2. ASSUME NEW I, I \subseteq 1 .. Len(placeholders)
      PROVE  (IF I # {} THEN Min(I) ELSE 0) \in {0} \cup 1 .. Len(placeholders)
  <2>1. CASE I # {}
    <3>. I \subseteq Nat
      BY <1>1, <1>2
    <3>1. PICK m \in I : \A x \in I : m <= x
      BY <2>1, LeastNumber
    <3>2. Min(I) \in I
      BY <3>1 DEF Min
    <3>. QED
      BY <1>2, <3>2
  <2>. QED
    BY <2>1
<1>. DEFINE I == {i \in 1 .. Len(placeholders) : path # NoPath /\ placeholders[i][2] = path}
            J == {i \in 1 .. Len(placeholders) : placeholders[i][1] = url}
<1>3. SelectInSeq(placeholders, LAMBDA h : path # NoPath /\ h[2] = path) = IF I # {} THEN Min(I) ELSE 0
  BY DEF SelectInSeq
<1>4. SelectInSeq(placeholders, LAMBDA h : h[1] = url) = IF J # {} THEN Min(J) ELSE 0
  BY DEF SelectInSeq
<1>5. I \subseteq 1 .. Len(placeholders) /\ J \subseteq 1 .. Len(placeholders)
  OBVIOUS
<1>. HIDE DEF I, J
<1>. QED
  BY <1>1, <1>2, <1>3, <1>4, <1>5 DEF Placeholder

LEMMA HolderTaken ==
  ASSUME NEW s \in Seq(Pages \X Names), NEW i \in DOMAIN s
  PROVE  RemoveAt(s, i) \in Seq(Pages \X Names) /\ s[i][2] \in Names
<1>1. Len(s) \in Nat /\ i \in 1 .. Len(s) /\ s[i] \in Pages \X Names
  OBVIOUS
<1>2. SubSeq(s, 1, i - 1) \in Seq(Pages \X Names)
  <2>. QED
    BY <1>1
<1>3. SubSeq(s, i + 1, Len(s)) \in Seq(Pages \X Names)
  <2>. QED
    BY <1>1
<1>. QED
  BY <1>1, <1>2, <1>3 DEF RemoveAt

-----------------------------------------------------------------------------
(* One action at a time. Nothing changes the path of a download, so those  *)
(* that share their name are the same, or more, afterwards.                *)
LEMMA PathsKept ==
  ASSUME DownloadShapes, NEW i \in DOMAIN items, NEW r \in DownloadRecords,
         r.path = items[i].path, items' = [items EXCEPT ![i] = r]
  PROVE  /\ items' \in Seq(DownloadRecords) /\ Len(items') = Len(items)
         /\ DOMAIN items' = DOMAIN items
         /\ \A k \in DOMAIN items : items'[k] = IF k = i THEN r ELSE items[k]
         /\ \A k \in DOMAIN items : items'[k].path = items[k].path
         /\ \A k \in DOMAIN items : Shares(k)' <=> Shares(k)
<1>1. items \in Seq(DownloadRecords)
  BY DEF DownloadShapes
<1>2. items' \in Seq(DownloadRecords) /\ Len(items') = Len(items) /\ DOMAIN items' = DOMAIN items
  BY <1>1
<1>3. \A k \in DOMAIN items : items'[k] = IF k = i THEN r ELSE items[k]
  BY <1>1
<1>4. \A k \in DOMAIN items : items'[k].path = items[k].path
  BY <1>3
<1>5. \A k \in DOMAIN items : Shares(k)' <=> Shares(k)
  BY <1>2, <1>4 DEF Shares
<1>. QED
  BY <1>2, <1>3, <1>4, <1>5

LEMMA RequestedKeeps ==
  ASSUME DownloadsInductive, NEW url \in Pages, Requested(url)
  PROVE  DownloadsInductive'
<1>. USE DEF DownloadsInductive
<1>. DEFINE p == CHOOSE q \in Names : files[q] = "free" /\ \A r \in 1 .. q - 1 : files[r] # "free"
            new == [url |-> url, path |-> p, settled |-> FALSE, state |-> "going"]
            n == Len(items) + 1
            row == [Unlisted EXCEPT !.status = "started"]
<1>1. Len(items) < MaxDownloads
  BY ItemsAre, DownloadsAssumption DEF Requested
<1>2. p \in Names /\ files[p] = "free"
  BY <1>1, NameFound
<1>3. /\ items' = Append(items, new) /\ files' = [files EXCEPT ![p] = "empty"]
      /\ placeholders' = Append(placeholders, <<url, p>>) /\ seen' = [seen EXCEPT ![p] = row]
      /\ UNCHANGED <<live, cancelled, removals, asked>>
  BY DEF Requested
<1>. HIDE DEF p
<1>4. new \in DownloadRecords /\ new.path = p /\ new.state = "going"
  BY <1>2 DEF DownloadRecords
<1>5. row \in ListRows /\ row.status = "started" /\ row.id = 0 /\ row.resumable = FALSE
  <2>1. Unlisted \in ListRows /\ Unlisted.id = 0 /\ Unlisted.resumable = FALSE
    BY DownloadsAssumption DEF ListRows, Unlisted
  <2>. QED
    BY <2>1 DEF ListRows
<1>. HIDE DEF new, row
<1>6. /\ items' \in Seq(DownloadRecords) /\ Len(items') <= MaxDownloads
      /\ DOMAIN items' = DOMAIN items \cup {n} /\ n \notin DOMAIN items
      /\ items'[n] = new /\ \A k \in DOMAIN items : items'[k] = items[k]
  BY <1>1, <1>3, <1>4, ItemsAre, DownloadsAssumption DEF DownloadShapes
<1>. HIDE DEF n
<1>7. /\ files' \in [Names -> {"free", "empty", "full"}] /\ seen' \in [Names -> ListRows]
      /\ seen'[p] = row /\ \A q \in Names \ {p} : seen'[q] = seen[q] /\ files'[q] = files[q]
  BY <1>2, <1>3, <1>5 DEF DownloadShapes
<1>8. placeholders' \in Seq(Pages \X Names)
  BY <1>2, <1>3 DEF DownloadShapes
<1>9. DownloadShapes'
  BY <1>3, <1>6, <1>7, <1>8 DEF DownloadShapes
<1>10. NamesTaken'
  BY <1>4, <1>6, <1>7 DEF NamesTaken
<1>11. TrackedIs'
  BY <1>3, <1>6 DEF TrackedIs
<1>12. ResumeIs'
  BY <1>5, <1>6, <1>7 DEF ResumeIs
<1>13. ASSUME NEW i \in DOMAIN items', ~Shares(i)' PROVE OutcomeOf(i)'
  <2>1. CASE i = n
    BY <1>4, <1>5, <1>6, <1>7, <2>1 DEF OutcomeOf
  <2>2. CASE i # n
    <3>1. i \in DOMAIN items /\ items'[i] = items[i] /\ items[i].path # p
      BY <1>4, <1>6, <1>13, <2>2 DEF Shares
    <3>2. ~Shares(i)
      BY <1>6, <1>13, <3>1 DEF Shares
    <3>3. OutcomeOf(i) /\ items[i].path \in Names
      BY <3>1, <3>2, ItemsAre DEF OutcomeIs, DownloadRecords
    <3>. QED
      BY <1>3, <1>7, <3>1, <3>3 DEF OutcomeOf
  <2>. QED
    BY <2>1, <2>2
<1>. QED
  BY <1>9, <1>10, <1>11, <1>12, <1>13 DEF OutcomeIs

LEMMA SettlesKeeps ==
  ASSUME DownloadsInductive, NEW i \in DOMAIN items, Settles(i)
  PROVE  DownloadsInductive'
<1>. USE DEF DownloadsInductive
<1>. DEFINE r == [items[i] EXCEPT !.settled = TRUE]
<1>1. items[i] \in DownloadRecords
  BY ItemsAre
<1>2. r \in DownloadRecords /\ r.path = items[i].path /\ r.state = items[i].state
  BY <1>1 DEF DownloadRecords
<1>3. items' = [items EXCEPT ![i] = r] /\ UNCHANGED <<files, live, cancelled, placeholders, removals, seen, asked>>
  BY DEF Settles
<1>. HIDE DEF r
<1>4. /\ items' \in Seq(DownloadRecords) /\ Len(items') = Len(items) /\ DOMAIN items' = DOMAIN items
      /\ \A k \in DOMAIN items : items'[k] = IF k = i THEN r ELSE items[k]
      /\ \A k \in DOMAIN items : items'[k].path = items[k].path
      /\ \A k \in DOMAIN items : Shares(k)' <=> Shares(k)
  BY <1>2, <1>3, PathsKept
<1>5. DownloadShapes'
  BY <1>3, <1>4 DEF DownloadShapes
<1>6. NamesTaken' /\ TrackedIs' /\ ResumeIs'
  BY <1>3, <1>4 DEF NamesTaken, TrackedIs, ResumeIs
<1>7. \A k \in DOMAIN items : items'[k].state = items[k].state
  BY <1>2, <1>4
<1>8. OutcomeIs'
  BY <1>3, <1>4, <1>7 DEF OutcomeIs, OutcomeOf
<1>. QED
  BY <1>5, <1>6, <1>8

LEMMA TrackSays ==
  ASSUME DownloadShapes, NEW i \in DOMAIN items
  PROVE  /\ DOMAIN Track(i) = Ids /\ Track(i)[i][2] = PathOf(i)
         /\ \A k \in Ids \ {i} : Track(i)[k] = live[k]
         /\ PathOf(i) # NoPath => PathOf(i) = items[i].path
         /\ items[i].path \in Names /\ items[i].settled \in BOOLEAN
         /\ PathOf(i) = NoPath <=> ~items[i].settled
<1>1. items[i] \in DownloadRecords /\ i \in Ids /\ NoPath \notin Names
  BY ItemsAre DEF NoPath
<1>2. items[i].path \in Names /\ items[i].settled \in BOOLEAN
  BY <1>1 DEF DownloadRecords
<1>. QED
  BY <1>1, <1>2 DEF Track, PathOf, DownloadShapes

LEMMA ProgressKeeps ==
  ASSUME DownloadsInductive, NEW i \in DOMAIN items, Progress(i)
  PROVE  DownloadsInductive'
<1>. USE DEF DownloadsInductive
<1>1. live' = Track(i) /\ UNCHANGED <<items, files, cancelled, placeholders, removals, seen, asked>>
  BY DEF Progress
<1>2. DownloadShapes'
  BY <1>1, TrackSays DEF DownloadShapes
<1>3. TrackedIs'
  BY <1>1, TrackSays DEF TrackedIs
<1>4. NamesTaken' /\ ResumeIs'
  BY <1>1 DEF NamesTaken, ResumeIs
<1>5. OutcomeIs'
  BY <1>1 DEF OutcomeIs, OutcomeOf, Shares
<1>. QED
  BY <1>2, <1>3, <1>4, <1>5

LEMMA CancelKeeps ==
  ASSUME DownloadsInductive, NEW i \in DOMAIN items, CancelDownload(i)
  PROVE  DownloadsInductive'
<1>. USE DEF DownloadsInductive
<1>1. /\ cancelled' = cancelled \cup {i} /\ asked' = asked \cup {i}
      /\ UNCHANGED <<items, files, live, placeholders, removals, seen>>
  BY DEF CancelDownload
<1>2. DownloadShapes'
  BY <1>1, ItemsAre DEF DownloadShapes
<1>3. NamesTaken' /\ TrackedIs' /\ ResumeIs'
  BY <1>1 DEF NamesTaken, TrackedIs, ResumeIs
<1>4. OutcomeIs'
  BY <1>1 DEF OutcomeIs, OutcomeOf, Shares
<1>. QED
  BY <1>2, <1>3, <1>4

LEMMA RemovesKeeps ==
  ASSUME DownloadsInductive, NEW p \in removals, Removes(p)
  PROVE  DownloadsInductive'
<1>. USE DEF DownloadsInductive
<1>1. /\ removals' = removals \ {p}
      /\ files' = IF files[p] = "empty" THEN [files EXCEPT ![p] = "free"] ELSE files
      /\ UNCHANGED <<items, live, cancelled, placeholders, seen, asked>>
  BY DEF Removes
<1>2. DownloadShapes'
  BY <1>1 DEF DownloadShapes
<1>3. \A q \in Names : files'[q] # "free" => files[q] # "free"
  BY <1>1 DEF DownloadShapes
<1>4. NamesTaken' /\ TrackedIs' /\ ResumeIs'
  BY <1>1, <1>3 DEF NamesTaken, TrackedIs, ResumeIs
<1>5. OutcomeIs'
  BY <1>1 DEF OutcomeIs, OutcomeOf, Shares
<1>. QED
  BY <1>2, <1>4, <1>5

LEMMA ResumeKeeps ==
  ASSUME DownloadsInductive, NEW p \in Names, Resume(p)
  PROVE  DownloadsInductive'
<1>. USE DEF DownloadsInductive
<1>. DEFINE i == seen[p].id
            r == [items[i] EXCEPT !.state = "going"]
<1>1. /\ i \in DOMAIN items /\ items[i].state \in Interruptions
      /\ items' = [items EXCEPT ![i] = r]
      /\ UNCHANGED <<files, live, cancelled, placeholders, removals, seen, asked>>
  BY DEF Resume, ResumeIs
<1>2. items[i] \in DownloadRecords
  BY <1>1, ItemsAre
<1>3. r \in DownloadRecords /\ r.path = items[i].path /\ r.state = "going"
  BY <1>2 DEF DownloadRecords
<1>. HIDE DEF r, i
<1>4. /\ items' \in Seq(DownloadRecords) /\ Len(items') = Len(items) /\ DOMAIN items' = DOMAIN items
      /\ \A k \in DOMAIN items : items'[k] = IF k = i THEN r ELSE items[k]
      /\ \A k \in DOMAIN items : items'[k].path = items[k].path
      /\ \A k \in DOMAIN items : Shares(k)' <=> Shares(k)
  BY <1>1, <1>3, PathsKept
<1>5. DownloadShapes'
  BY <1>1, <1>4 DEF DownloadShapes
<1>6. NamesTaken' /\ TrackedIs' /\ ResumeIs'
  BY <1>1, <1>4 DEF NamesTaken, TrackedIs, ResumeIs
<1>7. \A k \in DOMAIN items : items'[k].state = "done" <=> items[k].state = "done"
  BY <1>1, <1>3, <1>4 DEF Interruptions
<1>8. OutcomeIs'
  BY <1>1, <1>4, <1>7 DEF OutcomeIs, OutcomeOf
<1>. QED
  BY <1>5, <1>6, <1>8

(* A download that shares its name with no other is the only one that its  *)
(* end is taken for: progress tracks nothing else at that path.            *)
LEMMA EndsAlone ==
  ASSUME DownloadShapes, TrackedIs, NEW i \in DOMAIN items, items[i].settled
  PROVE  /\ \A k \in Ended(items[i].url, PathOf(i), Track(i)) :
              k \in DOMAIN items /\ items[k].path = items[i].path
         /\ ~Shares(i) => Ended(items[i].url, PathOf(i), Track(i)) = {i}
<1>1. PathOf(i) = items[i].path /\ PathOf(i) # NoPath /\ i \in Ids
  BY TrackSays, ItemsAre
<1>2. ASSUME NEW k \in Ended(items[i].url, PathOf(i), Track(i))
      PROVE  k \in DOMAIN items /\ items[k].path = items[i].path
  <2>1. k \in Ids /\ Track(i)[k][2] = PathOf(i)
    BY <1>1 DEF Ended
  <2>2. CASE k # i
    BY <1>1, <2>1, <2>2, TrackSays DEF TrackedIs
  <2>. QED
    BY <2>2
<1>3. i \in Ended(items[i].url, PathOf(i), Track(i))
  BY <1>1, TrackSays DEF Ended
<1>. QED
  BY <1>2, <1>3 DEF Shares

LEMMA FinishedKeeps ==
  ASSUME DownloadsInductive, NEW i \in DOMAIN items,
         NEW how \in {"done", "canceled"} \cup Interruptions, Finished(i, how)
  PROVE  DownloadsInductive'
<1>. USE DEF DownloadsInductive
<1>. DEFINE path == PathOf(i)
            ended == Ended(items[i].url, path, Track(i))
            holder == Placeholder(items[i].url, path)
            status == IF how = "done" THEN "finished"
                      ELSE IF ended \cap cancelled # {} THEN "cancelled" ELSE "failed"
            r == [items[i] EXCEPT !.state = how]
<1>1. /\ \/ items[i].state = "going" /\ (items[i].settled \/ how = "canceled")
         \/ items[i].state \in Interruptions /\ how = "canceled"
      /\ items' = [items EXCEPT ![i] = r]
      /\ live' = [j \in Ids |-> IF j \in ended THEN Untracked ELSE Track(i)[j]]
      /\ cancelled' = cancelled \ ended
      /\ placeholders' = IF holder = 0 THEN placeholders ELSE RemoveAt(placeholders, holder)
      /\ removals' = IF holder = 0 \/ how = "done" THEN removals
                     ELSE removals \cup {placeholders[holder][2]}
      /\ files' = IF how = "done" THEN [files EXCEPT ![path] = "full"] ELSE files
      /\ UNCHANGED asked
  BY DEF Finished
<1>2. PICK j \in ended :
        seen' = IF path = NoPath THEN seen
                ELSE [seen EXCEPT ![path] =
                  [status |-> status, id |-> j, resumable |-> status = "failed" /\ how = "network"]]
  BY DEF Finished
<1>3. items[i] \in DownloadRecords /\ i \in Ids
  BY ItemsAre
<1>4. r \in DownloadRecords /\ r.path = items[i].path /\ r.state = how
  BY <1>3 DEF DownloadRecords
<1>. HIDE DEF r
<1>5. /\ items' \in Seq(DownloadRecords) /\ Len(items') = Len(items) /\ DOMAIN items' = DOMAIN items
      /\ \A k \in DOMAIN items : items'[k] = IF k = i THEN r ELSE items[k]
      /\ \A k \in DOMAIN items : items'[k].path = items[k].path
      /\ \A k \in DOMAIN items : Shares(k)' <=> Shares(k)
  BY <1>1, <1>4, PathsKept
<1>6. /\ path # NoPath => path = items[i].path /\ items[i].settled
      /\ items[i].path \in Names /\ (path = NoPath <=> ~items[i].settled)
  BY TrackSays
<1>7. items[i].state # "done" /\ (how = "done" => items[i].settled)
  BY <1>1 DEF Interruptions
<1>8. ended \subseteq Ids
  BY DEF Ended
<1>9. holder \in {0} \cup DOMAIN placeholders
  BY HolderFound
<1>10. items[i].settled => /\ \A k \in ended : k \in DOMAIN items /\ items[k].path = items[i].path
                           /\ ~Shares(i) => ended = {i}
  BY EndsAlone
<1>. HIDE DEF path, ended, holder
<1>11. placeholders' \in Seq(Pages \X Names) /\ removals' \subseteq Names
  <2>1. CASE holder = 0
    BY <1>1, <2>1 DEF DownloadShapes
  <2>2. CASE holder # 0
    <3>1. placeholders \in Seq(Pages \X Names) /\ holder \in DOMAIN placeholders
      BY <1>9, <2>2 DEF DownloadShapes
    <3>2. RemoveAt(placeholders, holder) \in Seq(Pages \X Names) /\ placeholders[holder][2] \in Names
      BY <3>1, HolderTaken
    <3>. QED
      BY <1>1, <2>2, <3>2 DEF DownloadShapes
  <2>. QED
    BY <2>1, <2>2
<1>12. /\ files' \in [Names -> {"free", "empty", "full"}]
       /\ \A q \in Names : files'[q] # "free" => files[q] # "free" \/ q = items[i].path
  BY <1>1, <1>6, <1>7 DEF DownloadShapes
<1>. DEFINE row == [status |-> status, id |-> j, resumable |-> status = "failed" /\ how = "network"]
<1>13. /\ row \in ListRows /\ row.id = j
       /\ row.status = "finished" <=> how = "done"
       /\ row.status = "cancelled" => ended \cap cancelled # {}
  BY <1>8, ItemsAre, DownloadsAssumption DEF ListRows, Ids
<1>14. seen' = IF path = NoPath THEN seen ELSE [seen EXCEPT ![path] = row]
  BY <1>2
<1>. HIDE DEF row, status
<1>15. /\ seen' \in [Names -> ListRows]
       /\ \A q \in Names : seen'[q] = IF q = path THEN row ELSE seen[q]
  <2>1. CASE path = NoPath
    BY <1>14, <2>1, ItemsAre DEF DownloadShapes, NoPath
  <2>2. CASE path # NoPath
    BY <1>6, <1>13, <1>14, <2>2 DEF DownloadShapes
  <2>. QED
    BY <2>1, <2>2
<1>16. DownloadShapes'
  BY <1>1, <1>5, <1>11, <1>12, <1>15 DEF DownloadShapes
<1>17. NamesTaken'
  BY <1>5, <1>12 DEF NamesTaken
<1>18. TrackedIs'
  <2>1. ASSUME NEW k \in Ids, live'[k][2] # NoPath PROVE k \in DOMAIN items /\ live'[k][2] = items[k].path
    <3>1. live'[k] = Track(i)[k]
      BY <1>1, <2>1 DEF Untracked
    <3>. QED
      BY <2>1, <3>1, TrackSays DEF TrackedIs
  <2>. QED
    BY <1>5, <2>1 DEF TrackedIs
<1>19. ResumeIs'
  <2>1. ASSUME NEW q \in Names, seen'[q].resumable PROVE seen'[q].id \in DOMAIN items
    <3>1. CASE q = path
      BY <1>2, <1>6, <1>10, <1>13, <1>15, <3>1, ItemsAre DEF NoPath
    <3>2. CASE q # path
      BY <1>15, <2>1, <3>2 DEF ResumeIs
    <3>. QED
      BY <3>1, <3>2
  <2>. QED
    BY <1>5, <2>1 DEF ResumeIs
<1>20. ASSUME NEW k \in DOMAIN items, ~Shares(k) PROVE OutcomeOf(k)'
  <2>1. OutcomeOf(k) /\ items[k].path \in Names /\ items'[k].path = items[k].path
    BY <1>5, <1>20, ItemsAre DEF OutcomeIs, DownloadRecords
  <2>2. CASE k # i
    <3>1. items[k].path # items[i].path /\ items'[k] = items[k]
      BY <1>5, <1>20, <2>2 DEF Shares
    <3>2. seen'[items[k].path] = seen[items[k].path]
      BY <1>6, <1>14, <1>15, <2>1, <3>1
    <3>. QED
      BY <1>1, <2>1, <3>1, <3>2 DEF OutcomeOf
  <2>3. CASE k = i /\ path = NoPath
    <3>1. seen'[items[k].path] = seen[items[k].path] /\ how # "done" /\ items'[k].state = how
      BY <1>4, <1>5, <1>6, <1>7, <1>14, <2>3
    <3>. QED
      BY <1>1, <1>7, <2>1, <2>3, <3>1 DEF OutcomeOf
  <2>4. CASE k = i /\ path # NoPath
    <3>1. ended = {i} /\ j = i
      BY <1>2, <1>6, <1>10, <1>20, <2>4
    <3>2. seen'[items'[k].path] = row /\ items'[k].state = how
      BY <1>4, <1>5, <1>6, <1>15, <2>1, <2>4
    <3>3. row.status = "cancelled" => i \in asked
      BY <1>13, <3>1 DEF DownloadShapes
    <3>. QED
      BY <1>1, <1>13, <2>4, <3>1, <3>2, <3>3 DEF OutcomeOf
  <2>. QED
    BY <2>2, <2>3, <2>4
<1>21. OutcomeIs'
  BY <1>5, <1>20 DEF OutcomeIs
<1>. QED
  BY <1>16, <1>17, <1>18, <1>19, <1>21

LEMMA DownloadsStart == DownloadsInit => DownloadsInductive
<1>. SUFFICES ASSUME DownloadsInit PROVE DownloadsInductive
  OBVIOUS
<1>1. DOMAIN items = {} /\ items \in Seq(DownloadRecords) /\ Len(items) = 0 /\ placeholders \in Seq(Pages \X Names)
  BY DEF DownloadsInit
<1>2. Unlisted \in ListRows /\ Unlisted.resumable = FALSE
  BY DownloadsAssumption DEF Unlisted, ListRows
<1>3. DownloadShapes
  BY <1>1, <1>2, DownloadsAssumption DEF DownloadsInit, DownloadShapes
<1>4. NamesTaken /\ TrackedIs /\ ResumeIs
  BY <1>2 DEF DownloadsInit, NamesTaken, TrackedIs, ResumeIs, Untracked
<1>5. OutcomeIs
  BY <1>1 DEF OutcomeIs
<1>. QED
  BY <1>3, <1>4, <1>5 DEF DownloadsInductive

LEMMA DownloadsStep == DownloadsInductive /\ [DownloadsNext]_dVars => DownloadsInductive'
<1>. SUFFICES ASSUME DownloadsInductive, [DownloadsNext]_dVars PROVE DownloadsInductive'
  OBVIOUS
<1>1. CASE UNCHANGED dVars
  BY <1>1 DEF dVars, DownloadsInductive, DownloadShapes, NamesTaken, TrackedIs, ResumeIs, OutcomeIs, OutcomeOf, Shares
<1>2. ASSUME NEW url \in Pages, Requested(url) PROVE DownloadsInductive'
  BY <1>2, RequestedKeeps
<1>3. ASSUME NEW i \in DOMAIN items, Settles(i) \/ Progress(i) \/ CancelDownload(i) PROVE DownloadsInductive'
  BY <1>3, SettlesKeeps, ProgressKeeps, CancelKeeps
<1>4. ASSUME NEW i \in DOMAIN items, NEW how \in {"done", "canceled"} \cup Interruptions, Finished(i, how)
      PROVE  DownloadsInductive'
  BY <1>4, FinishedKeeps
<1>5. ASSUME NEW p \in Names, Resume(p) PROVE DownloadsInductive'
  BY <1>5, ResumeKeeps
<1>6. ASSUME NEW p \in removals, Removes(p) PROVE DownloadsInductive'
  BY <1>6, RemovesKeeps
<1>. QED
  BY <1>1, <1>2, <1>3, <1>4, <1>5, <1>6 DEF DownloadsNext

(* Of a download that never shared its name the list says what became of   *)
(* it, whatever else came from the same address: DownloadsController's     *)
(* end, which learns nothing but an address and a path, takes it for no    *)
(* other.                                                                  *)
THEOREM OutcomesAreOwn == DownloadsSafety => []OwnOutcome
<1>1. DownloadsInductive => OwnOutcome
  <2>. SUFFICES ASSUME DownloadsInductive PROVE OwnOutcome
    OBVIOUS
  <2>1. \A i \in DOMAIN items : items[i].state \in {"going", "done", "canceled"} \cup Interruptions
    BY ItemsAre DEF DownloadsInductive, DownloadRecords
  <2>2. DownloadsTypeOK
    BY <2>1 DEF DownloadsInductive, DownloadShapes, DownloadsTypeOK
  <2>. QED
    BY <2>2 DEF DownloadsInductive, OutcomeIs, OutcomeOf, OwnOutcome
<1>. QED
  BY <1>1, DownloadsStart, DownloadsStep, PTL DEF DownloadsSafety
===============================================================================
