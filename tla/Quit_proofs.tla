----------------------------- MODULE Quit_proofs -----------------------------
(***************************************************************************)
(* Quitting lets nothing past: proofs of GateKept and RecordingsHeld for   *)
(* any number of tabs, looks, starts and requests at once. The bound on    *)
(* the requests is proved by counting who may still ask for an exit.       *)
(***************************************************************************)
EXTENDS Quit, FiniteSetTheorems, TLAPS

Shapes ==
  /\ posted \in Nat /\ starts \in 0 .. MaxStarts
  /\ confirm \in {"idle", "checking", "confirmed"}
  /\ looks \in [look : Nat, ask : Nat]
  /\ savers \in [list : Nat, poll : Nat, ask : Nat]
  /\ {shown, restart, busy} \subseteq BOOLEAN
  /\ rec \in [Tabs -> {"none", "live", "saving", "failed"}]
  /\ {starting, held, agreed, lost} \subseteq SUBSET Tabs
  /\ recExit \in {"idle", "saving", "released"}
  /\ exit \in 0 .. 3 /\ drain \in {"idle", "claimed", "drain", "message"}
  /\ phase \in {"up", "exiting", "gone"}

(* Who may still ask for an exit: a look or its question, a save or its    *)
(* question, a drain.                                                      *)
LookTasks == looks.look + looks.ask
SaveTasks == savers.list + savers.poll + savers.ask
Draining == IF drain \in {"claimed", "drain"} THEN 1 ELSE 0
Unheld == IF recExit = "idle" THEN 1 ELSE 0

(* A look starts only where none is left to come.                          *)
LookInv == LookTasks <= MaxLooks /\ (confirm = "idle" => LookTasks < MaxLooks)

(* The registry is ready to hold an exit once at first, and once more for  *)
(* every recording that began.                                             *)
SaveInv ==
  /\ IsFiniteSet(starting)
  /\ SaveTasks + Cardinality(starting) + Unheld <= starts + 1

PostInv ==
  posted + LookTasks + SaveTasks + Draining <= MaxPosted + MaxLooks + MaxStarts + 2

(* The gate's own invariant, and the program's part in it.                 *)
GateInv ==
  /\ exit = 1 <=> drain # "idle"
  /\ exit = 3 => ~busy
  /\ phase # "up" => exit = 3

(* An exit is not held only for recordings somebody has answered for.      *)
HeldInv == recExit # "idle" => Active \subseteq held \cup agreed \cup starting

QuitInductive == Shapes /\ LookInv /\ SaveInv /\ PostInv /\ GateInv /\ HeldInv

-------------------------------------------------------------------------------
(* One task more, one less, one a stage further.                           *)
LookRecords == [look : Int, ask : Int]
SaverRecords == [list : Int, poll : Int, ask : Int]

LEMMA Looks ==
  ASSUME NEW r \in LookRecords
  PROVE  /\ {Enter(r, "look"), Move(r, "look", "ask"), Leave(r, "look"), Leave(r, "ask")}
              \subseteq LookRecords
         /\ Enter(r, "look").look = r.look + 1 /\ Enter(r, "look").ask = r.ask
         /\ Move(r, "look", "ask").look = r.look - 1 /\ Move(r, "look", "ask").ask = r.ask + 1
         /\ Leave(r, "look").look = r.look - 1 /\ Leave(r, "look").ask = r.ask
         /\ Leave(r, "ask").look = r.look /\ Leave(r, "ask").ask = r.ask - 1
  BY DEF Enter, Move, Leave, LookRecords

LEMMA Savers ==
  ASSUME NEW r \in SaverRecords
  PROVE  /\ {Enter(r, "list"), Move(r, "list", "poll"), Move(r, "poll", "ask"),
             Leave(r, "poll"), Leave(r, "ask")} \subseteq SaverRecords
         /\ Enter(r, "list").list = r.list + 1
         /\ Enter(r, "list").poll = r.poll /\ Enter(r, "list").ask = r.ask
         /\ Move(r, "list", "poll").list = r.list - 1
         /\ Move(r, "list", "poll").poll = r.poll + 1 /\ Move(r, "list", "poll").ask = r.ask
         /\ Move(r, "poll", "ask").list = r.list
         /\ Move(r, "poll", "ask").poll = r.poll - 1 /\ Move(r, "poll", "ask").ask = r.ask + 1
         /\ Leave(r, "poll").list = r.list
         /\ Leave(r, "poll").poll = r.poll - 1 /\ Leave(r, "poll").ask = r.ask
         /\ Leave(r, "ask").list = r.list
         /\ Leave(r, "ask").poll = r.poll /\ Leave(r, "ask").ask = r.ask - 1
  BY DEF Enter, Move, Leave, SaverRecords

(* The three ends of a request: a look, a save, or the exports' word.      *)
LooksAt == Requested /\ LooksFirst
HeldBack == Requested /\ MayExit /\ SaveFirst /\ UNCHANGED <<shown, restart>>
Passes == Requested /\ MayExit /\ LetGo /\ ExportsNext /\ UNCHANGED <<shown, restart>>

LEMMA RequestEnds == Requested => LooksAt \/ HeldBack \/ Passes
  BY DEF Requested, LooksAt, HeldBack, Passes

LEMMA LookTypes ==
  ASSUME Shapes
  PROVE  /\ Enter(looks, "look") \in [look : Nat, ask : Nat]
         /\ looks.look > 0 => /\ Move(looks, "look", "ask") \in [look : Nat, ask : Nat]
                              /\ Leave(looks, "look") \in [look : Nat, ask : Nat]
         /\ looks.ask > 0 => Leave(looks, "ask") \in [look : Nat, ask : Nat]
<1>1. looks \in LookRecords /\ looks.look \in Nat /\ looks.ask \in Nat
  BY DEF Shapes, LookRecords
<1>2. ASSUME NEW r \in LookRecords, r.look \in Nat, r.ask \in Nat
      PROVE  r \in [look : Nat, ask : Nat]
  BY <1>2 DEF LookRecords
<1>3. Enter(looks, "look") \in [look : Nat, ask : Nat]
  BY <1>1, <1>2, Looks
<1>4. ASSUME looks.look > 0
      PROVE  /\ Move(looks, "look", "ask") \in [look : Nat, ask : Nat]
             /\ Leave(looks, "look") \in [look : Nat, ask : Nat]
  BY <1>1, <1>2, <1>4, Looks
<1>5. ASSUME looks.ask > 0 PROVE Leave(looks, "ask") \in [look : Nat, ask : Nat]
  BY <1>1, <1>2, <1>5, Looks
<1>. QED
  BY <1>3, <1>4, <1>5

LEMMA SaverTypes ==
  ASSUME Shapes
  PROVE  LET Counts == [list : Nat, poll : Nat, ask : Nat] IN
         /\ Enter(savers, "list") \in Counts
         /\ savers.list > 0 => Move(savers, "list", "poll") \in Counts
         /\ savers.poll > 0 => Move(savers, "poll", "ask") \in Counts /\ Leave(savers, "poll") \in Counts
         /\ savers.ask > 0 => Leave(savers, "ask") \in Counts
<1>1. savers \in SaverRecords /\ savers.list \in Nat /\ savers.poll \in Nat /\ savers.ask \in Nat
  BY DEF Shapes, SaverRecords
<1>2. ASSUME NEW r \in SaverRecords, r.list \in Nat, r.poll \in Nat, r.ask \in Nat
      PROVE  r \in [list : Nat, poll : Nat, ask : Nat]
  BY <1>2 DEF SaverRecords
<1>3. Enter(savers, "list") \in [list : Nat, poll : Nat, ask : Nat]
  BY <1>1, <1>2, Savers
<1>4. ASSUME savers.list > 0
      PROVE  Move(savers, "list", "poll") \in [list : Nat, poll : Nat, ask : Nat]
  BY <1>1, <1>2, <1>4, Savers
<1>5. ASSUME savers.poll > 0
      PROVE  /\ Move(savers, "poll", "ask") \in [list : Nat, poll : Nat, ask : Nat]
             /\ Leave(savers, "poll") \in [list : Nat, poll : Nat, ask : Nat]
  BY <1>1, <1>2, <1>5, Savers
<1>6. ASSUME savers.ask > 0
      PROVE  Leave(savers, "ask") \in [list : Nat, poll : Nat, ask : Nat]
  BY <1>1, <1>2, <1>6, Savers
<1>. QED
  BY <1>3, <1>4, <1>5, <1>6

LEMMA LookTotals ==
  ASSUME Shapes
  PROVE  /\ looks' = Enter(looks, "look") => LookTasks' = LookTasks + 1
         /\ looks' = Move(looks, "look", "ask") => LookTasks' = LookTasks
         /\ looks' \in {Leave(looks, "look"), Leave(looks, "ask")} => LookTasks' = LookTasks - 1
<1>1. looks \in LookRecords /\ looks.look \in Nat /\ looks.ask \in Nat
  BY DEF Shapes, LookRecords
<1>2. ASSUME looks' = Enter(looks, "look") PROVE LookTasks' = LookTasks + 1
  <2>1. looks'.look = looks.look + 1 /\ looks'.ask = looks.ask
    BY <1>1, <1>2, Looks
  <2>. QED
    BY <1>1, <2>1 DEF LookTasks
<1>3. ASSUME looks' = Move(looks, "look", "ask") PROVE LookTasks' = LookTasks
  <2>1. looks'.look = looks.look - 1 /\ looks'.ask = looks.ask + 1
    BY <1>1, <1>3, Looks
  <2>. QED
    BY <1>1, <2>1 DEF LookTasks
<1>4. ASSUME looks' = Leave(looks, "look") PROVE LookTasks' = LookTasks - 1
  <2>1. looks'.look = looks.look - 1 /\ looks'.ask = looks.ask
    BY <1>1, <1>4, Looks
  <2>. QED
    BY <1>1, <2>1 DEF LookTasks
<1>5. ASSUME looks' = Leave(looks, "ask") PROVE LookTasks' = LookTasks - 1
  <2>1. looks'.look = looks.look /\ looks'.ask = looks.ask - 1
    BY <1>1, <1>5, Looks
  <2>. QED
    BY <1>1, <2>1 DEF LookTasks
<1>. QED
  BY <1>2, <1>3, <1>4, <1>5

LEMMA SaverTotals ==
  ASSUME Shapes
  PROVE  /\ savers' = Enter(savers, "list") => SaveTasks' = SaveTasks + 1
         /\ savers' \in {Move(savers, "list", "poll"), Move(savers, "poll", "ask")} =>
              SaveTasks' = SaveTasks
         /\ savers' \in {Leave(savers, "poll"), Leave(savers, "ask")} =>
              SaveTasks' = SaveTasks - 1
<1>1. savers \in SaverRecords /\ savers.list \in Nat /\ savers.poll \in Nat /\ savers.ask \in Nat
  BY DEF Shapes, SaverRecords
<1>2. ASSUME savers' = Enter(savers, "list") PROVE SaveTasks' = SaveTasks + 1
  <2>1. savers'.list = savers.list + 1 /\ savers'.poll = savers.poll /\ savers'.ask = savers.ask
    BY <1>1, <1>2, Savers
  <2>. QED
    BY <1>1, <2>1 DEF SaveTasks
<1>3. ASSUME savers' = Move(savers, "list", "poll") PROVE SaveTasks' = SaveTasks
  <2>1. savers'.list = savers.list - 1 /\ savers'.poll = savers.poll + 1 /\ savers'.ask = savers.ask
    BY <1>1, <1>3, Savers
  <2>. QED
    BY <1>1, <2>1 DEF SaveTasks
<1>4. ASSUME savers' = Move(savers, "poll", "ask") PROVE SaveTasks' = SaveTasks
  <2>1. savers'.list = savers.list /\ savers'.poll = savers.poll - 1 /\ savers'.ask = savers.ask + 1
    BY <1>1, <1>4, Savers
  <2>. QED
    BY <1>1, <2>1 DEF SaveTasks
<1>5. ASSUME savers' = Leave(savers, "poll") PROVE SaveTasks' = SaveTasks - 1
  <2>1. savers'.list = savers.list /\ savers'.poll = savers.poll - 1 /\ savers'.ask = savers.ask
    BY <1>1, <1>5, Savers
  <2>. QED
    BY <1>1, <2>1 DEF SaveTasks
<1>6. ASSUME savers' = Leave(savers, "ask") PROVE SaveTasks' = SaveTasks - 1
  <2>1. savers'.list = savers.list /\ savers'.poll = savers.poll /\ savers'.ask = savers.ask - 1
    BY <1>1, <1>6, Savers
  <2>. QED
    BY <1>1, <2>1 DEF SaveTasks
<1>. QED
  BY <1>2, <1>3, <1>4, <1>5, <1>6

LEMMA ActiveTypes == Active \subseteq Tabs
  BY DEF Active

(* Every variable keeps its type.                                          *)
LEMMA ShapesStep == QuitInductive /\ [Next]_vars => Shapes'
<1>. SUFFICES ASSUME Shapes, [Next]_vars PROVE Shapes'
  BY DEF QuitInductive
<1>1. CASE LooksAt
  BY <1>1, LookTypes, SaverTypes DEF LooksAt, Requested, LooksFirst, looking, recording,
     given, gate, Shapes
<1>2. CASE HeldBack
  <2>1. held' \in SUBSET Tabs
    BY <1>2, ActiveTypes DEF HeldBack, SaveFirst, Shapes
  <2>2. UNCHANGED <<rec, starting, starts, agreed, lost, exit, busy, drain, phase, looks, shown,
                    restart>>
    BY <1>2 DEF HeldBack, MayExit, SaveFirst, given, gate
  <2>3. posted' = posted - 1 /\ posted > 0 /\ savers' = Enter(savers, "list") /\ recExit' = "saving"
        /\ confirm' \in {confirm, "confirmed"}
    BY <1>2 DEF HeldBack, Requested, MayExit, SaveFirst
  <2>. QED
    BY <2>1, <2>2, <2>3, SaverTypes DEF Shapes
<1>3. CASE Passes
  BY <1>3 DEF Passes, Requested, MayExit, LetGo, ExportsNext, Gate!Claim, looking,
     recording, given, gate, Shapes
<1>4. CASE ExportsCounted
  BY <1>4 DEF ExportsCounted, Gate!CountsNone, Gate!CountsSome, looking, recording, given,
     gate, Shapes
<1>5. CASE Exits
  BY <1>5 DEF Exits, looking, recording, given, gate, Shapes
<1>6. CASE Press
  BY <1>6 DEF Press, looking, recording, given, gate, Shapes
<1>7. CASE Update
  BY <1>7 DEF Update, looking, recording, given, gate, Shapes
<1>8. CASE LastWindowGoes
  <2>1. {shown', restart', busy'} \subseteq BOOLEAN
    BY <1>8 DEF LastWindowGoes, gate, Shapes
  <2>2. posted' = posted + 1
        /\ UNCHANGED <<looks, confirm, rec, starting, recExit, starts, held, agreed, lost,
                       savers, exit, drain, phase>>
    BY <1>8 DEF LastWindowGoes, looking, recording, given, gate
  <2>. QED
    BY <2>1, <2>2 DEF Shapes
<1>9. CASE QuitsAnyway
  BY <1>9, LookTypes, SaverTypes DEF QuitsAnyway, Goes, looking, recording, given, gate, Shapes
<1>10. CASE LosesIt
  <2>1. agreed' \in SUBSET Tabs /\ lost' \in SUBSET Tabs
    BY <1>10, ActiveTypes DEF LosesIt
  <2>2. UNCHANGED <<confirm, looks, shown, restart, rec, starting, starts, held, exit, busy,
                    drain, phase>>
    BY <1>10 DEF LosesIt, looking, gate
  <2>3. posted' = posted + 1 /\ savers.ask > 0 /\ savers' = Leave(savers, "ask")
        /\ recExit' = "released"
    BY <1>10 DEF LosesIt
  <2>. QED
    BY <2>1, <2>2, <2>3, SaverTypes DEF Shapes
<1>11. CASE Cancels
  BY <1>11, LookTypes, SaverTypes DEF Cancels, looking, recording, given, gate, Shapes
<1>12. CASE Stays
  BY <1>12, LookTypes, SaverTypes DEF Stays, looking, recording, given, gate, Shapes
<1>13. CASE MessageCloses
  BY <1>13 DEF MessageCloses, OfGate, Gate!MessageCloses, looking, recording, given, gate, Shapes
<1>14. CASE ExportBegins
  BY <1>14 DEF ExportBegins, OfGate, Gate!Admit, looking, recording, given, gate, Shapes
<1>15. ASSUME NEW t \in Tabs, Start(t) PROVE Shapes'
  <2>1. {starting', held', agreed', lost'} \subseteq SUBSET Tabs
    BY <1>15 DEF Start, Shapes
  <2>2. rec' \in [Tabs -> {"none", "live", "saving", "failed"}] /\ starts' \in 0 .. MaxStarts
    BY <1>15, BoundsAssumption DEF Start, Shapes
  <2>3. UNCHANGED <<posted, confirm, looks, shown, restart, recExit, savers, exit, busy, drain,
                    phase>>
    BY <1>15 DEF Start, looking, gate
  <2>. QED
    BY <2>1, <2>2, <2>3 DEF Shapes
<1>16. ASSUME NEW t \in Tabs, Stop(t) PROVE Shapes'
  BY <1>16 DEF Stop, looking, recording, given, gate, Shapes
<1>17. ASSUME NEW t \in Tabs, Discard(t) PROVE Shapes'
  BY <1>17 DEF Discard, looking, recording, given, gate, Shapes
<1>18. CASE LookEnds
  BY <1>18, LookTypes, SaverTypes DEF LookEnds, Goes, looking, recording, given, gate, Shapes
<1>19. CASE Lapse
  BY <1>19 DEF Lapse, looking, recording, given, gate, Shapes
<1>20. CASE SaverLists
  <2>1. held' \in SUBSET Tabs
    BY <1>20, ActiveTypes DEF SaverLists, Shapes
  <2>2. rec' \in [Tabs -> {"none", "live", "saving", "failed"}]
    BY <1>20 DEF SaverLists
  <2>3. UNCHANGED <<posted, confirm, looks, shown, restart, starting, recExit, starts, agreed,
                    lost, exit, busy, drain, phase>>
    BY <1>20 DEF SaverLists, looking, given, gate
  <2>4. savers.list > 0 /\ savers' = Move(savers, "list", "poll")
    BY <1>20 DEF SaverLists
  <2>. QED
    BY <2>1, <2>2, <2>3, <2>4, SaverTypes DEF Shapes
<1>21. CASE SaverPolls
  BY <1>21, LookTypes, SaverTypes DEF SaverPolls, looking, recording, given, gate, Shapes
<1>22. CASE ExportEnds
  BY <1>22 DEF ExportEnds, OfGate, Gate!Rest, looking, recording, given, gate, Shapes
<1>23. CASE DrainDone
  BY <1>23 DEF DrainDone, OfGate, Gate!Drained, looking, recording, given, gate, Shapes
<1>24. CASE DrainStuck
  BY <1>24 DEF DrainStuck, OfGate, Gate!DrainFails, looking, recording, given, gate, Shapes
<1>25. ASSUME NEW t \in Tabs, Begun(t) PROVE Shapes'
  BY <1>25 DEF Begun, looking, recording, given, gate, Shapes
<1>26. ASSUME NEW t \in Tabs, SaveEnds(t) PROVE Shapes'
  BY <1>26 DEF SaveEnds, looking, recording, given, gate, Shapes
<1>27. CASE UNCHANGED vars
  BY <1>27 DEF vars, looking, recording, given, gate, Shapes
<1>. QED
  BY <1>1, <1>2, <1>3, <1>4, <1>5, <1>6, <1>7, <1>8, <1>9, <1>10, <1>11, <1>12, <1>13,
     <1>14, <1>15, <1>16, <1>17, <1>18, <1>19, <1>20, <1>21, <1>22, <1>23, <1>24, <1>25,
     <1>26, <1>27, RequestEnds
     DEF Next, Main, Person, Called

(* A look starts only where the one before it has come to an end.          *)
LEMMA LookStep == QuitInductive /\ [Next]_vars => LookInv'
<1>. SUFFICES ASSUME Shapes, LookInv, [Next]_vars PROVE LookInv'
  BY DEF QuitInductive
<1>1. ASSUME \/ ExportsCounted \/ Exits \/ Press \/ Update \/ LastWindowGoes
             \/ LosesIt \/ Stays \/ MessageCloses \/ ExportBegins \/ SaverLists
             \/ SaverPolls \/ ExportEnds \/ DrainDone \/ DrainStuck \/ UNCHANGED vars
             \/ \E t \in Tabs : Start(t) \/ Stop(t) \/ Discard(t) \/ Begun(t) \/ SaveEnds(t)
      PROVE  LookInv'
  <2>1. UNCHANGED <<confirm, looks>>
    BY <1>1 DEF Begun, Discard, DrainDone, DrainStuck, Exits, ExportBegins, ExportEnds,
             ExportsCounted, Gate!Admit, Gate!CountsNone, Gate!CountsSome, Gate!DrainFails,
             Gate!Drained, Gate!MessageCloses, Gate!Rest, LastWindowGoes, LosesIt,
             MessageCloses, OfGate, Press, SaveEnds, SaverLists, SaverPolls, Start, Stays,
             Stop, Update, gate, looking, recording, vars
  <2>. QED
    BY <2>1 DEF LookInv, LookTasks
<1>2. CASE LooksAt
  <2>1. confirm = "idle" /\ confirm' = "checking" /\ looks' = Enter(looks, "look")
    BY <1>2 DEF LooksAt, LooksFirst
  <2>2. LookTasks' = LookTasks + 1
    BY <2>1, LookTotals
  <2>. QED
    BY <2>1, <2>2, BoundsAssumption DEF LookInv, LookTasks, Shapes
<1>3. CASE HeldBack
  <2>1. looks' = looks /\ (confirm' = confirm \/ confirm' = "confirmed")
    BY <1>3 DEF HeldBack, MayExit
  <2>. QED
    BY <2>1 DEF LookInv, LookTasks
<1>4. CASE Passes
  <2>1. looks' = looks /\ (confirm' = confirm \/ confirm' = "confirmed")
    BY <1>4 DEF Passes, MayExit
  <2>. QED
    BY <2>1 DEF LookInv, LookTasks
<1>5. CASE QuitsAnyway
  <2>1. LookTasks' = LookTasks - 1
    BY <1>5, LookTotals DEF QuitsAnyway
  <2>2. confirm' = "confirmed"
    BY <1>5 DEF QuitsAnyway, Goes
  <2>. QED
    BY <2>1, <2>2, BoundsAssumption DEF LookInv, LookTasks, Shapes
<1>6. CASE Cancels
  <2>1. LookTasks' = LookTasks - 1
    BY <1>6, LookTotals DEF Cancels
  <2>. QED
    BY <2>1, BoundsAssumption DEF LookInv, LookTasks, Shapes
<1>7. CASE LookEnds
  <2>1. \/ looks' = Leave(looks, "look") /\ LookTasks' = LookTasks - 1
        \/ looks' = Move(looks, "look", "ask") /\ LookTasks' = LookTasks
    BY <1>7, LookTotals DEF LookEnds
  <2>2. confirm' = confirm \/ confirm' = "confirmed"
    BY <1>7 DEF LookEnds, Goes
  <2>. QED
    BY <2>1, <2>2, BoundsAssumption DEF LookInv, LookTasks, Shapes
<1>8. CASE Lapse
  BY <1>8 DEF Lapse, LookInv, LookTasks
<1>. QED
  BY <1>1, <1>2, <1>3, <1>4, <1>5, <1>6, <1>7, <1>8, RequestEnds
     DEF Next, Main, Person, Called

LEMMA Begins ==
  ASSUME NEW t, t \notin starting, IsFiniteSet(starting), starting' = starting \cup {t}
  PROVE  IsFiniteSet(starting') /\ Cardinality(starting') = Cardinality(starting) + 1
  BY FS_AddElement

LEMMA Settles ==
  ASSUME NEW t \in starting, IsFiniteSet(starting), starting' = starting \ {t}
  PROVE  IsFiniteSet(starting') /\ Cardinality(starting') = Cardinality(starting) - 1
  BY FS_RemoveElement

(* One more save may be under way for every recording that has begun.      *)
LEMMA SaveStep == QuitInductive /\ [Next]_vars => SaveInv'
<1>. SUFFICES ASSUME Shapes, SaveInv, [Next]_vars PROVE SaveInv'
  BY DEF QuitInductive
<1>1. SaveTasks \in Nat /\ Cardinality(starting) \in Nat /\ starts \in Nat
  BY FS_CardinalityType, BoundsAssumption DEF SaveInv, SaveTasks, Shapes
<1>2. ASSUME \/ LooksAt \/ ExportsCounted \/ Exits \/ Press \/ Update
             \/ LastWindowGoes \/ QuitsAnyway \/ Cancels \/ MessageCloses
             \/ ExportBegins \/ LookEnds \/ Lapse \/ ExportEnds \/ DrainDone
             \/ DrainStuck \/ UNCHANGED vars
             \/ \E t \in Tabs : Stop(t) \/ Discard(t) \/ SaveEnds(t)
      PROVE  SaveInv'
  <2>1. UNCHANGED <<starting, starts, recExit, savers>>
    BY <1>2 DEF Cancels, Discard, DrainDone, DrainStuck, Exits, ExportBegins, ExportEnds,
             ExportsCounted, Gate!Admit, Gate!CountsNone, Gate!CountsSome, Gate!DrainFails,
             Gate!Drained, Gate!MessageCloses, Gate!Rest, Goes, Lapse, LastWindowGoes,
             LookEnds, LooksAt, LooksFirst, MessageCloses, OfGate, Press, QuitsAnyway,
             Requested, SaveEnds, Stop, Update, gate, looking, recording, vars
  <2>. QED
    BY <2>1 DEF SaveInv, SaveTasks, Unheld
<1>3. CASE HeldBack
  <2>1. SaveTasks' = SaveTasks + 1
    BY <1>3, SaverTotals DEF HeldBack, SaveFirst
  <2>2. UNCHANGED <<starting, starts>> /\ Unheld = 1 /\ Unheld' = 0
    BY <1>3 DEF HeldBack, SaveFirst, Unheld
  <2>. QED
    BY <1>1, <2>1, <2>2 DEF SaveInv
<1>4. CASE Passes
  <2>1. UNCHANGED <<starting, starts, savers>> /\ (recExit' = recExit \/ recExit' = "released")
    BY <1>4 DEF Passes, LetGo
  <2>. QED
    BY <1>1, <2>1 DEF SaveInv, SaveTasks, Unheld
<1>5. CASE LosesIt
  <2>1. SaveTasks' = SaveTasks - 1
    BY <1>5, SaverTotals DEF LosesIt
  <2>2. UNCHANGED <<starting, starts>> /\ recExit' = "released"
    BY <1>5 DEF LosesIt
  <2>. QED
    BY <1>1, <2>1, <2>2 DEF SaveInv, Unheld
<1>6. CASE Stays
  <2>1. SaveTasks' = SaveTasks - 1
    BY <1>6, SaverTotals DEF Stays
  <2>2. UNCHANGED <<starting, starts>> /\ recExit' = "idle"
    BY <1>6 DEF Stays
  <2>. QED
    BY <1>1, <2>1, <2>2 DEF SaveInv, Unheld
<1>7. ASSUME NEW t \in Tabs, Start(t) PROVE SaveInv'
  <2>1. UNCHANGED <<recExit, savers>> /\ starts' = starts + 1
    BY <1>7 DEF Start
  <2>2. IsFiniteSet(starting') /\ Cardinality(starting') = Cardinality(starting) + 1
    BY <1>7, Begins DEF Start, SaveInv
  <2>. QED
    BY <1>1, <2>1, <2>2 DEF SaveInv, SaveTasks, Unheld
<1>8. CASE SaverLists
  <2>1. SaveTasks' = SaveTasks
    BY <1>8, SaverTotals DEF SaverLists
  <2>2. UNCHANGED <<starting, starts, recExit>>
    BY <1>8 DEF SaverLists
  <2>. QED
    BY <1>1, <2>1, <2>2 DEF SaveInv, Unheld
<1>9. CASE SaverPolls
  <2>1. SaveTasks' = SaveTasks \/ SaveTasks' = SaveTasks - 1
    BY <1>9, SaverTotals DEF SaverPolls
  <2>2. UNCHANGED <<starting, starts, recExit>>
    BY <1>9 DEF SaverPolls, recording
  <2>. QED
    BY <1>1, <2>1, <2>2 DEF SaveInv, Unheld
<1>10. ASSUME NEW t \in Tabs, Begun(t) PROVE SaveInv'
  <2>1. UNCHANGED <<starts, savers>> /\ recExit' = "idle"
    BY <1>10 DEF Begun
  <2>2. IsFiniteSet(starting') /\ Cardinality(starting') = Cardinality(starting) - 1
    BY <1>10, Settles DEF Begun, SaveInv
  <2>. QED
    BY <1>1, <2>1, <2>2 DEF SaveInv, SaveTasks, Unheld
<1>. QED
  BY <1>2, <1>3, <1>4, <1>5, <1>6, <1>7, <1>8, <1>9, <1>10, RequestEnds
     DEF Next, Main, Person, Called

(* Whoever asks for an exit was counted before, but the person and the     *)
(* windows, and they ask only while few requests are pending.              *)
LEMMA PostStep == QuitInductive /\ [Next]_vars => PostInv'
<1>. SUFFICES ASSUME Shapes, LookInv, SaveInv, PostInv, [Next]_vars PROVE PostInv'
  BY DEF QuitInductive
<1>1. /\ posted \in Nat /\ LookTasks \in 0 .. MaxLooks /\ SaveTasks \in 0 .. MaxStarts + 1
      /\ Draining \in {0, 1} /\ {MaxPosted, MaxLooks, MaxStarts} \subseteq Nat
      /\ Draining' \in Int
  <2>1. Cardinality(starting) \in Nat /\ Unheld \in {0, 1} /\ SaveTasks \in Nat /\ LookTasks \in Nat
        /\ starts \in 0 .. MaxStarts /\ posted \in Nat
    BY FS_CardinalityType DEF SaveInv, SaveTasks, LookTasks, Unheld, Shapes
  <2>2. Draining \in {0, 1} /\ Draining' \in Int
    BY DEF Draining
  <2>. QED
    BY <2>1, <2>2, BoundsAssumption DEF SaveInv, LookInv
<1>2. ASSUME \/ Press \/ Update \/ LastWindowGoes
      PROVE  PostInv'
  <2>1. posted < MaxPosted /\ posted' = posted + 1
    BY <1>2 DEF Press, Update, LastWindowGoes
  <2>2. UNCHANGED <<looks, savers, drain>>
    BY <1>2 DEF LastWindowGoes, Press, Update, gate, looking, recording
  <2>. QED
    BY <1>1, <2>1, <2>2 DEF LookTasks, SaveTasks, Draining, PostInv
<1>3. ASSUME \/ Exits \/ ExportBegins \/ Lapse \/ ExportEnds \/ UNCHANGED vars
             \/ \E t \in Tabs : Start(t) \/ Stop(t) \/ Discard(t) \/ Begun(t) \/ SaveEnds(t)
      PROVE  PostInv'
  <2>1. UNCHANGED <<posted, looks, savers, drain>>
    BY <1>3 DEF Begun, Discard, Exits, ExportBegins, ExportEnds, Gate!Admit, Gate!Rest, Lapse,
             OfGate, SaveEnds, Start, Stop, gate, looking, recording, vars
  <2>. QED
    BY <2>1 DEF PostInv, LookTasks, SaveTasks, Draining
<1>4. CASE LooksAt
  <2>1. posted' = posted - 1 /\ LookTasks' = LookTasks + 1
    BY <1>4, LookTotals DEF LooksAt, Requested, LooksFirst
  <2>2. UNCHANGED <<savers, drain>>
    BY <1>4 DEF LooksAt, Requested, LooksFirst, looking, recording, given, gate
  <2>. QED
    BY <1>1, <2>1, <2>2 DEF PostInv, SaveTasks, Draining
<1>5. CASE HeldBack
  <2>1. posted' = posted - 1 /\ SaveTasks' = SaveTasks + 1
    BY <1>5, SaverTotals DEF HeldBack, Requested, SaveFirst
  <2>2. UNCHANGED <<looks, drain>>
    BY <1>5 DEF HeldBack, Requested, MayExit, SaveFirst, looking, recording, given, gate
  <2>. QED
    BY <1>1, <2>1, <2>2 DEF PostInv, LookTasks, Draining
<1>6. CASE Passes
  <2>1. posted' = posted - 1 /\ Draining' <= Draining + 1
    BY <1>6 DEF Passes, Requested, MayExit, LetGo, ExportsNext, Gate!Claim, looking,
       recording, given, gate, Draining
  <2>2. UNCHANGED <<looks, savers>>
    BY <1>6 DEF Passes, Requested, MayExit, LetGo, ExportsNext, Gate!Claim, looking,
       recording, given, gate
  <2>. QED
    BY <1>1, <2>1, <2>2 DEF PostInv, LookTasks, SaveTasks
<1>7. CASE ExportsCounted
  <2>1. posted' = posted /\ Draining' <= Draining
    BY <1>7 DEF ExportsCounted, Gate!CountsNone, Gate!CountsSome, looking, recording,
       given, gate, Draining
  <2>2. UNCHANGED <<looks, savers>>
    BY <1>7 DEF ExportsCounted, Gate!CountsNone, Gate!CountsSome, looking, recording, given, gate
  <2>. QED
    BY <1>1, <2>1, <2>2 DEF PostInv, LookTasks, SaveTasks
<1>8. CASE QuitsAnyway
  <2>1. posted' = posted + 1 /\ LookTasks' = LookTasks - 1
    BY <1>8, LookTotals DEF QuitsAnyway, Goes
  <2>2. UNCHANGED <<savers, drain>>
    BY <1>8 DEF QuitsAnyway, Goes, looking, recording, given, gate
  <2>. QED
    BY <1>1, <2>1, <2>2 DEF PostInv, SaveTasks, Draining
<1>9. CASE LosesIt
  <2>1. posted' = posted + 1 /\ SaveTasks' = SaveTasks - 1
    BY <1>9, SaverTotals DEF LosesIt
  <2>2. UNCHANGED <<looks, drain>>
    BY <1>9 DEF LosesIt, looking, recording, given, gate
  <2>. QED
    BY <1>1, <2>1, <2>2 DEF PostInv, LookTasks, Draining
<1>10. CASE Cancels
  <2>1. posted' = posted /\ LookTasks' = LookTasks - 1
    BY <1>10, LookTotals DEF Cancels
  <2>2. UNCHANGED <<savers, drain>>
    BY <1>10 DEF Cancels, looking, recording, given, gate
  <2>. QED
    BY <1>1, <2>1, <2>2 DEF PostInv, SaveTasks, Draining
<1>11. CASE Stays
  <2>1. posted' = posted /\ SaveTasks' = SaveTasks - 1
    BY <1>11, SaverTotals DEF Stays
  <2>2. UNCHANGED <<looks, drain>>
    BY <1>11 DEF Stays, looking, recording, given, gate
  <2>. QED
    BY <1>1, <2>1, <2>2 DEF PostInv, LookTasks, Draining
<1>12. CASE MessageCloses
  <2>1. posted' = posted /\ Draining' = Draining
    BY <1>12 DEF MessageCloses, OfGate, Gate!MessageCloses, looking, recording, given,
       gate, Draining
  <2>2. UNCHANGED <<looks, savers>>
    BY <1>12 DEF MessageCloses, OfGate, Gate!MessageCloses, looking, recording, given, gate
  <2>. QED
    BY <1>1, <2>1, <2>2 DEF PostInv, LookTasks, SaveTasks
<1>13. CASE LookEnds
  <2>1. \/ looks' = Leave(looks, "look") /\ posted' \in {posted, posted + 1}
        \/ looks' = Move(looks, "look", "ask") /\ posted' = posted
    BY <1>13 DEF LookEnds, Goes
  <2>2. \/ LookTasks' = LookTasks - 1 /\ posted' \in {posted, posted + 1}
        \/ LookTasks' = LookTasks /\ posted' = posted
    BY <2>1, LookTotals
  <2>3. UNCHANGED <<savers, drain>>
    BY <1>13 DEF LookEnds, Goes, looking, recording, given, gate
  <2>. QED
    BY <1>1, <2>2, <2>3 DEF PostInv, SaveTasks, Draining
<1>14. CASE SaverLists
  <2>1. posted' = posted /\ SaveTasks' = SaveTasks
    BY <1>14, SaverTotals DEF SaverLists
  <2>2. UNCHANGED <<looks, drain>>
    BY <1>14 DEF SaverLists, looking, recording, given, gate
  <2>. QED
    BY <1>1, <2>1, <2>2 DEF PostInv, LookTasks, Draining
<1>15. CASE SaverPolls
  <2>1. \/ savers' = Leave(savers, "poll") /\ posted' \in {posted, posted + 1}
        \/ savers' = Move(savers, "poll", "ask") /\ posted' = posted
    BY <1>15 DEF SaverPolls
  <2>2. \/ SaveTasks' = SaveTasks - 1 /\ posted' \in {posted, posted + 1}
        \/ SaveTasks' = SaveTasks /\ posted' = posted
    BY <2>1, SaverTotals
  <2>3. UNCHANGED <<looks, drain>>
    BY <1>15 DEF SaverPolls, looking, recording, given, gate
  <2>. QED
    BY <1>1, <2>2, <2>3 DEF PostInv, LookTasks, Draining
<1>16. CASE DrainDone
  <2>1. posted' = posted + 1 /\ Draining' = Draining - 1
    BY <1>16 DEF DrainDone, OfGate, Gate!Drained, looking, recording, given, gate, Draining
  <2>2. UNCHANGED <<looks, savers>>
    BY <1>16 DEF DrainDone, OfGate, Gate!Drained, looking, recording, given, gate
  <2>. QED
    BY <1>1, <2>1, <2>2 DEF PostInv, LookTasks, SaveTasks
<1>17. CASE DrainStuck
  <2>1. posted' = posted /\ Draining' = Draining - 1
    BY <1>17 DEF DrainStuck, OfGate, Gate!DrainFails, looking, recording, given, gate, Draining
  <2>2. UNCHANGED <<looks, savers>>
    BY <1>17 DEF DrainStuck, OfGate, Gate!DrainFails, looking, recording, given, gate
  <2>. QED
    BY <1>1, <2>1, <2>2 DEF PostInv, LookTasks, SaveTasks
<1>. QED
  BY <1>2, <1>3, <1>4, <1>5, <1>6, <1>7, <1>8, <1>9, <1>10, <1>11, <1>12, <1>13, <1>14,
     <1>15, <1>16, <1>17, RequestEnds
     DEF Next, Main, Person, Called

(* What a quit has claimed stays claimed, and what it shut stays shut.     *)
LEMMA GateStep == QuitInductive /\ [Next]_vars => GateInv'
<1>. SUFFICES ASSUME Shapes, GateInv, [Next]_vars PROVE GateInv'
  BY DEF QuitInductive
<1>1. ASSUME \/ LooksAt \/ HeldBack \/ Press \/ Update \/ LastWindowGoes
             \/ QuitsAnyway \/ LosesIt \/ Cancels \/ Stays \/ LookEnds \/ Lapse
             \/ SaverLists \/ SaverPolls \/ UNCHANGED vars
             \/ \E t \in Tabs : Start(t) \/ Stop(t) \/ Discard(t) \/ Begun(t) \/ SaveEnds(t)
      PROVE  GateInv'
  <2>1. UNCHANGED <<exit, drain, phase>> /\ (busy' <=> busy)
    BY <1>1 DEF Begun, Cancels, Discard, Goes, HeldBack, Lapse, LastWindowGoes, LookEnds,
             LooksAt, LooksFirst, LosesIt, MayExit, Press, QuitsAnyway, Requested, SaveEnds,
             SaveFirst, SaverLists, SaverPolls, Start, Stays, Stop, Update, gate, looking,
             recording, vars
  <2>. QED
    BY <2>1 DEF GateInv
<1>2. CASE Passes
  BY <1>2 DEF Passes, Requested, MayExit, LetGo, ExportsNext, Gate!Claim, looking,
     recording, given, gate, GateInv, Shapes
<1>3. CASE ExportsCounted
  BY <1>3 DEF ExportsCounted, Gate!CountsNone, Gate!CountsSome, looking, recording, given,
     gate, GateInv, Shapes
<1>4. CASE Exits
  BY <1>4 DEF Exits, looking, recording, given, gate, GateInv, Shapes
<1>5. CASE MessageCloses
  BY <1>5 DEF MessageCloses, OfGate, Gate!MessageCloses, looking, recording, given, gate,
     GateInv, Shapes
<1>6. CASE ExportBegins
  BY <1>6 DEF ExportBegins, OfGate, Gate!Admit, looking, recording, given, gate, GateInv, Shapes
<1>7. CASE ExportEnds
  BY <1>7 DEF ExportEnds, OfGate, Gate!Rest, looking, recording, given, gate, GateInv, Shapes
<1>8. CASE DrainDone
  BY <1>8 DEF DrainDone, OfGate, Gate!Drained, looking, recording, given, gate, GateInv, Shapes
<1>9. CASE DrainStuck
  BY <1>9 DEF DrainStuck, OfGate, Gate!DrainFails, looking, recording, given, gate,
     GateInv, Shapes
<1>. QED
  BY <1>1, <1>2, <1>3, <1>4, <1>5, <1>6, <1>7, <1>8, <1>9, RequestEnds
     DEF Next, Main, Person, Called

(* An exit let past has an answer for every recording that is open.        *)
LEMMA HeldStep == QuitInductive /\ [Next]_vars => HeldInv'
<1>. SUFFICES ASSUME Shapes, HeldInv, [Next]_vars PROVE HeldInv'
  BY DEF QuitInductive
<1>1. ASSUME \/ LooksAt \/ ExportsCounted \/ Press \/ Update \/ LastWindowGoes
             \/ QuitsAnyway \/ Cancels \/ MessageCloses \/ ExportBegins \/ LookEnds
             \/ Lapse \/ SaverPolls \/ ExportEnds \/ DrainDone \/ DrainStuck
             \/ UNCHANGED vars
      PROVE  HeldInv'
  <2>1. UNCHANGED <<rec, recExit, held, agreed, starting>>
    BY <1>1 DEF Cancels, DrainDone, DrainStuck, ExportBegins, ExportEnds, ExportsCounted,
             Gate!Admit, Gate!CountsNone, Gate!CountsSome, Gate!DrainFails, Gate!Drained,
             Gate!MessageCloses, Gate!Rest, Goes, Lapse, LastWindowGoes, LookEnds, LooksAt,
             LooksFirst, MessageCloses, OfGate, Press, QuitsAnyway, Requested, SaverPolls,
             Update, gate, given, looking, recording, vars
  <2>. QED
    BY <2>1 DEF HeldInv, Active
<1>2. CASE HeldBack
  BY <1>2 DEF HeldBack, Requested, MayExit, SaveFirst, looking, recording, given, gate,
     HeldInv, Active, Shapes
<1>3. CASE Passes
  BY <1>3 DEF Passes, Requested, MayExit, LetGo, ExportsNext, Gate!Claim, looking,
     recording, given, gate, HeldInv, Active, Shapes
<1>4. CASE Exits
  BY <1>4 DEF Exits, looking, recording, given, gate, HeldInv, Active, Shapes
<1>5. CASE LosesIt
  BY <1>5 DEF LosesIt, looking, recording, given, gate, HeldInv, Active, Shapes
<1>6. CASE Stays
  BY <1>6 DEF Stays, looking, recording, given, gate, HeldInv, Active, Shapes
<1>7. ASSUME NEW t \in Tabs, Start(t) PROVE HeldInv'
  BY <1>7 DEF Start, looking, recording, given, gate, HeldInv, Active, Shapes
<1>8. ASSUME NEW t \in Tabs, Stop(t) PROVE HeldInv'
  BY <1>8 DEF Stop, looking, recording, given, gate, HeldInv, Active, Shapes
<1>9. ASSUME NEW t \in Tabs, Discard(t) PROVE HeldInv'
  BY <1>9 DEF Discard, looking, recording, given, gate, HeldInv, Active, Shapes
<1>10. CASE SaverLists
  BY <1>10 DEF SaverLists, looking, recording, given, gate, HeldInv, Active, Shapes
<1>11. ASSUME NEW t \in Tabs, Begun(t) PROVE HeldInv'
  BY <1>11 DEF Begun, looking, recording, given, gate, HeldInv, Active, Shapes
<1>12. ASSUME NEW t \in Tabs, SaveEnds(t) PROVE HeldInv'
  BY <1>12 DEF SaveEnds, looking, recording, given, gate, HeldInv, Active, Shapes
<1>. QED
  BY <1>1, <1>2, <1>3, <1>4, <1>5, <1>6, <1>7, <1>8, <1>9, <1>10, <1>11, <1>12, RequestEnds
     DEF Next, Main, Person, Called

-------------------------------------------------------------------------------
(* The inductive invariant.                                                *)
THEOREM QuitInvariance == Safety => []QuitInductive
<1>1. ASSUME Init PROVE QuitInductive
  <2>. USE <1>1, BoundsAssumption DEF Init, Gate!Init
  <2>1. {shown, restart, busy} \subseteq BOOLEAN
    OBVIOUS
  <2>2. /\ looks \in [look : Nat, ask : Nat] /\ savers \in [list : Nat, poll : Nat, ask : Nat]
        /\ rec \in [Tabs -> {"none", "live", "saving", "failed"}]
    OBVIOUS
  <2>3. Shapes
    BY <2>1, <2>2 DEF Shapes
  <2>4. LookTasks = 0 /\ SaveTasks = 0 /\ Draining = 0 /\ Unheld = 1
    BY DEF LookTasks, SaveTasks, Draining, Unheld
  <2>5. LookInv /\ PostInv
    BY <2>4 DEF LookInv, PostInv
  <2>6. SaveInv
    BY <2>4, FS_EmptySet DEF SaveInv
  <2>7. GateInv /\ HeldInv
    BY DEF GateInv, HeldInv
  <2>. QED
    BY <2>3, <2>5, <2>6, <2>7 DEF QuitInductive
<1>2. QuitInductive /\ [Next]_vars => QuitInductive'
  BY ShapesStep, LookStep, SaveStep, PostStep, GateStep, HeldStep DEF QuitInductive
<1>. QED
  BY <1>1, <1>2, PTL DEF Safety

LEMMA QuitTypes == QuitInductive => TypeOK
<1>. SUFFICES ASSUME Shapes, LookInv, SaveInv, PostInv PROVE TypeOK
  BY DEF QuitInductive
<1>1. /\ LookTasks \in 0 .. MaxLooks /\ SaveTasks \in 0 .. MaxStarts + 1
      /\ posted \in 0 .. MaxPosted + MaxLooks + MaxStarts + 2
  <2>1. /\ Cardinality(starting) \in Nat /\ Unheld \in {0, 1} /\ SaveTasks \in Nat
        /\ LookTasks \in Nat /\ starts \in 0 .. MaxStarts /\ posted \in Nat /\ Draining \in {0, 1}
    BY FS_CardinalityType DEF SaveInv, SaveTasks, LookTasks, Unheld, Draining, Shapes
  <2>. QED
    BY <2>1, BoundsAssumption DEF SaveInv, LookInv, PostInv
<1>2. looks \in [look : 0 .. MaxLooks, ask : 0 .. MaxLooks]
  <2>1. looks.look \in 0 .. MaxLooks /\ looks.ask \in 0 .. MaxLooks
    BY <1>1, BoundsAssumption DEF LookTasks, Shapes
  <2>. QED
    BY <2>1 DEF Shapes
<1>3. savers \in [list : 0 .. MaxStarts + 1, poll : 0 .. MaxStarts + 1, ask : 0 .. MaxStarts + 1]
  <2>1. {savers.list, savers.poll, savers.ask} \subseteq 0 .. MaxStarts + 1
    BY <1>1, BoundsAssumption DEF SaveTasks, Shapes
  <2>. QED
    BY <2>1 DEF Shapes
<1>. QED
  BY <1>1, <1>2, <1>3 DEF TypeOK, Shapes

(* An exit begins, or reaches the exports, only past the recordings.       *)
LEMMA PastRecordings ==
  ASSUME QuitInductive, [Next]_vars, LetPast
  PROVE  Active \subseteq held \cup agreed \cup starting
<1>1. CASE Passes
  BY <1>1 DEF Passes, LetGo, QuitInductive, HeldInv
<1>2. ASSUME ~Passes PROVE FALSE
  <2>1. ASSUME ExportsCounted PROVE FALSE
    BY <2>1 DEF ExportsCounted, Gate!CountsNone, Gate!CountsSome, LetPast
  <2>2. ASSUME LooksAt \/ HeldBack \/ LookEnds \/ QuitsAnyway PROVE FALSE
    BY <2>2 DEF LooksAt, HeldBack, LooksFirst, SaveFirst, LookEnds, QuitsAnyway, gate, LetPast
  <2>3. ASSUME \/ Exits \/ Press \/ Update \/ LastWindowGoes \/ LosesIt \/ Cancels \/ Stays
               \/ Lapse \/ SaverLists \/ SaverPolls \/ UNCHANGED vars
               \/ \E t \in Tabs : Start(t) \/ Stop(t) \/ Discard(t) \/ Begun(t) \/ SaveEnds(t)
        PROVE  FALSE
    <3>1. UNCHANGED drain /\ (phase' = phase \/ phase' = "gone")
      BY <2>3 DEF Exits, Press, Update, LastWindowGoes, LosesIt, Cancels, Stays, Lapse,
                  SaverLists, SaverPolls, Start, Stop, Discard, Begun, SaveEnds, vars, gate
    <3>. QED
      BY <3>1 DEF LetPast
  <2>4. ASSUME MessageCloses \/ ExportBegins \/ ExportEnds \/ DrainDone \/ DrainStuck
        PROVE  FALSE
    BY <2>4 DEF MessageCloses, ExportBegins, ExportEnds, DrainDone, DrainStuck, OfGate,
                Gate!MessageCloses, Gate!Admit, Gate!Rest, Gate!Drained, Gate!DrainFails,
                LetPast
  <2>. QED
    BY <1>2, <2>1, <2>2, <2>3, <2>4, RequestEnds DEF Next, Main, Person, Called
<1>. QED
  BY <1>1, <1>2

(* Dive goes only with the exports' gate shut, and an exit is let past a   *)
(* recording only if an exit was held to save it, or it was open when the  *)
(* person, asked about one that could not be saved, let Dive go, or its    *)
(* start has not come to forget what earlier quits were told: however      *)
(* quits, saves and new recordings interleave (prepare_exit in             *)
(* screencast.rs, and quit.rs).                                            *)
THEOREM NothingLetPast == Safety => RecordingsHeld
<1>1. QuitInductive => TypeOK /\ GateKept
  BY QuitTypes DEF QuitInductive, GateInv, GateKept, Shapes
<1>2. QuitInductive /\ [Next]_vars => [LetPast => Active \subseteq held \cup agreed \cup starting]_vars
  BY PastRecordings
<1>. QED
  BY <1>1, <1>2, QuitInvariance, PTL DEF Safety, RecordingsHeld

===============================================================================
