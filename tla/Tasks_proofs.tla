----------------------------- MODULE Tasks_proofs -----------------------------
(***************************************************************************)
(* Proofs about tasks that go on while what they were begun for changes:   *)
(* the agent's run (AgentRun: ToolsAreAllowed, RowsAreAnswered) and the    *)
(* recovery of a tab whose renderer died (Crash: CrashInvariance is the    *)
(* inductive invariant, BudgetIsKept and PromisesAreKept follow).          *)
(***************************************************************************)
EXTENDS AgentRun, Crash, TLAPS

-------------------------------------------------------------------------------
(* A call that was announced.                                              *)
RowRecords == [answers : Nat, ran : BOOLEAN, exempt : BOOLEAN, allowed : BOOLEAN]
Before == {"idle", "context", "page", "top", "open", "backoff"}
Calling == {"aim", "ask", "look", "launch", "tool"}
Ended == {"closing", "over"}

AgentShapes ==
  /\ rows \in Seq(RowRecords) /\ Len(rows) <= MaxRows
  /\ run \in Before \cup Calling \cup Ended \cup {"reply"}
  /\ attempt \in 1 .. Attempts /\ steps \in 0 .. MaxSteps
  /\ next \in 1 .. Len(rows) + 1 /\ asking \in 0 .. Len(rows)
  /\ {cancelled, listening} \subseteq BOOLEAN
  /\ verdict \in {"none", "allowed", "denied", "unanswered"} /\ word \in {"none", "allow", "deny"}

(* Whose turn it is: nobody's between the rounds.                          *)
TurnInv ==
  /\ run \in Before => next = Len(rows) + 1
  /\ run \in Calling => next <= Len(rows)

(* Those before it have been answered. A run that is over has answered     *)
(* all it announced, unless nobody listens.                                *)
AnsweredInv ==
  \A i \in 1 .. Len(rows) :
    IF run \in Ended
    THEN rows[i].answers \in {0, 1} /\ (listening => rows[i].answers = 1)
    ELSE rows[i].answers = IF i < next THEN 1 ELSE 0

(* A question is about the call whose turn it is, and so is its answer.    *)
AskedInv ==
  /\ asking # 0 => run = "ask" /\ asking = next /\ word = "none"
  /\ run = "ask" /\ word = "allow" => rows[next].allowed
  /\ run = "look" /\ verdict = "allowed" => rows[next].exempt \/ rows[next].allowed
  /\ run = "launch" => rows[next].exempt \/ rows[next].allowed

(* What has run was allowed, and its turn has come.                        *)
RanInv ==
  \A i \in 1 .. Len(rows) :
    rows[i].ran => /\ rows[i].exempt \/ rows[i].allowed
                   /\ i < next \/ (i = next /\ run = "tool")

LateInv == late \in {0, 1} /\ (late = 1 => cancelled /\ run # "launch")

AgentInductive == AgentShapes /\ TurnInv /\ AnsweredInv /\ AskedInv /\ RanInv /\ LateInv

(* What becomes of one call.                                               *)
OneRow(i) ==
  /\ rows' \in Seq(RowRecords) /\ Len(rows') = Len(rows) /\ Len(rows) \in Nat
  /\ \A j \in 1 .. Len(rows) : j # i => rows'[j] = rows[j]

LEMMA PutRow ==
  ASSUME AgentShapes, NEW i \in 1 .. Len(rows), NEW r \in RowRecords, rows' = [rows EXCEPT ![i] = r]
  PROVE  OneRow(i) /\ rows'[i] = r
  BY DEF AgentShapes, OneRow

LEMMA DoneEffect ==
  ASSUME AgentShapes, NEW i \in 1 .. Len(rows), rows' = Done(i)
  PROVE  /\ OneRow(i)
         /\ rows'[i].answers = rows[i].answers + 1 /\ (rows'[i].ran <=> rows[i].ran)
         /\ (rows'[i].exempt <=> rows[i].exempt) /\ (rows'[i].allowed <=> rows[i].allowed)
<1>. DEFINE r == [rows[i] EXCEPT !.answers = @ + 1]
<1>1. rows[i] \in RowRecords
  BY DEF AgentShapes
<1>2. r \in RowRecords
  BY <1>1 DEF RowRecords
<1>3. /\ r.answers = rows[i].answers + 1 /\ (r.ran <=> rows[i].ran)
      /\ (r.exempt <=> rows[i].exempt) /\ (r.allowed <=> rows[i].allowed)
  BY <1>1 DEF RowRecords
<1>4. rows' = [rows EXCEPT ![i] = r]
  BY DEF AgentShapes, Done
<1>. HIDE DEF r
<1>. QED
  BY <1>2, <1>3, <1>4, PutRow

LEMMA RanEffect ==
  ASSUME AgentShapes, NEW i \in 1 .. Len(rows), rows' = [rows EXCEPT ![i].ran = TRUE]
  PROVE  /\ OneRow(i)
         /\ rows'[i].answers = rows[i].answers /\ rows'[i].ran
         /\ (rows'[i].exempt <=> rows[i].exempt) /\ (rows'[i].allowed <=> rows[i].allowed)
<1>. DEFINE r == [rows[i] EXCEPT !.ran = TRUE]
<1>1. rows[i] \in RowRecords
  BY DEF AgentShapes
<1>2. r \in RowRecords
  BY <1>1 DEF RowRecords
<1>3. /\ r.answers = rows[i].answers /\ r.ran
      /\ (r.exempt <=> rows[i].exempt) /\ (r.allowed <=> rows[i].allowed)
  BY <1>1 DEF RowRecords
<1>4. rows' = [rows EXCEPT ![i] = r]
  BY DEF AgentShapes
<1>. HIDE DEF r
<1>. QED
  BY <1>2, <1>3, <1>4, PutRow

LEMMA ExemptEffect ==
  ASSUME AgentShapes, NEW i \in 1 .. Len(rows), rows' = [rows EXCEPT ![i].exempt = TRUE]
  PROVE  /\ OneRow(i)
         /\ rows'[i].answers = rows[i].answers /\ (rows'[i].ran <=> rows[i].ran)
         /\ rows'[i].exempt /\ (rows'[i].allowed <=> rows[i].allowed)
<1>. DEFINE r == [rows[i] EXCEPT !.exempt = TRUE]
<1>1. rows[i] \in RowRecords
  BY DEF AgentShapes
<1>2. r \in RowRecords
  BY <1>1 DEF RowRecords
<1>3. /\ r.answers = rows[i].answers /\ (r.ran <=> rows[i].ran)
      /\ r.exempt /\ (r.allowed <=> rows[i].allowed)
  BY <1>1 DEF RowRecords
<1>4. rows' = [rows EXCEPT ![i] = r]
  BY DEF AgentShapes
<1>. HIDE DEF r
<1>. QED
  BY <1>2, <1>3, <1>4, PutRow

LEMMA AllowedEffect ==
  ASSUME AgentShapes, NEW i \in 1 .. Len(rows), NEW allow \in BOOLEAN, rows' = [rows EXCEPT ![i].allowed = allow]
  PROVE  /\ OneRow(i)
         /\ rows'[i].answers = rows[i].answers /\ (rows'[i].ran <=> rows[i].ran)
         /\ (rows'[i].exempt <=> rows[i].exempt) /\ (rows'[i].allowed <=> allow)
<1>. DEFINE r == [rows[i] EXCEPT !.allowed = allow]
<1>1. rows[i] \in RowRecords
  BY DEF AgentShapes
<1>2. r \in RowRecords
  BY <1>1 DEF RowRecords
<1>3. /\ r.answers = rows[i].answers /\ (r.ran <=> rows[i].ran)
      /\ (r.exempt <=> rows[i].exempt) /\ (r.allowed <=> allow)
  BY <1>1 DEF RowRecords
<1>4. rows' = [rows EXCEPT ![i] = r]
  BY DEF AgentShapes
<1>. HIDE DEF r
<1>. QED
  BY <1>2, <1>3, <1>4, PutRow

LEMMA AbandonEffect ==
  ASSUME AgentShapes, Abandon
  PROVE  /\ rows' \in Seq(RowRecords) /\ Len(rows') = Len(rows) /\ Len(rows) \in Nat
         /\ \A i \in 1 .. Len(rows) :
              /\ rows'[i].answers = (IF i < next THEN rows[i].answers ELSE rows[i].answers + 1)
              /\ (rows'[i].ran <=> rows[i].ran) /\ (rows'[i].exempt <=> rows[i].exempt)
              /\ (rows'[i].allowed <=> rows[i].allowed)
<1>. DEFINE r(i) == IF i \in Round THEN [rows[i] EXCEPT !.answers = @ + 1] ELSE rows[i]
<1>1. Len(rows) \in Nat /\ DOMAIN rows = 1 .. Len(rows) /\ next \in 1 .. Len(rows) + 1
  BY DEF AgentShapes
<1>2. ASSUME NEW i \in 1 .. Len(rows)
      PROVE  /\ r(i) \in RowRecords
             /\ r(i).answers = (IF i < next THEN rows[i].answers ELSE rows[i].answers + 1)
             /\ (r(i).ran <=> rows[i].ran) /\ (r(i).exempt <=> rows[i].exempt)
             /\ (r(i).allowed <=> rows[i].allowed)
  <2>1. rows[i] \in RowRecords
    BY DEF AgentShapes
  <2>2. i \in Round <=> ~(i < next)
    BY <1>1 DEF Round
  <2>3. CASE i < next
    BY <2>1, <2>2, <2>3
  <2>4. CASE ~(i < next)
    <3>1. r(i) = [rows[i] EXCEPT !.answers = @ + 1]
      BY <2>2, <2>4
    <3>. HIDE DEF r
    <3>. QED
      BY <2>1, <2>4, <3>1 DEF RowRecords
  <2>. QED
    BY <2>3, <2>4
<1>3. rows' = [i \in 1 .. Len(rows) |-> r(i)]
  BY <1>1 DEF Abandon
<1>. HIDE DEF r
<1>. QED
  BY <1>1, <1>2, <1>3

(* What leaves the calls as they are.                                      *)
LEMMA SaysStep ==
  ASSUME AgentInductive, 
         Sends \/ Stop \/ ChromeGoes \/ OpensContext \/ ReadsPage \/ Tops \/ Opens \/ TriesAgain
           \/ TextIsLost \/ Closes \/ Hears
  PROVE  AgentInductive'
<1>. USE AgentAssumption DEF AgentInductive, Before, Calling, Ended
<1>1. AgentShapes'
  <2>1. Sends => AgentShapes'
    BY DEF AgentShapes, Sends, Goes
  <2>2. Stop => AgentShapes'
    BY DEF AgentShapes, Stop
  <2>3. ChromeGoes => AgentShapes'
    BY DEF AgentShapes, ChromeGoes
  <2>4. OpensContext => AgentShapes'
    BY DEF AgentShapes, OpensContext
  <2>5. ReadsPage => AgentShapes'
    BY DEF AgentShapes, ReadsPage, Goes
  <2>6. Tops => AgentShapes'
    BY DEF AgentShapes, Tops
  <2>7. Opens => AgentShapes'
    BY DEF AgentShapes, Opens
  <2>8. TriesAgain => AgentShapes'
    BY DEF AgentShapes, TriesAgain, Goes
  <2>9. TextIsLost => AgentShapes'
    BY DEF AgentShapes, TextIsLost, Goes
  <2>10. Closes => AgentShapes'
    BY DEF AgentShapes, Closes, Goes
  <2>11. Hears => AgentShapes'
    BY DEF AgentShapes, Hears
  <2>. QED
    BY <2>1, <2>2, <2>3, <2>4, <2>5, <2>6, <2>7, <2>8, <2>9, <2>10, <2>11
<1>2. TurnInv'
  BY DEF AgentShapes, TurnInv, AnsweredInv, AskedInv, RanInv, LateInv, OneRow, Sends, Stop, ChromeGoes, OpensContext, ReadsPage, Tops, Opens, TriesAgain, TextIsLost, Closes, Hears, Goes
<1>3. AnsweredInv'
  BY DEF AgentShapes, TurnInv, AnsweredInv, AskedInv, RanInv, LateInv, OneRow, Sends, Stop, ChromeGoes, OpensContext, ReadsPage, Tops, Opens, TriesAgain, TextIsLost, Closes, Hears, Goes
<1>4. AskedInv'
  BY DEF AgentShapes, TurnInv, AnsweredInv, AskedInv, RanInv, LateInv, OneRow, Sends, Stop, ChromeGoes, OpensContext, ReadsPage, Tops, Opens, TriesAgain, TextIsLost, Closes, Hears, Goes
<1>5. RanInv'
  BY DEF AgentShapes, TurnInv, AnsweredInv, AskedInv, RanInv, LateInv, OneRow, Sends, Stop, ChromeGoes, OpensContext, ReadsPage, Tops, Opens, TriesAgain, TextIsLost, Closes, Hears, Goes
<1>6. LateInv'
  BY DEF AgentShapes, TurnInv, AnsweredInv, AskedInv, RanInv, LateInv, OneRow, Sends, Stop, ChromeGoes, OpensContext, ReadsPage, Tops, Opens, TriesAgain, TextIsLost, Closes, Hears, Goes
<1>. QED
  BY <1>1, <1>2, <1>3, <1>4, <1>5, <1>6

(* One call more.                                                          *)
LEMMA AnnouncesStep ==
  ASSUME AgentInductive, Announces
  PROVE  AgentInductive'
<1>. USE AgentAssumption DEF AgentInductive, Before, Calling, Ended
<1>1. AgentShapes'
  BY DEF AgentShapes, TurnInv, AnsweredInv, AskedInv, RanInv, LateInv, OneRow, Announces, Row, RowRecords
<1>2. TurnInv'
  BY DEF AgentShapes, TurnInv, AnsweredInv, AskedInv, RanInv, LateInv, OneRow, Announces, Row, RowRecords
<1>3. AnsweredInv'
  BY DEF AgentShapes, TurnInv, AnsweredInv, AskedInv, RanInv, LateInv, OneRow, Announces, Row, RowRecords
<1>4. AskedInv'
  BY DEF AgentShapes, TurnInv, AnsweredInv, AskedInv, RanInv, LateInv, OneRow, Announces, Row, RowRecords
<1>5. RanInv'
  BY DEF AgentShapes, TurnInv, AnsweredInv, AskedInv, RanInv, LateInv, OneRow, Announces, Row, RowRecords
<1>6. LateInv'
  BY DEF AgentShapes, TurnInv, AnsweredInv, AskedInv, RanInv, LateInv, OneRow, Announces, Row, RowRecords
<1>. QED
  BY <1>1, <1>2, <1>3, <1>4, <1>5, <1>6

(* A run that is cut short answers the calls of its round.                 *)
LEMMA AbandonStep ==
  ASSUME AgentInductive, Halts \/ ReplyFails \/ ReplyEnds, Abandon, run \in {"page", "open", "backoff", "reply"},
         run' = "closing"
  PROVE  AgentInductive'
<1>. USE AgentAssumption DEF AgentInductive, Before, Calling, Ended
<1>1. /\ rows' \in Seq(RowRecords) /\ Len(rows') = Len(rows) /\ Len(rows) \in Nat
      /\ \A i \in 1 .. Len(rows) :
           /\ rows'[i].answers = (IF i < next THEN rows[i].answers ELSE rows[i].answers + 1)
           /\ (rows'[i].ran <=> rows[i].ran) /\ (rows'[i].exempt <=> rows[i].exempt)
           /\ (rows'[i].allowed <=> rows[i].allowed)
  BY AbandonEffect
<1>2. /\ attempt' = attempt /\ next' = next /\ (cancelled' <=> cancelled) /\ asking' = asking
      /\ verdict' = verdict /\ word' = word /\ (listening' <=> listening) /\ late' = late
      /\ steps' = steps /\ cancelled' \in BOOLEAN /\ listening' \in BOOLEAN
  BY DEF Halts, ReplyFails, ReplyEnds, AgentShapes
<1>3. AgentShapes'
  BY <1>1, <1>2 DEF AgentShapes
<1>4. TurnInv' /\ AskedInv' /\ LateInv'
  BY <1>2 DEF TurnInv, AskedInv, LateInv
<1>5. AnsweredInv'
  BY <1>1, <1>2 DEF AnsweredInv, AgentShapes
<1>6. RanInv'
  BY <1>1, <1>2 DEF RanInv
<1>. QED
  BY <1>3, <1>4, <1>5, <1>6

(* The answer is to the question.                                          *)
LEMMA ApproveStep ==
  ASSUME AgentInductive, NEW allow \in BOOLEAN, Approve(allow)
  PROVE  AgentInductive'
<1>. USE AgentAssumption DEF AgentInductive, Before, Calling, Ended
<1>a. asking \in 1 .. Len(rows)
  BY DEF Approve, AgentShapes, TurnInv
<1>b. /\ OneRow(asking)
      /\ rows'[asking].answers = rows[asking].answers /\ (rows'[asking].ran <=> rows[asking].ran)
      /\ (rows'[asking].exempt <=> rows[asking].exempt) /\ (rows'[asking].allowed <=> allow)
  BY <1>a, AllowedEffect DEF Approve
<1>0. /\ asking # 0 /\ asking' = 0
      /\ word' = (IF allow THEN "allow" ELSE "deny")
      /\ run' = run /\ attempt' = attempt /\ next' = next /\ steps' = steps /\ (cancelled' <=> cancelled)
      /\ verdict' = verdict /\ (listening' <=> listening) /\ late' = late /\ {cancelled', listening'} \subseteq BOOLEAN
  BY <1>a DEF Approve, AgentShapes, TurnInv
<1>1. AgentShapes'
  BY <1>0, <1>a, <1>b DEF AgentShapes, TurnInv, AnsweredInv, AskedInv, RanInv, LateInv, OneRow
<1>2. TurnInv'
  BY <1>0, <1>a, <1>b DEF AgentShapes, TurnInv, AnsweredInv, AskedInv, RanInv, LateInv, OneRow
<1>3. AnsweredInv'
  BY <1>0, <1>a, <1>b DEF AgentShapes, TurnInv, AnsweredInv, AskedInv, RanInv, LateInv, OneRow
<1>4. AskedInv'
  BY <1>0, <1>a, <1>b DEF AgentShapes, TurnInv, AnsweredInv, AskedInv, RanInv, LateInv, OneRow
<1>5. RanInv'
  BY <1>0, <1>a, <1>b DEF AgentShapes, TurnInv, AnsweredInv, AskedInv, RanInv, LateInv, OneRow
<1>6. LateInv'
  BY <1>0, <1>a, <1>b DEF AgentShapes, TurnInv, AnsweredInv, AskedInv, RanInv, LateInv, OneRow
<1>. QED
  BY <1>1, <1>2, <1>3, <1>4, <1>5, <1>6

(* A tool begins that was allowed.                                         *)
LEMMA LaunchesStep ==
  ASSUME AgentInductive, Launches
  PROVE  AgentInductive'
<1>. USE AgentAssumption DEF AgentInductive, Before, Calling, Ended
<1>a. next \in 1 .. Len(rows)
  BY DEF Launches, Goes, AgentShapes, TurnInv
<1>b. /\ OneRow(next)
      /\ rows'[next].answers = rows[next].answers /\ rows'[next].ran
      /\ (rows'[next].exempt <=> rows[next].exempt) /\ (rows'[next].allowed <=> rows[next].allowed)
  BY <1>a, RanEffect DEF Launches, Goes
<1>0. /\ run = "launch" /\ run' = "tool"
      /\ late' = (IF cancelled THEN late + 1 ELSE late)
      /\ attempt' = attempt /\ next' = next /\ steps' = steps /\ (cancelled' <=> cancelled) /\ asking' = asking
      /\ verdict' = verdict /\ word' = word /\ (listening' <=> listening) /\ {cancelled', listening'} \subseteq BOOLEAN
  BY <1>a DEF Launches, Goes, AgentShapes, TurnInv
<1>1. AgentShapes'
  BY <1>0, <1>a, <1>b DEF AgentShapes, TurnInv, AnsweredInv, AskedInv, RanInv, LateInv, OneRow
<1>2. TurnInv'
  BY <1>0, <1>a, <1>b DEF AgentShapes, TurnInv, AnsweredInv, AskedInv, RanInv, LateInv, OneRow
<1>3. AnsweredInv'
  BY <1>0, <1>a, <1>b DEF AgentShapes, TurnInv, AnsweredInv, AskedInv, RanInv, LateInv, OneRow
<1>4. AskedInv'
  BY <1>0, <1>a, <1>b DEF AgentShapes, TurnInv, AnsweredInv, AskedInv, RanInv, LateInv, OneRow
<1>5. RanInv'
  BY <1>0, <1>a, <1>b DEF AgentShapes, TurnInv, AnsweredInv, AskedInv, RanInv, LateInv, OneRow
<1>6. LateInv'
  BY <1>0, <1>a, <1>b DEF AgentShapes, TurnInv, AnsweredInv, AskedInv, RanInv, LateInv, OneRow
<1>. QED
  BY <1>1, <1>2, <1>3, <1>4, <1>5, <1>6

(* A call is answered, and it is the next one's turn.                      *)
LEMMA AnswersStep ==
  ASSUME AgentInductive, ToolEnds \/ ToolHalts \/ (Looks /\ (cancelled \/ verdict # "allowed"))
  PROVE  AgentInductive'
<1>. USE AgentAssumption DEF AgentInductive, Before, Calling, Ended
<1>a. next \in 1 .. Len(rows)
  BY DEF ToolEnds, ToolHalts, Looks, Proceeds, AgentShapes, TurnInv
<1>b. /\ OneRow(next)
      /\ rows'[next].answers = rows[next].answers + 1 /\ (rows'[next].ran <=> rows[next].ran)
      /\ (rows'[next].exempt <=> rows[next].exempt) /\ (rows'[next].allowed <=> rows[next].allowed)
  BY <1>a, DoneEffect DEF ToolEnds, ToolHalts, Looks, Proceeds
<1>0. /\ run \in {"look", "launch", "tool"}
      /\ next' = next + 1 /\ run' = IF next < Len(rows) THEN "aim" ELSE "top"
      /\ attempt' = attempt /\ steps' = steps /\ (cancelled' <=> cancelled) /\ asking' = asking /\ verdict' = verdict
      /\ word' = word /\ (listening' <=> listening) /\ late' = late /\ {cancelled', listening'} \subseteq BOOLEAN
  BY <1>a DEF ToolEnds, ToolHalts, Looks, Proceeds, AgentShapes, TurnInv
<1>1. AgentShapes'
  BY <1>0, <1>a, <1>b DEF AgentShapes, TurnInv, AnsweredInv, AskedInv, RanInv, LateInv, OneRow
<1>2. TurnInv'
  BY <1>0, <1>a, <1>b DEF AgentShapes, TurnInv, AnsweredInv, AskedInv, RanInv, LateInv, OneRow
<1>3. AnsweredInv'
  BY <1>0, <1>a, <1>b DEF AgentShapes, TurnInv, AnsweredInv, AskedInv, RanInv, LateInv, OneRow
<1>4. AskedInv'
  BY <1>0, <1>a, <1>b DEF AgentShapes, TurnInv, AnsweredInv, AskedInv, RanInv, LateInv, OneRow
<1>5. RanInv'
  BY <1>0, <1>a, <1>b DEF AgentShapes, TurnInv, AnsweredInv, AskedInv, RanInv, LateInv, OneRow
<1>6. LateInv'
  BY <1>0, <1>a, <1>b DEF AgentShapes, TurnInv, AnsweredInv, AskedInv, RanInv, LateInv, OneRow
<1>. QED
  BY <1>1, <1>2, <1>3, <1>4, <1>5, <1>6

(* What was allowed is launched, unless the run was stopped.               *)
LEMMA LooksStep ==
  ASSUME AgentInductive, Looks /\ ~(cancelled \/ verdict # "allowed")
  PROVE  AgentInductive'
<1>. USE AgentAssumption DEF AgentInductive, Before, Calling, Ended
<1>0. /\ run = "look" /\ run' = "launch" /\ ~cancelled /\ verdict = "allowed"
      /\ attempt' = attempt /\ rows' = rows /\ next' = next /\ steps' = steps /\ (cancelled' <=> cancelled)
      /\ asking' = asking /\ verdict' = verdict /\ word' = word /\ (listening' <=> listening) /\ late' = late
      /\ {cancelled', listening'} \subseteq BOOLEAN
  BY DEF Looks, AgentShapes
<1>1. AgentShapes'
  BY <1>0 DEF AgentShapes, TurnInv, AnsweredInv, AskedInv, RanInv, LateInv, OneRow
<1>2. TurnInv'
  BY <1>0 DEF AgentShapes, TurnInv, AnsweredInv, AskedInv, RanInv, LateInv, OneRow
<1>3. AnsweredInv'
  BY <1>0 DEF AgentShapes, TurnInv, AnsweredInv, AskedInv, RanInv, LateInv, OneRow
<1>4. AskedInv'
  BY <1>0 DEF AgentShapes, TurnInv, AnsweredInv, AskedInv, RanInv, LateInv, OneRow
<1>5. RanInv'
  BY <1>0 DEF AgentShapes, TurnInv, AnsweredInv, AskedInv, RanInv, LateInv, OneRow
<1>6. LateInv'
  BY <1>0 DEF AgentShapes, TurnInv, AnsweredInv, AskedInv, RanInv, LateInv, OneRow
<1>. QED
  BY <1>1, <1>2, <1>3, <1>4, <1>5, <1>6

(* The calls of a reply are run in order.                                  *)
LEMMA RunsStep ==
  ASSUME AgentInductive, ReplyEnds /\ run' = "aim"
  PROVE  AgentInductive'
<1>. USE AgentAssumption DEF AgentInductive, Before, Calling, Ended
<1>0. /\ run = "reply" /\ run' = "aim" /\ Asked > 0 /\ steps + Asked <= MaxSteps /\ Asked = Len(rows) + 1 - next
      /\ steps' = steps + Asked
      /\ attempt' = attempt /\ rows' = rows /\ next' = next /\ (cancelled' <=> cancelled) /\ asking' = asking
      /\ verdict' = verdict /\ word' = word /\ (listening' <=> listening) /\ late' = late /\ {cancelled', listening'} \subseteq BOOLEAN
  BY DEF ReplyEnds, Asked, AgentShapes
<1>1. AgentShapes'
  BY <1>0 DEF AgentShapes, TurnInv, AnsweredInv, AskedInv, RanInv, LateInv, OneRow
<1>2. TurnInv'
  BY <1>0 DEF AgentShapes, TurnInv, AnsweredInv, AskedInv, RanInv, LateInv, OneRow
<1>3. AnsweredInv'
  BY <1>0 DEF AgentShapes, TurnInv, AnsweredInv, AskedInv, RanInv, LateInv, OneRow
<1>4. AskedInv'
  BY <1>0 DEF AgentShapes, TurnInv, AnsweredInv, AskedInv, RanInv, LateInv, OneRow
<1>5. RanInv'
  BY <1>0 DEF AgentShapes, TurnInv, AnsweredInv, AskedInv, RanInv, LateInv, OneRow
<1>6. LateInv'
  BY <1>0 DEF AgentShapes, TurnInv, AnsweredInv, AskedInv, RanInv, LateInv, OneRow
<1>. QED
  BY <1>1, <1>2, <1>3, <1>4, <1>5, <1>6

(* It is put to the person, or needs no asking.                            *)
LEMMA AimsStep ==
  ASSUME AgentInductive, NEW asks \in BOOLEAN, Aims(asks), ~(~cancelled /\ ~asks)
  PROVE  AgentInductive'
<1>. USE AgentAssumption DEF AgentInductive, Before, Calling, Ended
<1>0. /\ run = "aim" /\ word' = "none"
      /\ \/ run' = "look" /\ verdict' = "denied" /\ asking' = asking
         \/ run' = "ask" /\ asking' = next /\ verdict' = verdict
      /\ attempt' = attempt /\ rows' = rows /\ next' = next /\ steps' = steps /\ (cancelled' <=> cancelled)
      /\ (listening' <=> listening) /\ late' = late /\ {cancelled', listening'} \subseteq BOOLEAN
  BY DEF Aims, AgentShapes
<1>1. AgentShapes'
  BY <1>0 DEF AgentShapes, TurnInv, AnsweredInv, AskedInv, RanInv, LateInv, OneRow
<1>2. TurnInv'
  BY <1>0 DEF AgentShapes, TurnInv, AnsweredInv, AskedInv, RanInv, LateInv, OneRow
<1>3. AnsweredInv'
  BY <1>0 DEF AgentShapes, TurnInv, AnsweredInv, AskedInv, RanInv, LateInv, OneRow
<1>4. AskedInv'
  BY <1>0 DEF AgentShapes, TurnInv, AnsweredInv, AskedInv, RanInv, LateInv, OneRow
<1>5. RanInv'
  BY <1>0 DEF AgentShapes, TurnInv, AnsweredInv, AskedInv, RanInv, LateInv, OneRow
<1>6. LateInv'
  BY <1>0 DEF AgentShapes, TurnInv, AnsweredInv, AskedInv, RanInv, LateInv, OneRow
<1>. QED
  BY <1>1, <1>2, <1>3, <1>4, <1>5, <1>6

(* It needs no asking.                                                     *)
LEMMA ExemptsStep ==
  ASSUME AgentInductive, NEW asks \in BOOLEAN, Aims(asks), ~cancelled, ~asks
  PROVE  AgentInductive'
<1>. USE AgentAssumption DEF AgentInductive, Before, Calling, Ended
<1>a. next \in 1 .. Len(rows)
  BY DEF Aims, AgentShapes, TurnInv
<1>b. /\ OneRow(next)
      /\ rows'[next].answers = rows[next].answers /\ (rows'[next].ran <=> rows[next].ran)
      /\ rows'[next].exempt /\ (rows'[next].allowed <=> rows[next].allowed)
  BY <1>a, ExemptEffect DEF Aims
<1>0. /\ run = "aim" /\ word' = "none" /\ run' = "look" /\ verdict' = "allowed"
      /\ attempt' = attempt /\ next' = next /\ steps' = steps /\ (cancelled' <=> cancelled) /\ asking' = asking
      /\ (listening' <=> listening) /\ late' = late /\ {cancelled', listening'} \subseteq BOOLEAN
  BY <1>a DEF Aims, AgentShapes, TurnInv
<1>1. AgentShapes'
  BY <1>0, <1>a, <1>b DEF AgentShapes, TurnInv, AnsweredInv, AskedInv, RanInv, LateInv, OneRow
<1>2. TurnInv'
  BY <1>0, <1>a, <1>b DEF AgentShapes, TurnInv, AnsweredInv, AskedInv, RanInv, LateInv, OneRow
<1>3. AnsweredInv'
  BY <1>0, <1>a, <1>b DEF AgentShapes, TurnInv, AnsweredInv, AskedInv, RanInv, LateInv, OneRow
<1>4. AskedInv'
  BY <1>0, <1>a, <1>b DEF AgentShapes, TurnInv, AnsweredInv, AskedInv, RanInv, LateInv, OneRow
<1>5. RanInv'
  BY <1>0, <1>a, <1>b DEF AgentShapes, TurnInv, AnsweredInv, AskedInv, RanInv, LateInv, OneRow
<1>6. LateInv'
  BY <1>0, <1>a, <1>b DEF AgentShapes, TurnInv, AnsweredInv, AskedInv, RanInv, LateInv, OneRow
<1>. QED
  BY <1>1, <1>2, <1>3, <1>4, <1>5, <1>6

LEMMA AgentInvariance == AgentSafety => []AgentInductive
<1>1. AgentRunInit => AgentInductive
  <2>. SUFFICES ASSUME AgentRunInit PROVE AgentInductive
    OBVIOUS
  <2>1. rows \in Seq(RowRecords) /\ Len(rows) = 0
    BY DEF AgentRunInit
  <2>2. {cancelled, listening} \subseteq BOOLEAN
    BY DEF AgentRunInit
  <2>3. AgentShapes
    BY <2>1, <2>2, AgentAssumption DEF AgentRunInit, AgentShapes, Before
  <2>4. TurnInv /\ AnsweredInv /\ AskedInv /\ RanInv /\ LateInv
    BY <2>1 DEF AgentRunInit, TurnInv, AnsweredInv, AskedInv, RanInv, LateInv, Before, Calling, Ended
  <2>. QED
    BY <2>3, <2>4 DEF AgentInductive
<1>2. AgentInductive /\ AgentRunNext => AgentInductive'
  <2>. SUFFICES ASSUME AgentInductive, AgentRunNext PROVE AgentInductive'
    OBVIOUS
  <2>1. CASE Sends \/ Stop \/ ChromeGoes \/ OpensContext \/ ReadsPage \/ Tops \/ Opens \/ TriesAgain
               \/ TextIsLost \/ Closes \/ Hears
    BY <2>1, SaysStep
  <2>2. CASE Halts \/ ReplyFails \/ ReplyEnds
    <3>1. CASE ReplyEnds /\ run' = "aim"
      BY <3>1, RunsStep
    <3>2. CASE ~(ReplyEnds /\ run' = "aim")
      <4>1. Abandon /\ run \in {"page", "open", "backoff", "reply"} /\ run' = "closing"
        BY <2>2, <3>2 DEF Halts, ReplyFails, ReplyEnds, Goes
      <4>. QED
        BY <2>2, <4>1, AbandonStep
    <3>. QED
      BY <3>1, <3>2
  <2>3. CASE Announces
    BY <2>3, AnnouncesStep
  <2>4. CASE Launches
    BY <2>4, LaunchesStep
  <2>5. CASE ToolEnds \/ ToolHalts \/ Looks
    BY <2>5, AnswersStep, LooksStep
  <2>6. ASSUME NEW allow \in BOOLEAN, Approve(allow) PROVE AgentInductive'
    BY <2>6, ApproveStep
  <2>7. ASSUME NEW asks \in BOOLEAN, Aims(asks) PROVE AgentInductive'
    BY <2>7, AimsStep, ExemptsStep
  <2>. QED
    BY <2>1, <2>2, <2>3, <2>4, <2>5, <2>6, <2>7 DEF AgentRunNext, Own, World
<1>3. AgentInductive /\ UNCHANGED aVars => AgentInductive'
  BY DEF AgentInductive, AgentShapes, TurnInv, AnsweredInv, AskedInv, RanInv, LateInv, aVars
<1>. QED
  BY <1>1, <1>2, <1>3, PTL DEF AgentSafety

(* No tool runs that the person did not allow for that very call, or said  *)
(* needs no asking, and a stop lets at most the one begin that was being   *)
(* launched; however the stop, the answer and the two minutes race         *)
(* (agent.rs: approved, run_calls).                                        *)
THEOREM ToolsAreAllowed == AgentSafety => []ToolsAllowed
<1>1. AgentInductive => ToolsAllowed
  <2>. SUFFICES ASSUME AgentInductive PROVE ToolsAllowed
    OBVIOUS
  <2>1. AgentShapes /\ RanInv /\ LateInv
    BY DEF AgentInductive
  <2>2. Len(rows) \in Nat /\ DOMAIN rows = 1 .. Len(rows) /\ next \in 1 .. MaxRows + 1
    BY <2>1, AgentAssumption DEF AgentShapes
  <2>3. AgentRunTypeOK
    BY <2>1, <2>2 DEF AgentShapes, AgentRunTypeOK, Before, Calling, Ended
  <2>. QED
    BY <2>1, <2>2, <2>3 DEF RanInv, LateInv, ToolsAllowed
<1>. QED
  BY AgentInvariance, <1>1, PTL

(* When a run is over every call it announced has been answered exactly    *)
(* once, if the chrome listens, and no question is left of it; whichever   *)
(* way it ended and wherever it was stopped (agent.rs: run, run_calls,     *)
(* abandon).                                                               *)
THEOREM RowsAreAnswered == AgentSafety => []RowsAnswered
<1>1. AgentInductive => RowsAnswered
  <2>. SUFFICES ASSUME AgentInductive PROVE RowsAnswered
    OBVIOUS
  <2>1. AgentShapes /\ AnsweredInv /\ AskedInv
    BY DEF AgentInductive
  <2>2. DOMAIN rows = 1 .. Len(rows)
    BY <2>1 DEF AgentShapes
  <2>. QED
    BY <2>1, <2>2 DEF AnsweredInv, AskedInv, RowsAnswered, Ended
<1>. QED
  BY AgentInvariance, <1>1, PTL

-----------------------------------------------------------------------------
(* Crash recovery. The invariant: what a report, a task and the owed       *)
(* reload say of one crash.                                                *)
CrashTypes ==
  /\ view \in 0 .. MaxViews /\ bound \in 1 .. MaxViews /\ place \in {"back", "main", "torn"}
  /\ page \in {"live", "dead"} /\ crash \in 0 .. MaxCrashes
  /\ reports \subseteq [of : Crashes, in : 1 .. MaxViews, why : {"crashed", "stopped", "unknown"},
                        stale : BOOLEAN]
  /\ count \in 0 .. MaxAttempts /\ age \in 0 .. Calm /\ silence \in 0 .. Calm
  /\ newest \in 0 .. MaxCrashes /\ deferred \in (0 .. MaxViews) \X (0 .. MaxCrashes)
  /\ recoveries \subseteq [of : Crashes, in : 1 .. MaxViews, plan : BOOLEAN,
                           at : {"decide", "defer", "marked", "backoff"},
                           why : {"crashed", "stopped", "unknown"}]
  /\ charged \in [Crashes -> 0 .. 1] /\ reloaded \in [Crashes -> 0 .. 1]
  /\ spell \in 0 .. MaxAttempts /\ ended \subseteq Crashes
  /\ \A r \in reports : r.of <= crash /\ r.in <= bound
  /\ \A c \in Crashes : charged[c] # 0 => c <= crash
  /\ view <= bound /\ (deferred[1] # 0 => deferred[2] # 0)

Pending(r) == r \in reports /\ ~OutOfDate(r)

(* The engine's word of a crash comes before the page lives again. Until   *)
(* one of a crash's two reports is heard both may still count; once it is  *)
(* charged, a report of it that still counts is no later than the last one *)
(* heard, and none of an earlier crash counts any more.                    *)
NativeFirst == \A r \in reports : Native(r) /\ r.in = view => page = "dead" /\ r.of = crash
Unheard == newest = 0 => \A r \in reports : ~OutOfDate(r) =>
             \E q \in reports : Native(q) /\ ~OutOfDate(q) /\ q.of = r.of
HeardOnce ==
  \A r \in reports : ~OutOfDate(r) /\ charged[r.of] # 0 =>
    /\ r.of <= newest
    /\ \A q \in reports : q.of < r.of => OutOfDate(q)

(* A crash has one task or one owed reload, or was reloaded; a renderer    *)
(* that somebody ended has none of them beyond the decision.               *)
ChargedOnce ==
  /\ \A t \in recoveries : charged[t.of] = 1
  /\ \A c \in Crashes : charged[c] = 0 => reloaded[c] = 0 /\ deferred[2] # c
  /\ \A t, u \in recoveries : t.of = u.of => t = u
  /\ \A t \in recoveries : t.at # "marked" => reloaded[t.of] = 0 /\ deferred[2] # t.of
  /\ \A c \in Crashes : deferred[2] = c => reloaded[c] = 0
EndedStays ==
  /\ \A c \in ended : charged[c] = 1 /\ reloaded[c] = 0 /\ deferred[2] # c
  /\ \A t \in recoveries : t.of \in ended => t.why = "stopped"
  /\ \A t \in recoveries : t.why = "stopped" => t.at = "decide"

(* The registry's clock and the page's agree, and so do their counts.      *)
Paced == age = silence /\ (age # Calm => spell <= count)

CrashInductive ==
  /\ CrashTypes /\ NativeFirst /\ Unheard /\ HeardOnce
  /\ ChargedOnce /\ EndedStays /\ Paced /\ NotOwedInMain

ReportRecords == [of : Crashes, in : 1 .. MaxViews, why : {"crashed", "stopped", "unknown"},
                  stale : BOOLEAN]
TaskRecords == [of : Crashes, in : 1 .. MaxViews, plan : BOOLEAN,
                at : {"decide", "defer", "marked", "backoff"},
                why : {"crashed", "stopped", "unknown"}]

(* What begin_reload leaves of the reports: their words, but none counts.  *)
LEMMA BeginReloadStales ==
  ASSUME reports \subseteq ReportRecords, BeginReload
  PROVE  /\ newest' = 0 /\ reports' \subseteq ReportRecords
         /\ \A r \in reports' : r.stale /\ \E q \in reports : r.of = q.of /\ r.in = q.in /\ r.why = q.why
<1>1. ASSUME NEW r \in reports'
      PROVE  r \in ReportRecords /\ r.stale
             /\ \E q \in reports : r.of = q.of /\ r.in = q.in /\ r.why = q.why
  <2>1. PICK q \in reports : r = [q EXCEPT !.stale = TRUE]
    BY <1>1 DEF BeginReload
  <2>2. q \in ReportRecords
    BY <2>1
  <2>. QED
    BY <2>1, <2>2 DEF ReportRecords
<1>. QED
  BY <1>1 DEF BeginReload

LEMMA ReloadForTypes ==
  ASSUME CrashTypes, NEW c \in Crashes, reloaded[c] = 0, ReloadFor(c), UNCHANGED <<view, bound, crash>>
  PROVE  /\ newest' = 0 /\ page' \in {"live", page} /\ reports' \subseteq ReportRecords
         /\ \A r \in reports' : r.stale /\ r.of <= crash /\ r.in <= bound /\ ~(Native(r) /\ r.in = view)
         /\ reloaded' \in [Crashes -> 0 .. 1]
         /\ \A d \in Crashes : d # c => reloaded'[d] = reloaded[d]
<1>1. reports \subseteq ReportRecords
  BY DEF CrashTypes, ReportRecords
<1>2. /\ newest' = 0 /\ reports' \subseteq ReportRecords
      /\ \A r \in reports' : r.stale /\ \E q \in reports : r.of = q.of /\ r.in = q.in /\ r.why = q.why
  BY <1>1, BeginReloadStales DEF ReloadFor
<1>3. \A r \in reports' : r.of <= crash /\ r.in <= bound /\ ~(Native(r) /\ r.in = view)
  BY <1>2 DEF ReloadFor, Delivered, Native, CrashTypes
<1>4. reloaded' = [reloaded EXCEPT ![c] = 1] \/ reloaded' = reloaded
  BY DEF ReloadFor
<1>5. reloaded' \in [Crashes -> 0 .. 1]
  BY <1>4 DEF CrashTypes
<1>. QED
  BY <1>2, <1>3, <1>4, <1>5 DEF ReloadFor, Revives, CrashTypes

(* What each action leaves of the shapes.                                  *)
LEMMA ToTypes ==
  ASSUME recoveries \subseteq TaskRecords, NEW t \in recoveries,
         NEW at \in {"decide", "defer", "marked", "backoff"}, To(t, at)
  PROVE  /\ recoveries' \subseteq TaskRecords
         /\ \E n \in recoveries' : /\ n.of = t.of /\ n.in = t.in /\ n.plan = t.plan /\ n.why = t.why /\ n.at = at
                              /\ recoveries' = (recoveries \ {t}) \cup {n}
<1>. DEFINE n == [t EXCEPT !.at = at]
<1>1. t \in TaskRecords
  OBVIOUS
<1>2. /\ n \in TaskRecords
      /\ n.of = t.of /\ n.in = t.in /\ n.plan = t.plan /\ n.why = t.why /\ n.at = at
  BY <1>1 DEF TaskRecords
<1>3. recoveries' = (recoveries \ {t}) \cup {n}
  BY DEF To
<1>. HIDE DEF n
<1>. QED
  BY <1>2, <1>3

LEMMA DiesEffect ==
  ASSUME CrashTypes, Dies
  PROVE  /\ page' = "dead" /\ crash' = crash + 1 /\ crash' \in Crashes
         /\ reports \subseteq reports' /\ reports' \subseteq ReportRecords
         /\ \A r \in reports' \ reports : r.of = crash' /\ r.in = view
         /\ \E q \in reports' \ reports : Native(q) /\ ~q.stale /\ q.of = crash' /\ q.in = view
<1>1. PICK why \in {"crashed", "stopped"}, observed \in {FALSE, attached} :
       reports' = reports
         \cup {[of |-> crash', in |-> view, why |-> why, stale |-> FALSE]}
         \cup IF observed
              THEN {[of |-> crash', in |-> view, why |-> "unknown", stale |-> FALSE]} ELSE {}
  BY DEF Dies
<1>. DEFINE n == [of |-> crash', in |-> view, why |-> why, stale |-> FALSE]
            o == [of |-> crash', in |-> view, why |-> "unknown", stale |-> FALSE]
<1>2. crash' = crash + 1 /\ crash' \in Crashes /\ view \in 1 .. MaxViews
  BY CrashAssumption DEF Dies, CrashTypes, Crashes
<1>3. n \in ReportRecords /\ n.of = crash' /\ n.in = view /\ Native(n) /\ ~n.stale
  BY <1>2 DEF ReportRecords, Native
<1>4. o \in ReportRecords /\ o.of = crash' /\ o.in = view
  BY <1>2 DEF ReportRecords
<1>5. reports' = reports \cup {n} \/ reports' = reports \cup {n} \cup {o}
  BY <1>1
<1>6. reports \subseteq ReportRecords /\ \A r \in reports : r.of <= crash
  BY DEF CrashTypes, ReportRecords
<1>7. n \notin reports
  BY <1>2, <1>3, <1>6 DEF Crashes, CrashTypes
<1>. HIDE DEF n, o
<1>. QED
  BY <1>2, <1>3, <1>4, <1>5, <1>6, <1>7 DEF Dies

(* A report that is admitted is of a crash not charged before.             *)
LEMMA AdmitEffect ==
  ASSUME CrashTypes, Unheard, HeardOnce, NativeFirst, NEW r \in reports, Admit(r)
  PROVE  /\ charged[r.of] = 0
         /\ \A q \in reports : q.of < r.of => OutOfDate(q)
         /\ r \in ReportRecords /\ r.of \in Crashes /\ ~OutOfDate(r)
         /\ charged' \in [Crashes -> 0 .. 1] /\ charged'[r.of] = 1
         /\ \A d \in Crashes : d # r.of => charged'[d] = charged[d]
         /\ \E n \in TaskRecords : /\ n.of = r.of /\ n.why = r.why /\ n.at = "decide"
                                   /\ recoveries' = recoveries \cup {n}
<1>1. r \in ReportRecords /\ \A q \in reports : q \in ReportRecords
  BY DEF CrashTypes, ReportRecords
<1>2. r.of \in Crashes /\ r.of \in 1 .. MaxCrashes /\ \A q \in reports : q.of \in 1 .. MaxCrashes
  BY <1>1 DEF ReportRecords, Crashes
<1>3. ~OutOfDate(r) /\ New(r)
  BY DEF Admit
<1>4. newest \in Nat /\ MaxCrashes \in Nat /\ crash \in Nat
  BY CrashAssumption DEF CrashTypes
<1>5. charged[r.of] = 0
  <2>1. CASE newest = 0
    BY <1>2, <1>3, <1>4, <2>1 DEF HeardOnce
  <2>2. CASE SecondOver(r)
    BY <1>2, <1>3, <1>4, <2>2 DEF HeardOnce, SecondOver
  <2>. QED
    BY <1>3, <2>1, <2>2 DEF New
<1>6. \A q \in reports : q.of < r.of => OutOfDate(q)
  <2>1. CASE newest = 0
    <3>1. \A q \in reports : ~OutOfDate(q) => q.of = crash
      BY <2>1 DEF Unheard, NativeFirst, OutOfDate
    <3>. QED
      BY <1>2, <1>3, <1>4, <3>1
  <2>2. CASE SecondOver(r)
    BY <2>2 DEF SecondOver
  <2>. QED
    BY <1>3, <2>1, <2>2 DEF New
<1>7. charged' = [charged EXCEPT ![r.of] = 1]
  BY <1>2, <1>5 DEF Admit, Charge
<1>8. charged' \in [Crashes -> 0 .. 1] /\ charged'[r.of] = 1 /\ \A d \in Crashes : d # r.of => charged'[d] = charged[d]
  BY <1>2, <1>7 DEF CrashTypes
<1>. DEFINE n == Recovery(r)
<1>9. n \in TaskRecords /\ n.of = r.of /\ n.why = r.why /\ n.at = "decide"
  BY <1>1 DEF TaskRecords, ReportRecords, Recovery
<1>10. recoveries' = recoveries \cup {n}
  BY DEF Admit
<1>. HIDE DEF n
<1>. QED
  BY <1>1, <1>2, <1>3, <1>5, <1>6, <1>8, <1>9, <1>10

(* What charging a crash does to the counts.                               *)
LEMMA ChargePaces ==
  ASSUME CrashTypes, Paced, NEW r \in reports, Admit(r)
  PROVE  /\ count' \in 0 .. MaxAttempts /\ spell' \in 0 .. MaxAttempts
         /\ age' = 0 /\ silence' = 0 /\ spell' <= count'
<1>1. /\ MaxAttempts \in Nat \ {0} /\ count \in 0 .. MaxAttempts /\ spell \in 0 .. MaxAttempts
      /\ age = silence /\ (age # Calm => spell <= count)
  BY CrashAssumption DEF CrashTypes, Paced
<1>2. /\ age' = 0 /\ silence' = 0
      /\ IF Spent < MaxAttempts
         THEN count' = Spent + 1 /\ spell' = (IF silence = Calm THEN 0 ELSE spell) + 1
         ELSE count' = Spent /\ spell' = spell
  BY DEF Admit, Charge
<1>. QED
  BY <1>1, <1>2 DEF Spent

-----------------------------------------------------------------------------
(* The steps keep the reports' part.                                       *)
ReportsFine == NativeFirst /\ Unheard /\ HeardOnce

LEMMA ReportsSame ==
  ASSUME ReportsFine, UNCHANGED <<reports, newest, view, page, crash, charged>>
  PROVE  ReportsFine'
  BY DEF ReportsFine, NativeFirst, Unheard, HeardOnce, Native, OutOfDate

(* Where no report counts any more, and the engine has spoken.             *)
LEMMA ReportsDone ==
  ASSUME \A r \in reports' : OutOfDate(r)', \A r \in reports' : ~(Native(r) /\ r.in = view')
  PROVE  ReportsFine'
  BY DEF ReportsFine, NativeFirst, Unheard, HeardOnce, Native

LEMMA ReportsReload ==
  ASSUME CrashTypes, ReportsFine, NEW c \in Crashes, reloaded[c] = 0, ReloadFor(c),
         UNCHANGED <<view, bound, crash>>
  PROVE  ReportsFine'
<1>1. \A r \in reports' : r.stale /\ ~(Native(r) /\ r.in = view)
  BY ReloadForTypes
<1>2. \A r \in reports' : OutOfDate(r)'
  BY <1>1 DEF OutOfDate
<1>. QED
  BY <1>1, <1>2, ReportsDone

LEMMA ReportsDies ==
  ASSUME CrashTypes, ReportsFine, Dies
  PROVE  ReportsFine'
<1>1. /\ page = "live" /\ page' = "dead" /\ view' = view /\ newest' = newest /\ charged' = charged /\ crash' = crash + 1
      /\ crash' \in Crashes
      /\ reports \subseteq reports' /\ reports' \subseteq ReportRecords
      /\ \A r \in reports' \ reports : r.of = crash' /\ r.in = view
      /\ \E q \in reports' \ reports : Native(q) /\ ~q.stale /\ q.of = crash' /\ q.in = view
  BY DiesEffect DEF Dies, tab, registry, history
<1>2. \A r \in reports : ~(Native(r) /\ r.in = view) /\ r.of <= crash /\ r.of \in Nat
  <2>1. \A r \in reports : r.of \in Nat
    BY DEF CrashTypes, Crashes
  <2>. QED
    BY <1>1, <2>1 DEF ReportsFine, NativeFirst, CrashTypes
<1>3. \A r : OutOfDate(r)' <=> OutOfDate(r)
  BY <1>1 DEF OutOfDate
<1>4. NativeFirst'
  BY <1>1, <1>2 DEF NativeFirst, Native
<1>5. Unheard'
  <2>1. ASSUME newest' = 0, NEW r \in reports', ~OutOfDate(r)
        PROVE  \E q \in reports' : Native(q) /\ ~OutOfDate(q) /\ q.of = r.of
    <3>1. CASE r \in reports
      BY <1>1, <1>2, <2>1, <3>1 DEF ReportsFine, Unheard, OutOfDate
    <3>2. CASE r \in reports' \ reports
      BY <1>1, <3>2 DEF OutOfDate
    <3>. QED
      BY <2>1, <3>1, <3>2
  <2>. QED
    BY <1>3, <2>1 DEF Unheard, Native
<1>6. HeardOnce'
  <2>1. crash \in Nat /\ charged[crash'] = 0
    BY <1>1, CrashAssumption DEF CrashTypes, Crashes
  <2>2. ASSUME NEW r \in reports', ~OutOfDate(r), charged[r.of] # 0
        PROVE  r \in reports
    BY <1>1, <2>1, <2>2
  <2>3. ASSUME NEW r \in reports, ~OutOfDate(r), charged[r.of] # 0
        PROVE  /\ r.of <= newest
               /\ \A q \in reports' : q.of < r.of => OutOfDate(q)
    <3>1. r.of <= newest /\ \A q \in reports : q.of < r.of => OutOfDate(q)
      BY <2>3 DEF ReportsFine, HeardOnce
    <3>2. \A q \in reports' \ reports : ~(q.of < r.of)
      BY <1>1, <1>2, <2>1
    <3>. QED
      BY <3>1, <3>2
  <2>. QED
    BY <1>1, <1>3, <2>2, <2>3 DEF HeardOnce
<1>. QED
  BY <1>4, <1>5, <1>6 DEF ReportsFine

LEMMA ReportsAdmit ==
  ASSUME CrashTypes, ReportsFine, NEW r \in reports, Admit(r)
  PROVE  ReportsFine'
<1>1. /\ r.of \in Crashes /\ r \in ReportRecords /\ charged'[r.of] = 1
      /\ \A q \in reports : q.of < r.of => OutOfDate(q)
      /\ \A d \in Crashes : d # r.of => charged'[d] = charged[d]
  BY AdmitEffect DEF ReportsFine
<1>2. reports' = reports \ {r} /\ newest' = r.of /\ UNCHANGED <<view, page, crash>>
  BY DEF Admit, tab
<1>3. \A q : OutOfDate(q)' <=> OutOfDate(q)
  BY <1>2 DEF OutOfDate
<1>4. NativeFirst'
  BY <1>2 DEF ReportsFine, NativeFirst, Native
<1>5. Unheard'
  BY <1>1, <1>2 DEF Unheard, Crashes
<1>6. HeardOnce'
  <2>1. \A q \in reports : q.of \in Crashes
    BY DEF CrashTypes
  <2>2. ASSUME NEW s \in reports, ~OutOfDate(s), charged'[s.of] # 0
        PROVE  s.of <= r.of /\ \A q \in reports : q.of < s.of => OutOfDate(q)
    <3>0. r.of \in Nat /\ s.of \in Nat
      BY <2>1 DEF Crashes
    <3>1. CASE s.of = r.of
      BY <1>1, <3>0, <3>1
    <3>2. CASE s.of # r.of
      <4>1. charged[s.of] # 0
        BY <1>1, <2>1, <2>2, <3>2
      <4>2. \A q \in reports : q.of < s.of => OutOfDate(q)
        BY <2>2, <4>1 DEF ReportsFine, HeardOnce
      <4>3. ~(r.of < s.of)
        BY <4>2 DEF Admit
      <4>. QED
        BY <3>0, <4>2, <4>3
    <3>. QED
      BY <3>1, <3>2
  <2>. QED
    BY <1>2, <1>3, <2>2 DEF HeardOnce
<1>. QED
  BY <1>4, <1>5, <1>6 DEF ReportsFine

LEMMA ReportsFold ==
  ASSUME CrashTypes, ReportsFine, NEW r \in reports, Fold(r)
  PROVE  ReportsFine'
<1>1. reports' = reports \ {r} /\ newest' = r.of /\ UNCHANGED <<view, page, crash, charged>> /\ ~OutOfDate(r)
  BY DEF Fold, tab, history
<1>2. \A q : OutOfDate(q)' <=> OutOfDate(q)
  BY <1>1 DEF OutOfDate
<1>3. \A q \in reports : q.of \in Nat /\ q.of # 0
  BY DEF CrashTypes, Crashes
<1>4. NativeFirst'
  BY <1>1 DEF ReportsFine, NativeFirst, Native
<1>5. Unheard'
  BY <1>1, <1>3 DEF Unheard
<1>6. HeardOnce'
  <2>1. ASSUME NEW s \in reports, ~OutOfDate(s), charged[s.of] # 0
        PROVE  s.of <= r.of /\ \A q \in reports : q.of < s.of => OutOfDate(q)
    <3>1. \A q \in reports : q.of < s.of => OutOfDate(q)
      BY <2>1 DEF ReportsFine, HeardOnce
    <3>. QED
      BY <1>1, <1>3, <3>1
  <2>. QED
    BY <1>1, <1>2, <2>1 DEF HeardOnce
<1>. QED
  BY <1>4, <1>5, <1>6 DEF ReportsFine

LEMMA ReportsRefuse ==
  ASSUME CrashTypes, ReportsFine, NEW r \in reports, Refuse(r)
  PROVE  ReportsFine'
<1>1. reports' = reports \ {r} /\ UNCHANGED <<view, page, crash, charged, newest>> /\ OutOfDate(r)
  BY DEF Refuse, tab, registry, history
<1>2. \A q : OutOfDate(q)' <=> OutOfDate(q)
  BY <1>1 DEF OutOfDate
<1>3. NativeFirst' /\ HeardOnce'
  BY <1>1, <1>2 DEF ReportsFine, NativeFirst, HeardOnce, Native
<1>4. Unheard'
  BY <1>1, <1>2 DEF ReportsFine, Unheard, Native
<1>. QED
  BY <1>3, <1>4 DEF ReportsFine

-----------------------------------------------------------------------------
(* The steps keep what tasks, the owed reload and the history say.         *)
TasksFine == ChargedOnce /\ EndedStays

LEMMA TasksSame ==
  ASSUME TasksFine, recoveries' \subseteq recoveries, UNCHANGED <<charged, reloaded, ended>>,
         deferred' = deferred \/ deferred' = NotOwed, CrashTypes
  PROVE  TasksFine'
<1>1. deferred'[2] = deferred[2] \/ deferred'[2] = 0
  BY DEF NotOwed
<1>2. 0 \notin Crashes /\ (\A t \in recoveries : t.of \in Crashes) /\ ended \subseteq Crashes
  BY CrashAssumption DEF CrashTypes, Crashes
<1>3. ChargedOnce'
  BY <1>1, <1>2 DEF TasksFine, ChargedOnce
<1>4. EndedStays'
  BY <1>1, <1>2 DEF TasksFine, EndedStays
<1>. QED
  BY <1>3, <1>4 DEF TasksFine

(* A task goes on to its next place.                                       *)
LEMMA TasksTo ==
  ASSUME CrashTypes, TasksFine, NEW t \in recoveries, NEW at \in {"decide", "defer", "marked", "backoff"},
         To(t, at), t.at # "marked", Reloads(t) \/ t.at # "decide",
         UNCHANGED <<charged, reloaded, ended>>,
         deferred' = deferred \/ (at = "marked" /\ deferred'[2] = t.of)
  PROVE  TasksFine'
<1>1. PICK n \in recoveries' : /\ n.of = t.of /\ n.why = t.why /\ n.at = at
                          /\ recoveries' = (recoveries \ {t}) \cup {n}
  BY ToTypes DEF CrashTypes, TaskRecords
<1>2. t.of \in Crashes /\ charged[t.of] = 1 /\ reloaded[t.of] = 0
      /\ deferred[2] # t.of /\ \A u \in recoveries : u.of = t.of => u = t
  BY DEF CrashTypes, TasksFine, ChargedOnce
<1>3. t.why # "stopped" /\ t.of \notin ended
  BY DEF TasksFine, EndedStays, Reloads
<1>4. ChargedOnce'
  BY <1>1, <1>2 DEF TasksFine, ChargedOnce
<1>5. EndedStays'
  BY <1>1, <1>2, <1>3 DEF TasksFine, EndedStays
<1>. QED
  BY <1>4, <1>5 DEF TasksFine

(* A reload for the crash c, by the task t of it, or for the reload owed.  *)
LEMMA TasksReload ==
  ASSUME CrashTypes, TasksFine, NEW c \in Crashes, ReloadFor(c), recoveries' \subseteq recoveries,
         UNCHANGED <<charged, ended, view, bound, crash>>,
         \/ deferred[2] = c /\ deferred' = NotOwed
         \/ /\ deferred' = deferred
            /\ \E t \in recoveries : t.of = c /\ t.at = "backoff" /\ recoveries' = recoveries \ {t}
  PROVE  TasksFine' /\ reloaded[c] = 0
<1>1. reloaded[c] = 0 /\ charged[c] = 1
  BY DEF CrashTypes, TasksFine, ChargedOnce
<1>2. /\ reloaded' \in [Crashes -> 0 .. 1]
      /\ \A d \in Crashes : d # c => reloaded'[d] = reloaded[d]
  BY <1>1, ReloadForTypes
<1>3. 0 \notin Crashes /\ (\A t \in recoveries : t.of \in Crashes) /\ ended \subseteq Crashes
  BY CrashAssumption DEF CrashTypes, Crashes
<1>4. deferred'[2] \notin Crashes \/ (deferred'[2] = deferred[2] /\ deferred[2] # c)
  BY <1>3 DEF NotOwed, TasksFine, ChargedOnce
<1>5. \A t \in recoveries' : t.of = c => t.at = "marked"
  BY DEF TasksFine, ChargedOnce
<1>6. c \notin ended
  BY DEF TasksFine, ChargedOnce, EndedStays
<1>7. ChargedOnce'
  BY <1>1, <1>2, <1>3, <1>4, <1>5 DEF TasksFine, ChargedOnce
<1>8. EndedStays'
  BY <1>2, <1>3, <1>4, <1>6 DEF TasksFine, EndedStays
<1>. QED
  BY <1>1, <1>7, <1>8 DEF TasksFine

LEMMA TasksAdmit ==
  ASSUME CrashTypes, ReportsFine, TasksFine, NEW r \in reports, Admit(r)
  PROVE  TasksFine'
<1>1. /\ charged[r.of] = 0 /\ r.of \in Crashes /\ charged'[r.of] = 1
      /\ \A d \in Crashes : d # r.of => charged'[d] = charged[d]
  BY AdmitEffect DEF ReportsFine
<1>2. PICK n \in TaskRecords : n.of = r.of /\ n.why = r.why /\ n.at = "decide" /\ recoveries' = recoveries \cup {n}
  BY AdmitEffect DEF ReportsFine
<1>3. UNCHANGED <<deferred, reloaded>> /\ ended' = IF r.why = "stopped" THEN ended \cup {r.of} ELSE ended
  BY DEF Admit
<1>4. (\A t \in recoveries : t.of \in Crashes /\ t.of # r.of) /\ ended \subseteq Crashes /\ r.of \notin ended
  BY <1>1 DEF CrashTypes, TasksFine, ChargedOnce, EndedStays
<1>5. reloaded[r.of] = 0 /\ deferred[2] # r.of
  BY <1>1 DEF TasksFine, ChargedOnce
<1>6. ChargedOnce'
  BY <1>1, <1>2, <1>3, <1>4, <1>5 DEF TasksFine, ChargedOnce
<1>7. EndedStays'
  BY <1>1, <1>2, <1>3, <1>4, <1>5 DEF TasksFine, EndedStays
<1>. QED
  BY <1>6, <1>7 DEF TasksFine

-----------------------------------------------------------------------------
(* A step that reloads the page for c, and one that leaves the registry.   *)
OtherTypes ==
  /\ view \in 0 .. MaxViews /\ bound \in 1 .. MaxViews /\ place \in {"back", "main", "torn"}
  /\ view <= bound /\ (deferred[1] # 0 => deferred[2] # 0)
  /\ page \in {"live", "dead"} /\ crash \in 0 .. MaxCrashes
  /\ count \in 0 .. MaxAttempts /\ age \in 0 .. Calm /\ silence \in 0 .. Calm
  /\ newest \in 0 .. MaxCrashes /\ deferred \in (0 .. MaxViews) \X (0 .. MaxCrashes)
  /\ spell \in 0 .. MaxAttempts /\ ended \subseteq Crashes
  /\ recoveries \subseteq TaskRecords
ReportTypes ==
  /\ reports \subseteq ReportRecords
  /\ \A r \in reports : r.of <= crash /\ r.in <= bound
ChargeTypes ==
  /\ charged \in [Crashes -> 0 .. 1] /\ reloaded \in [Crashes -> 0 .. 1]
  /\ \A c \in Crashes : charged[c] # 0 => c <= crash

LEMMA TypesSplit ==
  /\ CrashTypes <=> OtherTypes /\ ReportTypes /\ ChargeTypes
  /\ CrashTypes' <=> OtherTypes' /\ ReportTypes' /\ ChargeTypes'
  BY DEF CrashTypes, OtherTypes, ReportTypes, ChargeTypes, ReportRecords, TaskRecords

LEMMA NotOwedTyped == NotOwed \in (0 .. MaxViews) \X (0 .. MaxCrashes) /\ NotOwed[1] = 0 /\ NotOwed[2] = 0
  BY CrashAssumption DEF NotOwed

LEMMA ReloadTypes ==
  ASSUME CrashTypes, NEW c \in Crashes, reloaded[c] = 0, ReloadFor(c),
         UNCHANGED <<view, bound, crash, charged, count, age, silence, spell, ended>>,
         place' \in {"back", "main", "torn"}, recoveries' \subseteq recoveries,
         deferred' = deferred \/ deferred' = NotOwed
  PROVE  CrashTypes'
<1>1. /\ newest' = 0 /\ page' \in {"live", page} /\ reports' \subseteq ReportRecords
      /\ \A r \in reports' : r.of <= crash /\ r.in <= bound
      /\ reloaded' \in [Crashes -> 0 .. 1]
  BY ReloadForTypes
<1>2. OtherTypes /\ ChargeTypes
  BY TypesSplit
<1>3. OtherTypes'
  BY <1>1, <1>2, NotOwedTyped, CrashAssumption DEF OtherTypes
<1>4. ReportTypes' /\ ChargeTypes'
  BY <1>1, <1>2 DEF ReportTypes, ChargeTypes
<1>. QED
  BY <1>3, <1>4, TypesSplit

CrashStep == CrashTypes' /\ ReportsFine' /\ TasksFine' /\ Paced' /\ NotOwedInMain'

LEMMA CrashParts ==
  CrashInductive <=> CrashTypes /\ ReportsFine /\ TasksFine /\ Paced /\ NotOwedInMain
  BY DEF CrashInductive, ReportsFine, TasksFine

(* A step that reloads nothing, and gives up tasks or the owed reload at   *)
(* most.                                                                   *)
LEMMA NothingReloaded ==
  ASSUME CrashInductive, recoveries' \subseteq recoveries, deferred' = deferred \/ deferred' = NotOwed,
         place' \in {"back", "main", "torn"},
         UNCHANGED <<view, bound, page, crash, reports, count, age, newest, charged, reloaded,
                     spell, silence, ended>>
  PROVE  CrashTypes' /\ ReportsFine' /\ TasksFine' /\ Paced'
<1>1. CrashTypes /\ ReportsFine /\ TasksFine /\ Paced /\ NotOwedInMain
  BY CrashParts
<1>2. OtherTypes /\ ReportTypes /\ ChargeTypes
  BY <1>1, TypesSplit
<1>3. OtherTypes' /\ ReportTypes' /\ ChargeTypes' /\ Paced'
  BY <1>1, <1>2, NotOwedTyped DEF OtherTypes, ReportTypes, ChargeTypes, Paced
<1>4. TasksFine' /\ ReportsFine'
  BY <1>1, TasksSame, ReportsSame
<1>. QED
  BY <1>3, <1>4, TypesSplit

LEMMA EngineStep ==
  ASSUME CrashInductive, Dies \/ TimePasses \/ SessionCloses PROVE CrashStep
<1>1. CrashTypes /\ ReportsFine /\ TasksFine /\ Paced /\ NotOwedInMain
  BY CrashParts
<1>2. OtherTypes /\ ReportTypes /\ ChargeTypes
  BY <1>1, TypesSplit
<1>3. CASE Dies
  <2>1. /\ page' = "dead" /\ crash' = crash + 1 /\ crash' \in Crashes
        /\ reports \subseteq reports' /\ reports' \subseteq ReportRecords
        /\ \A r \in reports' \ reports : r.of = crash' /\ r.in = view
    BY <1>1, <1>3, DiesEffect
  <2>2. UNCHANGED <<tab, registry, recoveries, history>>
    BY <1>3 DEF Dies
  <2>. USE DEF tab, registry, history
  <2>3. crash \in Nat /\ view \in Nat /\ bound \in Nat /\ view <= bound
    BY <1>2, CrashAssumption DEF OtherTypes
  <2>4. OtherTypes'
    BY <1>2, <2>1, <2>2 DEF OtherTypes, Crashes
  <2>5. ReportTypes'
    <3>1. \A r \in reports' : r.of \in Nat
      BY <2>1 DEF ReportRecords, Crashes
    <3>. QED
      BY <1>2, <2>1, <2>2, <2>3, <3>1 DEF ReportTypes
  <2>6. ChargeTypes'
    <3>1. \A c \in Crashes : c \in Nat
      BY DEF Crashes
    <3>. QED
      BY <1>2, <2>1, <2>2, <2>3, <3>1 DEF ChargeTypes
  <2>7. ReportsFine'
    BY <1>1, <1>3, ReportsDies
  <2>8. TasksFine'
    BY <1>1, <2>2, TasksSame
  <2>9. Paced' /\ NotOwedInMain'
    BY <1>1, <2>2 DEF Paced, NotOwedInMain, Owed
  <2>. QED
    BY <2>4, <2>5, <2>6, <2>7, <2>8, <2>9, TypesSplit DEF CrashStep
<1>4. CASE TimePasses
  <2>1. /\ \A r \in reports : r.in # view
        /\ age' = IF age < Calm THEN age + 1 ELSE age
        /\ silence' = IF silence < Calm THEN silence + 1 ELSE silence
        /\ newest' = 0
        /\ UNCHANGED <<view, bound, place, page, crash, reports, count, deferred, recoveries, charged, reloaded, spell, ended>>
    BY <1>4 DEF TimePasses, tab
  <2>2. OtherTypes'
    BY <1>2, <2>1, CrashAssumption DEF OtherTypes, Calm
  <2>3. ReportTypes' /\ ChargeTypes'
    BY <1>2, <2>1 DEF ReportTypes, ChargeTypes
  <2>4. ReportsFine'
    <3>1. \A r \in reports' : OutOfDate(r)' /\ ~(Native(r) /\ r.in = view')
      BY <2>1 DEF OutOfDate
    <3>. QED
      BY <3>1, ReportsDone
  <2>5. TasksFine'
    BY <1>1, <2>1, TasksSame
  <2>6. Paced'
    BY <1>1, <1>2, <2>1 DEF Paced, OtherTypes, Calm
  <2>7. NotOwedInMain'
    BY <1>1, <2>1 DEF NotOwedInMain, Owed
  <2>. QED
    BY <2>2, <2>3, <2>4, <2>5, <2>6, <2>7, TypesSplit DEF CrashStep
<1>5. CASE SessionCloses
  <2>1. UNCHANGED <<view, bound, place, page, crash, reports, registry, recoveries, history>>
    BY <1>5 DEF SessionCloses
  <2>. USE <2>1 DEF registry, history
  <2>2. CrashTypes' /\ ReportsFine' /\ TasksFine' /\ Paced'
    BY <1>2, NothingReloaded DEF OtherTypes
  <2>3. NotOwedInMain'
    BY <1>1 DEF NotOwedInMain, Owed
  <2>. QED
    BY <2>2, <2>3 DEF CrashStep
<1>. QED
  BY <1>3, <1>4, <1>5

LEMMA RegistryStep ==
  ASSUME CrashInductive, NEW r \in reports, ReportStep(r) PROVE CrashStep
<1>1. CrashTypes /\ ReportsFine /\ TasksFine /\ Paced /\ NotOwedInMain
  BY CrashParts
<1>2. OtherTypes /\ ReportTypes /\ ChargeTypes
  BY <1>1, TypesSplit
<1>3. CASE Refuse(r)
  <2>1. reports' = reports \ {r} /\ UNCHANGED <<tab, page, crash, registry, recoveries, history>>
    BY <1>3 DEF Refuse
  <2>. USE DEF tab, registry, history
  <2>2. OtherTypes' /\ ReportTypes' /\ ChargeTypes'
    BY <1>2, <2>1 DEF OtherTypes, ReportTypes, ChargeTypes
  <2>3. TasksFine' /\ ReportsFine'
    BY <1>1, <1>3, <2>1, TasksSame, ReportsRefuse
  <2>4. Paced' /\ NotOwedInMain'
    BY <1>1, <2>1 DEF Paced, NotOwedInMain, Owed
  <2>. QED
    BY <2>2, <2>3, <2>4, TypesSplit DEF CrashStep
<1>4. CASE Fold(r)
  <2>1. /\ reports' = reports \ {r} /\ newest' = r.of
        /\ UNCHANGED <<tab, page, crash, count, age, deferred, recoveries, history>>
    BY <1>4 DEF Fold
  <2>. USE DEF tab, history
  <2>2. r.of \in 0 .. MaxCrashes
    BY <1>2, CrashAssumption DEF ReportTypes, ReportRecords, Crashes
  <2>3. OtherTypes' /\ ReportTypes' /\ ChargeTypes'
    BY <1>2, <2>1, <2>2 DEF OtherTypes, ReportTypes, ChargeTypes
  <2>4. TasksFine' /\ ReportsFine'
    BY <1>1, <1>4, <2>1, TasksSame, ReportsFold
  <2>5. Paced' /\ NotOwedInMain'
    BY <1>1, <2>1 DEF Paced, NotOwedInMain, Owed
  <2>. QED
    BY <2>3, <2>4, <2>5, TypesSplit DEF CrashStep
<1>5. CASE Admit(r)
  <2>1. /\ r.of \in Crashes /\ charged' \in [Crashes -> 0 .. 1]
        /\ \A d \in Crashes : d # r.of => charged'[d] = charged[d]
        /\ \E n \in TaskRecords : n.of = r.of /\ n.at = "decide" /\ recoveries' = recoveries \cup {n}
    BY <1>1, <1>5, AdmitEffect DEF ReportsFine
  <2>2. /\ count' \in 0 .. MaxAttempts /\ spell' \in 0 .. MaxAttempts
        /\ age' = 0 /\ silence' = 0 /\ spell' <= count'
    BY <1>1, <1>5, ChargePaces
  <2>3. /\ reports' = reports \ {r} /\ newest' = r.of
        /\ ended' = IF r.why = "stopped" THEN ended \cup {r.of} ELSE ended
        /\ UNCHANGED <<view, bound, place, page, crash, deferred, reloaded>>
    BY <1>5 DEF Admit, tab
  <2>4. OtherTypes'
    <3>0. r.of \in 0 .. MaxCrashes
      BY <2>1, CrashAssumption DEF Crashes
    <3>1. r.of \in 0 .. MaxCrashes /\ ended' \subseteq Crashes
      <4>1. ended \subseteq Crashes /\ (ended' = ended \/ ended' = ended \cup {r.of})
        BY <1>2, <2>3 DEF OtherTypes
      <4>. QED
        BY <2>1, <3>0, <4>1
    <3>2. recoveries' \subseteq TaskRecords
      BY <1>2, <2>1 DEF OtherTypes
    <3>. QED
      BY <1>2, <2>2, <2>3, <3>1, <3>2 DEF OtherTypes, Calm
  <2>5. ReportTypes' /\ ChargeTypes'
    BY <1>2, <2>1, <2>3 DEF ReportTypes, ChargeTypes
  <2>6. TasksFine' /\ ReportsFine'
    BY <1>1, <1>5, TasksAdmit, ReportsAdmit
  <2>7. Paced'
    BY <2>2 DEF Paced
  <2>8. NotOwedInMain'
    BY <1>1, <2>1, <2>3 DEF NotOwedInMain, Owed
  <2>. QED
    BY <2>4, <2>5, <2>6, <2>7, <2>8, TypesSplit DEF CrashStep
<1>. QED
  BY <1>3, <1>4, <1>5 DEF ReportStep

(* The reload made for the crash c by a step that shows the tab, or that   *)
(* ends a task.                                                            *)
LEMMA ReloadStep ==
  ASSUME CrashInductive, NEW c \in Crashes, ReloadFor(c), recoveries' \subseteq recoveries,
         UNCHANGED <<view, bound, crash, charged, count, age, silence, spell, ended>>,
         place' \in {"back", "main", "torn"},
         \/ deferred[2] = c /\ deferred' = NotOwed
         \/ /\ deferred' = deferred
            /\ \E t \in recoveries : t.of = c /\ t.at = "backoff" /\ recoveries' = recoveries \ {t}
  PROVE  CrashTypes' /\ ReportsFine' /\ TasksFine' /\ Paced'
<1>1. CrashTypes /\ ReportsFine /\ TasksFine /\ Paced
  BY CrashParts
<1>2. TasksFine' /\ reloaded[c] = 0
  BY <1>1, TasksReload
<1>3. CrashTypes'
  BY <1>1, <1>2, ReloadTypes
<1>4. ReportsFine'
  BY <1>1, <1>2, ReportsReload
<1>5. Paced'
  BY <1>1 DEF Paced
<1>. QED
  BY <1>2, <1>3, <1>4, <1>5

(* The crash whose reload is owed to the tab's view.                       *)
LEMMA OwedCrash ==
  ASSUME CrashTypes, deferred[1] = view, view # 0
  PROVE  deferred[2] \in Crashes
  BY CrashAssumption DEF CrashTypes, Crashes

LEMMA RecoverStep ==
  ASSUME CrashInductive, NEW t \in recoveries, RecoveryStep(t) PROVE CrashStep
<1>1. CrashTypes /\ ReportsFine /\ TasksFine /\ Paced /\ NotOwedInMain
  BY CrashParts
<1>2. OtherTypes /\ ReportTypes /\ ChargeTypes
  BY <1>1, TypesSplit
<1>3. t \in TaskRecords /\ t.of \in Crashes /\ t.in \in 1 .. MaxViews
  BY <1>2 DEF OtherTypes, TaskRecords
<1>4. CASE Returns(t) \/ NoticeFails(t)
  <2>1. /\ recoveries' = recoveries \ {t} /\ (t.in = view => t.at # "marked")
        /\ UNCHANGED <<view, bound, place, page, crash, reports, registry, charged, reloaded, spell,
                       silence, ended>>
    BY <1>4 DEF Returns, NoticeFails, tab, history
  <2>. USE <2>1 DEF registry
  <2>2. CrashTypes' /\ ReportsFine' /\ TasksFine' /\ Paced'
    BY <1>2, NothingReloaded DEF OtherTypes
  <2>3. NotOwedInMain'
    BY <1>1 DEF NotOwedInMain, Owed
  <2>. QED
    BY <2>2, <2>3 DEF CrashStep
<1>5. CASE Decide(t)
  <2>1. t.at = "decide" /\ t.in = view /\ UNCHANGED <<tab, page, crash, reports, registry, history>>
    BY <1>5 DEF Decide
  <2>. USE DEF tab, registry, history
  <2>2. ReportTypes' /\ ChargeTypes' /\ Paced' /\ ReportsFine'
    BY <1>1, <1>2, <2>1, ReportsSame DEF ReportTypes, ChargeTypes, Paced
  <2>3. CASE recoveries' = recoveries \ {t}
    <3>1. OtherTypes'
      BY <1>2, <2>1, <2>3 DEF OtherTypes
    <3>2. TasksFine'
      BY <1>1, <2>1, <2>3, TasksSame
    <3>3. NotOwedInMain'
      BY <1>1, <2>1, <2>3 DEF NotOwedInMain, Owed
    <3>. QED
      BY <2>2, <3>1, <3>2, <3>3, TypesSplit DEF CrashStep
  <2>4. ASSUME NEW at \in {"backoff", "defer"}, To(t, at), Reloads(t) PROVE CrashStep
    <3>1. PICK n \in recoveries' : recoveries' = (recoveries \ {t}) \cup {n} /\ n.at = at /\ recoveries' \subseteq TaskRecords
      BY <1>2, <2>4, ToTypes DEF OtherTypes
    <3>2. OtherTypes'
      BY <1>2, <2>1, <3>1 DEF OtherTypes
    <3>3. TasksFine'
      BY <1>1, <2>1, <2>4, TasksTo
    <3>4. NotOwedInMain'
      BY <1>1, <2>1, <3>1 DEF NotOwedInMain, Owed
    <3>. QED
      BY <2>2, <3>2, <3>3, <3>4, TypesSplit DEF CrashStep
  <2>. QED
    BY <1>5, <2>3, <2>4 DEF Decide
<1>6. CASE Defer(t)
  <2>1. /\ t.at = "defer" /\ t.in = view /\ deferred' = <<view, t.of>> /\ To(t, "marked")
        /\ UNCHANGED <<tab, page, crash, reports, count, age, newest, history>>
    BY <1>6 DEF Defer
  <2>. USE DEF tab, registry, history
  <2>2. ReportTypes' /\ ChargeTypes' /\ Paced' /\ ReportsFine'
    BY <1>1, <1>2, <2>1, ReportsSame DEF ReportTypes, ChargeTypes, Paced
  <2>3. PICK n \in recoveries' : /\ recoveries' = (recoveries \ {t}) \cup {n} /\ n.at = "marked" /\ n.in = t.in
                            /\ recoveries' \subseteq TaskRecords
    BY <1>2, <2>1, ToTypes DEF OtherTypes
  <2>4. OtherTypes'
    <3>1. t.of \in 0 .. MaxCrashes /\ t.of # 0 /\ view \in 0 .. MaxViews
      BY <1>2, <1>3, CrashAssumption DEF Crashes, OtherTypes
    <3>2. /\ deferred' \in (0 .. MaxViews) \X (0 .. MaxCrashes)
          /\ deferred'[2] # 0
      BY <2>1, <3>1
    <3>. QED
      BY <1>2, <2>1, <2>3, <3>2 DEF OtherTypes
  <2>5. TasksFine'
    <3>1. deferred'[2] = t.of
      BY <2>1
    <3>. QED
      BY <1>1, <2>1, <3>1, TasksTo
  <2>6. NotOwedInMain'
    BY <2>1, <2>3 DEF NotOwedInMain, Owed
  <2>. QED
    BY <2>2, <2>4, <2>5, <2>6, TypesSplit DEF CrashStep
<1>7. CASE LooksAgain(t)
  <2>1. /\ t.at = "marked" /\ t.in = view /\ recoveries' = recoveries \ {t} /\ view # 0
        /\ UNCHANGED <<view, bound, place, crash, count, age, charged, spell, silence, ended>>
    BY <1>3, <1>7 DEF LooksAgain, tab
  <2>2. CASE Shown /\ deferred[1] = view /\ attached
    <3>1. ReloadFor(deferred[2]) /\ deferred' = NotOwed
      BY <1>7, <2>2 DEF LooksAgain, ReloadThrough
    <3>2. deferred[2] \in Crashes
      BY <1>1, <2>1, <2>2, OwedCrash DEF CrashTypes
    <3>3. CrashTypes' /\ ReportsFine' /\ TasksFine' /\ Paced'
      BY <1>2, <2>1, <3>1, <3>2, ReloadStep DEF OtherTypes
    <3>4. NotOwedInMain'
      BY <2>1, <3>1, NotOwedTyped DEF NotOwedInMain, Owed
    <3>. QED
      BY <3>3, <3>4 DEF CrashStep
  <2>3. CASE ~(Shown /\ deferred[1] = view /\ attached)
    <3>1. /\ UNCHANGED <<page, newest, reports, reloaded>>
          /\ IF Shown /\ deferred[1] = view THEN deferred' = NotOwed ELSE deferred' = deferred
      BY <1>7, <2>3 DEF LooksAgain, ReloadThrough, NoReload
    <3>2. CrashTypes' /\ ReportsFine' /\ TasksFine' /\ Paced'
      BY <1>2, <2>1, <3>1, NothingReloaded DEF OtherTypes
    <3>3. NotOwedInMain'
      BY <2>1, <3>1, NotOwedTyped DEF NotOwedInMain, Owed, Shown
    <3>. QED
      BY <3>2, <3>3 DEF CrashStep
  <2>. QED
    BY <2>2, <2>3
<1>8. CASE ReloadNow(t)
  <2>1. /\ t.at = "backoff" /\ t.in = view /\ recoveries' = recoveries \ {t} /\ ReloadThrough(t.of)
        /\ UNCHANGED <<view, bound, place, crash, count, age, deferred, charged, spell, silence, ended>>
    BY <1>8 DEF ReloadNow, tab
  <2>2. CrashTypes' /\ ReportsFine' /\ TasksFine' /\ Paced'
    <3>1. CASE attached
      BY <1>2, <1>3, <2>1, <3>1, ReloadStep DEF OtherTypes, ReloadThrough
    <3>2. CASE ~attached
      <4>1. UNCHANGED <<page, newest, reports, reloaded>>
        BY <2>1, <3>2 DEF ReloadThrough, NoReload
      <4>. QED
        BY <1>2, <2>1, <4>1, NothingReloaded DEF OtherTypes
    <3>. QED
      BY <3>1, <3>2
  <2>3. NotOwedInMain'
    BY <1>1, <2>1 DEF NotOwedInMain, Owed
  <2>. QED
    BY <2>2, <2>3 DEF CrashStep
<1>. QED
  BY <1>4, <1>5, <1>6, <1>7, <1>8 DEF RecoveryStep

LEMMA TabStep ==
  ASSUME CrashInductive, Show \/ TearOff \/ Hide \/ PersonReloads \/ Drop \/ Bind \/ UNCHANGED kVars
  PROVE  CrashStep
<1>1. CrashTypes /\ ReportsFine /\ TasksFine /\ Paced /\ NotOwedInMain
  BY CrashParts
<1>2. OtherTypes /\ ReportTypes /\ ChargeTypes
  BY <1>1, TypesSplit
<1>3. CASE Show
  <2>1. /\ view # 0 /\ place' = "main"
        /\ UNCHANGED <<view, bound, crash, count, age, recoveries, charged, spell, silence, ended>>
    BY <1>3 DEF Show
  <2>2. CASE deferred[1] = view
    <3>1. ReloadFor(deferred[2]) /\ deferred' = NotOwed
      BY <1>3, <2>2 DEF Show
    <3>2. deferred[2] \in Crashes
      BY <1>1, <2>1, <2>2, OwedCrash DEF CrashTypes
    <3>3. CrashTypes' /\ ReportsFine' /\ TasksFine' /\ Paced'
      BY <2>1, <3>1, <3>2, ReloadStep
    <3>4. NotOwedInMain'
      BY <2>1, <3>1, NotOwedTyped DEF NotOwedInMain, Owed
    <3>. QED
      BY <3>3, <3>4 DEF CrashStep
  <2>3. CASE deferred[1] # view
    <3>1. UNCHANGED <<page, newest, reports, deferred, reloaded>>
      BY <1>3, <2>3 DEF Show, NoReload
    <3>2. CrashTypes' /\ ReportsFine' /\ TasksFine' /\ Paced'
      BY <2>1, <3>1, NothingReloaded
    <3>3. NotOwedInMain'
      BY <2>1, <2>3, <3>1 DEF NotOwedInMain, Owed
    <3>. QED
      BY <3>2, <3>3 DEF CrashStep
  <2>. QED
    BY <2>2, <2>3
<1>4. CASE TearOff \/ Hide
  <2>1. /\ place' \in {"torn", "back"}
        /\ UNCHANGED <<view, bound, page, crash, reports, registry, recoveries, history>>
    BY <1>4 DEF TearOff, Hide
  <2>. USE DEF registry, history
  <2>2. OtherTypes' /\ ReportTypes' /\ ChargeTypes' /\ Paced'
    BY <1>1, <1>2, <2>1 DEF OtherTypes, ReportTypes, ChargeTypes, Paced
  <2>3. TasksFine' /\ ReportsFine'
    BY <1>1, <2>1, TasksSame, ReportsSame
  <2>4. NotOwedInMain'
    BY <2>1 DEF NotOwedInMain
  <2>. QED
    BY <2>2, <2>3, <2>4, TypesSplit DEF CrashStep
<1>5. CASE PersonReloads
  <2>1. /\ Delivered /\ page' = "live"
        /\ UNCHANGED <<tab, crash, reports, registry, recoveries, charged, reloaded, spell, silence,
                       ended>>
    BY <1>5 DEF PersonReloads, Revives
  <2>. USE DEF tab, registry
  <2>2. OtherTypes' /\ ReportTypes' /\ ChargeTypes' /\ Paced'
    BY <1>1, <1>2, <2>1 DEF OtherTypes, ReportTypes, ChargeTypes, Paced
  <2>3. TasksFine'
    BY <1>1, <2>1, TasksSame
  <2>4. ReportsFine'
    BY <1>1, <2>1 DEF ReportsFine, NativeFirst, Unheard, HeardOnce, Native, OutOfDate, Delivered
  <2>5. NotOwedInMain'
    BY <1>1, <2>1 DEF NotOwedInMain, Owed
  <2>. QED
    BY <2>2, <2>3, <2>4, <2>5, TypesSplit DEF CrashStep
<1>6. CASE Drop \/ Bind
  <2>1. /\ \/ view' = 0 /\ bound' = bound /\ place' = "back" /\ page' = page
           \/ /\ bound < MaxViews /\ bound' = bound + 1 /\ view' = bound'
              /\ place' = place /\ page' = "live"
        /\ count' = 0 /\ age' = Calm /\ newest' = 0 /\ deferred' = NotOwed
        /\ spell' = 0 /\ silence' = Calm
        /\ UNCHANGED <<crash, reports, recoveries, charged, reloaded, ended>>
    BY <1>6 DEF Drop, Bind, Revives
  <2>2. OtherTypes'
    BY <1>2, <2>1, NotOwedTyped, CrashAssumption DEF OtherTypes, Calm
  <2>3. ReportTypes' /\ ChargeTypes'
    <3>1. \A r \in reports : r.in \in Nat
      BY <1>2 DEF ReportTypes, ReportRecords
    <3>2. bound \in Nat
      BY <1>2 DEF OtherTypes
    <3>. QED
      BY <1>2, <2>1, <3>1, <3>2 DEF ReportTypes, ChargeTypes
  <2>4. TasksFine'
    BY <1>1, <2>1, TasksSame
  <2>5. ReportsFine'
    <3>1. \A r \in reports : r.in \in Nat \ {0} /\ r.in <= bound
      BY <1>2 DEF ReportTypes, ReportRecords
    <3>2. bound \in Nat
      BY <1>2 DEF OtherTypes
    <3>3. \A r \in reports' : r.in # view'
      BY <2>1, <3>1, <3>2
    <3>. QED
      BY <3>3, ReportsDone DEF OutOfDate
  <2>6. Paced'
    BY <2>1 DEF Paced
  <2>7. NotOwedInMain'
    <3>1. bound \in Nat
      BY <1>2 DEF OtherTypes
    <3>. QED
      BY <2>1, <3>1, NotOwedTyped DEF NotOwedInMain, Owed
  <2>. QED
    BY <2>2, <2>3, <2>4, <2>5, <2>6, <2>7, TypesSplit DEF CrashStep
<1>7. CASE UNCHANGED kVars
  <2>. USE <1>7 DEF kVars, tab, registry, history
  <2>2. OtherTypes' /\ ReportTypes' /\ ChargeTypes' /\ Paced'
    BY <1>1, <1>2 DEF OtherTypes, ReportTypes, ChargeTypes, Paced
  <2>3. TasksFine' /\ ReportsFine'
    BY <1>1, TasksSame, ReportsSame
  <2>4. NotOwedInMain'
    BY <1>1 DEF NotOwedInMain, Owed
  <2>. QED
    BY <2>2, <2>3, <2>4, TypesSplit DEF CrashStep
<1>. QED
  BY <1>3, <1>4, <1>5, <1>6, <1>7

-----------------------------------------------------------------------------
(* The inductive invariant, for any budget, views and crashes.             *)
THEOREM CrashInvariance == CrashSafety => []CrashInductive
<1>1. ASSUME CrashInit PROVE CrashInductive
  <2>. USE <1>1, CrashAssumption, NotOwedTyped DEF CrashInit
  <2>2. CrashTypes
    BY DEF CrashTypes, Calm, Crashes
  <2>3. NativeFirst /\ Unheard /\ HeardOnce
    BY DEF NativeFirst, Unheard, HeardOnce
  <2>4. ChargedOnce /\ EndedStays
    BY DEF ChargedOnce, EndedStays, Crashes
  <2>5. Paced /\ NotOwedInMain
    BY DEF Paced, NotOwedInMain, Owed, NotOwed
  <2>. QED
    BY <2>2, <2>3, <2>4, <2>5 DEF CrashInductive
<1>2. ASSUME CrashInductive, [CrashNext]_kVars PROVE CrashInductive'
  <2>1. CrashStep
    BY <1>2, EngineStep, RegistryStep, RecoverStep, TabStep DEF CrashNext
  <2>. QED
    BY <2>1 DEF CrashStep, CrashInductive, ReportsFine, TasksFine
<1>. QED
  BY <1>1, <1>2, PTL DEF CrashSafety

-----------------------------------------------------------------------------
(* What is promised. Only a dead page is; and the task that has marked the *)
(* owed reload, and is to look again, finds it owed, or the reload was     *)
(* tried and refused meanwhile.                                            *)
FlagTypes == {attached, promised, letgo} \subseteq BOOLEAN
PromisedInv == promised => page = "dead"
MarkedInv ==
  \A t \in recoveries : t.at = "marked" /\ t.in = view /\ t.of = crash /\ promised
    => deferred[1] = view \/ ~attached \/ letgo
PromiseFine == PromisedInv /\ MarkedInv /\ Answered

LEMMA FlagStep == FlagTypes /\ [CrashNext]_kVars => FlagTypes'
<1>. SUFFICES ASSUME FlagTypes, [CrashNext]_kVars PROVE FlagTypes'
  OBVIOUS
<1>. USE DEF FlagTypes
<1>1. CASE Dies \/ TimePasses \/ TearOff \/ Hide \/ UNCHANGED kVars
  <2>1. UNCHANGED <<attached, promised, letgo>>
    BY <1>1 DEF Dies, TimePasses, TearOff, Hide, kVars, tab, history, fate
  <2>. QED
    BY <2>1
<1>2. CASE SessionCloses
  <2>1. attached' = FALSE /\ UNCHANGED <<promised, letgo>>
    BY <1>2 DEF SessionCloses, history, fate
  <2>. QED
    BY <2>1
<1>3. ASSUME NEW c, ReloadFor(c), UNCHANGED attached PROVE FlagTypes'
  <2>1. CASE Revives
    BY <1>3, <2>1 DEF Revives
  <2>2. CASE letgo' = (page = "dead") /\ UNCHANGED promised
    <3>1. letgo' \in BOOLEAN
      BY <2>2
    <3>. QED
      BY <1>3, <2>2, <3>1
  <2>. QED
    BY <1>3, <2>1, <2>2 DEF ReloadFor
<1>4. ASSUME NoReload, UNCHANGED attached PROVE FlagTypes'
  BY <1>4 DEF NoReload, fate
<1>5. CASE Show
  BY <1>3, <1>4, <1>5 DEF Show
<1>6. CASE PersonReloads \/ Drop \/ Bind
  <2>1. attached' \in {attached, TRUE, FALSE} /\ promised' = FALSE /\ letgo' = FALSE
    BY <1>6 DEF PersonReloads, Drop, Bind, Revives, tab
  <2>. QED
    BY <2>1
<1>7. ASSUME NEW r \in reports, ReportStep(r) PROVE FlagTypes'
  <2>1. CASE Refuse(r) \/ Fold(r)
    BY <2>1 DEF Refuse, Fold, tab, history, fate
  <2>2. CASE Admit(r)
    <3>1. promised' \in BOOLEAN
      BY <2>2 DEF Admit
    <3>2. UNCHANGED <<attached, letgo>>
      BY <2>2 DEF Admit, tab
    <3>. QED
      BY <3>1, <3>2
  <2>. QED
    BY <1>7, <2>1, <2>2 DEF ReportStep
<1>8. ASSUME NEW t \in recoveries, RecoveryStep(t) PROVE FlagTypes'
  <2>1. CASE Returns(t) \/ Decide(t) \/ Defer(t)
    BY <2>1 DEF Returns, Decide, Defer, tab, history, fate
  <2>2. CASE NoticeFails(t)
    <3>1. letgo' \in BOOLEAN
      BY <2>2 DEF NoticeFails
    <3>2. UNCHANGED <<attached, promised>>
      BY <2>2 DEF NoticeFails, tab
    <3>. QED
      BY <3>1, <3>2
  <2>3. CASE LooksAgain(t)
    BY <1>3, <1>4, <2>3 DEF LooksAgain, ReloadThrough, tab
  <2>4. CASE ReloadNow(t)
    BY <1>3, <1>4, <2>4 DEF ReloadNow, ReloadThrough, tab
  <2>. QED
    BY <1>8, <2>1, <2>2, <2>3, <2>4 DEF RecoveryStep
<1>. QED
  BY <1>1, <1>2, <1>5, <1>6, <1>7, <1>8 DEF CrashNext

(* Steps that leave nothing promised, or let the promise go.               *)
LEMMA NothingPromised ==
  ASSUME ~promised' PROVE PromiseFine'
  BY DEF PromiseFine, PromisedInv, MarkedInv, Answered

LEMMA PromiseLetGo ==
  ASSUME PromiseFine, UNCHANGED <<page, promised>>, ~attached' \/ letgo' \/ page # "dead"
  PROVE  PromiseFine'
  BY DEF PromiseFine, PromisedInv, MarkedInv, Answered

LEMMA ReloadAnswers ==
  ASSUME PromiseFine, NEW c, ReloadFor(c)
  PROVE  PromiseFine'
<1>1. CASE Revives
  BY <1>1, NothingPromised DEF Revives
<1>2. CASE letgo' = (page = "dead") /\ UNCHANGED <<page, promised>>
  BY <1>2, PromiseLetGo
<1>. QED
  BY <1>1, <1>2 DEF ReloadFor

(* Steps of nobody who is to reload.                                       *)
LEMMA PromiseKept ==
  ASSUME PromiseFine, UNCHANGED <<view, page, crash, promised, recoveries>>,
         deferred' = deferred \/ deferred'[1] = view,
         ~attached => ~attached', letgo => letgo'
  PROVE  PromiseFine'
  BY DEF PromiseFine, PromisedInv, MarkedInv, Answered

(* Steps of a task. It goes on; ends; or has its reload made or owed.      *)
LEMMA TaskAnswers ==
  ASSUME CrashInductive, PromiseFine, NEW t \in recoveries, RecoveryStep(t)
  PROVE  PromiseFine'
<1>1. t \in TaskRecords /\ recoveries \subseteq TaskRecords
  BY DEF CrashInductive, CrashTypes, TaskRecords
<1>2. ASSUME recoveries' = recoveries \ {t}, UNCHANGED <<view, page, crash, promised, letgo, attached, deferred>>,
             t.in # view \/ ~Reloads(t) \/ deferred[1] = view
      PROVE  PromiseFine'
  BY <1>2 DEF PromiseFine, PromisedInv, MarkedInv, Answered
<1>3. CASE Returns(t)
  <2>1. recoveries' = recoveries \ {t} /\ UNCHANGED <<view, page, crash, promised, letgo, attached, deferred>>
        /\ (t.in # view \/ ~attached)
    BY <1>3 DEF Returns, tab, registry, history, fate
  <2>. QED
    BY <1>2, <2>1, PromiseLetGo
<1>4. CASE Decide(t)
  <2>1. t.at = "decide" /\ UNCHANGED <<view, page, crash, promised, letgo, attached, deferred>>
    BY <1>4 DEF Decide, tab, registry, history, fate
  <2>2. ASSUME NEW at \in {"backoff", "defer"}, To(t, at) PROVE PromiseFine'
    <3>1. PICK n \in recoveries' : /\ n.of = t.of /\ n.in = t.in /\ n.plan = t.plan /\ n.why = t.why
                                   /\ n.at = at /\ recoveries' = (recoveries \ {t}) \cup {n}
      BY <1>1, <2>2, ToTypes
    <3>2. PromisedInv' /\ MarkedInv'
      BY <2>1, <3>1 DEF PromiseFine, PromisedInv, MarkedInv
    <3>3. Answered'
      BY <2>1, <3>1 DEF PromiseFine, Answered, Reloads
    <3>. QED
      BY <3>2, <3>3 DEF PromiseFine
  <2>. QED
    BY <1>2, <1>4, <2>1, <2>2 DEF Decide
<1>5. CASE NoticeFails(t)
  <2>1. /\ recoveries' = recoveries \ {t} /\ t.at = "backoff"
        /\ UNCHANGED <<view, page, crash, promised, attached, deferred>>
        /\ (letgo' <=> letgo \/ (page = "dead" /\ t.of = crash))
    BY <1>5 DEF NoticeFails, tab, registry
  <2>2. CASE page = "dead" /\ t.of = crash
    BY <2>1, <2>2, PromiseLetGo
  <2>3. CASE ~(page = "dead" /\ t.of = crash)
    BY <2>1, <2>3 DEF PromiseFine, PromisedInv, MarkedInv, Answered
  <2>. QED
    BY <2>2, <2>3
<1>6. CASE Defer(t)
  <2>1. /\ t.in = view /\ deferred'[1] = view /\ t.in # 0
        /\ UNCHANGED <<view, page, crash, promised, letgo, attached>>
    BY <1>1, <1>6 DEF Defer, tab, history, fate, TaskRecords
  <2>. QED
    BY <2>1 DEF PromiseFine, PromisedInv, MarkedInv, Answered
<1>7. CASE LooksAgain(t)
  <2>1. t.at = "marked" /\ t.in = view /\ recoveries' = recoveries \ {t} /\ UNCHANGED <<view, attached, crash>>
    BY <1>7 DEF LooksAgain, tab
  <2>2. CASE Shown /\ deferred[1] = view /\ attached
    BY <1>7, <2>2, ReloadAnswers DEF LooksAgain, ReloadThrough
  <2>3. CASE ~attached
    <3>1. NoReload
      BY <1>7, <2>3 DEF LooksAgain, ReloadThrough
    <3>. QED
      BY <2>1, <2>3, <3>1, PromiseLetGo DEF NoReload, fate
  <2>4. CASE ~(Shown /\ deferred[1] = view) /\ attached
    <3>1. UNCHANGED <<page, promised, letgo, deferred>>
      BY <1>7, <2>4 DEF LooksAgain, NoReload, fate
    <3>2. CASE t.of = crash /\ promised /\ deferred[1] # view
      <4>1. letgo
        BY <2>1, <2>4, <3>2 DEF PromiseFine, MarkedInv
      <4>. QED
        BY <3>1, <4>1, PromiseLetGo
    <3>3. CASE ~(t.of = crash /\ promised /\ deferred[1] # view)
      BY <2>1, <3>1, <3>3 DEF PromiseFine, PromisedInv, MarkedInv, Answered
    <3>. QED
      BY <3>2, <3>3
  <2>. QED
    BY <2>2, <2>3, <2>4
<1>8. CASE ReloadNow(t)
  <2>1. CASE attached
    BY <1>8, <2>1, ReloadAnswers DEF ReloadNow, ReloadThrough
  <2>2. CASE ~attached
    <3>1. NoReload /\ UNCHANGED attached
      BY <1>8, <2>2 DEF ReloadNow, ReloadThrough, tab
    <3>. QED
      BY <2>2, <3>1, PromiseLetGo DEF NoReload, fate
  <2>. QED
    BY <2>1, <2>2
<1>. QED
  BY <1>3, <1>4, <1>5, <1>6, <1>7, <1>8 DEF RecoveryStep

LEMMA PromiseStep ==
  CrashInductive /\ PromiseFine /\ [CrashNext]_kVars => PromiseFine'
<1>. SUFFICES ASSUME CrashInductive, PromiseFine, [CrashNext]_kVars PROVE PromiseFine'
  OBVIOUS
<1>1. CASE TimePasses \/ SessionCloses \/ TearOff \/ Hide \/ UNCHANGED kVars
  <2>1. UNCHANGED <<view, page, crash, promised, recoveries, deferred, letgo>> /\ (~attached => ~attached')
    BY <1>1 DEF TimePasses, SessionCloses, TearOff, Hide, kVars, tab, registry, history, fate
  <2>. QED
    BY <2>1, PromiseKept
<1>2. CASE Dies
  <2>1. promised' = promised /\ page # "dead"
    BY <1>2 DEF Dies, history, fate
  <2>. QED
    BY <2>1, NothingPromised DEF PromiseFine, PromisedInv
<1>3. CASE PersonReloads \/ Drop \/ Bind
  BY <1>3, NothingPromised DEF PersonReloads, Drop, Bind, Revives
<1>4. CASE Show
  <2>1. CASE deferred[1] = view
    BY <1>4, <2>1, ReloadAnswers DEF Show
  <2>2. CASE deferred[1] # view
    BY <1>4, <2>2, PromiseKept DEF Show, NoReload, fate
  <2>. QED
    BY <2>1, <2>2
<1>5. ASSUME NEW r \in reports, ReportStep(r) PROVE PromiseFine'
  <2>1. CASE Refuse(r) \/ Fold(r)
    <3>1. UNCHANGED <<view, page, crash, promised, recoveries, deferred, letgo, attached>>
      BY <2>1 DEF Refuse, Fold, tab, registry, history, fate
    <3>. QED
      BY <3>1, PromiseKept
  <2>2. CASE Admit(r)
    <3>1. /\ UNCHANGED <<view, page, crash, deferred, letgo, attached>> /\ r.in = view
          /\ recoveries' = recoveries \cup {Recovery(r)}
          /\ (promised' <=> promised \/ (page = "dead" /\ r.of = crash /\ Reloads(Recovery(r))))
      BY <2>2 DEF Admit, OutOfDate, tab
    <3>2. charged[r.of] = 0 /\ \A t \in recoveries : charged[t.of] = 1
      BY <2>2, AdmitEffect DEF CrashInductive, ChargedOnce
    <3>3. Recovery(r).of = r.of /\ Recovery(r).in = r.in /\ Recovery(r).at = "decide"
      BY DEF Recovery
    <3>4. \A t \in recoveries : t.of # r.of
      BY <3>2
    <3>. HIDE DEF Recovery
    <3>5. PromisedInv'
      BY <3>1 DEF PromiseFine, PromisedInv
    <3>6. MarkedInv'
      BY <3>1, <3>3, <3>4 DEF PromiseFine, MarkedInv
    <3>7. Answered'
      BY <3>1, <3>3 DEF PromiseFine, Answered, Reloads
    <3>. QED
      BY <3>5, <3>6, <3>7 DEF PromiseFine
  <2>. QED
    BY <1>5, <2>1, <2>2 DEF ReportStep
<1>6. ASSUME NEW t \in recoveries, RecoveryStep(t) PROVE PromiseFine'
  BY <1>6, TaskAnswers
<1>. QED
  BY <1>1, <1>2, <1>3, <1>4, <1>5, <1>6 DEF CrashNext

(* However the two reports of a crash, the reloads, the person and quiet   *)
(* spells overtake each other: one crash is charged and reloaded for once, *)
(* a page that was not quiet is promised no more than its budget, what was *)
(* ended stays ended, and no reload is owed in the main window             *)
(* (crash.rs: Registry, recover).                                          *)
THEOREM BudgetIsKept == CrashSafety => []Budget
<1>1. CrashInductive /\ FlagTypes => Budget
  BY DEF CrashInductive, CrashTypes, FlagTypes, CrashTypeOK, ChargedOnce, EndedStays, Budget
<1>2. ASSUME CrashInit PROVE FlagTypes
  BY <1>2 DEF CrashInit, FlagTypes
<1>. QED
  BY <1>1, <1>2, FlagStep, CrashInvariance, PTL DEF CrashSafety

(* A dead page that was promised a reload has a task about to make it, or  *)
(* is owed it, unless its DevTools session is closed or missing, the       *)
(* notice could not be delivered, or the reload was tried and refused: the *)
(* early returns of recover and reload_now forget no other                 *)
(* (crash.rs: schedule_recovery, recover, reload_now).                     *)
THEOREM PromisesAreKept == CrashSafety => []Answered
<1>1. ASSUME CrashInit PROVE PromiseFine
  BY <1>1 DEF CrashInit, PromiseFine, PromisedInv, MarkedInv, Answered
<1>2. PromiseFine => Answered
  BY DEF PromiseFine
<1>. QED
  BY <1>1, <1>2, PromiseStep, CrashInvariance, PTL DEF CrashSafety
===============================================================================
