---------------------------- MODULE Session_proofs ----------------------------
(***************************************************************************)
(* The safety of CdpSession for any number of calls, closers, unreadable   *)
(* pauses and foreign message ids; and of the way in to a session, Ingress,*)
(* for any bounds and any messages.                                        *)
(***************************************************************************)
EXTENDS CdpSession, Ingress, SequenceTheorems, WellFoundedInduction, TLAPS

USE DEF Askers, Outcomes

(* All that matters about the first id.                                    *)
LEMMA FirstIdFact == FirstId \in Nat /\ FirstId > 0
  BY SMT DEF FirstId

(* A call is none of the marks the model uses beside calls.                *)
LEMMA NamesFact ==
  \A c \in Calls : c \notin {"none", "release", "runtime", "Closed", "Timeout", "Transport",
                 "Cancelled", "new", "live", "nobody", "free", "open", "gone", "dropped"}
  BY IdsAssumption DEF IdsAssumption

(* The initial state has the invariant.                                    *)
LEMMA InitIInv == Init => IInv
<1> SUFFICES ASSUME Init PROVE IInv
  OBVIOUS
<1> USE NamesFact, FirstIdFact DEF Init
<1>1. TypeOK /\ OutcomeInv
  BY DEF TypeOK, Idle, OutcomeInv
<1>2. IdsInv /\ MessagesInv /\ LockInv /\ CloseInv
  BY DEF IdsInv, MessagesInv, Idle, LockInv, CloseInv, Drained
<1>3. ChannelsInv /\ OwnAnswer /\ ClosedMeansClosed
  BY DEF ChannelsInv, OwnAnswer, ClosedMeansClosed
<1>4. NoLeak /\ DrainedStaysEmpty /\ NothingLost
  BY DEF NoLeak, DrainedStaysEmpty, NothingLost
<1> QED
  BY <1>1, <1>2, <1>3, <1>4 DEF IInv

(* Every step keeps the types.                                             *)
LEMMA TypeStep == IInv /\ [Next]_vars => TypeOK'
<1> SUFFICES ASSUME TypeOK, ChannelsInv, [Next]_vars PROVE TypeOK'
  BY DEF IInv
<1> USE IdsAssumption, FirstIdFact DEF TypeOK
<1>1. ASSUME NEW c \in Calls, Begin(c) PROVE TypeOK'
  BY <1>1 DEF Begin
<1>2. ASSUME NEW c \in Calls, RegisterCheck(c) PROVE TypeOK'
  BY <1>2 DEF RegisterCheck
<1>3. ASSUME NEW c \in Calls, RegisterInsert(c) PROVE TypeOK'
  BY <1>3 DEF RegisterInsert, Entries, Dropped
<1>4. ASSUME NEW c \in Calls, SendOk(c) PROVE TypeOK'
  BY <1>4 DEF SendOk, Post
<1>5. ASSUME NEW c \in Calls, SendFails(c) PROVE TypeOK'
  BY <1>5 DEF SendFails, Leave
<1>6. ASSUME NEW c \in Calls, Receive(c) PROVE TypeOK'
  BY <1>6 DEF Receive, Leave, ChannelsInv
<1>7. ASSUME NEW c \in Calls, TimeoutOrCancel(c) PROVE TypeOK'
  BY <1>7 DEF TimeoutOrCancel, Leave
<1>8. ASSUME NEW c \in Calls, Unwind(c) PROVE TypeOK'
  BY <1>8 DEF Unwind, Entries, Dropped
<1>9. ASSUME NEW m \in wire, TakeReply(m) PROVE TypeOK'
  BY <1>9 DEF TakeReply, Idle, callVars
<1>10. CASE Lookup
  BY <1>10 DEF Lookup, Entries, Idle, callVars
<1>11. CASE Answer
  BY <1>11 DEF Answer, Idle
<1>12. ASSUME NEW p \in Pauses, TakePause(p) PROVE TypeOK'
  BY <1>12 DEF TakePause, Idle, callVars
<1>13. CASE Release
  BY <1>13 DEF Release, Post, Idle, callVars
<1>14. ASSUME NEW k \in Closers, SetClosed(k) PROVE TypeOK'
  BY <1>14 DEF SetClosed, callVars
<1>15. ASSUME NEW k \in Closers, ClearPending(k) PROVE TypeOK'
  BY <1>15 DEF ClearPending, Dropped
<1>16. ASSUME NEW i \in RuntimeIds, RuntimeSends(i) PROVE TypeOK'
  BY <1>16 DEF RuntimeSends, Post, callVars
<1>17. CASE UNCHANGED vars
  BY <1>17 DEF vars, callVars
<1> QED
  BY <1>1, <1>2, <1>3, <1>4, <1>5, <1>6, <1>7, <1>8, <1>9, <1>10, <1>11, <1>12,
     <1>13, <1>14, <1>15, <1>16, <1>17 DEF Next, CallSteps, WorkerSteps

(* Every step keeps ids apart.                                             *)
LEMMA IdsStep == IInv /\ [Next]_vars => IdsInv'
<1> SUFFICES ASSUME IInv, [Next]_vars PROVE IdsInv'
  OBVIOUS
<1> USE NamesFact, IdsAssumption, FirstIdFact DEF IInv, TypeOK
<1>1. ASSUME NEW c \in Calls, Begin(c) PROVE IdsInv'
  BY <1>1 DEF Begin, IdsInv, callVars
<1>2. ASSUME NEW c \in Calls, RegisterCheck(c) PROVE IdsInv'
  BY <1>2 DEF RegisterCheck, IdsInv, callVars
<1>3. ASSUME NEW c \in Calls, RegisterInsert(c) PROVE IdsInv'
  BY <1>3 DEF RegisterInsert, Entries, Dropped, IdsInv, callVars
<1>4. ASSUME NEW c \in Calls, SendOk(c) PROVE IdsInv'
  BY <1>4 DEF SendOk, Post, IdsInv, callVars
<1>5. ASSUME NEW c \in Calls, SendFails(c) PROVE IdsInv'
  BY <1>5 DEF SendFails, Leave, IdsInv, callVars
<1>6. ASSUME NEW c \in Calls, Receive(c) PROVE IdsInv'
  BY <1>6 DEF Receive, Leave, IdsInv, callVars
<1>7. ASSUME NEW c \in Calls, TimeoutOrCancel(c) PROVE IdsInv'
  BY <1>7 DEF TimeoutOrCancel, Leave, IdsInv, callVars
<1>8. ASSUME NEW c \in Calls, Unwind(c) PROVE IdsInv'
  BY <1>8 DEF Unwind, Entries, Dropped, IdsInv, callVars
<1>9. ASSUME NEW m \in wire, TakeReply(m) PROVE IdsInv'
  BY <1>9 DEF TakeReply, IdsInv, callVars
<1>10. CASE Lookup
  BY <1>10 DEF Lookup, Entries, IdsInv, callVars
<1>11. CASE Answer
  BY <1>11 DEF Answer, IdsInv, callVars
<1>12. ASSUME NEW p \in Pauses, TakePause(p) PROVE IdsInv'
  BY <1>12 DEF TakePause, IdsInv, callVars
<1>13. CASE Release
  BY <1>13 DEF Release, Post, IdsInv, callVars
<1>14. ASSUME NEW k \in Closers, SetClosed(k) PROVE IdsInv'
  BY <1>14 DEF SetClosed, IdsInv, callVars
<1>15. ASSUME NEW k \in Closers, ClearPending(k) PROVE IdsInv'
  BY <1>15 DEF ClearPending, Dropped, IdsInv, callVars
<1>16. ASSUME NEW i \in RuntimeIds, RuntimeSends(i) PROVE IdsInv'
  BY <1>16 DEF RuntimeSends, Post, IdsInv, callVars
<1>17. CASE UNCHANGED vars
  BY <1>17 DEF vars, callVars, IdsInv
<1> QED
  BY <1>1, <1>2, <1>3, <1>4, <1>5, <1>6, <1>7, <1>8, <1>9, <1>10, <1>11, <1>12, <1>13, <1>14, <1>15, <1>16, <1>17 DEF Next, CallSteps, WorkerSteps

(* Every step keeps the lock with the call that inserts.                   *)
LEMMA LockStep == IInv /\ [Next]_vars => LockInv'
<1> SUFFICES ASSUME IInv, [Next]_vars PROVE LockInv'
  OBVIOUS
<1> USE NamesFact, IdsAssumption, FirstIdFact DEF IInv, TypeOK
<1>1. ASSUME NEW c \in Calls, Begin(c) PROVE LockInv'
  BY <1>1 DEF Begin, LockInv, callVars
<1>2. ASSUME NEW c \in Calls, RegisterCheck(c) PROVE LockInv'
  BY <1>2 DEF RegisterCheck, LockInv, callVars
<1>3. ASSUME NEW c \in Calls, RegisterInsert(c) PROVE LockInv'
  BY <1>3 DEF RegisterInsert, Entries, Dropped, LockInv, callVars
<1>4. ASSUME NEW c \in Calls, SendOk(c) PROVE LockInv'
  BY <1>4 DEF SendOk, Post, LockInv, callVars
<1>5. ASSUME NEW c \in Calls, SendFails(c) PROVE LockInv'
  BY <1>5 DEF SendFails, Leave, LockInv, callVars
<1>6. ASSUME NEW c \in Calls, Receive(c) PROVE LockInv'
  BY <1>6 DEF Receive, Leave, LockInv, callVars
<1>7. ASSUME NEW c \in Calls, TimeoutOrCancel(c) PROVE LockInv'
  BY <1>7 DEF TimeoutOrCancel, Leave, LockInv, callVars
<1>8. ASSUME NEW c \in Calls, Unwind(c) PROVE LockInv'
  BY <1>8 DEF Unwind, Entries, Dropped, LockInv, callVars
<1>9. ASSUME NEW m \in wire, TakeReply(m) PROVE LockInv'
  BY <1>9 DEF TakeReply, LockInv, callVars
<1>10. CASE Lookup
  BY <1>10 DEF Lookup, Entries, LockInv, callVars
<1>11. CASE Answer
  BY <1>11 DEF Answer, LockInv, callVars
<1>12. ASSUME NEW p \in Pauses, TakePause(p) PROVE LockInv'
  BY <1>12 DEF TakePause, LockInv, callVars
<1>13. CASE Release
  BY <1>13 DEF Release, Post, LockInv, callVars
<1>14. ASSUME NEW k \in Closers, SetClosed(k) PROVE LockInv'
  BY <1>14 DEF SetClosed, LockInv, callVars
<1>15. ASSUME NEW k \in Closers, ClearPending(k) PROVE LockInv'
  BY <1>15 DEF ClearPending, Dropped, LockInv, callVars
<1>16. ASSUME NEW i \in RuntimeIds, RuntimeSends(i) PROVE LockInv'
  BY <1>16 DEF RuntimeSends, Post, LockInv, callVars
<1>17. CASE UNCHANGED vars
  BY <1>17 DEF vars, callVars, LockInv
<1> QED
  BY <1>1, <1>2, <1>3, <1>4, <1>5, <1>6, <1>7, <1>8, <1>9, <1>10, <1>11, <1>12, <1>13, <1>14, <1>15, <1>16, <1>17 DEF Next, CallSteps, WorkerSteps

(* Every step keeps the flag ahead of the table.                           *)
LEMMA CloseStep == IInv /\ [Next]_vars => CloseInv'
<1> SUFFICES ASSUME IInv, [Next]_vars PROVE CloseInv'
  OBVIOUS
<1> USE NamesFact, IdsAssumption, FirstIdFact DEF IInv, TypeOK
<1>1. ASSUME NEW c \in Calls, Begin(c) PROVE CloseInv'
  BY <1>1 DEF Begin, CloseInv, LockInv, Drained, callVars
<1>2. ASSUME NEW c \in Calls, RegisterCheck(c) PROVE CloseInv'
  BY <1>2 DEF RegisterCheck, CloseInv, LockInv, Drained, callVars
<1>3. ASSUME NEW c \in Calls, RegisterInsert(c) PROVE CloseInv'
  BY <1>3 DEF RegisterInsert, Entries, Dropped, CloseInv, LockInv, Drained, callVars
<1>4. ASSUME NEW c \in Calls, SendOk(c) PROVE CloseInv'
  BY <1>4 DEF SendOk, Post, CloseInv, LockInv, Drained, callVars
<1>5. ASSUME NEW c \in Calls, SendFails(c) PROVE CloseInv'
  BY <1>5 DEF SendFails, Leave, CloseInv, LockInv, Drained, callVars
<1>6. ASSUME NEW c \in Calls, Receive(c) PROVE CloseInv'
  BY <1>6 DEF Receive, Leave, CloseInv, LockInv, Drained, callVars
<1>7. ASSUME NEW c \in Calls, TimeoutOrCancel(c) PROVE CloseInv'
  BY <1>7 DEF TimeoutOrCancel, Leave, CloseInv, LockInv, Drained, callVars
<1>8. ASSUME NEW c \in Calls, Unwind(c) PROVE CloseInv'
  BY <1>8 DEF Unwind, Entries, Dropped, CloseInv, LockInv, Drained, callVars
<1>9. ASSUME NEW m \in wire, TakeReply(m) PROVE CloseInv'
  BY <1>9 DEF TakeReply, CloseInv, LockInv, Drained, callVars
<1>10. CASE Lookup
  BY <1>10 DEF Lookup, Entries, CloseInv, LockInv, Drained, callVars
<1>11. CASE Answer
  BY <1>11 DEF Answer, CloseInv, LockInv, Drained, callVars
<1>12. ASSUME NEW p \in Pauses, TakePause(p) PROVE CloseInv'
  BY <1>12 DEF TakePause, CloseInv, LockInv, Drained, callVars
<1>13. CASE Release
  BY <1>13 DEF Release, Post, CloseInv, LockInv, Drained, callVars
<1>14. ASSUME NEW k \in Closers, SetClosed(k) PROVE CloseInv'
  BY <1>14 DEF SetClosed, CloseInv, LockInv, Drained, callVars
<1>15. ASSUME NEW k \in Closers, ClearPending(k) PROVE CloseInv'
  BY <1>15 DEF ClearPending, Dropped, CloseInv, LockInv, Drained, callVars
<1>16. ASSUME NEW i \in RuntimeIds, RuntimeSends(i) PROVE CloseInv'
  BY <1>16 DEF RuntimeSends, Post, CloseInv, LockInv, Drained, callVars
<1>17. CASE UNCHANGED vars
  BY <1>17 DEF vars, callVars, CloseInv, LockInv, Drained
<1> QED
  BY <1>1, <1>2, <1>3, <1>4, <1>5, <1>6, <1>7, <1>8, <1>9, <1>10, <1>11, <1>12, <1>13, <1>14, <1>15, <1>16, <1>17 DEF Next, CallSteps, WorkerSteps

(* Every step keeps the table to calls under way, and empty once cleared.  *)
LEMMA TableStep == IInv /\ [Next]_vars => (NoLeak /\ DrainedStaysEmpty)'
<1> SUFFICES ASSUME IInv, [Next]_vars PROVE (NoLeak /\ DrainedStaysEmpty)'
  OBVIOUS
<1> USE NamesFact, IdsAssumption, FirstIdFact DEF IInv, TypeOK
<1>1. ASSUME NEW c \in Calls, Begin(c) PROVE (NoLeak /\ DrainedStaysEmpty)'
  BY <1>1 DEF Begin, NoLeak, DrainedStaysEmpty, Drained, CloseInv, LockInv, IdsInv, callVars
<1>2. ASSUME NEW c \in Calls, RegisterCheck(c) PROVE (NoLeak /\ DrainedStaysEmpty)'
  <2>1. \A e \in pending : e.tx # c
    BY <1>2 DEF RegisterCheck, NoLeak
  <2>2. \A d \in Calls : d # c => pc'[d] = pc[d]
    BY <1>2 DEF RegisterCheck
  <2>3. UNCHANGED <<pending, id, kpc>>
    BY <1>2 DEF RegisterCheck
  <2> QED
    BY <2>1, <2>2, <2>3 DEF NoLeak, DrainedStaysEmpty, Drained
<1>3. ASSUME NEW c \in Calls, RegisterInsert(c) PROVE (NoLeak /\ DrainedStaysEmpty)'
  BY <1>3 DEF RegisterInsert, Entries, Dropped, NoLeak, DrainedStaysEmpty, Drained, CloseInv, LockInv, IdsInv, callVars
<1>4. ASSUME NEW c \in Calls, SendOk(c) PROVE (NoLeak /\ DrainedStaysEmpty)'
  BY <1>4 DEF SendOk, Post, NoLeak, DrainedStaysEmpty, Drained, CloseInv, LockInv, IdsInv, callVars
<1>5. ASSUME NEW c \in Calls, SendFails(c) PROVE (NoLeak /\ DrainedStaysEmpty)'
  BY <1>5 DEF SendFails, Leave, NoLeak, DrainedStaysEmpty, Drained, CloseInv, LockInv, IdsInv, callVars
<1>6. ASSUME NEW c \in Calls, Receive(c) PROVE (NoLeak /\ DrainedStaysEmpty)'
  BY <1>6 DEF Receive, Leave, NoLeak, DrainedStaysEmpty, Drained, CloseInv, LockInv, IdsInv, callVars
<1>7. ASSUME NEW c \in Calls, TimeoutOrCancel(c) PROVE (NoLeak /\ DrainedStaysEmpty)'
  BY <1>7 DEF TimeoutOrCancel, Leave, NoLeak, DrainedStaysEmpty, Drained, CloseInv, LockInv, IdsInv, callVars
<1>8. ASSUME NEW c \in Calls, Unwind(c) PROVE (NoLeak /\ DrainedStaysEmpty)'
  BY <1>8 DEF Unwind, Entries, Dropped, NoLeak, DrainedStaysEmpty, Drained, CloseInv, LockInv, IdsInv, callVars
<1>9. ASSUME NEW m \in wire, TakeReply(m) PROVE (NoLeak /\ DrainedStaysEmpty)'
  BY <1>9 DEF TakeReply, NoLeak, DrainedStaysEmpty, Drained, CloseInv, LockInv, IdsInv, callVars
<1>10. CASE Lookup
  BY <1>10 DEF Lookup, Entries, NoLeak, DrainedStaysEmpty, Drained, CloseInv, LockInv, IdsInv, callVars
<1>11. CASE Answer
  BY <1>11 DEF Answer, NoLeak, DrainedStaysEmpty, Drained, CloseInv, LockInv, IdsInv, callVars
<1>12. ASSUME NEW p \in Pauses, TakePause(p) PROVE (NoLeak /\ DrainedStaysEmpty)'
  BY <1>12 DEF TakePause, NoLeak, DrainedStaysEmpty, Drained, CloseInv, LockInv, IdsInv, callVars
<1>13. CASE Release
  BY <1>13 DEF Release, Post, NoLeak, DrainedStaysEmpty, Drained, CloseInv, LockInv, IdsInv, callVars
<1>14. ASSUME NEW k \in Closers, SetClosed(k) PROVE (NoLeak /\ DrainedStaysEmpty)'
  BY <1>14 DEF SetClosed, NoLeak, DrainedStaysEmpty, Drained, CloseInv, LockInv, IdsInv, callVars
<1>15. ASSUME NEW k \in Closers, ClearPending(k) PROVE (NoLeak /\ DrainedStaysEmpty)'
  BY <1>15 DEF ClearPending, Dropped, NoLeak, DrainedStaysEmpty, Drained, CloseInv, LockInv, IdsInv, callVars
<1>16. ASSUME NEW i \in RuntimeIds, RuntimeSends(i) PROVE (NoLeak /\ DrainedStaysEmpty)'
  BY <1>16 DEF RuntimeSends, Post, NoLeak, DrainedStaysEmpty, Drained, CloseInv, LockInv, IdsInv, callVars
<1>17. CASE UNCHANGED vars
  BY <1>17 DEF vars, callVars, NoLeak, DrainedStaysEmpty, Drained, CloseInv, LockInv, IdsInv
<1> QED
  BY <1>1, <1>2, <1>3, <1>4, <1>5, <1>6, <1>7, <1>8, <1>9, <1>10, <1>11, <1>12, <1>13, <1>14, <1>15, <1>16, <1>17 DEF Next, CallSteps, WorkerSteps

(* Every step keeps messages genuine.                                      *)
LEMMA MessagesStep == IInv /\ [Next]_vars => MessagesInv'
<1> SUFFICES ASSUME IInv, [Next]_vars PROVE MessagesInv'
  OBVIOUS
<1> USE NamesFact, IdsAssumption, FirstIdFact DEF IInv, TypeOK
<1>1. ASSUME NEW c \in Calls, Begin(c) PROVE MessagesInv'
  BY <1>1 DEF Begin, MessagesInv, Genuine, IdsInv, NoLeak, Idle, callVars
<1>2. ASSUME NEW c \in Calls, RegisterCheck(c) PROVE MessagesInv'
  <2>1. UNCHANGED <<wire, worker, id, nextId, pending>>
    BY <1>2 DEF RegisterCheck
  <2>2. \A d \in Calls : pc[d] \in {"wait", "unwind", "done"} => pc'[d] = pc[d]
    BY <1>2 DEF RegisterCheck
  <2> QED
    BY <2>1, <2>2 DEF MessagesInv, Genuine
<1>3. ASSUME NEW c \in Calls, RegisterInsert(c) PROVE MessagesInv'
  BY <1>3 DEF RegisterInsert, Entries, Dropped, MessagesInv, Genuine, IdsInv, NoLeak, Idle, callVars
<1>4. ASSUME NEW c \in Calls, SendOk(c) PROVE MessagesInv'
  BY <1>4 DEF SendOk, Post, MessagesInv, Genuine, IdsInv, NoLeak, Idle, callVars
<1>5. ASSUME NEW c \in Calls, SendFails(c) PROVE MessagesInv'
  BY <1>5 DEF SendFails, Leave, MessagesInv, Genuine, IdsInv, NoLeak, Idle, callVars
<1>6. ASSUME NEW c \in Calls, Receive(c) PROVE MessagesInv'
  BY <1>6 DEF Receive, Leave, MessagesInv, Genuine, IdsInv, NoLeak, Idle, callVars
<1>7. ASSUME NEW c \in Calls, TimeoutOrCancel(c) PROVE MessagesInv'
  BY <1>7 DEF TimeoutOrCancel, Leave, MessagesInv, Genuine, IdsInv, NoLeak, Idle, callVars
<1>8. ASSUME NEW c \in Calls, Unwind(c) PROVE MessagesInv'
  BY <1>8 DEF Unwind, Entries, Dropped, MessagesInv, Genuine, IdsInv, NoLeak, Idle, callVars
<1>9. ASSUME NEW m \in wire, TakeReply(m) PROVE MessagesInv'
  BY <1>9 DEF TakeReply, MessagesInv, Genuine, IdsInv, NoLeak, Idle, callVars
<1>10. CASE Lookup
  BY <1>10 DEF Lookup, Entries, MessagesInv, Genuine, IdsInv, NoLeak, Idle, callVars
<1>11. CASE Answer
  BY <1>11 DEF Answer, MessagesInv, Genuine, IdsInv, NoLeak, Idle, callVars
<1>12. ASSUME NEW p \in Pauses, TakePause(p) PROVE MessagesInv'
  BY <1>12 DEF TakePause, MessagesInv, Genuine, IdsInv, NoLeak, Idle, callVars
<1>13. CASE Release
  BY <1>13 DEF Release, Post, MessagesInv, Genuine, IdsInv, NoLeak, Idle, callVars
<1>14. ASSUME NEW k \in Closers, SetClosed(k) PROVE MessagesInv'
  BY <1>14 DEF SetClosed, MessagesInv, Genuine, IdsInv, NoLeak, Idle, callVars
<1>15. ASSUME NEW k \in Closers, ClearPending(k) PROVE MessagesInv'
  BY <1>15 DEF ClearPending, Dropped, MessagesInv, Genuine, IdsInv, NoLeak, Idle, callVars
<1>16. ASSUME NEW i \in RuntimeIds, RuntimeSends(i) PROVE MessagesInv'
  BY <1>16 DEF RuntimeSends, Post, MessagesInv, Genuine, IdsInv, NoLeak, Idle, callVars
<1>17. CASE UNCHANGED vars
  BY <1>17 DEF vars, callVars, MessagesInv, Genuine, IdsInv, NoLeak, Idle
<1> QED
  BY <1>1, <1>2, <1>3, <1>4, <1>5, <1>6, <1>7, <1>8, <1>9, <1>10, <1>11, <1>12, <1>13, <1>14, <1>15, <1>16, <1>17 DEF Next, CallSteps, WorkerSteps

(* Every step keeps each channel's sender accounted for.                   *)
LEMMA ChannelsStep == IInv /\ [Next]_vars => ChannelsInv'
<1> SUFFICES ASSUME IInv, [Next]_vars PROVE ChannelsInv'
  OBVIOUS
<1> USE NamesFact, IdsAssumption, FirstIdFact DEF IInv, TypeOK
<1>1. ASSUME NEW c \in Calls, Begin(c) PROVE ChannelsInv'
  BY <1>1 DEF Begin, ChannelsInv, MessagesInv, Genuine, IdsInv, NoLeak, CloseInv, Idle, callVars
<1>2. ASSUME NEW c \in Calls, RegisterCheck(c) PROVE ChannelsInv'
  BY <1>2 DEF RegisterCheck, ChannelsInv, MessagesInv, Genuine, IdsInv, NoLeak, CloseInv, Idle, callVars
<1>3. ASSUME NEW c \in Calls, RegisterInsert(c) PROVE ChannelsInv'
  <2>1. Entries(id[c]) = {}
    BY <1>3 DEF RegisterInsert, Entries, NoLeak, IdsInv
  <2>2. rx' = rx
    BY <1>3, <2>1 DEF RegisterInsert, Dropped
  <2>3. /\ pending' = pending \cup {[id |-> id[c], tx |-> c]}
        /\ pc' = [pc EXCEPT ![c] = "send"]
        /\ UNCHANGED <<worker, closed>>
    BY <1>3, <2>1 DEF RegisterInsert
  <2>4. pc[c] = "insert"
    BY <1>3 DEF RegisterInsert
  <2>5. \E e \in pending' : e.tx = c
    <3> DEFINE mine == [id |-> id[c], tx |-> c]
    <3>1. mine \in pending'
      BY <2>3
    <3>2. mine.tx = c
      OBVIOUS
    <3> QED
      BY <3>1, <3>2
  <2>6. ASSUME NEW d \in Calls, \E e \in pending : e.tx = d
        PROVE  \E e \in pending' : e.tx = d
    BY <2>3, <2>6
  <2>7. \A d \in Calls : pc'[d] = IF d = c THEN "send" ELSE pc[d]
    BY <2>3
  <2> QED
    BY <2>2, <2>3, <2>4, <2>5, <2>6, <2>7 DEF ChannelsInv
<1>4. ASSUME NEW c \in Calls, SendOk(c) PROVE ChannelsInv'
  BY <1>4 DEF SendOk, Post, ChannelsInv, MessagesInv, Genuine, IdsInv, NoLeak, CloseInv, Idle, callVars
<1>5. ASSUME NEW c \in Calls, SendFails(c) PROVE ChannelsInv'
  BY <1>5 DEF SendFails, Leave, ChannelsInv, MessagesInv, Genuine, IdsInv, NoLeak, CloseInv, Idle, callVars
<1>6. ASSUME NEW c \in Calls, Receive(c) PROVE ChannelsInv'
  BY <1>6 DEF Receive, Leave, ChannelsInv, MessagesInv, Genuine, IdsInv, NoLeak, CloseInv, Idle, callVars
<1>7. ASSUME NEW c \in Calls, TimeoutOrCancel(c) PROVE ChannelsInv'
  BY <1>7 DEF TimeoutOrCancel, Leave, ChannelsInv, MessagesInv, Genuine, IdsInv, NoLeak, CloseInv, Idle, callVars
<1>8. ASSUME NEW c \in Calls, Unwind(c) PROVE ChannelsInv'
  BY <1>8 DEF Unwind, Entries, Dropped, ChannelsInv, MessagesInv, Genuine, IdsInv, NoLeak, CloseInv, Idle, callVars
<1>9. ASSUME NEW m \in wire, TakeReply(m) PROVE ChannelsInv'
  BY <1>9 DEF TakeReply, ChannelsInv, MessagesInv, Genuine, IdsInv, NoLeak, CloseInv, Idle, callVars
<1>10. CASE Lookup
  BY <1>10 DEF Lookup, Entries, ChannelsInv, MessagesInv, Genuine, IdsInv, NoLeak, CloseInv, Idle, callVars
<1>11. CASE Answer
  BY <1>11 DEF Answer, ChannelsInv, MessagesInv, Genuine, IdsInv, NoLeak, CloseInv, Idle, callVars
<1>12. ASSUME NEW p \in Pauses, TakePause(p) PROVE ChannelsInv'
  BY <1>12 DEF TakePause, ChannelsInv, MessagesInv, Genuine, IdsInv, NoLeak, CloseInv, Idle, callVars
<1>13. CASE Release
  BY <1>13 DEF Release, Post, ChannelsInv, MessagesInv, Genuine, IdsInv, NoLeak, CloseInv, Idle, callVars
<1>14. ASSUME NEW k \in Closers, SetClosed(k) PROVE ChannelsInv'
  BY <1>14 DEF SetClosed, ChannelsInv, MessagesInv, Genuine, IdsInv, NoLeak, CloseInv, Idle, callVars
<1>15. ASSUME NEW k \in Closers, ClearPending(k) PROVE ChannelsInv'
  BY <1>15 DEF ClearPending, Dropped, ChannelsInv, MessagesInv, Genuine, IdsInv, NoLeak, CloseInv, Idle, callVars
<1>16. ASSUME NEW i \in RuntimeIds, RuntimeSends(i) PROVE ChannelsInv'
  BY <1>16 DEF RuntimeSends, Post, ChannelsInv, MessagesInv, Genuine, IdsInv, NoLeak, CloseInv, Idle, callVars
<1>17. CASE UNCHANGED vars
  BY <1>17 DEF vars, callVars, ChannelsInv, MessagesInv, Genuine, IdsInv, NoLeak, CloseInv, Idle
<1> QED
  BY <1>1, <1>2, <1>3, <1>4, <1>5, <1>6, <1>7, <1>8, <1>9, <1>10, <1>11, <1>12, <1>13, <1>14, <1>15, <1>16, <1>17 DEF Next, CallSteps, WorkerSteps

(* Every step keeps outcomes right.                                        *)
LEMMA ResultsStep == IInv /\ [Next]_vars => (OwnAnswer /\ ClosedMeansClosed)'
<1> SUFFICES ASSUME IInv, [Next]_vars PROVE (OwnAnswer /\ ClosedMeansClosed)'
  OBVIOUS
<1> USE NamesFact, IdsAssumption, FirstIdFact DEF IInv, TypeOK
<1>1. ASSUME NEW c \in Calls, Begin(c) PROVE (OwnAnswer /\ ClosedMeansClosed)'
  BY <1>1 DEF Begin, OwnAnswer, ClosedMeansClosed, ChannelsInv, callVars
<1>2. ASSUME NEW c \in Calls, RegisterCheck(c) PROVE (OwnAnswer /\ ClosedMeansClosed)'
  BY <1>2 DEF RegisterCheck, OwnAnswer, ClosedMeansClosed, ChannelsInv, callVars
<1>3. ASSUME NEW c \in Calls, RegisterInsert(c) PROVE (OwnAnswer /\ ClosedMeansClosed)'
  BY <1>3 DEF RegisterInsert, Entries, Dropped, OwnAnswer, ClosedMeansClosed, ChannelsInv, callVars
<1>4. ASSUME NEW c \in Calls, SendOk(c) PROVE (OwnAnswer /\ ClosedMeansClosed)'
  BY <1>4 DEF SendOk, Post, OwnAnswer, ClosedMeansClosed, ChannelsInv, callVars
<1>5. ASSUME NEW c \in Calls, SendFails(c) PROVE (OwnAnswer /\ ClosedMeansClosed)'
  BY <1>5 DEF SendFails, Leave, OwnAnswer, ClosedMeansClosed, ChannelsInv, callVars
<1>6. ASSUME NEW c \in Calls, Receive(c) PROVE (OwnAnswer /\ ClosedMeansClosed)'
  BY <1>6 DEF Receive, Leave, OwnAnswer, ClosedMeansClosed, ChannelsInv, callVars
<1>7. ASSUME NEW c \in Calls, TimeoutOrCancel(c) PROVE (OwnAnswer /\ ClosedMeansClosed)'
  BY <1>7 DEF TimeoutOrCancel, Leave, OwnAnswer, ClosedMeansClosed, ChannelsInv, callVars
<1>8. ASSUME NEW c \in Calls, Unwind(c) PROVE (OwnAnswer /\ ClosedMeansClosed)'
  BY <1>8 DEF Unwind, Entries, Dropped, OwnAnswer, ClosedMeansClosed, ChannelsInv, callVars
<1>9. ASSUME NEW m \in wire, TakeReply(m) PROVE (OwnAnswer /\ ClosedMeansClosed)'
  BY <1>9 DEF TakeReply, OwnAnswer, ClosedMeansClosed, ChannelsInv, callVars
<1>10. CASE Lookup
  BY <1>10 DEF Lookup, Entries, OwnAnswer, ClosedMeansClosed, ChannelsInv, callVars
<1>11. CASE Answer
  BY <1>11 DEF Answer, OwnAnswer, ClosedMeansClosed, ChannelsInv, callVars
<1>12. ASSUME NEW p \in Pauses, TakePause(p) PROVE (OwnAnswer /\ ClosedMeansClosed)'
  BY <1>12 DEF TakePause, OwnAnswer, ClosedMeansClosed, ChannelsInv, callVars
<1>13. CASE Release
  BY <1>13 DEF Release, Post, OwnAnswer, ClosedMeansClosed, ChannelsInv, callVars
<1>14. ASSUME NEW k \in Closers, SetClosed(k) PROVE (OwnAnswer /\ ClosedMeansClosed)'
  BY <1>14 DEF SetClosed, OwnAnswer, ClosedMeansClosed, ChannelsInv, callVars
<1>15. ASSUME NEW k \in Closers, ClearPending(k) PROVE (OwnAnswer /\ ClosedMeansClosed)'
  BY <1>15 DEF ClearPending, Dropped, OwnAnswer, ClosedMeansClosed, ChannelsInv, callVars
<1>16. ASSUME NEW i \in RuntimeIds, RuntimeSends(i) PROVE (OwnAnswer /\ ClosedMeansClosed)'
  BY <1>16 DEF RuntimeSends, Post, OwnAnswer, ClosedMeansClosed, ChannelsInv, callVars
<1>17. CASE UNCHANGED vars
  BY <1>17 DEF vars, callVars, OwnAnswer, ClosedMeansClosed, ChannelsInv
<1> QED
  BY <1>1, <1>2, <1>3, <1>4, <1>5, <1>6, <1>7, <1>8, <1>9, <1>10, <1>11, <1>12, <1>13, <1>14, <1>15, <1>16, <1>17 DEF Next, CallSteps, WorkerSteps

(* Every step keeps a waiting call's answer on its way.                    *)
LEMMA LossStep == IInv /\ [Next]_vars => NothingLost'
<1> SUFFICES ASSUME IInv, [Next]_vars PROVE NothingLost'
  OBVIOUS
<1> USE NamesFact, IdsAssumption, FirstIdFact DEF IInv, TypeOK
<1>1. ASSUME NEW c \in Calls, Begin(c) PROVE NothingLost'
  BY <1>1 DEF Begin, NothingLost, ChannelsInv, MessagesInv, Genuine, IdsInv, NoLeak, Idle, callVars
<1>2. ASSUME NEW c \in Calls, RegisterCheck(c) PROVE NothingLost'
  BY <1>2 DEF RegisterCheck, NothingLost, ChannelsInv, MessagesInv, Genuine, IdsInv, NoLeak, Idle, callVars
<1>3. ASSUME NEW c \in Calls, RegisterInsert(c) PROVE NothingLost'
  BY <1>3 DEF RegisterInsert, Entries, Dropped, NothingLost, ChannelsInv, MessagesInv, Genuine, IdsInv, NoLeak, Idle, callVars
<1>4. ASSUME NEW c \in Calls, SendOk(c) PROVE NothingLost'
  BY <1>4 DEF SendOk, Post, NothingLost, ChannelsInv, MessagesInv, Genuine, IdsInv, NoLeak, Idle, callVars
<1>5. ASSUME NEW c \in Calls, SendFails(c) PROVE NothingLost'
  BY <1>5 DEF SendFails, Leave, NothingLost, ChannelsInv, MessagesInv, Genuine, IdsInv, NoLeak, Idle, callVars
<1>6. ASSUME NEW c \in Calls, Receive(c) PROVE NothingLost'
  BY <1>6 DEF Receive, Leave, NothingLost, ChannelsInv, MessagesInv, Genuine, IdsInv, NoLeak, Idle, callVars
<1>7. ASSUME NEW c \in Calls, TimeoutOrCancel(c) PROVE NothingLost'
  BY <1>7 DEF TimeoutOrCancel, Leave, NothingLost, ChannelsInv, MessagesInv, Genuine, IdsInv, NoLeak, Idle, callVars
<1>8. ASSUME NEW c \in Calls, Unwind(c) PROVE NothingLost'
  BY <1>8 DEF Unwind, Entries, Dropped, NothingLost, ChannelsInv, MessagesInv, Genuine, IdsInv, NoLeak, Idle, callVars
<1>9. ASSUME NEW m \in wire, TakeReply(m) PROVE NothingLost'
  BY <1>9 DEF TakeReply, NothingLost, ChannelsInv, MessagesInv, Genuine, IdsInv, NoLeak, Idle, callVars
<1>10. CASE Lookup
  BY <1>10 DEF Lookup, Entries, NothingLost, ChannelsInv, MessagesInv, Genuine, IdsInv, NoLeak, Idle, callVars
<1>11. CASE Answer
  BY <1>11 DEF Answer, NothingLost, ChannelsInv, MessagesInv, Genuine, IdsInv, NoLeak, Idle, callVars
<1>12. ASSUME NEW p \in Pauses, TakePause(p) PROVE NothingLost'
  BY <1>12 DEF TakePause, NothingLost, ChannelsInv, MessagesInv, Genuine, IdsInv, NoLeak, Idle, callVars
<1>13. CASE Release
  BY <1>13 DEF Release, Post, NothingLost, ChannelsInv, MessagesInv, Genuine, IdsInv, NoLeak, Idle, callVars
<1>14. ASSUME NEW k \in Closers, SetClosed(k) PROVE NothingLost'
  BY <1>14 DEF SetClosed, NothingLost, ChannelsInv, MessagesInv, Genuine, IdsInv, NoLeak, Idle, callVars
<1>15. ASSUME NEW k \in Closers, ClearPending(k) PROVE NothingLost'
  BY <1>15 DEF ClearPending, Dropped, NothingLost, ChannelsInv, MessagesInv, Genuine, IdsInv, NoLeak, Idle, callVars
<1>16. ASSUME NEW i \in RuntimeIds, RuntimeSends(i) PROVE NothingLost'
  BY <1>16 DEF RuntimeSends, Post, NothingLost, ChannelsInv, MessagesInv, Genuine, IdsInv, NoLeak, Idle, callVars
<1>17. CASE UNCHANGED vars
  BY <1>17 DEF vars, callVars, NothingLost, ChannelsInv, MessagesInv, Genuine, IdsInv, NoLeak, Idle
<1> QED
  BY <1>1, <1>2, <1>3, <1>4, <1>5, <1>6, <1>7, <1>8, <1>9, <1>10, <1>11, <1>12, <1>13, <1>14, <1>15, <1>16, <1>17 DEF Next, CallSteps, WorkerSteps

(* Every step gives a call its outcome exactly when it leaves.             *)
LEMMA OutcomeStep == IInv /\ [Next]_vars => OutcomeInv'
<1> SUFFICES ASSUME IInv, [Next]_vars PROVE OutcomeInv'
  OBVIOUS
<1> USE NamesFact, FirstIdFact DEF IInv, TypeOK
<1>1. ASSUME NEW c \in Calls, Begin(c) PROVE OutcomeInv'
  BY <1>1 DEF Begin, OutcomeInv, callVars
<1>2. ASSUME NEW c \in Calls, RegisterCheck(c) PROVE OutcomeInv'
  BY <1>2 DEF RegisterCheck, OutcomeInv, callVars
<1>3. ASSUME NEW c \in Calls, RegisterInsert(c) PROVE OutcomeInv'
  BY <1>3 DEF RegisterInsert, OutcomeInv, callVars
<1>4. ASSUME NEW c \in Calls, SendOk(c) PROVE OutcomeInv'
  BY <1>4 DEF SendOk, OutcomeInv, callVars
<1>5. ASSUME NEW c \in Calls, SendFails(c) PROVE OutcomeInv'
  BY <1>5 DEF SendFails, Leave, OutcomeInv, callVars
<1>6. ASSUME NEW c \in Calls, Receive(c) PROVE OutcomeInv'
  BY <1>6 DEF Receive, Leave, OutcomeInv, ChannelsInv
<1>7. ASSUME NEW c \in Calls, TimeoutOrCancel(c) PROVE OutcomeInv'
  BY <1>7 DEF TimeoutOrCancel, Leave, OutcomeInv, callVars
<1>8. ASSUME NEW c \in Calls, Unwind(c) PROVE OutcomeInv'
  BY <1>8 DEF Unwind, OutcomeInv, callVars
<1>9. ASSUME NEW m \in wire, TakeReply(m) PROVE OutcomeInv'
  BY <1>9 DEF TakeReply, OutcomeInv, callVars
<1>10. CASE Lookup
  BY <1>10 DEF Lookup, OutcomeInv, callVars
<1>11. CASE Answer
  BY <1>11 DEF Answer, OutcomeInv, callVars
<1>12. ASSUME NEW p \in Pauses, TakePause(p) PROVE OutcomeInv'
  BY <1>12 DEF TakePause, OutcomeInv, callVars
<1>13. CASE Release
  BY <1>13 DEF Release, OutcomeInv, callVars
<1>14. ASSUME NEW k \in Closers, SetClosed(k) PROVE OutcomeInv'
  BY <1>14 DEF SetClosed, OutcomeInv, callVars
<1>15. ASSUME NEW k \in Closers, ClearPending(k) PROVE OutcomeInv'
  BY <1>15 DEF ClearPending, OutcomeInv, callVars
<1>16. ASSUME NEW i \in RuntimeIds, RuntimeSends(i) PROVE OutcomeInv'
  BY <1>16 DEF RuntimeSends, OutcomeInv, callVars
<1>17. CASE UNCHANGED vars
  BY <1>17 DEF vars, callVars, OutcomeInv
<1> QED
  BY <1>1, <1>2, <1>3, <1>4, <1>5, <1>6, <1>7, <1>8, <1>9, <1>10, <1>11, <1>12, <1>13, <1>14, <1>15, <1>16, <1>17 DEF Next, CallSteps, WorkerSteps

(* The invariant is inductive.                                             *)
LEMMA IInvStep == IInv /\ [Next]_vars => IInv'
  BY TypeStep, IdsStep, LockStep, CloseStep, TableStep, MessagesStep, ChannelsStep,
     ResultsStep, LossStep, OutcomeStep DEF IInv

(* Every reachable state has the invariant, whatever the constants.        *)
THEOREM Invariance == Safety => []IInv
  BY InitIInv, IInvStep, PTL DEF Safety

(* Every reachable state is well typed.                                    *)
THEOREM TypeCorrect == Safety => []TypeOK
<1>1. IInv => TypeOK
  BY DEF IInv
<1> QED
  BY <1>1, Invariance, PTL

(* An answer reaches the call that asked, and only a close closes a call.  *)
THEOREM AnswersCorrect == Safety => [](OwnAnswer /\ ClosedMeansClosed)
<1>1. IInv => OwnAnswer /\ ClosedMeansClosed
  BY DEF IInv
<1> QED
  BY <1>1, Invariance, PTL

(* The table holds calls under way only, and nothing after a close, and no *)
(* answer is lost for want of an entry while the session is open.          *)
THEOREM TableCorrect == Safety => []TableExact
<1>1. IInv => TableExact
  BY DEF IInv, TableExact
<1> QED
  BY <1>1, Invariance, PTL

(* While the session is open no answer is lost, and after a close no call  *)
(* waits for one, but for the answer the worker is handing over.           *)
THEOREM WaitersCorrect == Safety => [](NothingLost /\ NoStrandedWaiter)
<1>1. IInv => NothingLost /\ NoStrandedWaiter
  BY DEF IInv, ChannelsInv, DrainedStaysEmpty, NoStrandedWaiter
<1> QED
  BY <1>1, Invariance, PTL

(* A step that changes no outcome and neither the flag nor who has begun   *)
(* is invisible to callers.                                                *)
LEMMA Invisible ==
  ASSUME UNCHANGED <<closed, result>>,
         \A c \in Calls : pc'[c] = "idle" <=> pc[c] = "idle"
  PROVE  UNCHANGED <<Status, closed>>
  BY DEF Status

(* A call that leaves with an outcome of its own settles it.               *)
LEMMA Leaving ==
  ASSUME IInv, NEW c \in Calls, NEW o \in Outcomes,
         pc[c] \notin {"idle", "unwind", "done"},
         o \in {c, "Timeout", "Transport", "Cancelled"} \/ (o = "Closed" /\ closed),
         result' = [result EXCEPT ![c] = o],
         \E p \in {"unwind", "done"} : pc' = [pc EXCEPT ![c] = p],
         UNCHANGED closed
  PROVE  Promise!Settle(c)
<1> USE NamesFact DEF IInv, TypeOK, OutcomeInv
<1>1. Status[c] = "live"
  BY DEF Status
<1>2. Status' = [Status EXCEPT ![c] = o]
  BY DEF Status
<1>3. o \in Promise!Allowed(c)
  BY DEF Promise!Allowed, Promise!Failures
<1> QED
  BY <1>1, <1>2, <1>3 DEF Promise!Settle

(* Every step is a step of the promise, or invisible to callers.           *)
LEMMA PromiseStep == IInv /\ [Next]_vars => [Promise!Next]_(Promise!vars)
<1> SUFFICES ASSUME IInv, [Next]_vars
             PROVE  Promise!Next \/ UNCHANGED <<Status, closed>>
  BY DEF Promise!vars
<1> USE NamesFact DEF IInv, TypeOK
<1>1. ASSUME NEW c \in Calls, Begin(c) PROVE Promise!Next
  <2>1. pc[c] = "idle" /\ result[c] = "none"
    BY <1>1 DEF Begin, OutcomeInv
  <2>2. Status[c] = "new"
    BY <2>1 DEF Status
  <2>3. CASE closed
    <3>1. /\ pc' = [pc EXCEPT ![c] = "done"]
          /\ result' = [result EXCEPT ![c] = "Closed"]
          /\ UNCHANGED closed
      BY <1>1, <2>3 DEF Begin
    <3>2. Status' = [Status EXCEPT ![c] = "Closed"]
      BY <3>1 DEF Status
    <3> QED
      BY <2>2, <2>3, <3>1, <3>2 DEF Promise!Next, Promise!Refuse
  <2>4. CASE ~closed
    <3>1. /\ pc' = [pc EXCEPT ![c] = "register"]
          /\ UNCHANGED <<result, closed>>
      BY <1>1, <2>4 DEF Begin
    <3>2. Status' = [Status EXCEPT ![c] = "live"]
      BY <2>1, <3>1 DEF Status
    <3> QED
      BY <2>2, <3>1, <3>2 DEF Promise!Next, Promise!Start
  <2> QED
    BY <2>3, <2>4
<1>2. ASSUME NEW c \in Calls, RegisterCheck(c)
      PROVE  Promise!Next \/ UNCHANGED <<Status, closed>>
  <2>1. CASE closed
    <3>1. Promise!Settle(c)
      BY <1>2, <2>1, Leaving DEF RegisterCheck
    <3> QED
      BY <3>1 DEF Promise!Next
  <2>2. CASE ~closed
    BY <1>2, <2>2, Invisible DEF RegisterCheck
  <2> QED
    BY <2>1, <2>2
<1>3. ASSUME NEW c \in Calls, RegisterInsert(c) PROVE UNCHANGED <<Status, closed>>
  BY <1>3, Invisible DEF RegisterInsert
<1>4. ASSUME NEW c \in Calls, SendOk(c) PROVE UNCHANGED <<Status, closed>>
  BY <1>4, Invisible DEF SendOk
<1>5. ASSUME NEW c \in Calls, SendFails(c) PROVE Promise!Next
  <2>1. Promise!Settle(c)
    BY <1>5, Leaving DEF SendFails, Leave
  <2> QED
    BY <2>1 DEF Promise!Next
<1>6. ASSUME NEW c \in Calls, Receive(c) PROVE Promise!Next
  <2> DEFINE o == IF rx[c] = "dropped" THEN "Closed" ELSE rx[c]
  <2>1. o \in Outcomes /\ (o = c \/ (o = "Closed" /\ closed))
    BY <1>6 DEF Receive, ChannelsInv
  <2>2. Promise!Settle(c)
    BY <1>6, <2>1, Leaving DEF Receive, Leave
  <2> QED
    BY <2>2 DEF Promise!Next
<1>7. ASSUME NEW c \in Calls, TimeoutOrCancel(c) PROVE Promise!Next
  <2>1. Promise!Settle(c)
    BY <1>7, Leaving DEF TimeoutOrCancel, Leave
  <2> QED
    BY <2>1 DEF Promise!Next
<1>8. ASSUME NEW c \in Calls, Unwind(c) PROVE UNCHANGED <<Status, closed>>
  BY <1>8, Invisible DEF Unwind
<1>9. ASSUME NEW m \in wire, TakeReply(m) PROVE UNCHANGED <<Status, closed>>
  BY <1>9, Invisible DEF TakeReply, callVars
<1>10. CASE Lookup
  BY <1>10, Invisible DEF Lookup, callVars
<1>11. CASE Answer
  BY <1>11, Invisible DEF Answer
<1>12. ASSUME NEW p \in Pauses, TakePause(p) PROVE UNCHANGED <<Status, closed>>
  BY <1>12, Invisible DEF TakePause, callVars
<1>13. CASE Release
  BY <1>13, Invisible DEF Release, callVars
<1>14. ASSUME NEW k \in Closers, SetClosed(k) PROVE Promise!Next
  BY <1>14 DEF SetClosed, callVars, Status, Promise!Next, Promise!Shut
<1>15. ASSUME NEW k \in Closers, ClearPending(k) PROVE UNCHANGED <<Status, closed>>
  BY <1>15, Invisible DEF ClearPending
<1>16. ASSUME NEW i \in RuntimeIds, RuntimeSends(i) PROVE UNCHANGED <<Status, closed>>
  BY <1>16, Invisible DEF RuntimeSends, callVars
<1>17. CASE UNCHANGED vars
  BY <1>17, Invisible DEF vars
<1> QED
  BY <1>1, <1>2, <1>3, <1>4, <1>5, <1>6, <1>7, <1>8, <1>9, <1>10, <1>11, <1>12,
     <1>13, <1>14, <1>15, <1>16, <1>17 DEF Next, CallSteps, WorkerSteps

(* The session implements the safety of the promise.                       *)
THEOREM Refinement == Safety => Promise!Safety
<1>1. Init => Promise!Init
  BY NamesFact DEF Init, Status, Promise!Init
<1> QED
  BY <1>1, PromiseStep, Invariance, PTL DEF Safety, Promise!Safety

-----------------------------------------------------------------------------
(* Ingress. What Weight and Readable compute is known by induction over    *)
(* the messages; an induction here is the absence of a first exception.    *)
LEMMA LeastNumber ==
  ASSUME NEW S, S \subseteq Nat, S # {}
  PROVE  \E m \in S : \A x \in S : m <= x
<1>. DEFINE less == {s \in Nat \X Nat : s[1] < s[2]}
<1>1. IsWellFoundedOn(less, Nat)
  BY NatLessThanWellFounded DEF OpToRel
<1>2. \A x, m \in Nat : x < m => <<x, m>> \in less
  OBVIOUS
<1>. HIDE DEF less
<1>3. \E m \in S : \A x \in S : ~(<<x, m>> \in less)
  BY <1>1, WFMin
<1>4. PICK m \in S : \A x \in S : ~(<<x, m>> \in less)
  BY <1>3
<1>5. ASSUME NEW x \in S PROVE m <= x
  <2>1. x \in Nat /\ m \in Nat /\ ~(x < m)
    BY <1>2, <1>4
  <2>. QED
    BY <2>1
<1>. QED
  BY <1>5

(* g is what step makes of the first messages, beginning with base.        *)
IsFold(n, ms, base, step, g) ==
  g[0] = base /\ \A i \in 1 .. n : g[i] = step[<<g[i - 1], ms[i]>>]

LEMMA FoldExists ==
  ASSUME NEW M, NEW X, NEW ms \in Seq(M), NEW base \in X, NEW step \in [X \X M -> X]
  PROVE  \E g \in [0 .. Len(ms) -> X] : IsFold(Len(ms), ms, base, step, g)
<1>. DEFINE Upto(n) == \E g \in [0 .. n -> X] : IsFold(n, ms, base, step, g)
            Bad == {n \in 0 .. Len(ms) : ~Upto(n)}
<1>1. Len(ms) \in Nat /\ \A i \in 1 .. Len(ms) : ms[i] \in M
  OBVIOUS
<1>2. Upto(0)
  <2>. DEFINE g == [i \in 0 .. 0 |-> base]
  <2>1. g \in [0 .. 0 -> X] /\ g[0] = base
    OBVIOUS
  <2>2. IsFold(0, ms, base, step, g)
    BY <2>1 DEF IsFold
  <2>. QED
    BY <2>1, <2>2
<1>3. ASSUME NEW n \in 1 .. Len(ms), Upto(n - 1) PROVE Upto(n)
  <2>1. PICK g \in [0 .. n - 1 -> X] : IsFold(n - 1, ms, base, step, g)
    BY <1>3
  <2>. DEFINE x == step[<<g[n - 1], ms[n]>>]
              h == [i \in 0 .. n |-> IF i = n THEN x ELSE g[i]]
  <2>2. g[n - 1] \in X /\ ms[n] \in M
    BY <1>1
  <2>3. x \in X
    BY <2>2
  <2>4. h \in [0 .. n -> X] /\ h[n] = x /\ \A i \in 0 .. n - 1 : h[i] = g[i]
    BY <1>1, <2>3
  <2>. HIDE DEF h
  <2>. n - 1 \in 0 .. n - 1 /\ 0 \in 0 .. n - 1
    BY <1>1
  <2>5. h[n] = step[<<h[n - 1], ms[n]>>] /\ h[0] = base
    BY <2>1, <2>4 DEF IsFold
  <2>6. ASSUME NEW i \in 1 .. n - 1 PROVE h[i] = step[<<h[i - 1], ms[i]>>]
    <3>1. h[i] = g[i] /\ h[i - 1] = g[i - 1]
      BY <1>1, <2>4
    <3>. QED
      BY <2>1, <3>1 DEF IsFold
  <2>7. \A i \in 1 .. n : i = n \/ i \in 1 .. n - 1
    BY <1>1
  <2>8. IsFold(n, ms, base, step, h)
    BY <2>5, <2>6, <2>7 DEF IsFold
  <2>. QED
    BY <2>4, <2>8
<1>. HIDE DEF Upto
<1>4. Bad = {}
  <2>. SUFFICES ASSUME Bad # {} PROVE FALSE
    OBVIOUS
  <2>1. Bad \subseteq Nat
    BY <1>1
  <2>2. PICK n \in Bad : \A x \in Bad : n <= x
    BY <2>1, LeastNumber
  <2>3. n \in 1 .. Len(ms) /\ n - 1 \notin Bad /\ n - 1 \in 0 .. Len(ms)
    BY <1>1, <1>2, <2>2
  <2>. QED
    BY <1>3, <2>2, <2>3
<1>. QED
  BY <1>1, <1>4 DEF Upto

LEMMA AgreeThroughout ==
  ASSUME NEW n \in Nat, NEW f, NEW g, f[0] = g[0],
         \A i \in 1 .. n : f[i - 1] = g[i - 1] => f[i] = g[i]
  PROVE  \A i \in 0 .. n : f[i] = g[i]
<1>. DEFINE Bad == {i \in 0 .. n : f[i] # g[i]}
<1>. SUFFICES ASSUME Bad # {} PROVE FALSE
  OBVIOUS
<1>1. PICK i \in Bad : \A x \in Bad : i <= x
  <2>1. Bad \subseteq Nat
    OBVIOUS
  <2>. QED
    BY <2>1, LeastNumber
<1>2. i \in 1 .. n
  BY <1>1
<1>3. f[i - 1] = g[i - 1]
  BY <1>1, <1>2
<1>. QED
  BY <1>1, <1>2, <1>3

-----------------------------------------------------------------------------
Weighs(ms, g) == g[0] = 0 /\ \A i \in 1 .. Len(ms) : g[i] = g[i - 1] + ms[i].size

LEMMA SizeIs == \A m \in Messages : m.size \in Nat
  BY IngressAssumption DEF Messages

LEMMA WeightIs ==
  ASSUME NEW ms \in Seq(Messages)
  PROVE  \E g \in [0 .. Len(ms) -> Nat] : Weighs(ms, g) /\ Weight(ms) = g[Len(ms)]
<1>. DEFINE step == [p \in Nat \X Messages |-> p[1] + p[2].size]
            Equation(f) == f = [i \in 0 .. Len(ms) |-> IF i = 0 THEN 0 ELSE f[i - 1] + ms[i].size]
            f == CHOOSE h : Equation(h)
<1>1. Len(ms) \in Nat /\ \A i \in 1 .. Len(ms) : ms[i] \in Messages
  OBVIOUS
<1>2. step \in [Nat \X Messages -> Nat]
  <2>1. \A p \in Nat \X Messages : p[1] + p[2].size \in Nat
    BY SizeIs
  <2>. QED
    BY <2>1
<1>3. PICK g \in [0 .. Len(ms) -> Nat] : IsFold(Len(ms), ms, 0, step, g)
  <2>. HIDE DEF step
  <2>. QED
    BY <1>2, FoldExists
<1>4. Weighs(ms, g)
  <2>1. \A i \in 1 .. Len(ms) : <<g[i - 1], ms[i]>> \in Nat \X Messages
    BY <1>1
  <2>. QED
    BY <1>3, <2>1 DEF IsFold, Weighs
<1>5. Equation(g)
  BY <1>1, <1>4 DEF Weighs
<1>6. Equation(f)
  <2>. HIDE DEF Equation
  <2>. QED
    BY <1>5
<1>7. Weight(ms) = f[Len(ms)]
  BY Zenon DEF Weight
<1>. HIDE DEF f
<1>8. f[0] = 0 /\ \A i \in 1 .. Len(ms) : f[i] = f[i - 1] + ms[i].size
  BY <1>1, <1>6
<1>9. \A i \in 0 .. Len(ms) : f[i] = g[i]
  <2>1. f[0] = g[0] /\ \A i \in 1 .. Len(ms) : f[i - 1] = g[i - 1] => f[i] = g[i]
    BY <1>4, <1>8 DEF Weighs
  <2>. QED
    BY <1>1, <2>1, AgreeThroughout
<1>. QED
  BY <1>1, <1>4, <1>7, <1>9

(* Whatever adds up the sizes from the first message on ends at the weight.*)
LEMMA WeightOf ==
  ASSUME NEW ms \in Seq(Messages), NEW h, Weighs(ms, h)
  PROVE  Weight(ms) = h[Len(ms)]
<1>1. PICK g \in [0 .. Len(ms) -> Nat] : Weighs(ms, g) /\ Weight(ms) = g[Len(ms)]
  BY WeightIs
<1>2. Len(ms) \in Nat
  OBVIOUS
<1>3. h[0] = g[0] /\ \A i \in 1 .. Len(ms) : h[i - 1] = g[i - 1] => h[i] = g[i]
  BY <1>1 DEF Weighs
<1>4. \A i \in 0 .. Len(ms) : h[i] = g[i]
  BY <1>2, <1>3, AgreeThroughout
<1>. QED
  BY <1>1, <1>2, <1>4

LEMMA Weights ==
  /\ Weight(<<>>) = 0
  /\ \A m \in Messages : Weight(<<m>>) = m.size
  /\ \A ms \in Seq(Messages) : Weight(ms) \in Nat
  /\ \A ms \in Seq(Messages), m \in Messages : Weight(ms \o <<m>>) = Weight(ms) + m.size
  /\ \A ms \in Seq(Messages) :
       ms # <<>> => Weight(ms) = Head(ms).size + Weight(Tail(ms))
<1>1. Weight(<<>>) = 0
  <2>1. <<>> \in Seq(Messages) /\ Len(<<>>) = 0
    OBVIOUS
  <2>2. PICK g : Weighs(<<>>, g) /\ Weight(<<>>) = g[0]
    BY <2>1, WeightIs
  <2>. QED
    BY <2>2 DEF Weighs
<1>2. \A ms \in Seq(Messages) : Weight(ms) \in Nat
  <2>1. ASSUME NEW ms \in Seq(Messages) PROVE Weight(ms) \in Nat
    <3>1. PICK g \in [0 .. Len(ms) -> Nat] : Weight(ms) = g[Len(ms)]
      BY WeightIs
    <3>2. Len(ms) \in 0 .. Len(ms)
      OBVIOUS
    <3>. QED
      BY <3>1, <3>2
  <2>. QED
    BY <2>1
<1>3. \A ms \in Seq(Messages), m \in Messages : Weight(ms \o <<m>>) = Weight(ms) + m.size
  <2>. SUFFICES ASSUME NEW ms \in Seq(Messages), NEW m \in Messages
                PROVE  Weight(ms \o <<m>>) = Weight(ms) + m.size
    OBVIOUS
  <2>. DEFINE long == ms \o <<m>>
              n == Len(ms)
  <2>1. /\ n \in Nat /\ long \in Seq(Messages) /\ Len(long) = n + 1 /\ long[n + 1] = m
        /\ \A i \in 1 .. n : long[i] = ms[i]
    OBVIOUS
  <2>. HIDE DEF long, n
  <2>2. PICK g : Weighs(long, g) /\ Weight(long) = g[Len(long)]
    BY <2>1, WeightIs
  <2>3. Weighs(ms, g)
    BY <2>1, <2>2 DEF Weighs, n
  <2>4. Weight(ms) = g[n]
    BY <2>3, WeightOf DEF n
  <2>5. g[n + 1] = g[n] + m.size
    BY <2>1, <2>2 DEF Weighs
  <2>. QED
    BY <2>1, <2>2, <2>4, <2>5 DEF long
<1>4. \A m \in Messages : Weight(<<m>>) = m.size
  <2>1. ASSUME NEW m \in Messages PROVE Weight(<<m>>) = m.size
    <3>1. <<>> \in Seq(Messages) /\ <<>> \o <<m>> = <<m>> /\ m.size \in Nat
      BY SizeIs
    <3>2. Weight(<<>> \o <<m>>) = Weight(<<>>) + m.size
      BY <1>3, <3>1
    <3>. QED
      BY <1>1, <3>1, <3>2
  <2>. QED
    BY <2>1
<1>5. \A ms \in Seq(Messages) : ms # <<>> => Weight(ms) = Head(ms).size + Weight(Tail(ms))
  <2>. SUFFICES ASSUME NEW ms \in Seq(Messages), ms # <<>>
                PROVE  Weight(ms) = Head(ms).size + Weight(Tail(ms))
    OBVIOUS
  <2>1. PICK g \in [0 .. Len(ms) -> Nat] : Weighs(ms, g) /\ Weight(ms) = g[Len(ms)]
    BY WeightIs
  <2>2. /\ Len(ms) \in Nat \ {0} /\ Tail(ms) \in Seq(Messages) /\ Len(Tail(ms)) = Len(ms) - 1
        /\ Head(ms) = ms[1] /\ \A i \in 1 .. Len(ms) - 1 : Tail(ms)[i] = ms[i + 1]
    OBVIOUS
  <2>. DEFINE h == [i \in 0 .. Len(ms) - 1 |-> g[i + 1] - g[1]]
  <2>3. \A i \in 1 .. Len(ms) - 1 : g[i + 1] = g[i] + ms[i + 1].size
    BY <2>1, <2>2 DEF Weighs
  <2>4. Weighs(Tail(ms), h)
    <3>1. h[0] = 0
      BY <2>2
    <3>2. ASSUME NEW i \in 1 .. Len(ms) - 1 PROVE h[i] = h[i - 1] + Tail(ms)[i].size
      <4>1. h[i] = g[i + 1] - g[1] /\ h[i - 1] = g[i] - g[1]
        BY <2>2
      <4>2. ms[i + 1] \in Messages /\ i \in 0 .. Len(ms) /\ 1 \in 0 .. Len(ms)
        BY <2>2
      <4>3. g[i] \in Nat /\ g[1] \in Nat /\ ms[i + 1].size \in Nat
        BY <4>2, SizeIs
      <4>. QED
        BY <2>2, <2>3, <4>1, <4>3
    <3>. QED
      BY <2>2, <3>1, <3>2 DEF Weighs
  <2>5. Weight(Tail(ms)) = h[Len(ms) - 1] /\ h[Len(ms) - 1] = g[Len(ms)] - g[1]
    BY <2>2, <2>4, WeightOf
  <2>6. g[1] = ms[1].size /\ g[1] \in Nat /\ g[Len(ms)] \in Nat
    <3>1. ms[1] \in Messages /\ 1 \in 0 .. Len(ms) /\ 1 \in 1 .. Len(ms) /\ Len(ms) \in 0 .. Len(ms)
      BY <2>2
    <3>2. ms[1].size \in Nat /\ g[1] = g[0] + ms[1].size
      BY <2>1, <3>1, SizeIs DEF Weighs
    <3>. QED
      BY <2>1, <3>1, <3>2 DEF Weighs
  <2>. QED
    BY <2>1, <2>2, <2>5, <2>6
<1>. QED
  BY <1>1, <1>2, <1>3, <1>4, <1>5

-----------------------------------------------------------------------------
Reads(ms, g) == g[0] = <<>> /\ \A i \in 1 .. Len(ms) : g[i] = g[i - 1] \o OnlyText(ms[i])

LEMMA OnlyTextIs == \A m \in Messages : OnlyText(m) \in Seq(Messages)
  BY DEF OnlyText

LEMMA ReadableIs ==
  ASSUME NEW ms \in Seq(Messages)
  PROVE  \E g \in [0 .. Len(ms) -> Seq(Messages)] : Reads(ms, g) /\ Readable(ms) = g[Len(ms)]
<1>. DEFINE step == [p \in Seq(Messages) \X Messages |-> p[1] \o OnlyText(p[2])]
            Equation(f) == f = [i \in 0 .. Len(ms) |->
              IF i = 0 THEN <<>> ELSE f[i - 1] \o OnlyText(ms[i])]
            f == CHOOSE h : Equation(h)
<1>1. Len(ms) \in Nat /\ \A i \in 1 .. Len(ms) : ms[i] \in Messages
  OBVIOUS
<1>2. step \in [Seq(Messages) \X Messages -> Seq(Messages)]
  <2>1. ASSUME NEW p \in Seq(Messages) \X Messages PROVE p[1] \o OnlyText(p[2]) \in Seq(Messages)
    <3>1. p[1] \in Seq(Messages) /\ OnlyText(p[2]) \in Seq(Messages)
      BY OnlyTextIs
    <3>. QED
      BY <3>1
  <2>. QED
    BY <2>1
<1>3. PICK g \in [0 .. Len(ms) -> Seq(Messages)] : IsFold(Len(ms), ms, <<>>, step, g)
  <2>1. <<>> \in Seq(Messages)
    OBVIOUS
  <2>. HIDE DEF step
  <2>. QED
    BY <1>2, <2>1, FoldExists
<1>4. Reads(ms, g)
  <2>1. ASSUME NEW i \in 1 .. Len(ms) PROVE <<g[i - 1], ms[i]>> \in Seq(Messages) \X Messages
    <3>1. i - 1 \in 0 .. Len(ms)
      BY <1>1
    <3>2. g[i - 1] \in Seq(Messages) /\ ms[i] \in Messages
      BY <1>1, <1>3, <3>1
    <3>. QED
      BY <3>2
  <2>. QED
    BY <1>3, <2>1 DEF IsFold, Reads
<1>5. Equation(g)
  <2>1. ASSUME NEW i \in 0 .. Len(ms)
        PROVE  g[i] = IF i = 0 THEN <<>> ELSE g[i - 1] \o OnlyText(ms[i])
    <3>1. i # 0 => i \in 1 .. Len(ms)
      BY <1>1
    <3>. QED
      BY <1>4, <3>1, Zenon DEF Reads
  <2>2. DOMAIN g = 0 .. Len(ms) /\ g = [i \in 0 .. Len(ms) |-> g[i]]
    OBVIOUS
  <2>. QED
    BY <2>1, <2>2, Zenon
<1>6. Equation(f)
  <2>. HIDE DEF Equation
  <2>. QED
    BY <1>5
<1>7. Readable(ms) = f[Len(ms)]
  BY Zenon DEF Readable
<1>. HIDE DEF f
<1>8. f[0] = <<>> /\ \A i \in 1 .. Len(ms) : f[i] = f[i - 1] \o OnlyText(ms[i])
  <2>1. \A i \in 0 .. Len(ms) : f[i] = IF i = 0 THEN <<>> ELSE f[i - 1] \o OnlyText(ms[i])
    BY <1>6, Zenon
  <2>2. 0 \in 0 .. Len(ms) /\ \A i \in 1 .. Len(ms) : i \in 0 .. Len(ms) /\ i # 0
    BY <1>1
  <2>. QED
    BY <2>1, <2>2, Zenon
<1>9. \A i \in 0 .. Len(ms) : f[i] = g[i]
  <2>1. f[0] = g[0] /\ \A i \in 1 .. Len(ms) : f[i - 1] = g[i - 1] => f[i] = g[i]
    BY <1>4, <1>8 DEF Reads
  <2>. QED
    BY <1>1, <2>1, AgreeThroughout
<1>. QED
  BY <1>1, <1>4, <1>7, <1>9

LEMMA ReadableOf ==
  ASSUME NEW ms \in Seq(Messages), NEW h, Reads(ms, h)
  PROVE  Readable(ms) = h[Len(ms)]
<1>1. PICK g \in [0 .. Len(ms) -> Seq(Messages)] : Reads(ms, g) /\ Readable(ms) = g[Len(ms)]
  BY ReadableIs
<1>2. Len(ms) \in Nat
  OBVIOUS
<1>3. h[0] = g[0] /\ \A i \in 1 .. Len(ms) : h[i - 1] = g[i - 1] => h[i] = g[i]
  BY <1>1 DEF Reads
<1>4. \A i \in 0 .. Len(ms) : h[i] = g[i]
  BY <1>2, <1>3, AgreeThroughout
<1>. QED
  BY <1>1, <1>2, <1>4

LEMMA Associative == \A x, y, z \in Seq(Messages) : (x \o y) \o z = x \o (y \o z)
  BY ConcatAssociative

(* What is readable of two stretches is readable of the first, then of the *)
(* second.                                                                 *)
LEMMA ReadableOfBoth ==
  ASSUME NEW a \in Seq(Messages), NEW b \in Seq(Messages)
  PROVE  /\ Readable(a \o b) = Readable(a) \o Readable(b)
         /\ Readable(a) \in Seq(Messages) /\ Readable(b) \in Seq(Messages)
<1>. DEFINE ab == a \o b
            n == Len(a)
            k == Len(b)
<1>1. /\ n \in Nat /\ k \in Nat /\ ab \in Seq(Messages) /\ Len(ab) = n + k
      /\ \A i \in 1 .. n : ab[i] = a[i]
      /\ \A i \in 1 .. k : ab[n + i] = b[i] /\ b[i] \in Messages
  OBVIOUS
<1>. HIDE DEF ab, n, k
<1>2. PICK g \in [0 .. Len(ab) -> Seq(Messages)] : Reads(ab, g) /\ Readable(ab) = g[Len(ab)]
  BY <1>1, ReadableIs
<1>3. PICK h \in [0 .. k -> Seq(Messages)] : Reads(b, h) /\ Readable(b) = h[k]
  BY ReadableIs DEF k
<1>4. Readable(a) = g[n]
  <2>1. \A i \in 1 .. n : i \in 1 .. Len(ab) /\ ab[i] = a[i]
    BY <1>1
  <2>2. Reads(a, g)
    BY <1>2, <2>1 DEF Reads, n
  <2>. QED
    BY <2>2, ReadableOf DEF n
<1>5. n \in 0 .. Len(ab) /\ k \in 0 .. k
  BY <1>1
<1>6. g[n] \in Seq(Messages) /\ h[k] \in Seq(Messages)
  BY <1>2, <1>3, <1>5
<1>. DEFINE left == [i \in 0 .. k |-> g[n + i]]
            right == [i \in 0 .. k |-> g[n] \o h[i]]
<1>7. \A i \in 0 .. k : left[i] = g[n + i] /\ right[i] = g[n] \o h[i]
  OBVIOUS
<1>. HIDE DEF left, right
<1>8. left[0] = right[0]
  <2>1. 0 \in 0 .. k /\ n + 0 = n
    BY <1>1
  <2>2. left[0] = g[n] /\ right[0] = g[n] \o h[0]
    BY <1>7, <2>1
  <2>3. h[0] = <<>>
    BY <1>3 DEF Reads
  <2>. QED
    BY <1>6, <2>2, <2>3
<1>9. ASSUME NEW i \in 1 .. k, left[i - 1] = right[i - 1] PROVE left[i] = right[i]
  <2>. DEFINE x == n + i
              p == g[n]
              q == h[i - 1]
              r == OnlyText(b[i])
  <2>1. /\ i - 1 \in 0 .. k /\ i \in 0 .. k /\ x \in 1 .. Len(ab) /\ x - 1 = n + (i - 1)
        /\ ab[x] = b[i] /\ b[i] \in Messages
    BY <1>1
  <2>2. /\ left[i] = g[x] /\ left[i - 1] = g[x - 1]
        /\ right[i] = p \o h[i] /\ right[i - 1] = p \o q
    BY <1>7, <2>1
  <2>3. p \in Seq(Messages) /\ q \in Seq(Messages) /\ r \in Seq(Messages)
    BY <1>3, <1>6, <2>1, OnlyTextIs
  <2>4. h[i] = q \o r
    BY <1>3, <2>1 DEF Reads, k
  <2>. HIDE DEF x
  <2>5. g[x] = g[x - 1] \o r
    BY <1>2, <2>1 DEF Reads
  <2>. HIDE DEF p, q, r
  <2>6. (p \o q) \o r = p \o (q \o r)
    BY <2>3, Associative, Zenon
  <2>. QED
    BY <1>9, <2>2, <2>4, <2>5, <2>6
<1>. DEFINE Bad == {i \in 0 .. k : left[i] # right[i]}
<1>10. Bad = {}
  <2>. SUFFICES ASSUME Bad # {} PROVE FALSE
    OBVIOUS
  <2>1. Bad \subseteq Nat
    BY <1>1
  <2>2. PICK i \in Bad : \A x \in Bad : i <= x
    BY <2>1, LeastNumber
  <2>3. i \in 1 .. k
    BY <1>1, <1>8, <2>2
  <2>4. left[i - 1] = right[i - 1]
    BY <1>1, <2>2, <2>3
  <2>. QED
    BY <1>9, <2>2, <2>3, <2>4
<1>11. left[k] = right[k]
  BY <1>5, <1>10
<1>. QED
  BY <1>1, <1>2, <1>3, <1>4, <1>5, <1>6, <1>7, <1>11 DEF ab

LEMMA NothingReadable == Readable(<<>>) = <<>>
<1>1. <<>> \in Seq(Messages) /\ Len(<<>>) = 0
  OBVIOUS
<1>2. PICK g : Reads(<<>>, g) /\ Readable(<<>>) = g[0]
  BY <1>1, ReadableIs
<1>. QED
  BY <1>2 DEF Reads

-----------------------------------------------------------------------------
(* The invariant. What the worker holds is told by its place; the budget   *)
(* is what the property says; and what arrived is what the session was     *)
(* given, followed, while it is open, by what is on its way.               *)
IngressShapes ==
  /\ arrived \in Seq(Messages) /\ handled \in Seq(Messages)
  /\ queue \in Seq(Messages) /\ Len(queue) <= Slots
  /\ callback \in {None} \cup {<<m>> : m \in Messages}
  /\ parsing \in {None} \cup {<<m>> : m \in Messages}
  /\ free \in Int
  /\ reader \in {"waiting", "polled", "parsing", "report", "ended"}
  /\ {handlers, overflow, panicked, shut, failed} \subseteq BOOLEAN
ReaderIs ==
  /\ reader = "parsing" <=> parsing # None
  /\ reader = "polled" => queue # <<>>
  /\ reader = "ended" => shut
BudgetIs == free >= 0 /\ free + Weight(queue) + Weight(parsing) = Bytes
OnTheWay == parsing \o queue \o callback
OrderIs ==
  \E given, rest \in Seq(Messages) :
    /\ arrived = given \o rest /\ handled = Readable(given)
    /\ ~shut => rest = OnTheWay

IngressInductive == IngressShapes /\ ReaderIs /\ BudgetIs /\ OrderIs

LEMMA OneIs ==
  ASSUME NEW c \in {None} \cup {<<m>> : m \in Messages}
  PROVE  /\ c \in Seq(Messages) /\ Len(c) <= 1 /\ Weight(c) \in Nat
         /\ c # None => c[1] \in Messages /\ c = <<c[1]>> /\ Weight(c) = c[1].size
<1>1. CASE c = None
  BY <1>1, Weights DEF None
<1>2. CASE c # None
  <2>1. PICK m \in Messages : c = <<m>>
    BY <1>2
  <2>2. c \in Seq(Messages) /\ Len(c) = 1 /\ c[1] = m
    BY <2>1
  <2>3. Weight(c) = m.size /\ m.size \in Nat
    BY <2>1, Weights, SizeIs
  <2>. QED
    BY <2>1, <2>2, <2>3
<1>. QED
  BY <1>1, <1>2

(* Once shut, or by a step that changes none of it, the order stays.       *)
LEMMA OrderStays ==
  ASSUME OrderIs, arrived' = arrived, handled' = handled,
         shut' \/ (shut' = shut /\ OnTheWay' = OnTheWay)
  PROVE  OrderIs'
<1>1. PICK given, rest \in Seq(Messages) :
        /\ arrived = given \o rest /\ handled = Readable(given)
        /\ ~shut => rest = OnTheWay
  BY DEF OrderIs
<1>. QED
  BY <1>1 DEF OrderIs

LEMMA ArriveKeeps ==
  ASSUME IngressInductive, Arrive
  PROVE  IngressInductive'
<1>. USE DEF IngressInductive
<1>1. PICK size \in Sizes, text \in BOOLEAN :
        /\ arrived' = Append(arrived, [n |-> Len(arrived) + 1, size |-> size, text |-> text])
        /\ callback' = IF shut THEN None ELSE <<[n |-> Len(arrived) + 1, size |-> size, text |-> text]>>
  BY DEF Arrive
<1>. DEFINE m == [n |-> Len(arrived) + 1, size |-> size, text |-> text]
<1>2. /\ callback = None /\ Len(arrived) < MaxSent
      /\ UNCHANGED <<handlers, queue, free, overflow, reader, parsing, panicked, shut, handled, failed>>
  BY DEF Arrive
<1>3. Len(arrived) \in Nat /\ arrived \in Seq(Messages)
  BY DEF IngressShapes
<1>4. m \in Messages
  BY <1>2, <1>3, IngressAssumption DEF Messages
<1>5. arrived' = Append(arrived, m) /\ callback' = IF shut THEN None ELSE <<m>>
  BY <1>1
<1>. HIDE DEF m
<1>6. IngressShapes'
  BY <1>2, <1>3, <1>4, <1>5 DEF IngressShapes
<1>7. ReaderIs' /\ BudgetIs'
  BY <1>2 DEF ReaderIs, BudgetIs
<1>8. OrderIs'
  <2>1. PICK given, rest \in Seq(Messages) :
          /\ arrived = given \o rest /\ handled = Readable(given)
          /\ ~shut => rest = OnTheWay
    BY DEF OrderIs
  <2>. DEFINE more == rest \o <<m>>
  <2>2. more \in Seq(Messages) /\ Append(given \o rest, m) = given \o more
    BY <1>4
  <2>3. ~shut => more = OnTheWay'
    <3>1. parsing \in Seq(Messages) /\ queue \in Seq(Messages)
      BY OneIs DEF IngressShapes
    <3>2. (parsing \o queue) \o <<>> = parsing \o queue
      BY <3>1
    <3>. QED
      BY <1>2, <1>5, <2>1, <3>2 DEF OnTheWay, None
  <2>. HIDE DEF more
  <2>. QED
    BY <1>2, <1>5, <2>1, <2>2, <2>3 DEF OrderIs
<1>. QED
  BY <1>6, <1>7, <1>8

LEMMA AdmitKeeps ==
  ASSUME IngressInductive, Admit
  PROVE  IngressInductive'
<1>. USE DEF IngressInductive
<1>1. /\ callback # None /\ callback' = None
      /\ UNCHANGED <<arrived, handlers, reader, parsing, panicked, handled, failed>>
  BY DEF Admit
<1>2. /\ callback \in Seq(Messages) /\ callback[1] \in Messages /\ callback = <<callback[1]>>
      /\ parsing \in Seq(Messages) /\ queue \in Seq(Messages) /\ callback[1].size \in Nat
      /\ free \in Int /\ Weight(queue) \in Nat /\ Weight(parsing) \in Nat
  BY <1>1, OneIs, SizeIs, Weights DEF IngressShapes
<1>3. CASE Fits(callback[1])
  <2>1. /\ queue' = queue \o callback /\ free' = free - callback[1].size
        /\ UNCHANGED <<shut, overflow>>
    BY <1>3 DEF Admit
  <2>2. callback[1].size <= free /\ Len(queue) < Slots /\ reader # "ended"
    BY <1>3 DEF Fits
  <2>3. queue' \in Seq(Messages) /\ Len(queue') = Len(queue) + 1
    <3>. DEFINE m == callback[1]
    <3>1. m \in Messages /\ queue' = queue \o <<m>>
      BY <1>2, <2>1
    <3>. HIDE DEF m
    <3>. QED
      BY <1>2, <3>1
  <2>4. Weight(queue') = Weight(queue) + callback[1].size
    BY <1>2, <2>1, Weights
  <2>5. IngressShapes'
    BY <1>1, <1>2, <2>1, <2>2, <2>3, IngressAssumption DEF IngressShapes
  <2>6. ReaderIs'
    <3>1. queue' # <<>>
      BY <1>2, <2>3
    <3>. QED
      BY <1>1, <2>1, <3>1 DEF ReaderIs
  <2>7. BudgetIs'
    BY <1>1, <1>2, <2>1, <2>2, <2>4 DEF BudgetIs
  <2>8. OnTheWay' = OnTheWay
    <3>1. parsing \o (queue \o callback) = (parsing \o queue) \o callback
      BY <1>2, Associative, Zenon
    <3>2. (parsing \o (queue \o callback)) \o <<>> = parsing \o (queue \o callback)
      BY <1>2
    <3>. QED
      BY <1>1, <2>1, <3>1, <3>2 DEF OnTheWay, None
  <2>9. OrderIs'
    BY <1>1, <2>1, <2>8, OrderStays
  <2>. QED
    BY <2>5, <2>6, <2>7, <2>9
<1>4. CASE ~Fits(callback[1])
  <2>1. shut' = TRUE /\ overflow' = TRUE /\ UNCHANGED <<queue, free>>
    BY <1>4 DEF Admit
  <2>2. IngressShapes' /\ ReaderIs' /\ BudgetIs'
    BY <1>1, <2>1 DEF IngressShapes, ReaderIs, BudgetIs
  <2>3. OrderIs'
    BY <1>1, <2>1, OrderStays
  <2>. QED
    BY <2>2, <2>3
<1>. QED
  BY <1>3, <1>4

LEMMA TakeKeeps ==
  ASSUME IngressInductive, Take
  PROVE  IngressInductive'
<1>. USE DEF IngressInductive
<1>1. /\ parsing' = <<Head(queue)>> /\ queue' = Tail(queue) /\ reader = "polled" /\ reader' = "parsing"
      /\ UNCHANGED <<arrived, callback, handlers, free, overflow, panicked, shut, handled, failed>>
  BY DEF Take
<1>2. queue \in Seq(Messages) /\ queue # <<>> /\ parsing = None /\ Len(queue) <= Slots /\ free \in Int
  BY <1>1 DEF IngressShapes, ReaderIs
<1>3. /\ Head(queue) \in Messages /\ Tail(queue) \in Seq(Messages) /\ Len(Tail(queue)) = Len(queue) - 1
      /\ <<Head(queue)>> \o Tail(queue) = queue
  BY <1>2
<1>4. IngressShapes'
  BY <1>1, <1>2, <1>3, IngressAssumption DEF IngressShapes
<1>5. ReaderIs'
  BY <1>1 DEF ReaderIs, None
<1>6. BudgetIs'
  <2>1. /\ Weight(queue) = Head(queue).size + Weight(Tail(queue)) /\ Weight(<<Head(queue)>>) = Head(queue).size
        /\ Weight(parsing) = 0 /\ Weight(Tail(queue)) \in Nat /\ Head(queue).size \in Nat
    BY <1>2, <1>3, Weights, SizeIs DEF None
  <2>. QED
    BY <1>1, <1>2, <2>1 DEF BudgetIs
<1>7. OnTheWay' = OnTheWay
  <2>1. <<>> \o queue = queue
    BY <1>2
  <2>. QED
    BY <1>1, <1>2, <1>3, <2>1 DEF OnTheWay, None
<1>8. OrderIs'
  BY <1>1, <1>7, OrderStays
<1>. QED
  BY <1>4, <1>5, <1>6, <1>8

LEMMA ParseKeeps ==
  ASSUME IngressInductive, Parse
  PROVE  IngressInductive'
<1>. USE DEF IngressInductive
<1>1. /\ reader = "parsing" /\ reader' = "waiting" /\ parsing' = None
      /\ handled' = IF shut THEN handled ELSE handled \o Readable(parsing)
      /\ free' = free + parsing[1].size
      /\ UNCHANGED <<arrived, callback, handlers, queue, overflow, panicked, shut, failed>>
  BY DEF Parse
<1>2. parsing # None
  BY <1>1 DEF ReaderIs
<1>3. /\ parsing \in Seq(Messages) /\ parsing[1] \in Messages /\ Weight(parsing) = parsing[1].size
      /\ parsing[1].size \in Nat
  BY <1>2, OneIs, SizeIs DEF IngressShapes
<1>4. /\ queue \in Seq(Messages) /\ callback \in Seq(Messages) /\ handled \in Seq(Messages) /\ free \in Int
      /\ Weight(queue) \in Nat /\ Weight(None) = 0
  BY OneIs, Weights DEF IngressShapes, None
<1>5. handled' \in Seq(Messages)
  <2>1. Readable(parsing) \in Seq(Messages)
    BY <1>3, ReadableOfBoth
  <2>. QED
    BY <1>1, <1>4, <2>1
<1>6. IngressShapes'
  BY <1>1, <1>3, <1>4, <1>5 DEF IngressShapes
<1>7. ReaderIs'
  BY <1>1 DEF ReaderIs
<1>8. BudgetIs'
  BY <1>1, <1>3, <1>4 DEF BudgetIs
<1>9. OrderIs'
  <2>1. CASE shut
    BY <1>1, <2>1, OrderStays
  <2>2. CASE ~shut
    <3>1. PICK given, rest \in Seq(Messages) :
            arrived = given \o rest /\ handled = Readable(given) /\ rest = OnTheWay
      BY <2>2 DEF OrderIs
    <3>. DEFINE more == given \o parsing
                left == queue \o callback
    <3>2. more \in Seq(Messages) /\ left \in Seq(Messages)
      BY <1>3, <1>4, <3>1
    <3>3. rest = parsing \o left
      <4>1. rest = (parsing \o queue) \o callback
        BY <3>1 DEF OnTheWay
      <4>2. (parsing \o queue) \o callback = parsing \o (queue \o callback)
        BY <1>3, <1>4, Associative, Zenon
      <4>. QED
        BY <4>1, <4>2
    <3>4. arrived = more \o left
      <4>. HIDE DEF left
      <4>1. (given \o parsing) \o left = given \o (parsing \o left)
        BY <1>3, <3>1, <3>2, Associative, Zenon
      <4>. QED
        BY <3>1, <3>3, <4>1
    <3>5. Readable(more) = handled \o Readable(parsing)
      BY <1>3, <3>1, ReadableOfBoth
    <3>6. left = OnTheWay'
      <4>1. <<>> \o queue = queue
        BY <1>4
      <4>. QED
        BY <1>1, <4>1 DEF OnTheWay, None
    <3>. HIDE DEF more, left
    <3>. QED
      BY <1>1, <2>2, <3>2, <3>4, <3>5, <3>6 DEF OrderIs
  <2>. QED
    BY <2>1, <2>2
<1>. QED
  BY <1>6, <1>7, <1>8, <1>9

(* However the worker ends, everything is given back.                      *)
LEMMA EndsKeeps ==
  ASSUME IngressInductive, Ends,
         UNCHANGED <<arrived, handled>>, callback' = callback,
         {handlers', overflow', panicked', shut', failed'} \subseteq BOOLEAN
  PROVE  IngressInductive'
<1>. USE DEF IngressInductive
<1>1. reader' = "ended" /\ shut' = TRUE /\ queue' = <<>> /\ parsing' = None /\ free' = Bytes
  BY DEF Ends
<1>2. <<>> \in Seq(Messages) /\ Len(<<>>) = 0
  OBVIOUS
<1>3. IngressShapes'
  BY <1>1, <1>2, IngressAssumption DEF IngressShapes
<1>4. ReaderIs'
  BY <1>1 DEF ReaderIs
<1>5. BudgetIs'
  BY <1>1, Weights, IngressAssumption DEF BudgetIs, None
<1>6. OrderIs'
  BY <1>1, OrderStays
<1>. QED
  BY <1>3, <1>4, <1>5, <1>6

(* The steps that move no message.                                         *)
Idly == CreationFailed \/ HostCloses \/ ViewGoes \/ NoOverload \/ Overload

LEMMA IdlyKeeps ==
  ASSUME IngressInductive, Idly
  PROVE  IngressInductive'
<1>. USE DEF IngressInductive
<1>1. UNCHANGED <<arrived, callback, handled, queue, free, parsing>> /\ shut' \in {shut, TRUE}
  BY DEF Idly, CreationFailed, HostCloses, ViewGoes, NoOverload, Overload
<1>2. /\ {handlers', overflow', panicked', shut', failed'} \subseteq BOOLEAN
      /\ reader' \in {"waiting", "polled", "report", reader}
  BY DEF Idly, CreationFailed, HostCloses, ViewGoes, NoOverload, Overload, IngressShapes
<1>3. IngressShapes'
  BY <1>1, <1>2 DEF IngressShapes
<1>4. ReaderIs'
  BY <1>1 DEF Idly, CreationFailed, HostCloses, ViewGoes, NoOverload, Overload, ReaderIs
<1>5. BudgetIs'
  BY <1>1 DEF BudgetIs
<1>6. OrderIs'
  BY <1>1, OrderStays DEF OnTheWay
<1>. QED
  BY <1>3, <1>4, <1>5, <1>6

LEMMA IngressStep == IngressInductive /\ [IngressNext]_iVars => IngressInductive'
<1>. SUFFICES ASSUME IngressInductive, [IngressNext]_iVars PROVE IngressInductive'
  OBVIOUS
<1>1. {handlers, overflow, panicked, shut, failed} \subseteq BOOLEAN
  BY DEF IngressInductive, IngressShapes
<1>2. CASE UNCHANGED iVars
  BY <1>2 DEF iVars, IngressInductive, IngressShapes, ReaderIs, BudgetIs, OrderIs, OnTheWay
<1>3. CASE Arrive
  BY <1>3, ArriveKeeps
<1>4. CASE Admit
  BY <1>4, AdmitKeeps
<1>5. CASE Take
  BY <1>5, TakeKeeps
<1>6. CASE Parse
  BY <1>6, ParseKeeps
<1>7. CASE Panics
  <2>1. Ends /\ panicked' = TRUE /\ UNCHANGED <<arrived, callback, handlers, overflow, handled, failed>>
    BY <1>7 DEF Panics
  <2>. QED
    BY <1>1, <2>1, EndsKeeps DEF Ends
<1>8. CASE NobodySends
  <2>1. Ends /\ UNCHANGED <<arrived, callback, handlers, overflow, panicked, handled, failed>>
    BY <1>8 DEF NobodySends
  <2>. QED
    BY <1>1, <2>1, EndsKeeps DEF Ends
<1>9. CASE Report
  <2>1. Ends /\ failed' = TRUE /\ UNCHANGED <<arrived, callback, handlers, overflow, panicked, handled>>
    BY <1>9 DEF Report
  <2>. QED
    BY <1>1, <2>1, EndsKeeps DEF Ends
<1>10. CASE Idly
  BY <1>10, IdlyKeeps
<1>. QED
  BY <1>2, <1>3, <1>4, <1>5, <1>6, <1>7, <1>8, <1>9, <1>10
  DEF IngressNext, MainStep, WorkerStep, Idly

LEMMA IngressStart == IngressInit => IngressInductive
<1>. SUFFICES ASSUME IngressInit PROVE IngressInductive
  OBVIOUS
<1>. USE DEF IngressInit
<1>1. <<>> \in Seq(Messages) /\ Len(<<>>) = 0 /\ <<>> \o <<>> = <<>>
  OBVIOUS
<1>2. IngressShapes
  <2>1. arrived \in Seq(Messages) /\ handled \in Seq(Messages) /\ queue \in Seq(Messages)
    BY <1>1
  <2>2. Len(queue) <= Slots /\ free \in Int
    BY <1>1, IngressAssumption
  <2>3. {handlers, overflow, panicked, shut, failed} \subseteq BOOLEAN
    OBVIOUS
  <2>. QED
    BY <2>1, <2>2, <2>3 DEF IngressShapes
<1>3. ReaderIs
  BY DEF ReaderIs
<1>4. BudgetIs
  BY Weights, IngressAssumption DEF BudgetIs, None
<1>5. OrderIs
  <2>1. arrived = <<>> \o <<>> /\ handled = Readable(<<>>)
    BY <1>1, NothingReadable
  <2>2. <<>> = OnTheWay
    BY <1>1 DEF OnTheWay, None
  <2>. QED
    BY <1>1, <2>1, <2>2 DEF OrderIs
<1>. QED
  BY <1>2, <1>3, <1>4, <1>5 DEF IngressInductive

(* The invariant of the way in, for any bounds, any sizes and any number   *)
(* of messages: engine.rs' callback and its worker, and dive-cdp's queue.  *)
THEOREM IngressInvariance == IngressSafety => []IngressInductive
BY IngressStart, IngressStep, PTL DEF IngressSafety

(* However the worker of attach_cdp ends, every byte of the queue's budget *)
(* is free or held by a message, and the session is closed.                *)
THEOREM BudgetIsExact == IngressSafety => []BudgetKept
<1>1. IngressInductive => BudgetKept
  <2>. SUFFICES ASSUME IngressInductive PROVE BudgetKept
    OBVIOUS
  <2>. USE DEF IngressInductive
  <2>1. Len(callback) <= 1 /\ Len(parsing) <= 1
    BY OneIs DEF IngressShapes
  <2>2. Weight(queue) \in Nat /\ Weight(parsing) \in Nat
    BY Weights, OneIs DEF IngressShapes
  <2>3. free \in 0 .. Bytes
    BY <2>2, IngressAssumption DEF IngressShapes, BudgetIs
  <2>4. \A i \in DOMAIN arrived : arrived[i] \in Messages
    BY DEF IngressShapes
  <2>5. IngressTypeOK
    BY <2>1, <2>3, <2>4 DEF IngressShapes, IngressTypeOK
  <2>. QED
    BY <2>5 DEF BudgetKept, EndsClosed, ReaderIs, BudgetIs
<1>. QED
  BY <1>1, IngressInvariance, PTL

(* Nothing the engine sent is missing, doubled or overtaken while the      *)
(* session is open, and it never acts on a message after a gap.            *)
THEOREM OrderIsKept == IngressSafety => []InOrder
<1>1. IngressInductive => InOrder
  <2>. SUFFICES ASSUME IngressInductive PROVE InOrder
    OBVIOUS
  <2>1. PICK given, rest \in Seq(Messages) :
          /\ arrived = given \o rest /\ handled = Readable(given)
          /\ ~shut => rest = OnTheWay
    BY DEF IngressInductive, OrderIs
  <2>2. /\ Readable(arrived) = handled \o Readable(rest)
        /\ handled \in Seq(Messages) /\ Readable(rest) \in Seq(Messages)
    BY <2>1, ReadableOfBoth
  <2>3. IsPrefix(handled, Readable(arrived))
    BY <2>2 DEF IsPrefix
  <2>. QED
    BY <2>1, <2>2, <2>3 DEF InOrder, OnTheWay
<1>. QED
  BY <1>1, IngressInvariance, PTL
===============================================================================
