----------------------------- MODULE CdpSession -----------------------------
(***************************************************************************)
(* The call half of a DevTools protocol session: callers on any thread,    *)
(* one worker that reads what the browser sends, and several parties that  *)
(* may close the session while calls are in flight.                        *)
(*                                                                         *)
(* The shared state is the table of in-flight calls, behind one mutex, and *)
(* the closed flag, which is NOT behind that mutex. Every lock region is a *)
(* step; the one region that reads the flag while holding the lock is two. *)
(***************************************************************************)
EXTENDS Integers

CONSTANTS
  Calls,        \* the calls made on the session, each made once
  Closers,      \* the parties that may close the session, each once
  Pauses,       \* Fetch.requestPaused events nobody can parse
  RuntimeIds    \* message ids the host runtime uses on the same channel

VARIABLES
  closed,       \* Inner.closed
  nextId,       \* Inner.next_id
  pending,      \* Inner.pending: entries [id, tx], tx the call whose sender it is
  lock,         \* who holds the mutex of pending, or "free"
  pc,           \* where each call is
  id,           \* the id each call was given, 0 before
  rx,           \* each call's oneshot channel
  result,       \* what each call returned, "none" before
  wire,         \* messages the browser has and has not answered: [id, from]
  worker,       \* the incoming worker: where it is, its message, its sender
  raised,       \* unreadable pauses already raised by the page
  kpc           \* where each closer is

callVars == <<pc, id, rx, result>>
vars == <<closed, nextId, pending, lock, pc, id, rx, result, wire, worker, raised, kpc>>

(* FIRST_ID: far from the ids the host runtime issues on the same channel. *)
FirstId == 10000000

(* Who may have sent a message the browser answers.                        *)
Askers == Calls \cup {"release", "runtime"}
Outcomes == Calls \cup {"release", "runtime", "Closed", "Timeout", "Transport", "Cancelled"}
Idle == [at |-> "idle", id |-> 0, from |-> "runtime", tx |-> "nobody"]

ASSUME IdsAssumption ==
  /\ RuntimeIds \subseteq 1..(FirstId - 1)
  /\ Calls \cap {"none", "release", "runtime", "Closed", "Timeout", "Transport",
                 "Cancelled", "new", "live", "nobody", "free", "open", "gone", "dropped"} = {}

Init ==
  /\ closed = FALSE
  /\ nextId = FirstId
  /\ pending = {}
  /\ lock = "free"
  /\ pc = [c \in Calls |-> "idle"]
  /\ id = [c \in Calls |-> 0]
  /\ rx = [c \in Calls |-> "none"]
  /\ result = [c \in Calls |-> "none"]
  /\ wire = {}
  /\ worker = Idle
  /\ raised = {}
  /\ kpc = [k \in Closers |-> "start"]

-----------------------------------------------------------------------------
(* The table of in-flight calls.                                           *)

Entries(i) == {e \in pending : e.id = i}

(* Dropping a sender wakes a receiver that is still waiting.               *)
Dropped(entries) ==
  [c \in Calls |-> IF rx[c] = "open" /\ \E e \in entries : e.tx = c
                   THEN "dropped" ELSE rx[c]]

(* The browser takes a message unless its id is already in flight there.   *)
Post(m) == wire' = IF \E w \in wire : w.id = m.id THEN wire ELSE wire \cup {m}

-----------------------------------------------------------------------------
(* call_with_timeout.                                                      *)

(* Mutant: the id is read, not fetched and incremented.                    *)
BeginReusesId(c) ==
  /\ pc[c] = "idle" /\ ~closed
  /\ id' = [id EXCEPT ![c] = nextId]
  /\ rx' = [rx EXCEPT ![c] = "open"]
  /\ pc' = [pc EXCEPT ![c] = "register"]
  /\ UNCHANGED <<closed, nextId, pending, lock, result, wire, worker, raised, kpc>>

Begin(c) ==
  /\ pc[c] = "idle"
  /\ IF closed
     THEN /\ pc' = [pc EXCEPT ![c] = "done"]
          /\ result' = [result EXCEPT ![c] = "Closed"]
          /\ UNCHANGED <<nextId, id, rx>>
     ELSE /\ id' = [id EXCEPT ![c] = nextId]
          /\ nextId' = nextId + 1
          /\ rx' = [rx EXCEPT ![c] = "open"]
          /\ pc' = [pc EXCEPT ![c] = "register"]
          /\ UNCHANGED result
  /\ UNCHANGED <<closed, pending, lock, wire, worker, raised, kpc>>

(* Mutants: no second look at the flag; a second look outside the lock.    *)
RegisterUnchecked(c) ==
  /\ pc[c] = "register" /\ lock = "free"
  /\ pc' = [pc EXCEPT ![c] = "insert"]
  /\ lock' = c
  /\ UNCHANGED <<closed, nextId, pending, id, rx, result, wire, worker, raised, kpc>>

RegisterUnlocked(c) ==
  /\ pc[c] = "register" /\ ~closed
  /\ pc' = [pc EXCEPT ![c] = "insert"]
  /\ UNCHANGED <<closed, nextId, pending, lock, id, rx, result, wire, worker, raised, kpc>>

(* Take the lock and look at the flag again before inserting.              *)
RegisterCheck(c) ==
  /\ pc[c] = "register"
  /\ lock = "free"
  /\ IF closed
     THEN /\ pc' = [pc EXCEPT ![c] = "done"]
          /\ result' = [result EXCEPT ![c] = "Closed"]
          /\ UNCHANGED lock
     ELSE /\ pc' = [pc EXCEPT ![c] = "insert"]
          /\ lock' = c
          /\ UNCHANGED result
  /\ UNCHANGED <<closed, nextId, pending, id, rx, wire, worker, raised, kpc>>

(* A map insert replaces, and so drops, a sender with the same id.         *)
RegisterInsert(c) ==
  /\ pc[c] = "insert"
  /\ pending' = (pending \ Entries(id[c])) \cup {[id |-> id[c], tx |-> c]}
  /\ rx' = Dropped(Entries(id[c]))
  /\ lock' = "free"
  /\ pc' = [pc EXCEPT ![c] = "send"]
  /\ UNCHANGED <<closed, nextId, id, result, wire, worker, raised, kpc>>

(* The call is over; its receiver is gone and its guard is still to run.   *)
Leave(c, outcome) ==
  /\ result' = [result EXCEPT ![c] = outcome]
  /\ rx' = [rx EXCEPT ![c] = "gone"]
  /\ pc' = [pc EXCEPT ![c] = "unwind"]

SendOk(c) ==
  /\ pc[c] = "send"
  /\ Post([id |-> id[c], from |-> c])
  /\ pc' = [pc EXCEPT ![c] = "wait"]
  /\ UNCHANGED <<closed, nextId, pending, lock, id, rx, result, worker, raised, kpc>>

SendFails(c) ==
  /\ pc[c] = "send"
  /\ Leave(c, "Transport")
  /\ UNCHANGED <<closed, nextId, pending, lock, id, wire, worker, raised, kpc>>

(* The receiver is polled before the deadline.                             *)
Receive(c) ==
  /\ pc[c] = "wait"
  /\ rx[c] # "open"
  /\ Leave(c, IF rx[c] = "dropped" THEN "Closed" ELSE rx[c])
  /\ UNCHANGED <<closed, nextId, pending, lock, id, wire, worker, raised, kpc>>

TimeoutOrCancel(c) ==
  /\ pc[c] = "wait"
  /\ \/ rx[c] = "open" /\ Leave(c, "Timeout")
     \/ Leave(c, "Cancelled")     \* the caller dropped the future
  /\ UNCHANGED <<closed, nextId, pending, lock, id, wire, worker, raised, kpc>>

(* Mutant: no guard, the entry stays behind.                               *)
UnwindLeaks(c) ==
  /\ pc[c] = "unwind" /\ lock = "free"
  /\ pc' = [pc EXCEPT ![c] = "done"]
  /\ UNCHANGED <<closed, nextId, pending, lock, id, rx, result, wire, worker, raised, kpc>>

(* PendingGuard::drop.                                                     *)
Unwind(c) ==
  /\ pc[c] = "unwind"
  /\ lock = "free"
  /\ pending' = pending \ Entries(id[c])
  /\ rx' = Dropped(Entries(id[c]))
  /\ pc' = [pc EXCEPT ![c] = "done"]
  /\ UNCHANGED <<closed, nextId, lock, id, result, wire, worker, raised, kpc>>

-----------------------------------------------------------------------------
(* handle_incoming, called by one worker per session, message by message.  *)

TakeReply(m) ==
  /\ worker.at = "idle"
  /\ wire' = wire \ {m}
  /\ worker' = IF closed THEN Idle
               ELSE [at |-> "lookup", id |-> m.id, from |-> m.from, tx |-> "nobody"]
  /\ UNCHANGED <<closed, nextId, pending, lock, callVars, raised, kpc>>

(* Mutant: the oldest sender is taken, whatever the id.                    *)
LookupAny ==
  /\ worker.at = "lookup" /\ lock = "free" /\ pending # {}
  /\ LET e == CHOOSE x \in pending : TRUE IN
       /\ pending' = pending \ {e}
       /\ worker' = [worker EXCEPT !.at = "answer", !.tx = e.tx]
  /\ UNCHANGED <<closed, nextId, lock, callVars, wire, raised, kpc>>

(* Remove the sender under the lock; an unknown id is ignored.             *)
Lookup ==
  /\ worker.at = "lookup"
  /\ lock = "free"
  /\ pending' = pending \ Entries(worker.id)
  /\ worker' = IF Entries(worker.id) = {} THEN Idle
               ELSE [worker EXCEPT !.at = "answer",
                                   !.tx = (CHOOSE e \in Entries(worker.id) : TRUE).tx]
  /\ UNCHANGED <<closed, nextId, lock, callVars, wire, raised, kpc>>

(* Send on the oneshot, outside the lock; the caller may have given up.    *)
Answer ==
  /\ worker.at = "answer"
  /\ rx' = IF rx[worker.tx] = "open"
           THEN [rx EXCEPT ![worker.tx] = worker.from] ELSE rx
  /\ worker' = Idle
  /\ UNCHANGED <<closed, nextId, pending, lock, pc, id, result, wire, raised, kpc>>

(* An unreadable pause is seen, unless the session is closed ...           *)
TakePause(p) ==
  /\ worker.at = "idle"
  /\ p \notin raised
  /\ raised' = raised \cup {p}
  /\ worker' = IF closed THEN Idle ELSE [Idle EXCEPT !.at = "release"]
  /\ UNCHANGED <<closed, nextId, pending, lock, callVars, wire, kpc>>

(* ... and released under an id nobody waits for, if the transport can.    *)
Release ==
  /\ worker.at = "release"
  /\ nextId' = nextId + 1
  /\ worker' = Idle
  /\ \/ Post([id |-> nextId, from |-> "release"])
     \/ UNCHANGED wire
  /\ UNCHANGED <<closed, pending, lock, callVars, raised, kpc>>

-----------------------------------------------------------------------------
(* close: the flag first, then the table.                                  *)

SetClosed(k) ==
  /\ kpc[k] = "start"
  /\ closed' = TRUE
  /\ kpc' = [kpc EXCEPT ![k] = "clear"]
  /\ UNCHANGED <<nextId, pending, lock, callVars, wire, worker, raised>>

ClearPending(k) ==
  /\ kpc[k] = "clear"
  /\ lock = "free"
  /\ pending' = {}
  /\ rx' = Dropped(pending)
  /\ kpc' = [kpc EXCEPT ![k] = "done"]
  /\ UNCHANGED <<closed, nextId, lock, pc, id, result, wire, worker, raised>>

(* The host runtime uses the same channel with ids of its own.             *)
RuntimeSends(i) ==
  /\ Post([id |-> i, from |-> "runtime"])
  /\ UNCHANGED <<closed, nextId, pending, lock, callVars, worker, raised, kpc>>

-----------------------------------------------------------------------------
CallSteps(c) == \/ Begin(c) \/ RegisterCheck(c) \/ RegisterInsert(c)
                \/ SendOk(c) \/ SendFails(c) \/ Receive(c) \/ Unwind(c)

WorkerSteps == \/ Lookup \/ Answer \/ Release
               \/ \E m \in wire : TakeReply(m)
               \/ \E p \in Pauses : TakePause(p)

Next == \/ \E c \in Calls : CallSteps(c) \/ TimeoutOrCancel(c)
        \/ WorkerSteps
        \/ \E k \in Closers : SetClosed(k) \/ ClearPending(k)
        \/ \E i \in RuntimeIds : RuntimeSends(i)

Safety == Init /\ [][Next]_vars

(* Threads and tasks that can run do run. Nothing makes the browser answer,*)
(* a caller call, the page pause or a deadline fire: the promise after     *)
(* close may lean on none of them.                                         *)
Fairness ==
  /\ \A c \in Calls : WF_vars(pc[c] # "idle" /\ CallSteps(c))
  /\ WF_vars(Lookup \/ Answer \/ Release)
  /\ \A k \in Closers : WF_vars(ClearPending(k))

Spec == Safety /\ Fairness

-----------------------------------------------------------------------------
(* Properties.                                                             *)

(* Every variable keeps its type.                                          *)
TypeOK ==
  /\ closed \in BOOLEAN
  /\ nextId \in Nat
  /\ pending \subseteq [id : Nat, tx : Calls]
  /\ lock \in Calls \cup {"free"}
  /\ pc \in [Calls -> {"idle", "register", "insert", "send", "wait", "unwind", "done"}]
  /\ id \in [Calls -> Nat]
  /\ rx \in [Calls -> Askers \cup {"none", "open", "gone", "dropped"}]
  /\ result \in [Calls -> Outcomes \cup {"none"}]
  /\ wire \subseteq [id : Nat, from : Askers]
  /\ worker \in [at : {"idle", "lookup", "answer", "release"}, id : Nat,
                  from : Askers, tx : Calls \cup {"nobody"}]
  /\ raised \subseteq Pauses
  /\ kpc \in [Closers -> {"start", "clear", "done"}]

(* A call that gets an answer gets the answer to its own request: ids are  *)
(* never shared between calls, releases and the host runtime, and a late   *)
(* answer finds no other call's sender (session.rs, handle_incoming).      *)
OwnAnswer == \A c \in Calls : result[c] \in Askers => result[c] = c

(* Nobody is told the session closed while it is open: the only senders    *)
(* ever dropped unanswered are those close itself clears.                  *)
ClosedMeansClosed == \A c \in Calls : result[c] = "Closed" => closed

(* Every entry of the table belongs to a call still under way, under the   *)
(* id that call was given: no exit path leaks one (PendingGuard).          *)
NoLeak == \A e \in pending : /\ pc[e.tx] \in {"send", "wait", "unwind"}
                              /\ e.id = id[e.tx]

Drained == \E k \in Closers : kpc[k] = "done"

(* Once a close has cleared the table it stays empty: a registration that  *)
(* saw the session open cannot insert behind the close's back.             *)
DrainedStaysEmpty == Drained => pending = {}

(* After close returns nobody sleeps until its deadline, except the call   *)
(* whose answer the worker already holds.                                  *)
NoStrandedWaiter ==
  Drained => \A c \in Calls :
    pc[c] \in {"send", "wait"} /\ rx[c] = "open"
      => worker.at = "answer" /\ worker.tx = c

(* While the session is open a waiting call's answer can still arrive: its *)
(* request is with the browser or its reply with the worker, never dropped *)
(* by the browser as a duplicate id nor lost between table and channel.    *)
NothingLost ==
  ~closed => \A c \in Calls :
    pc[c] = "wait" /\ rx[c] = "open"
      => \/ [id |-> id[c], from |-> c] \in wire
         \/ worker.at \in {"lookup", "answer"} /\ worker.from = c

(* The table of calls under way is exact: no exit path leaks an entry, no  *)
(* answer is lost to one removed too early, and a close leaves none.       *)
TableExact == TypeOK /\ NoLeak /\ NothingLost /\ DrainedStaysEmpty

-----------------------------------------------------------------------------
(* The inductive invariant behind the properties above.                    *)

(* Ids count up from FirstId and no two calls share one.                   *)
IdsInv ==
  /\ nextId >= FirstId
  /\ \A c \in Calls : /\ id[c] = 0 \/ (FirstId <= id[c] /\ id[c] < nextId)
                      /\ pc[c] \notin {"idle", "done"} => id[c] # 0
                      /\ pc[c] = "idle" => id[c] = 0
  /\ \A c, d \in Calls : c # d /\ id[c] = id[d] => id[c] = 0

(* A message names who it is from, and its id is theirs alone.             *)
Genuine(m) ==
  /\ m.from \in Calls => /\ m.id = id[m.from]
                         /\ pc[m.from] \in {"wait", "unwind", "done"}
                         /\ m.id # 0
  /\ m.from = "release" => /\ FirstId <= m.id /\ m.id < nextId
                           /\ \A c \in Calls : id[c] # m.id
  /\ m.from = "runtime" => m.id < FirstId

MessagesInv ==
  /\ \A m \in wire : Genuine(m)
  /\ worker.at \in {"lookup", "answer"} => Genuine(worker)
  /\ worker.at = "answer" => /\ worker.tx \in Calls
                             /\ worker.from = worker.tx
                             /\ \A e \in pending : e.tx # worker.tx

(* A channel holds its own answer, loses its sender only to a close, and   *)
(* otherwise its sender is in the table or in the worker's hands.          *)
ChannelsInv ==
  \A c \in Calls :
    /\ rx[c] \in Askers => rx[c] = c
    /\ rx[c] = "dropped" => closed
    /\ pc[c] = "unwind" => rx[c] = "gone"
    /\ pc[c] \in {"register", "insert", "send", "wait"} => rx[c] \notin {"none", "gone"}
    /\ pc[c] \in {"send", "wait"} /\ rx[c] = "open"
         => \/ \E e \in pending : e.tx = c
            \/ worker.at = "answer" /\ worker.tx = c

LockInv == \A c \in Calls : pc[c] = "insert" <=> lock = c

CloseInv == /\ \A k \in Closers : kpc[k] # "start" => closed
            /\ Drained => lock = "free"

(* A call has its outcome once it leaves, and not before.                  *)
OutcomeInv == \A c \in Calls : result[c] = "none" <=> pc[c] \notin {"unwind", "done"}

IInv == /\ OutcomeInv /\ TypeOK /\ IdsInv /\ MessagesInv /\ ChannelsInv /\ LockInv /\ CloseInv
        /\ OwnAnswer /\ ClosedMeansClosed /\ NoLeak /\ DrainedStaysEmpty /\ NothingLost

-----------------------------------------------------------------------------
(* What callers see is CallPromise.                                        *)
Status == [c \in Calls |-> IF result[c] # "none" THEN result[c]
                           ELSE IF pc[c] = "idle" THEN "new" ELSE "live"]

Promise == INSTANCE CallPromise WITH status <- Status, shut <- closed

(* The session implements the promise: an outcome is allowed and final, and *)
(* once closed every call made is settled without waiting for a timer, for *)
(* the browser or for the caller to give up (session.rs, close).           *)
ImplementsPromise == Promise!Spec
=============================================================================
