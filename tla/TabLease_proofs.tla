-------------------------- MODULE TabLease_proofs --------------------------
(* Proofs about TabLease, for any number of tabs, clients and agent runs   *)
(* and any lifetimes: its invariant, and what follows from it.             *)
EXTENDS TabLease, TLAPS

(* What is known of a lease once the lapsed are dropped.                   *)
LEMMA KeptType ==
  ASSUME TypeOK
  PROVE  Kept \in [Tabs -> Leases]
BY SMT DEF TypeOK, Kept, Free, Leases, Live, Names

(* A claim leaves every other tab alone and is capped.                     *)
LEMMA ClaimEffect ==
  ASSUME TypeOK, NEW t \in Tabs, NEW name \in Names, NEW ttl \in Nat, Claim(t, name, ttl)
  PROVE  /\ held' \in [Tabs -> Leases]
         /\ \A u \in Tabs \ {t} : held'[u] = Kept[u]
         /\ \/ held'[t] = Kept[t] /\ Kept[t].holder \notin {Nobody, name}
            \/ /\ Kept[t].holder \in {Nobody, name}
               /\ held'[t].holder = name /\ held'[t].until <= now + MaxTtl
<1>1. Kept \in [Tabs -> Leases]
  BY KeptType
<1>2. Clamped(ttl) \in Nat /\ Clamped(ttl) <= MaxTtl
  BY TtlAssumption, SMT DEF Clamped
<1>. DEFINE mine == [holder |-> name, until |-> now + Clamped(ttl)]
<1>3. mine \in Leases /\ mine.until <= now + MaxTtl /\ mine.holder = name
  BY <1>2, TtlAssumption, SMT DEF Leases, TypeOK
<1>4. CASE Kept[t].holder \in {Nobody, name}
  <2>1. held' = [Kept EXCEPT ![t] = mine]
    BY <1>4 DEF Claim
  <2>. QED
    BY <1>1, <1>3, <1>4, <2>1
<1>5. CASE Kept[t].holder \notin {Nobody, name}
  BY <1>1, <1>5 DEF Claim
<1>. QED
  BY <1>4, <1>5

(* Dropping the lapsed disturbs neither bound.                             *)
LEMMA KeptHolds ==
  ASSUME TypeOK, WorkHolds, TouchBounds
  PROVE  /\ \A c \in Clients, t \in Tabs :
              Working(c, t) => Kept[t].holder = c /\ Kept[t].until >= work[c][t] + DefaultTtl
         /\ \A t \in Tabs : Kept[t].until <= touched[t] + MaxTtl /\ touched[t] <= now
<1>1. ASSUME NEW c \in Clients, NEW t \in Tabs, Working(c, t)
      PROVE  Kept[t] = held[t]
  <2>1. held[t].until >= work[c][t] + DefaultTtl
    BY <1>1 DEF WorkHolds
  <2>2. Live(t)
    BY <1>1, <2>1, TtlAssumption, SMT DEF TypeOK, Leases, Working, Live
  <2>. QED
    BY <2>2 DEF Kept
<1>2. ASSUME NEW t \in Tabs
      PROVE  Kept[t].until <= touched[t] + MaxTtl /\ touched[t] <= now
  BY TtlAssumption, SMT DEF TypeOK, Kept, Free, Leases, Live, TouchBounds
<1>. QED
  BY <1>1, <1>2 DEF WorkHolds

LEMMA Initial == Init => IInv
<1>. SUFFICES ASSUME Init PROVE IInv
  OBVIOUS
<1>1. TypeOK
  BY NameAssumption, SMT DEF Init, TypeOK, Leases, Free, CallRecords, Quiet, Tools,
     RunRecords, Resting, Open
<1>2. GatedUnderOwnName /\ NamedClear
  BY DEF Init, GatedUnderOwnName, NamedClear, Quiet
<1>4. CallsAreOld
  BY NameAssumption, SMT DEF Init, CallsAreOld, Quiet
<1>3. WorkHolds /\ TouchBounds
  BY TtlAssumption, SMT DEF Init, WorkHolds, TouchBounds, Working, Free
<1>. QED
  BY <1>1, <1>2, <1>3, <1>4 DEF IInv

(* Calls that end, or that are not touched by a step.                      *)
CallsOnlyEnd == \A c \in Clients : call'[c] = call[c] \/ call'[c] = Quiet

(* A call that only ends keeps what is known of it.                        *)
LEMMA EndingCalls ==
  ASSUME IInv, CallsOnlyEnd, now' = now, NEW c \in Clients,
         \A t \in Tabs : state[t] # "new" => state'[t] # "new"
  PROVE  /\ call'[c].by \in {c, Nobody}
         /\ call'[c].time <= now'
         /\ call'[c].arg \in Tabs => state'[call'[c].arg] # "new"
         /\ call'[c].at = "gated" => call'[c] = call[c]
<1>1. CASE call'[c] = call[c]
  BY <1>1 DEF IInv, GatedUnderOwnName, CallsAreOld
<1>2. CASE call'[c] = Quiet
  BY <1>2, NameAssumption, SMT DEF Quiet, IInv, TypeOK
<1>. QED
  BY <1>1, <1>2 DEF CallsOnlyEnd

(* Steps that leave the registry, the clock and the histories alone.       *)
LEMMA RegistryUntouched ==
  ASSUME IInv, TypeOK', CallsOnlyEnd, UNCHANGED <<now, held, work, touched>>,
         \A t \in Tabs : /\ state[t] # "new" => state'[t] # "new"
                         /\ state'[t] = "open" => state[t] \in {"new", "open"}
  PROVE  IInv'
<1>1. WorkHolds' /\ TouchBounds'
  BY DEF IInv, WorkHolds, TouchBounds, Working
<1>2. GatedUnderOwnName' /\ CallsAreOld'
  BY EndingCalls DEF GatedUnderOwnName, CallsAreOld
<1>3. ASSUME NEW c \in Clients, NEW t \in Tabs,
             call'[c].at = "gated", call'[c].arg = t, state'[t] = "open"
      PROVE  Kept'[t].holder \in {Nobody, call'[c].by} \/ touched'[t] >= call'[c].time
  <2>1. call'[c] = call[c]
    BY <1>3, EndingCalls
  <2>2. state[t] = "open"
    BY <1>3, <2>1 DEF IInv, CallsAreOld
  <2>3. Kept' = Kept
    BY DEF Kept, Live
  <2>. QED
    BY <1>3, <2>1, <2>2, <2>3 DEF IInv, NamedClear
<1>. QED
  BY <1>1, <1>2, <1>3 DEF IInv, NamedClear

(* A lease that is kept is no more in the way after the step than before.  *)
LEMMA KeptTwice ==
  ASSUME TypeOK, now' = now, NEW t \in Tabs, held'[t] = Kept[t], held' \in [Tabs -> Leases]
  PROVE  Kept'[t] = Kept[t]
BY SMT DEF Kept, Live, Free, TypeOK, Leases

(* A claim, by a client or by the agent.                                   *)
LEMMA ClaimKeeps ==
  ASSUME IInv, TypeOK', CallsOnlyEnd, UNCHANGED <<now, state>>,
         NEW t \in Tabs, NEW name \in Names, NEW ttl \in Nat, Claim(t, name, ttl),
         touched' = [touched EXCEPT ![t] = IF held'[t].holder = name THEN now ELSE @],
         \A c \in Clients, u \in Tabs : work'[c][u] = work[c][u] \/ work'[c][u] = 0,
         name \in Clients => work'[name][t] = 0
  PROVE  IInv'
<1>. USE NameAssumption
<1>1. /\ held' \in [Tabs -> Leases]
      /\ \A u \in Tabs \ {t} : held'[u] = Kept[u] /\ touched'[u] = touched[u]
      /\ \/ /\ held'[t] = Kept[t] /\ Kept[t].holder \notin {Nobody, name}
            /\ touched'[t] = touched[t]
         \/ /\ Kept[t].holder \in {Nobody, name} /\ touched'[t] = now
            /\ held'[t].holder = name /\ held'[t].until <= now + MaxTtl
  BY ClaimEffect DEF IInv, TypeOK
<1>2. WorkHolds'
  <2>. SUFFICES ASSUME NEW c \in Clients, NEW u \in Tabs, Working(c, u)'
                PROVE  held'[u].holder = c /\ held'[u].until >= work'[c][u] + DefaultTtl
    BY DEF WorkHolds
  <2>1. work'[c][u] = work[c][u] /\ Working(c, u)
    BY SMT DEF Working, TypeOK
  <2>2. Kept[u].holder = c /\ Kept[u].until >= work[c][u] + DefaultTtl
    BY <2>1, KeptHolds DEF IInv
  <2>3. ~(u = t /\ c = name)
    BY SMT DEF Working, TypeOK
  <2>4. c # Nobody
    BY DEF Names
  <2>. QED
    BY <1>1, <2>1, <2>2, <2>3, <2>4
<1>3. TouchBounds'
  <2>. SUFFICES ASSUME NEW u \in Tabs
                PROVE  held'[u].until <= touched'[u] + MaxTtl /\ touched'[u] <= now
    BY DEF TouchBounds
  <2>1. Kept[u].until <= touched[u] + MaxTtl /\ touched[u] <= now
    BY KeptHolds DEF IInv
  <2>2. CASE held'[u] = Kept[u] /\ touched'[u] = touched[u]
    BY <2>1, <2>2
  <2>3. CASE u = t /\ touched'[t] = now /\ held'[t].until <= now + MaxTtl
    <3>. now \in Nat
      BY DEF IInv, TypeOK
    <3>. QED
      BY <2>3, SMT
  <2>. QED
    BY <1>1, <2>2, <2>3
<1>4. GatedUnderOwnName' /\ CallsAreOld'
  BY EndingCalls DEF GatedUnderOwnName, CallsAreOld
<1>5. NamedClear'
  <2>. SUFFICES ASSUME NEW c \in Clients, NEW u \in Tabs,
                       call'[c].at = "gated", call'[c].arg = u, state'[u] = "open"
                PROVE  Kept'[u].holder \in {Nobody, call'[c].by} \/ touched'[u] >= call'[c].time
    BY DEF NamedClear
  <2>1. call'[c] = call[c] /\ call[c].time <= now
    BY EndingCalls DEF IInv, CallsAreOld
  <2>2. Kept[u].holder \in {Nobody, call[c].by} \/ touched[u] >= call[c].time
    BY <2>1 DEF IInv, NamedClear
  <2>3. CASE held'[u] = Kept[u] /\ touched'[u] = touched[u]
    BY <2>1, <2>2, <2>3, <1>1, KeptTwice DEF IInv
  <2>4. CASE u = t /\ touched'[t] = now
    BY <2>1, <2>4
  <2>. QED
    BY <1>1, <2>3, <2>4
<1>. QED
  BY <1>2, <1>3, <1>4, <1>5 DEF IInv

(* Giving a tab back, by a client or by the agent.                         *)
LEMMA ReleaseKeeps ==
  ASSUME IInv, TypeOK', CallsOnlyEnd, UNCHANGED <<now, state, touched>>,
         NEW t \in Tabs, NEW name \in Names, Release(t, name),
         \A c \in Clients, u \in Tabs : work'[c][u] = work[c][u] \/ work'[c][u] = 0,
         name \in Clients => work'[name][t] = 0
  PROVE  IInv'
<1>. USE NameAssumption
<1>1. \A u \in Tabs : \/ held'[u] = held[u]
                      \/ u = t /\ held'[u] = Free /\ held[u].holder = name
  BY DEF Release, IInv, TypeOK
<1>2. WorkHolds'
  <2>. SUFFICES ASSUME NEW c \in Clients, NEW u \in Tabs, Working(c, u)'
                PROVE  held'[u].holder = c /\ held'[u].until >= work'[c][u] + DefaultTtl
    BY DEF WorkHolds
  <2>1. work'[c][u] = work[c][u] /\ Working(c, u)
    BY SMT DEF Working, TypeOK
  <2>2. held[u].holder = c /\ held[u].until >= work[c][u] + DefaultTtl
    BY <2>1 DEF IInv, WorkHolds
  <2>3. ~(u = t /\ c = name)
    BY SMT DEF Working, TypeOK
  <2>. QED
    BY <1>1, <2>1, <2>2, <2>3
<1>3. TouchBounds'
  BY <1>1, TtlAssumption, SMT DEF TouchBounds, IInv, TypeOK, Free
<1>4. GatedUnderOwnName' /\ CallsAreOld'
  BY EndingCalls DEF GatedUnderOwnName, CallsAreOld
<1>5. NamedClear'
  <2>. SUFFICES ASSUME NEW c \in Clients, NEW u \in Tabs,
                       call'[c].at = "gated", call'[c].arg = u, state'[u] = "open"
                PROVE  Kept'[u].holder \in {Nobody, call'[c].by} \/ touched'[u] >= call'[c].time
    BY DEF NamedClear
  <2>1. call'[c] = call[c]
    BY EndingCalls
  <2>2. Kept[u].holder \in {Nobody, call[c].by} \/ touched[u] >= call[c].time
    BY <2>1 DEF IInv, NamedClear
  <2>3. Kept'[u] = Kept[u] \/ Kept'[u] = Free
    BY <1>1 DEF Kept, Live
  <2>. QED
    BY <2>1, <2>2, <2>3 DEF Free
<1>. QED
  BY <1>2, <1>3, <1>4, <1>5 DEF IInv

-----------------------------------------------------------------------------
(* Typing, one action at a time.                                           *)

LEMMA GateTypes ==
  ASSUME TypeOK, NEW c \in Clients, Gate(c)
  PROVE  TypeOK'
<1>. PICK tool \in Tools, arg \in {t \in Tabs : state[t] # "new"} \cup {Active},
          by \in {c, Nobody} :
       GateChecks(c, tool, arg, by) \/ GateSkipped(c, tool, arg, by)
  BY DEF Gate
<1>. DEFINE made == [at |-> "gated", tool |-> tool, arg |-> arg, by |-> by, time |-> now]
<1>1. made \in CallRecords
  BY SMT DEF CallRecords, TypeOK
<1>2. CASE GateSkipped(c, tool, arg, by)
  <2>1. call' \in [Clients -> CallRecords]
    BY <1>1, <1>2 DEF GateSkipped, TypeOK
  <2>. QED
    BY <1>2, <2>1 DEF GateSkipped, TypeOK
<1>3. CASE GateChecks(c, tool, arg, by)
  <2>1. Kept \in [Tabs -> Leases]
    BY KeptType
  <2>2. PICK t \in Resolve(arg) :
          IF MayAct(t, by)
          THEN /\ held' = Renewed(t, by)
               /\ call' = [call EXCEPT ![c] = made]
               /\ IF Renews(t, by)
                  THEN /\ work' = [work EXCEPT ![c][t] = now]
                       /\ touched' = [touched EXCEPT ![t] = now]
                  ELSE UNCHANGED <<work, touched>>
          ELSE held' = Kept /\ UNCHANGED <<call, work, touched>>
    BY <1>3 DEF GateChecks
  <2>3. t \in Tabs
    BY DEF Resolve, Open
  <2>4. held' \in [Tabs -> Leases]
    BY <2>1, <2>2, <2>3, TtlAssumption, SMT DEF Renewed, Later, Leases, TypeOK
  <2>5. call' \in [Clients -> CallRecords]
    BY <1>1, <2>2 DEF TypeOK
  <2>6. touched' \in [Tabs -> Nat]
    BY <2>2, <2>3 DEF TypeOK
  <2>7. work' \in [Clients -> [Tabs -> Nat]]
    BY <2>2, <2>3, SMT DEF TypeOK
  <2>. QED
    BY <1>3, <2>4, <2>5, <2>6, <2>7 DEF GateChecks, TypeOK
<1>. QED
  BY <1>2, <1>3

LEMMA QuietType == Quiet \in CallRecords
BY SMT DEF Quiet, CallRecords, Tools

LEMMA CallTypes ==
  ASSUME TypeOK, NEW c \in Clients, ToolFails(c) \/ Acts(c) \/ Claims(c) \/ Releases(c)
  PROVE  TypeOK'
<1>1. call' \in [Clients -> CallRecords]
  BY QuietType DEF ToolFails, Acts, Claims, Releases, Ends, TypeOK
<1>2. CASE ToolFails(c)
  BY <1>1, <1>2 DEF ToolFails, TypeOK
<1>3. CASE Acts(c)
  <2>1. PICK t \in Resolve(call[c].arg) :
          \/ UNCHANGED <<state, active>>
          \/ active' = t /\ UNCHANGED state
          \/ Closes(t)
    BY <1>3 DEF Acts
  <2>2. t \in Tabs
    BY DEF Resolve, Open
  <2>3. state' \in [Tabs -> {"new", "open", "closed"}] /\ active' \in Tabs \cup {NoTab}
    BY <2>1, <2>2 DEF TypeOK, Closes, Open
  <2>. QED
    BY <1>1, <1>3, <2>3 DEF Acts, TypeOK
<1>4. CASE Claims(c)
  <2>1. PICK t \in Resolve(call[c].arg), ttl \in Ttls :
          /\ Claim(t, c, ttl)
          /\ work' = [work EXCEPT ![c][t] = 0]
          /\ touched' = [touched EXCEPT ![t] = IF held'[t].holder = c THEN now ELSE @]
    BY <1>4 DEF Claims
  <2>2. t \in Tabs /\ ttl \in Nat /\ c \in Names
    BY TtlAssumption DEF Resolve, Open, Names
  <2>3. held' \in [Tabs -> Leases]
    BY <2>1, <2>2, ClaimEffect
  <2>4. work' \in [Clients -> [Tabs -> Nat]] /\ touched' \in [Tabs -> Nat]
    BY <2>1, <2>2, SMT DEF TypeOK
  <2>. QED
    BY <1>1, <1>4, <2>3, <2>4 DEF Claims, TypeOK
<1>5. CASE Releases(c)
  <2>1. PICK t \in Resolve(call[c].arg) : Release(t, c) /\ work' = [work EXCEPT ![c][t] = 0]
    BY <1>5 DEF Releases
  <2>2. t \in Tabs
    BY DEF Resolve, Open
  <2>3. held' \in [Tabs -> Leases]
    BY <2>1, <2>2, SMT DEF TypeOK, Release, Free, Leases
  <2>4. work' \in [Clients -> [Tabs -> Nat]]
    BY <2>1, <2>2, SMT DEF TypeOK
  <2>. QED
    BY <1>1, <1>5, <2>3, <2>4 DEF Releases, TypeOK
<1>. QED
  BY <1>2, <1>3, <1>4, <1>5

LEMMA RunTypes ==
  ASSUME TypeOK, NEW r \in Runs,
         \/ \E t \in Open \cup {NoTab} : Starts(r, t)
         \/ \E t \in Tabs : RunActs(r, t)
         \/ RunActed(r) \/ Finishes(r) \/ Panics(r)
  PROVE  TypeOK'
<1>. USE NameAssumption
<1>0. Resting \in RunRecords /\ ~Resting.mine
  BY SMT DEF Resting, RunRecords
<1>1. ASSUME NEW t \in Open \cup {NoTab}, Starts(r, t)
      PROVE  TypeOK'
  <2>1. CASE t = NoTab
    <3>. DEFINE made == [at |-> "working", tab |-> NoTab, target |-> NoTab, mine |-> FALSE]
    <3>1. made \in RunRecords /\ ~made.mine
      BY SMT DEF RunRecords
    <3>2. run' = [run EXCEPT ![r] = made]
      BY <1>1, <2>1 DEF Starts
    <3>3. run' \in [Runs -> RunRecords] /\ \A q \in Runs : run'[q].mine => run'[q].tab \in Tabs
      BY <3>1, <3>2 DEF TypeOK
    <3>. QED
      BY <1>1, <2>1, <3>3 DEF Starts, TypeOK
  <2>2. CASE t # NoTab
    <3>. DEFINE made == [at |-> "working", tab |-> t, target |-> NoTab,
                         mine |-> held'[t].holder = Dive]
    <3>1. t \in Tabs /\ made \in RunRecords
      BY <2>2, SMT DEF RunRecords, Open
    <3>2. run' = [run EXCEPT ![r] = made] /\ Claim(t, Dive, MaxTtl)
      BY <1>1, <2>2 DEF Starts
    <3>3. held' \in [Tabs -> Leases]
      BY <3>1, <3>2, ClaimEffect, TtlAssumption DEF Names
    <3>4. touched' \in [Tabs -> Nat]
      BY <1>1, <2>2, <3>1, SMT DEF Starts, TypeOK
    <3>5. run' \in [Runs -> RunRecords] /\ \A q \in Runs : run'[q].mine => run'[q].tab \in Tabs
      BY <3>1, <3>2 DEF TypeOK
    <3>. QED
      BY <1>1, <3>3, <3>4, <3>5 DEF Starts, TypeOK
  <2>. QED
    BY <2>1, <2>2
<1>2. ASSUME NEW t \in Tabs, RunActs(r, t)
      PROVE  TypeOK'
  <2>1. run[r] \in RunRecords
    BY DEF TypeOK
  <2>2. [run[r] EXCEPT !.target = t] \in RunRecords
    BY <2>1, SMTT(30) DEF RunRecords
  <2>. QED
    BY <1>2, <2>2, SMTT(30) DEF RunActs, TypeOK, RunRecords
<1>3. CASE RunActed(r)
  <2>1. run[r] \in RunRecords
    BY DEF TypeOK
  <2>2. [run[r] EXCEPT !.target = NoTab] \in RunRecords
    BY <2>1, SMTT(30) DEF RunRecords
  <2>. QED
    BY <1>3, <2>2, SMTT(30) DEF RunActed, TypeOK, RunRecords
<1>4. CASE Finishes(r)
  <2>1. held' \in [Tabs -> Leases]
    BY <1>4, SMT DEF Finishes, TypeOK, Release, Free, Leases
  <2>. QED
    BY <1>0, <1>4, <2>1 DEF Finishes, TypeOK
<1>5. CASE Panics(r)
  BY <1>0, <1>5 DEF Panics, TypeOK
<1>. QED
  BY <1>1, <1>2, <1>3, <1>4, <1>5

LEMMA Types == ASSUME TypeOK, [Next]_vars PROVE TypeOK'
<1>1. CASE UNCHANGED vars
  BY <1>1 DEF vars, TypeOK
<1>2. ASSUME NEW t \in Tabs, Opens(t) \/ Switches(t) \/ PersonCloses(t)
      PROVE  TypeOK'
  BY <1>2 DEF Opens, Switches, PersonCloses, Closes, Open, TypeOK
<1>3. CASE Tick
  BY <1>3, SMT DEF Tick, TypeOK
<1>. QED
  BY <1>1, <1>2, <1>3, GateTypes, CallTypes, RunTypes DEF Next

-----------------------------------------------------------------------------
(* The invariant, one action at a time.                                    *)

LEMMA GateKeeps ==
  ASSUME IInv, TypeOK', NEW c \in Clients, Gate(c)
  PROVE  IInv'
<1>. USE NameAssumption
<1>. PICK tool \in Tools, arg \in {t \in Tabs : state[t] # "new"} \cup {Active},
          by \in {c, Nobody} :
       GateChecks(c, tool, arg, by) \/ GateSkipped(c, tool, arg, by)
  BY DEF Gate
<1>. DEFINE made == [at |-> "gated", tool |-> tool, arg |-> arg, by |-> by, time |-> now]
<1>0. TypeOK /\ now \in Nat /\ UNCHANGED <<now, state>>
  BY DEF IInv, TypeOK, GateChecks, GateSkipped
<1>1. call' = call \/ call' = [call EXCEPT ![c] = made]
  BY DEF GateChecks, GateSkipped
<1>. HIDE DEF made
<1>2. \A d \in Clients : call'[d] = call[d] \/ (d = c /\ call'[d] = made)
  BY <1>0, <1>1 DEF TypeOK
<1>. USE DEF made
<1>3. GatedUnderOwnName'
  BY <1>2 DEF IInv, GatedUnderOwnName
<1>4. CallsAreOld'
  BY <1>0, <1>2 DEF IInv, CallsAreOld
<1>5. CASE GateSkipped(c, tool, arg, by)
  <2>1. Kept' = Kept /\ UNCHANGED <<held, work, touched>>
    BY <1>5 DEF GateSkipped, Kept, Live
  <2>2. ASSUME NEW t \in Tabs, arg = t PROVE state[t] # "open"
    BY <1>5, <2>2 DEF GateSkipped, Resolve, Open
  <2>3. NamedClear'
    BY <1>0, <1>2, <2>1, <2>2 DEF IInv, NamedClear
  <2>4. WorkHolds' /\ TouchBounds'
    BY <1>0, <2>1 DEF IInv, WorkHolds, TouchBounds, Working
  <2>. QED
    BY <1>3, <1>4, <2>3, <2>4 DEF IInv
<1>6. CASE GateChecks(c, tool, arg, by)
  <2>1. PICK t \in Resolve(arg) :
          IF MayAct(t, by)
          THEN /\ held' = Renewed(t, by)
               /\ call' = [call EXCEPT ![c] = made]
               /\ IF Renews(t, by)
                  THEN /\ work' = [work EXCEPT ![c][t] = now]
                       /\ touched' = [touched EXCEPT ![t] = now]
                  ELSE UNCHANGED <<work, touched>>
          ELSE held' = Kept /\ UNCHANGED <<call, work, touched>>
    BY <1>6 DEF GateChecks
  <2>2. t \in Tabs /\ t \in Open /\ (arg \in Tabs => arg = t) /\ Kept \in [Tabs -> Leases]
    BY <1>0, KeptType DEF Resolve, Open
  <2>3. /\ \A d \in Clients, u \in Tabs :
              Working(d, u) => Kept[u].holder = d /\ Kept[u].until >= work[d][u] + DefaultTtl
        /\ \A u \in Tabs : Kept[u].until <= touched[u] + MaxTtl /\ touched[u] <= now
    BY KeptHolds DEF IInv
  <2>4. CASE held' = Kept /\ UNCHANGED <<work, touched>>
    <3>1. \A u \in Tabs : Kept'[u] = Kept[u]
      BY <1>0, <2>2, <2>4, KeptTwice
    <3>2. NamedClear'
      <4>. SUFFICES ASSUME NEW d \in Clients, NEW u \in Tabs,
                           call'[d].at = "gated", call'[d].arg = u, state'[u] = "open"
                    PROVE  Kept'[u].holder \in {Nobody, call'[d].by}
                             \/ touched'[u] >= call'[d].time
        BY DEF NamedClear
      <4>1. CASE call'[d] = call[d]
        BY <1>0, <2>4, <3>1, <4>1 DEF IInv, NamedClear
      <4>2. CASE d = c /\ call'[d] = made /\ call' # call
        <5>1. MayAct(t, by) /\ u = t
          BY <2>1, <2>2, <4>2
        <5>. QED
          BY <3>1, <4>2, <5>1 DEF MayAct
      <4>. QED
        BY <1>2, <4>1, <4>2
    <3>3. WorkHolds' /\ TouchBounds'
      BY <1>0, <2>3, <2>4 DEF WorkHolds, TouchBounds, Working
    <3>. QED
      BY <1>3, <1>4, <3>2, <3>3 DEF IInv
  <2>5. CASE MayAct(t, by) /\ Renews(t, by)
    <3>. DEFINE mine == [holder |-> by, until |-> Later(Kept[t].until, now + DefaultTtl)]
    <3>1. by = c /\ Kept[t].holder = c
      BY <2>5 DEF Renews
    <3>2. held' = [Kept EXCEPT ![t] = mine]
      BY <2>1, <2>5 DEF Renewed, Renews
    <3>3. /\ mine \in Leases /\ mine.holder = c /\ mine.until >= now + DefaultTtl
          /\ mine.until <= now + MaxTtl \/ mine.until = Kept[t].until
      BY <1>0, <2>2, <3>1, TtlAssumption, SMT DEF Leases, Later, Names
    <3>4. /\ held'[t] = mine /\ touched'[t] = now /\ work'[c][t] = now
          /\ \A u \in Tabs \ {t} : held'[u] = Kept[u] /\ touched'[u] = touched[u]
          /\ \A d \in Clients, u \in Tabs : d # c \/ u # t => work'[d][u] = work[d][u]
      BY <1>0, <2>1, <2>2, <2>5, <3>2 DEF TypeOK
    <3>. HIDE DEF mine
    <3>5. \A u \in Tabs : u # t => Kept'[u] = Kept[u]
      BY <1>0, <2>2, <3>4, KeptTwice DEF TypeOK
    <3>6. Kept'[t].holder \in {Nobody, c}
      BY <2>2, <3>3, <3>4 DEF Kept, Free
    <3>7. NamedClear'
      <4>. SUFFICES ASSUME NEW d \in Clients, NEW u \in Tabs,
                           call'[d].at = "gated", call'[d].arg = u, state'[u] = "open"
                    PROVE  Kept'[u].holder \in {Nobody, call'[d].by}
                             \/ touched'[u] >= call'[d].time
        BY DEF NamedClear
      <4>1. CASE u = t
        BY <1>0, <3>4, <4>1, <1>4 DEF CallsAreOld
      <4>2. CASE u # t /\ call'[d] = call[d]
        BY <1>0, <3>4, <3>5, <4>2 DEF IInv, NamedClear
      <4>3. CASE u # t /\ d = c /\ call'[d] = made
        BY <2>2, <4>3
      <4>. QED
        BY <1>2, <4>1, <4>2, <4>3
    <3>8. WorkHolds'
      <4>. SUFFICES ASSUME NEW d \in Clients, NEW u \in Tabs, Working(d, u)'
                    PROVE  held'[u].holder = d /\ held'[u].until >= work'[d][u] + DefaultTtl
        BY DEF WorkHolds
      <4>1. CASE u # t
        BY <1>0, <2>3, <3>4, <4>1 DEF Working
      <4>2. CASE u = t /\ d = c
        BY <3>3, <3>4, <4>2
      <4>3. CASE u = t /\ d # c
        BY <1>0, <2>3, <3>1, <3>4, <4>3 DEF Working
      <4>. QED
        BY <4>1, <4>2, <4>3
    <3>9. TouchBounds'
      <4>1. Kept[t].until <= now + MaxTtl
        BY <1>0, <2>2, <2>3, TtlAssumption, SMT DEF IInv, TouchBounds, TypeOK, Leases
      <4>2. mine.until <= now + MaxTtl
        BY <3>3, <4>1
      <4>3. SUFFICES ASSUME NEW u \in Tabs
                     PROVE  held'[u].until <= touched'[u] + MaxTtl /\ touched'[u] <= now'
        BY DEF TouchBounds
      <4>4. CASE u = t
        BY <1>0, <3>4, <4>2, <4>4 DEF TypeOK
      <4>5. CASE u # t
        BY <1>0, <2>3, <3>4, <4>5
      <4>. QED
        BY <4>4, <4>5
    <3>. QED
      BY <1>3, <1>4, <3>7, <3>8, <3>9 DEF IInv
  <2>. QED
    BY <2>1, <2>4, <2>5 DEF Renewed, Renews
<1>. QED
  BY <1>5, <1>6

LEMMA TickKeeps == ASSUME IInv, TypeOK', Tick PROVE IInv'
<1>0. TypeOK /\ now' = now + 1 /\ UNCHANGED <<held, state, call, work, touched>>
  BY DEF IInv, Tick
<1>1. WorkHolds'
  BY <1>0, TtlAssumption, SMT DEF IInv, WorkHolds, Working, TypeOK
<1>2. TouchBounds'
  BY <1>0, SMT DEF IInv, TouchBounds, TypeOK
<1>3. GatedUnderOwnName'
  BY <1>0 DEF IInv, GatedUnderOwnName
<1>4. CallsAreOld'
  <2>1. \A c \in Clients : call[c].time \in Nat
    BY <1>0, SMT DEF TypeOK, CallRecords
  <2>. QED
    BY <1>0, <2>1, SMT DEF IInv, CallsAreOld, TypeOK
<1>5. \A t \in Tabs : Kept'[t] = Kept[t] \/ Kept'[t] = Free
  BY <1>0, SMT DEF Kept, Live, TypeOK, Leases
<1>6. NamedClear'
  BY <1>0, <1>5 DEF IInv, NamedClear, Free
<1>. QED
  BY <1>1, <1>2, <1>3, <1>4, <1>6 DEF IInv

LEMMA CallKeeps ==
  ASSUME IInv, TypeOK', NEW c \in Clients, ToolFails(c) \/ Acts(c) \/ Claims(c) \/ Releases(c)
  PROVE  IInv'
<1>0. TypeOK /\ CallsOnlyEnd
  BY DEF IInv, TypeOK, ToolFails, Acts, Claims, Releases, Ends, CallsOnlyEnd
<1>1. CASE ToolFails(c)
  BY <1>0, <1>1, RegistryUntouched DEF ToolFails
<1>2. CASE Acts(c)
  <2>1. UNCHANGED state \/ \E t \in Tabs : Closes(t)
    BY <1>2 DEF Acts, Resolve, Open
  <2>2. \A t \in Tabs : state'[t] \in {state[t], "closed"}
    BY <1>0, <2>1 DEF TypeOK, Closes
  <2>. QED
    BY <1>0, <1>2, <2>2, RegistryUntouched DEF Acts
<1>3. CASE Claims(c)
  <2>1. PICK t \in Resolve(call[c].arg), ttl \in Ttls :
          /\ Claim(t, c, ttl)
          /\ work' = [work EXCEPT ![c][t] = 0]
          /\ touched' = [touched EXCEPT ![t] = IF held'[t].holder = c THEN now ELSE @]
    BY <1>3 DEF Claims
  <2>2. t \in Tabs /\ ttl \in Nat /\ c \in Names
    BY TtlAssumption DEF Resolve, Open, Names
  <2>3. /\ \A d \in Clients, u \in Tabs : work'[d][u] = work[d][u] \/ work'[d][u] = 0
        /\ work'[c][t] = 0
    BY <1>0, <2>1, <2>2 DEF TypeOK
  <2>. QED
    BY <1>0, <1>3, <2>1, <2>2, <2>3, ClaimKeeps DEF Claims
<1>4. CASE Releases(c)
  <2>1. PICK t \in Resolve(call[c].arg) : Release(t, c) /\ work' = [work EXCEPT ![c][t] = 0]
    BY <1>4 DEF Releases
  <2>2. t \in Tabs /\ c \in Names
    BY DEF Resolve, Open, Names
  <2>3. /\ \A d \in Clients, u \in Tabs : work'[d][u] = work[d][u] \/ work'[d][u] = 0
        /\ work'[c][t] = 0
    BY <1>0, <2>1, <2>2 DEF TypeOK
  <2>. QED
    BY <1>0, <1>4, <2>1, <2>2, <2>3, ReleaseKeeps DEF Releases
<1>. QED
  BY <1>1, <1>2, <1>3, <1>4

LEMMA RunKeeps ==
  ASSUME IInv, TypeOK', NEW r \in Runs,
         \/ \E t \in Open \cup {NoTab} : Starts(r, t)
         \/ \E t \in Tabs : RunActs(r, t)
         \/ RunActed(r) \/ Finishes(r) \/ Panics(r)
  PROVE  IInv'
<1>0. TypeOK /\ Dive \in Names /\ Dive \notin Clients
  BY NameAssumption DEF IInv, Names
<1>1. CallsOnlyEnd /\ UNCHANGED <<now, state, work, call>>
  BY DEF Starts, RunActs, RunActed, Finishes, Panics, CallsOnlyEnd
<1>2. CASE UNCHANGED <<held, touched>>
  BY <1>1, <1>2, RegistryUntouched
<1>3. ASSUME NEW t \in Open, Claim(t, Dive, MaxTtl),
             touched' = [touched EXCEPT ![t] = IF held'[t].holder = Dive THEN now ELSE @]
      PROVE  IInv'
  BY <1>0, <1>1, <1>3, TtlAssumption, ClaimKeeps DEF Open
<1>4. ASSUME NEW t \in Tabs, Release(t, Dive), UNCHANGED touched
      PROVE  IInv'
  BY <1>0, <1>1, <1>4, ReleaseKeeps
<1>5. ASSUME NEW t \in Open \cup {NoTab}, Starts(r, t)
      PROVE  IInv'
  BY <1>2, <1>3, <1>5 DEF Starts
<1>6. CASE Finishes(r)
  BY <1>0, <1>2, <1>4, <1>6 DEF Finishes, TypeOK
<1>. QED
  BY <1>2, <1>5, <1>6 DEF RunActs, RunActed, Panics

LEMMA Inductive == ASSUME IInv, [Next]_vars PROVE IInv'
<1>0. TypeOK'
  BY Types DEF IInv
<1>1. CASE UNCHANGED vars
  BY <1>0, <1>1, RegistryUntouched DEF vars, CallsOnlyEnd
<1>2. ASSUME NEW t \in Tabs, Opens(t) \/ Switches(t) \/ PersonCloses(t)
      PROVE  IInv'
  <2>1. /\ \A u \in Tabs : state'[u] = state[u] \/ state[u] = "new" \/ state'[u] = "closed"
        /\ \A u \in Tabs : state[u] # "new" => state'[u] # "new"
    BY <1>2 DEF Opens, Switches, PersonCloses, Closes, IInv, TypeOK
  <2>2. CallsOnlyEnd /\ UNCHANGED <<now, held, work, touched>>
    BY <1>2 DEF Opens, Switches, PersonCloses, CallsOnlyEnd
  <2>3. \A u \in Tabs : state'[u] = "open" => state[u] \in {"new", "open"}
    BY <2>1
  <2>. QED
    BY <1>0, <2>1, <2>2, <2>3, RegistryUntouched
<1>. QED
  BY <1>0, <1>1, <1>2, GateKeeps, CallKeeps, RunKeeps, TickKeeps DEF Next

(* The invariant of the registry and of everyone who uses it.              *)
THEOREM Invariance == Spec => []IInv
<1>. QED
  BY Initial, Inductive, PTL DEF Spec

(* Every variable has its type.                                            *)
THEOREM TypeCorrect == Spec => []TypeOK
<1>1. IInv => TypeOK
  BY DEF IInv
<1>. QED
  BY <1>1, Invariance, PTL

(* A client at work in its own tab still holds it: no step of any other    *)
(* client, run or person takes it away.                                    *)
THEOREM WorkCorrect == Spec => []NeverShutOut
<1>1. IInv => NeverShutOut
  BY TtlAssumption, SMT DEF IInv, WorkHolds, NeverShutOut, Working, Live, TypeOK, Leases
<1>. QED
  BY <1>1, Invariance, PTL

(* A tab nobody has touched for the longest lifetime is free.              *)
THEOREM LapseCorrect == Spec => []AbandonedLapses
<1>1. IInv => AbandonedLapses
  BY TtlAssumption, SMT DEF IInv, TouchBounds, AbandonedLapses, Live, TypeOK, Leases
<1>. QED
  BY <1>1, Invariance, PTL

(* Only the gate lets a call through, and ends none.                       *)
LEMMA CallMoves ==
  ASSUME TypeOK, [Next]_vars, NEW c \in Clients
  PROVE  /\ call[c].at = "idle" /\ call'[c].at = "gated" => Gate(c)
         /\ call[c].at = "gated" /\ call'[c].at = "idle" =>
              ToolFails(c) \/ Acts(c) \/ Claims(c) \/ Releases(c)
<1>1. ASSUME NEW d \in Clients, ToolFails(d) \/ Acts(d) \/ Claims(d) \/ Releases(d)
      PROVE  call'[c].at = "gated" => call'[c] = call[c]
  <2>1. call' = [call EXCEPT ![d] = Quiet]
    BY <1>1 DEF ToolFails, Acts, Claims, Releases, Ends
  <2>2. call'[c] = call[c] \/ call'[c] = Quiet
    BY <2>1 DEF TypeOK
  <2>. QED
    BY <2>2 DEF Quiet
<1>2. ASSUME NEW d \in Clients, d # c,
             Gate(d) \/ ToolFails(d) \/ Acts(d) \/ Claims(d) \/ Releases(d)
      PROVE  call'[c] = call[c]
  <2>1. CASE Gate(d)
    BY <1>2, <2>1 DEF Gate, GateChecks, GateSkipped, TypeOK
  <2>2. CASE ToolFails(d) \/ Acts(d) \/ Claims(d) \/ Releases(d)
    BY <1>2, <2>2 DEF ToolFails, Acts, Claims, Releases, Ends, TypeOK
  <2>. QED
    BY <1>2, <2>1, <2>2
<1>3. ASSUME NEW r \in Runs,
             \/ \E t \in Open \cup {NoTab} : Starts(r, t)
             \/ \E t \in Tabs : RunActs(r, t)
             \/ RunActed(r) \/ Finishes(r) \/ Panics(r)
      PROVE  call' = call
  BY <1>3 DEF Starts, RunActs, RunActed, Finishes, Panics
<1>4. (\E t \in Tabs : Opens(t) \/ Switches(t) \/ PersonCloses(t)) \/ Tick \/ UNCHANGED vars
        => call' = call
  BY DEF Opens, Switches, PersonCloses, Tick, vars
<1>5. Gate(c) /\ call[c].at = "gated" => FALSE
  BY DEF Gate, GateChecks, GateSkipped
<1>. QED
  BY <1>1, <1>2, <1>3, <1>4, <1>5 DEF Next

(* While one client is at work in a tab, no other's call to it is let      *)
(* through, named or not.                                                  *)
THEOREM DriverCorrect == Spec => OneDriver
<1>1. ASSUME IInv, [Next]_vars, NEW c \in Clients, NEW d \in Clients, NEW t \in Tabs,
             c # d, Working(d, t), call[c].at = "idle", call'[c].at = "gated",
             call'[c].arg = t, t \in Open
      PROVE  FALSE
  <2>1. Gate(c) /\ TypeOK
    BY <1>1, CallMoves DEF IInv
  <2>2. PICK tool \in Tools, arg \in Tabs \cup {Active}, by \in {c, Nobody} :
          GateChecks(c, tool, arg, by) \/ GateSkipped(c, tool, arg, by)
    BY <2>1 DEF Gate
  <2>3. call'[c].arg = arg
    BY <1>1, <2>1, <2>2 DEF GateChecks, GateSkipped, TypeOK
  <2>4. Resolve(arg) = {t}
    BY <1>1, <2>3 DEF Resolve
  <2>5. MayAct(t, by)
    BY <1>1, <2>2, <2>4 DEF GateChecks, GateSkipped
  <2>6. Kept[t].holder = d
    BY <1>1, KeptHolds DEF IInv
  <2>. QED
    BY <1>1, <2>5, <2>6, NameAssumption DEF MayAct, Names
<1>2. IInv /\ [Next]_vars =>
        \A c, d \in Clients, t \in Tabs :
          /\ c # d /\ Working(d, t)
          /\ call[c].at = "idle" /\ call'[c].at = "gated" /\ call'[c].arg = t
          => t \notin Open
  BY <1>1
<1>. QED
  BY <1>2, Invariance, PTL DEF Spec, OneDriver

(* An action that names its tab reaches none that was somebody else's when *)
(* the gate let it through.                                                *)
THEOREM NamedCorrect == Spec => NamedRefused
<1>1. IInv => \A c \in Clients, t \in Tabs :
        Acting(c, t) /\ call[c].arg = t => ~Intrudes(c, t)
  <2>. SUFFICES ASSUME IInv, NEW c \in Clients, NEW t \in Tabs,
                       Acting(c, t), call[c].arg = t
                PROVE  ~Intrudes(c, t)
    OBVIOUS
  <2>1. state[t] = "open"
    BY DEF Acting, Resolve, Open
  <2>2. touched[t] \in Nat /\ call[c].time \in Nat
    BY SMT DEF IInv, TypeOK, CallRecords
  <2>. QED
    BY <2>1, <2>2 DEF IInv, NamedClear, Acting, Intrudes
<1>. QED
  BY <1>1, Invariance, PTL DEF Spec, NamedRefused

-----------------------------------------------------------------------------
(* No claim, renewal or sweep of the lapsed takes a live lease from its    *)
(* holder, or leaves one that nobody holds.                                *)
Undisturbed == \A t \in Tabs : /\ held'[t].holder = Nobody => held'[t].until = 0
                               /\ Live(t) => held'[t].holder = held[t].holder

LEMMA KeptUndisturbed ==
  ASSUME TypeOK, FreeIsFree, held' = held \/ held' = Kept
  PROVE  Undisturbed
BY SMT DEF Undisturbed, FreeIsFree, Kept, Free, TypeOK, Leases

LEMMA RenewedUndisturbed ==
  ASSUME TypeOK, FreeIsFree, NEW t \in Tabs, NEW name \in Names \cup {Nobody},
         held' = Renewed(t, name)
  PROVE  Undisturbed
<1>1. CASE held' = Kept
  BY <1>1, KeptUndisturbed
<1>2. CASE Renews(t, name)
  <2>. DEFINE mine == [holder |-> name, until |-> Later(Kept[t].until, now + DefaultTtl)]
  <2>1. held' = [Kept EXCEPT ![t] = mine]
    BY <1>2 DEF Renewed, Renews
  <2>2. mine.holder = name /\ name # Nobody /\ Kept[t].holder = name
    BY <1>2 DEF Renews
  <2>. HIDE DEF mine
  <2>3. held'[t] = mine /\ \A u \in Tabs \ {t} : held'[u] = Kept[u]
    BY <2>1, KeptType
  <2>4. \A u \in Tabs : /\ Live(u) => Kept[u] = held[u]
                        /\ Kept[u].holder = Nobody => Kept[u].until = 0
    BY DEF Kept, Free, FreeIsFree
  <2>. QED
    BY <2>2, <2>3, <2>4 DEF Undisturbed
<1>. QED
  BY <1>1, <1>2 DEF Renewed, Renews

LEMMA ClaimUndisturbed ==
  ASSUME TypeOK, FreeIsFree, NEW t \in Tabs, NEW name \in Names, NEW ttl \in Nat,
         Claim(t, name, ttl)
  PROVE  Undisturbed
<1>1. \A u \in Tabs : /\ Live(u) => Kept[u] = held[u] /\ held[u].holder # Nobody
                      /\ Kept[u].holder = Nobody => Kept[u].until = 0
  <2>1. \A u \in Tabs : Live(u) => held[u].holder # Nobody
    BY SMT DEF FreeIsFree, Live, TypeOK
  <2>. QED
    BY <2>1 DEF Kept, Free, FreeIsFree
<1>. QED
  BY <1>1, ClaimEffect, NameAssumption DEF Undisturbed

(* A release frees the tab of the one who asks, and touches nothing else.  *)
LEMMA ReleaseEffect ==
  ASSUME TypeOK, FreeIsFree, NEW t \in Tabs, NEW name \in Names, Release(t, name)
  PROVE  /\ FreeIsFree'
         /\ \A u \in Tabs : held'[u].holder # held[u].holder => u = t /\ held[t].holder = name
BY DEF Release, FreeIsFree, Free, TypeOK

LEMMA HolderStep ==
  ASSUME TypeOK, FreeIsFree, [Next]_vars
  PROVE  /\ FreeIsFree'
         /\ \A t \in Tabs : Live(t) /\ held'[t].holder # held[t].holder => GivesBack(t)
<1>1. ASSUME Undisturbed
      PROVE  /\ FreeIsFree'
             /\ \A t \in Tabs : Live(t) /\ held'[t].holder # held[t].holder => GivesBack(t)
  BY <1>1 DEF Undisturbed, FreeIsFree
<1>2. ASSUME NEW c \in Clients, Gate(c)
      PROVE  Undisturbed
  <2>1. PICK tool \in Tools, arg \in Tabs \cup {Active}, by \in {c, Nobody} :
          GateChecks(c, tool, arg, by) \/ GateSkipped(c, tool, arg, by)
    BY <1>2 DEF Gate
  <2>2. by \in Names \cup {Nobody} /\ Resolve(arg) \subseteq Tabs
    BY DEF Names, Resolve, Open
  <2>3. CASE GateSkipped(c, tool, arg, by)
    BY <2>3, KeptUndisturbed DEF GateSkipped
  <2>4. CASE GateChecks(c, tool, arg, by)
    BY <2>2, <2>4, KeptUndisturbed, RenewedUndisturbed DEF GateChecks
  <2>. QED
    BY <2>1, <2>3, <2>4
<1>3. ASSUME NEW c \in Clients, Claims(c)
      PROVE  Undisturbed
  <2>1. PICK t \in Resolve(call[c].arg), ttl \in Ttls : Claim(t, c, ttl)
    BY <1>3 DEF Claims
  <2>. QED
    BY <2>1, ClaimUndisturbed, TtlAssumption DEF Resolve, Open, Names
<1>4. ASSUME NEW c \in Clients, Releases(c)
      PROVE  /\ FreeIsFree'
             /\ \A t \in Tabs : Live(t) /\ held'[t].holder # held[t].holder => GivesBack(t)
  <2>1. PICK t \in Resolve(call[c].arg) : Release(t, c)
    BY <1>4 DEF Releases
  <2>2. t \in Tabs /\ c \in Names
    BY DEF Resolve, Open, Names
  <2>3. call[c].at = "gated" /\ call[c].tool = "release" /\ call'[c].at = "idle"
    BY <1>4 DEF Releases, Ends, Quiet, TypeOK
  <2>. QED
    BY <2>1, <2>2, <2>3, ReleaseEffect DEF GivesBack
<1>5. ASSUME NEW r \in Runs, NEW t \in Open \cup {NoTab}, Starts(r, t)
      PROVE  Undisturbed
  <2>1. CASE t = NoTab
    BY <1>5, <2>1, KeptUndisturbed DEF Starts
  <2>2. CASE t # NoTab
    BY <1>5, <2>2, ClaimUndisturbed, TtlAssumption DEF Starts, Open, Names
  <2>. QED
    BY <2>1, <2>2
<1>6. ASSUME NEW r \in Runs, Finishes(r)
      PROVE  /\ FreeIsFree'
             /\ \A t \in Tabs : Live(t) /\ held'[t].holder # held[t].holder => GivesBack(t)
  <2>1. CASE ~run[r].mine
    BY <1>1, <1>6, <2>1, KeptUndisturbed DEF Finishes
  <2>2. CASE run[r].mine
    <3>1. run[r].tab \in Tabs /\ Release(run[r].tab, Dive) /\ Dive \in Names
      BY <1>6, <2>2 DEF Finishes, TypeOK, Names
    <3>2. run'[r].at = "idle"
      BY <1>6 DEF Finishes, Resting, TypeOK
    <3>. QED
      BY <2>2, <3>1, <3>2, ReleaseEffect DEF GivesBack
  <2>. QED
    BY <2>1, <2>2
<1>7. ASSUME \/ \E c \in Clients : ToolFails(c) \/ Acts(c)
             \/ \E r \in Runs : (\E t \in Tabs : RunActs(r, t)) \/ RunActed(r) \/ Panics(r)
             \/ \E t \in Tabs : Opens(t) \/ Switches(t) \/ PersonCloses(t)
             \/ Tick \/ UNCHANGED vars
      PROVE  Undisturbed
  <2>1. held' = held
    BY <1>7 DEF ToolFails, Acts, RunActs, RunActed, Panics, Opens, Switches, PersonCloses,
                Tick, vars
  <2>. QED
    BY <2>1, KeptUndisturbed
<1>. QED
  BY <1>1, <1>2, <1>3, <1>4, <1>5, <1>6, <1>7 DEF Next

(* A live lease leaves its holder's hands only by the holder's own release *)
(* or at the end of the run that claimed it.                               *)
THEOREM HolderCorrect == Spec => HolderKeeps
<1>1. Init => FreeIsFree
  BY DEF Init, FreeIsFree, Free
<1>2. TypeOK /\ FreeIsFree /\ [Next]_vars => FreeIsFree'
  BY HolderStep
<1>3. TypeOK /\ FreeIsFree /\ [Next]_vars =>
        \A t \in Tabs : Live(t) /\ held'[t].holder # held[t].holder => GivesBack(t)
  BY HolderStep
<1>. QED
  BY <1>1, <1>2, <1>3, TypeCorrect, PTL DEF Spec, HolderKeeps
=============================================================================
