------------------------------ MODULE TabLease ------------------------------
(***************************************************************************)
(* Who is driving a tab: the lease registry, the gate every MCP tool call  *)
(* goes through, and Dive's own agent, which shares the registry.          *)
(*                                                                         *)
(* A call is two steps. The gate resolves the tab and checks its lease;    *)
(* the tool then resolves the tab AGAIN and acts. Everything can happen in *)
(* between. The registry's own operations are atomic (one mutex), and its  *)
(* clock is read just before the lock, so an operation has one `now`.      *)
(***************************************************************************)
EXTENDS Integers

CONSTANTS
  Tabs,         \* tab ids; an id is never used again once its tab is closed
  Clients,      \* MCP clients, each claiming under a name of its own
  Runs,         \* runs of Dive's own agent, which all claim as Dive
  Dive,         \* DIVE_AGENT
  Nobody,       \* no holder: a free tab, or a client that did not name itself
  Active,       \* a call's tab_id left out: the active tab
  NoTab,
  DefaultTtl,
  MaxTtl,
  Ttls,         \* the lifetimes a client may ask for
  Horizon       \* where the model's clock stops

Names == Clients \cup {Dive}

ASSUME TtlAssumption ==
  /\ DefaultTtl \in Nat /\ MaxTtl \in Nat /\ DefaultTtl <= MaxTtl
  /\ Ttls \subseteq Nat
  /\ Horizon \in Nat

ASSUME NameAssumption ==
  /\ Nobody \notin Names /\ Dive \notin Clients
  /\ NoTab \notin Tabs /\ Active \notin Tabs /\ Active # NoTab

VARIABLES
  now,
  held,         \* Leases.held: tab -> [holder, until]
  state,        \* each tab: "new", "open" or "closed"
  active,       \* the tab in front
  call,         \* each client's call: what it asks for, and when it was let through
  run,          \* each agent run: where it is, its tab, whether it claimed it
  work,         \* history: when a client's action last renewed its own lease
  touched       \* history: when a tab's holder last claimed it or acted in it

vars == <<now, held, state, active, call, run, work, touched>>

Tools == {"act", "activate", "close", "claim", "release"}
Free == [holder |-> Nobody, until |-> 0]
Quiet == [at |-> "idle", tool |-> "act", arg |-> Active, by |-> Nobody, time |-> 0]
Resting == [at |-> "idle", tab |-> NoTab, mine |-> FALSE, target |-> NoTab]

Open == {t \in Tabs : state[t] = "open"}
Live(t) == held[t].until > now

Init ==
  /\ now = 1
  /\ held = [t \in Tabs |-> Free]
  /\ state \in [Tabs -> {"new", "open"}]
  /\ active \in Open \cup {NoTab}
  /\ call = [c \in Clients |-> Quiet]
  /\ run = [r \in Runs |-> Resting]
  /\ work = [c \in Clients |-> [t \in Tabs |-> 0]]
  /\ touched = [t \in Tabs |-> 0]

-----------------------------------------------------------------------------
(* The registry.                                                           *)

(* What every operation that takes `now` first does: drop the lapsed.      *)
Kept == [t \in Tabs |-> IF Live(t) THEN held[t] ELSE Free]

Later(i, j) == IF i < j THEN j ELSE i
Clamped(ttl) == IF ttl < MaxTtl THEN ttl ELSE MaxTtl

(* Mutants: no conflict check; no cap on the lifetime.                     *)
ClaimAnyway(t, name, ttl) ==
  held' = [Kept EXCEPT ![t] = [holder |-> name, until |-> now + Clamped(ttl)]]

ClaimUncapped(t, name, ttl) ==
  held' = IF Kept[t].holder \in {Nobody, name}
          THEN [Kept EXCEPT ![t] = [holder |-> name, until |-> now + ttl]]
          ELSE Kept

Claim(t, name, ttl) ==
  held' = IF Kept[t].holder \in {Nobody, name}
          THEN [Kept EXCEPT ![t] = [holder |-> name, until |-> now + Clamped(ttl)]]
          ELSE Kept

(* Mutant: releases whoever holds the tab.                                 *)
ReleaseAnyone(t, name) == held' = [held EXCEPT ![t] = Free]

Release(t, name) ==
  held' = IF held[t].holder = name THEN [held EXCEPT ![t] = Free] ELSE held

(* Mutant: a client that did not name itself may act anywhere.             *)
MayActUnnamed(t, name) == name = Nobody \/ Kept[t].holder \in {Nobody, name}

(* check_action: may `name` act on t, and the renewal if it may.           *)
MayAct(t, name) == Kept[t].holder \in {Nobody, name}

(* Mutant: the action does not renew the lease.                            *)
NotRenewed(t, name) == Kept

Renewed(t, name) ==
  IF name # Nobody /\ Kept[t].holder = name
  THEN [Kept EXCEPT ![t] = [holder |-> name, until |-> Later(@.until, now + DefaultTtl)]]
  ELSE Kept

-----------------------------------------------------------------------------
(* MCP calls.                                                              *)

(* resolve: the tab named, if it is there; else the active tab, or a first *)
(* one when none is active. Empty when the call has no tab to speak of.    *)
Resolve(arg) ==
  IF arg \in Tabs THEN {arg} \cap Open
  ELSE IF active \in Open THEN {active} ELSE Open

(* History of an accepted gate: whose lease on t it renewed.               *)
Renews(t, name) == Kept[t].holder = name /\ name # Nobody

(* The gate of dispatch: a call that resolves to no tab goes through.      *)
GateChecks(c, tool, arg, by) ==
  /\ call[c].at = "idle"
  /\ \E t \in Resolve(arg) :
       IF MayAct(t, by)
       THEN /\ held' = Renewed(t, by)
            /\ call' = [call EXCEPT ![c] =
                          [at |-> "gated", tool |-> tool, arg |-> arg, by |-> by, time |-> now]]
            /\ IF Renews(t, by)
               THEN /\ work' = [work EXCEPT ![c][t] = now]
                    /\ touched' = [touched EXCEPT ![t] = now]
               ELSE UNCHANGED <<work, touched>>
       ELSE /\ held' = Kept
            /\ UNCHANGED <<call, work, touched>>
  /\ UNCHANGED <<now, state, active, run>>

GateSkipped(c, tool, arg, by) ==
  /\ call[c].at = "idle"
  /\ Resolve(arg) = {}
  /\ call' = [call EXCEPT ![c] =
                [at |-> "gated", tool |-> tool, arg |-> arg, by |-> by, time |-> now]]
  /\ UNCHANGED <<now, held, state, active, run, work, touched>>

(* A client knows an id only from a tab that has been open.                *)
Gate(c) ==
  \E tool \in Tools, arg \in {t \in Tabs : state[t] # "new"} \cup {Active},
     by \in {c, Nobody} :
    /\ tool \in {"claim", "release"} => by = c
    /\ GateChecks(c, tool, arg, by) \/ GateSkipped(c, tool, arg, by)

Ends(c) == call' = [call EXCEPT ![c] = Quiet]

(* The tab the tool resolves for itself is gone: the call fails.           *)
ToolFails(c) ==
  /\ call[c].at = "gated" /\ Resolve(call[c].arg) = {}
  /\ Ends(c)
  /\ UNCHANGED <<now, held, state, active, run, work, touched>>

(* The host closes a tab; another may come to the front.                   *)
Closes(t) ==
  /\ state' = [state EXCEPT ![t] = "closed"]
  /\ IF active = t THEN active' \in (Open \ {t}) \cup {NoTab} ELSE UNCHANGED active

Acts(c) ==
  /\ call[c].at = "gated" /\ call[c].tool \in {"act", "activate", "close"}
  /\ \E t \in Resolve(call[c].arg) :
       CASE call[c].tool = "act" -> UNCHANGED <<state, active>>
         [] call[c].tool = "activate" -> active' = t /\ UNCHANGED state
         [] call[c].tool = "close" -> Closes(t)
  /\ Ends(c)
  /\ UNCHANGED <<now, held, run, work, touched>>

(* tab_claim, which may shorten a lease of the client's own.               *)
Claims(c) ==
  /\ call[c].at = "gated" /\ call[c].tool = "claim"
  /\ \E t \in Resolve(call[c].arg), ttl \in Ttls :
       /\ Claim(t, c, ttl)
       /\ work' = [work EXCEPT ![c][t] = 0]
       /\ touched' = [touched EXCEPT ![t] = IF held'[t].holder = c THEN now ELSE @]
  /\ Ends(c)
  /\ UNCHANGED <<now, state, active, run>>

Releases(c) ==
  /\ call[c].at = "gated" /\ call[c].tool = "release"
  /\ \E t \in Resolve(call[c].arg) :
       /\ Release(t, c)
       /\ work' = [work EXCEPT ![c][t] = 0]
  /\ Ends(c)
  /\ UNCHANGED <<now, state, active, run, touched>>

-----------------------------------------------------------------------------
(* Dive's own agent: it claims the tab it starts on, never passes through  *)
(* the gate, and gives the tab back when its loop returns.                 *)

Starts(r, t) ==
  /\ run[r].at = "idle"
  /\ IF t = NoTab
     THEN /\ run' = [run EXCEPT ![r] = [at |-> "working", tab |-> NoTab, target |-> NoTab,
                                        mine |-> FALSE]]
          /\ UNCHANGED <<held, touched>>
     ELSE /\ Claim(t, Dive, MaxTtl)
          /\ touched' = [touched EXCEPT ![t] = IF held'[t].holder = Dive THEN now ELSE @]
          /\ run' = [run EXCEPT ![r] = [at |-> "working", tab |-> t, target |-> NoTab,
                                        mine |-> held'[t].holder = Dive]]
  /\ UNCHANGED <<now, state, active, call, work>>

RunActs(r, t) ==
  /\ run[r].at = "working" /\ run[r].target = NoTab
  /\ t \in Open
  /\ run' = [run EXCEPT ![r].target = t]
  /\ UNCHANGED <<now, held, state, active, call, work, touched>>

RunActed(r) ==
  /\ run[r].target # NoTab
  /\ run' = [run EXCEPT ![r].target = NoTab]
  /\ UNCHANGED <<now, held, state, active, call, work, touched>>

Finishes(r) ==
  /\ run[r].at = "working" /\ run[r].target = NoTab
  /\ run' = [run EXCEPT ![r] = Resting]
  /\ IF run[r].mine THEN Release(run[r].tab, Dive) ELSE UNCHANGED held
  /\ UNCHANGED <<now, state, active, call, work, touched>>

(* The command's task unwinds: what follows the loop does not run.         *)
Panics(r) ==
  /\ run[r].at = "working"
  /\ run' = [run EXCEPT ![r] = Resting]
  /\ UNCHANGED <<now, held, state, active, call, work, touched>>

-----------------------------------------------------------------------------
(* The person and the clock.                                               *)

Opens(t) ==
  /\ state[t] = "new"
  /\ state' = [state EXCEPT ![t] = "open"]
  /\ active' = t
  /\ UNCHANGED <<now, held, call, run, work, touched>>

Switches(t) ==
  /\ t \in Open /\ active # t
  /\ active' = t
  /\ UNCHANGED <<now, held, state, call, run, work, touched>>

PersonCloses(t) ==
  /\ t \in Open
  /\ Closes(t)
  /\ UNCHANGED <<now, held, call, run, work, touched>>

Tick ==
  /\ now < Horizon
  /\ now' = now + 1
  /\ UNCHANGED <<held, state, active, call, run, work, touched>>

Next ==
  \/ \E c \in Clients : Gate(c) \/ ToolFails(c) \/ Acts(c) \/ Claims(c) \/ Releases(c)
  \/ \E r \in Runs : \/ \E t \in Open \cup {NoTab} : Starts(r, t)
                     \/ \E t \in Tabs : RunActs(r, t)
                     \/ RunActed(r) \/ Finishes(r) \/ Panics(r)
  \/ \E t \in Tabs : Opens(t) \/ Switches(t) \/ PersonCloses(t)
  \/ Tick

Spec == Init /\ [][Next]_vars

-----------------------------------------------------------------------------
(* Properties.                                                             *)

Leases == [holder : Names \cup {Nobody}, until : Nat]
CallRecords == [at : {"idle", "gated"}, tool : Tools, arg : Tabs \cup {Active},
                by : Clients \cup {Nobody}, time : Nat]
RunRecords == [at : {"idle", "working"}, tab : Tabs \cup {NoTab},
               target : Tabs \cup {NoTab}, mine : BOOLEAN]

(* Every variable has its type, a release or a claim is always made under  *)
(* the client's own name, and only a run with a tab of its own holds one.  *)
TypeOK ==
  /\ now \in Nat
  /\ held \in [Tabs -> Leases]
  /\ state \in [Tabs -> {"new", "open", "closed"}]
  /\ active \in Tabs \cup {NoTab}
  /\ call \in [Clients -> CallRecords]
  /\ run \in [Runs -> RunRecords]
  /\ \A r \in Runs : run[r].mine => run[r].tab \in Tabs
  /\ work \in [Clients -> [Tabs -> Nat]]
  /\ touched \in [Tabs -> Nat]

(* "The lease follows the work rather than expiring mid-flow": a client    *)
(* whose action in its own tab was let through less than the default       *)
(* lifetime ago, and that has not claimed or released the tab again since, *)
(* still holds it, whatever other clients, the agent or the person did.    *)
Working(c, t) == work[c][t] > 0 /\ now < work[c][t] + DefaultTtl
NeverShutOut == \A c \in Clients, t \in Tabs : Working(c, t) => held[t].holder = c /\ Live(t)

(* No two clients are at work in one tab: check_action keeps everyone else *)
(* out of a tab somebody is working in, named or not.                      *)
OneDriver ==
  [][\A c, d \in Clients, t \in Tabs :
       /\ c # d /\ Working(d, t)
       /\ call[c].at = "idle" /\ call'[c].at = "gated" /\ call'[c].arg = t
       => t \notin Open]_vars

(* MAX_TTL is the longest a client may hold a tab without touching it.     *)
AbandonedLapses == \A t \in Tabs : Live(t) => now < touched[t] + MaxTtl

(* A live lease leaves its holder's hands only when the holder gives it    *)
(* back: nobody else's claim, release or action takes it.                  *)
GivesBack(t) ==
  \/ \E c \in Clients : /\ c = held[t].holder
                        /\ call[c].at = "gated" /\ call[c].tool = "release"
                        /\ call'[c].at = "idle"
  \/ /\ held[t].holder = Dive
     /\ \E r \in Runs : run[r].mine /\ run[r].tab = t /\ run'[r].at = "idle"
HolderKeeps ==
  [][\A t \in Tabs : Live(t) /\ held'[t].holder # held[t].holder => GivesBack(t)]_vars

(* An action that names its tab never lands in one that somebody else held *)
(* when the gate let it through: whoever holds it now touched it later.    *)
Acting(c, t) ==
  /\ call[c].at = "gated" /\ call[c].tool \in {"act", "activate", "close"}
  /\ call'[c].at = "idle" /\ Resolve(call[c].arg) = {t}
Intrudes(c, t) ==
  Kept[t].holder \notin {Nobody, call[c].by} /\ touched[t] < call[c].time
NamedRefused ==
  [][\A c \in Clients, t \in Tabs :
       Acting(c, t) /\ call[c].arg = t => ~Intrudes(c, t)]_vars

(* What the proofs add: the lease outlasts the work, the touch bounds it.  *)
WorkHolds == \A c \in Clients, t \in Tabs :
  Working(c, t) => held[t].holder = c /\ held[t].until >= work[c][t] + DefaultTtl
TouchBounds == \A t \in Tabs : held[t].until <= touched[t] + MaxTtl /\ touched[t] <= now
GatedUnderOwnName == \A c \in Clients : call[c].by \in {c, Nobody}
CallsAreOld == \A c \in Clients :
  call[c].time <= now /\ (call[c].arg \in Tabs => state[call[c].arg] # "new")
NamedClear == \A c \in Clients, t \in Tabs :
  call[c].at = "gated" /\ call[c].arg = t /\ state[t] = "open"
    => Kept[t].holder \in {Nobody, call[c].by} \/ touched[t] >= call[c].time
(* A lease without a holder is a tab that is free. HolderKeeps rests on it. *)
FreeIsFree == \A t \in Tabs : held[t].holder = Nobody => held[t].until = 0

IInv == TypeOK /\ GatedUnderOwnName /\ WorkHolds /\ TouchBounds
        /\ CallsAreOld /\ NamedClear

-----------------------------------------------------------------------------
(* What the registry's documentation says and the code does not do.        *)

(* "While that lease holds, an action from anyone else is refused", even   *)
(* when the call leaves its tab to be resolved twice.                      *)
ClientRefused == [][\A c \in Clients, t \in Tabs : Acting(c, t) => ~Intrudes(c, t)]_vars
=============================================================================
