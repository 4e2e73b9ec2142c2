------------------------------ MODULE History ------------------------------
(***************************************************************************)
(* The visits a profile made: a log with one row per visit, and a table    *)
(* with one row per address that every search reads instead of the log,    *)
(* kept in step by each operation. Which profile an operation is for is    *)
(* worked out from the active workspace and cached. Each operation is one  *)
(* transaction; time is counted in minutes, the span in which a repeated   *)
(* visit is the visit already filed.                                       *)
(***************************************************************************)
EXTENDS Integers, FiniteSets

CONSTANTS
  Profiles,   \* each with one workspace; the order of the switcher
  Addresses,  \* twins: all shown as the same row
  Titles,     \* names of pages
  MaxMinutes, \* bounds the clock
  MaxVisits   \* visits kept at a time (bounds what is filed)

ASSUME HistoryAssumption ==
  /\ Profiles \subseteq Nat \ {0} /\ Profiles # {}
  /\ MaxMinutes \in Nat \ {0} /\ MaxVisits \in Nat

Untitled == "untitled"

VARIABLES
  log,       \* visits: whose, where, when, under which name
  urls,      \* per profile and address; a count of 0: no row
  minute,    \* the clock
  living,    \* profiles that are there, with their workspace
  chosen,    \* ACTIVE_WORKSPACE: the profile of that workspace, there or not
  cached,    \* the profile scope() found last
  pruned     \* history: names that retention took from the log

hVars == <<log, urls, minute, living, chosen, cached, pruned>>
ProfilesVars == <<living, chosen>>

Minutes == 1 .. MaxMinutes
Keys == Profiles \X Addresses
NoRow == [title |-> Untitled, last |-> 0, count |-> 0]

First(set) == CHOOSE p \in set : \A q \in set : p <= q

HistoryInit ==
  /\ log = {} /\ urls = [k \in Keys |-> NoRow] /\ pruned = [k \in Keys |-> {}]
  /\ minute = 1
  /\ living = Profiles /\ chosen = First(Profiles) /\ cached = 0

-----------------------------------------------------------------------------
(* Whose history.                                                          *)

(* read_scope: the active workspace's profile, else the first one's.       *)
ReadScope == IF chosen \in living THEN chosen ELSE First(living)
Scope == IF cached # 0 THEN cached ELSE ReadScope
Scoped == cached' = Scope
ForgetScope == cached' = 0

(* set_setting, for the workspace the person goes to.                      *)
SwitchesTo(p) ==
  /\ p \in living /\ p # chosen
  /\ chosen' = p /\ ForgetScope
  /\ UNCHANGED <<log, urls, minute, living, pruned>>

(* remove_workspace, remove_profile, remove_profile_data; the setting goes *)
(* on naming the workspace until the next profile is chosen.               *)
RemovesProfile(p) ==
  /\ p \in living /\ living # {p}
  /\ living' = living \ {p}
  /\ log' = {v \in log : v.whose # p}
  /\ urls' = [k \in Keys |-> IF k[1] = p THEN NoRow ELSE urls[k]]
  /\ pruned' = [k \in Keys |-> IF k[1] = p THEN {} ELSE pruned[k]]
  /\ ForgetScope
  /\ UNCHANGED <<minute, chosen>>

-----------------------------------------------------------------------------
(* What the operations have in common.                                     *)

Visits(k) == {v \in log : <<v.whose, v.where>> = k}
Latest(set) == CHOOSE v \in set : \A w \in set : w.at <= v.at
Titled(set) == {v \in set : v.title # Untitled}

(* count_visit: the newest name wins; an older visit only names a row that *)
(* has none.                                                               *)
CountVisit(k, title, at) ==
  LET row == urls[k] IN
  urls' = [urls EXCEPT ![k] =
    [title |-> IF title # Untitled /\ (row.title = Untitled \/ at >= row.last)
               THEN title ELSE row.title,
     last |-> IF at > row.last THEN at ELSE row.last,
     count |-> row.count + 1]]

File(k, title, at) ==
  /\ Cardinality(log) < MaxVisits
  /\ log' = log \cup {[whose |-> k[1], where |-> k[2], at |-> at, title |-> title]}
  /\ CountVisit(k, title, at)

(* title_visit_in: names the latest visit, if it has no name yet.          *)
TitleVisit(k, title) ==
  IF title # Untitled /\ Visits(k) # {} /\ Latest(Visits(k)).title = Untitled
  THEN LET v == Latest(Visits(k)) IN
       /\ log' = (log \ {v}) \cup {[v EXCEPT !.title = title]}
       /\ urls' = [urls EXCEPT ![k].title = title]
  ELSE UNCHANGED <<log, urls>>

(* The rows of what some visits were taken from, by those that are left.   *)
Recount(gone, titleOf(_, _)) ==
  LET left(k) == Visits(k) \ gone IN
  /\ log' = log \ gone
  /\ urls' = [k \in Keys |->
       IF Visits(k) \cap gone = {} THEN urls[k]
       ELSE IF left(k) = {} THEN NoRow
       ELSE [title |-> titleOf(k, left(k)), last |-> Latest(left(k)).at,
             count |-> Cardinality(left(k))]]

-----------------------------------------------------------------------------
(* The operations.                                                         *)

(* record_visit, on its own or in save_tab.                                *)
Record(where, title) ==
  LET k == <<Scope, where>> IN
  /\ IF urls[k].last = minute THEN TitleVisit(k, title) ELSE File(k, title, minute)
  /\ Scoped
  /\ UNCHANGED <<minute, ProfilesVars, pruned>>

(* save_tab with a name that came later.                                   *)
Retitle(where, title) ==
  /\ TitleVisit(<<Scope, where>>, title)
  /\ Scoped
  /\ UNCHANGED <<minute, ProfilesVars, pruned>>

(* import_history: a visit already here is skipped.                        *)
Import(where, title, at) ==
  LET k == <<Scope, where>> IN
  /\ at <= minute
  /\ IF \E v \in Visits(k) : v.at = at THEN UNCHANGED <<log, urls>> ELSE File(k, title, at)
  /\ Scoped
  /\ UNCHANGED <<minute, ProfilesVars, pruned>>

(* remove_history takes an address and its twins; clear_history with them  *)
(* all is the same here.                                                   *)
RemoveAddress ==
  /\ log' = {v \in log : v.whose # Scope}
  /\ urls' = [k \in Keys |-> IF k[1] = Scope THEN NoRow ELSE urls[k]]
  /\ pruned' = [k \in Keys |-> IF k[1] = Scope THEN {} ELSE pruned[k]]
  /\ Scoped
  /\ UNCHANGED <<minute, ProfilesVars>>

(* prune_history, in every profile: a row keeps its name.                  *)
Prune(cutoff) ==
  LET gone == {v \in log : v.at < cutoff} IN
  /\ gone # {}
  /\ Recount(gone, LAMBDA k, left : urls[k].title)
  /\ pruned' = [k \in Keys |->
       IF Visits(k) \subseteq gone THEN {}
       ELSE pruned[k] \cup {v.title : v \in Titled(Visits(k) \cap gone)}]
  /\ UNCHANGED <<minute, ProfilesVars, cached>>

(* Mutant: a row keeps the name the cleared hour gave it.                  *)
ClearSinceKeeping(since) ==
  LET gone == {v \in log : v.whose = Scope /\ v.at >= since} IN
  /\ Recount(gone, LAMBDA k, left : urls[k].title)
  /\ pruned' = [k \in Keys |-> IF Visits(k) \cap gone = {} THEN pruned[k] ELSE {}]
  /\ Scoped
  /\ UNCHANGED <<minute, ProfilesVars>>

(* clear_history_since: a row goes back to a name a visit that is left had. *)
ClearSince(since) ==
  LET gone == {v \in log : v.whose = Scope /\ v.at >= since} IN
  /\ Recount(gone, LAMBDA k, left :
       IF Titled(left) = {} THEN Untitled ELSE Latest(Titled(left)).title)
  /\ pruned' = [k \in Keys |-> IF Visits(k) \cap gone = {} THEN pruned[k] ELSE {}]
  /\ Scoped
  /\ UNCHANGED <<minute, ProfilesVars>>

Tick ==
  /\ minute < MaxMinutes
  /\ minute' = minute + 1
  /\ UNCHANGED <<log, urls, ProfilesVars, cached, pruned>>

HistoryNext ==
  \/ \E p \in Profiles : SwitchesTo(p) \/ RemovesProfile(p)
  \/ \E where \in Addresses, title \in Titles \cup {Untitled} :
       \/ Record(where, title) \/ Retitle(where, title)
       \/ \E at \in Minutes : Import(where, title, at)
  \/ \E at \in Minutes : Prune(at) \/ ClearSince(at)
  \/ RemoveAddress
  \/ Tick

HistorySafety == HistoryInit /\ [][HistoryNext]_hVars

-----------------------------------------------------------------------------
HistoryTypeOK ==
  /\ log \subseteq [whose : Profiles, where : Addresses, at : Minutes,
                    title : Titles \cup {Untitled}]
  /\ urls \in [Keys -> [title : Titles \cup {Untitled}, last : 0 .. MaxMinutes,
                        count : 0 .. MaxVisits]]
  /\ living \subseteq Profiles /\ living # {}
  /\ cached \in Profiles \cup {0} /\ minute \in Minutes

(* The table says of every address what the log does: how many visits, the *)
(* latest, and a name one of them had (or one that retention took away,    *)
(* which a row keeps). Nothing a person cleared can be found in it.        *)
TableTrue(k) ==
  LET row == urls[k]
      here == Visits(k)
  IN /\ row.count = Cardinality(here)
     /\ here # {} => row.last = Latest(here).at
     /\ row.title \in {v.title : v \in here} \cup pruned[k] \cup {Untitled}

(* No visit is filed under a profile that is gone or not the one in use.   *)
HistoryExact ==
  /\ HistoryTypeOK
  /\ \A k \in Keys : TableTrue(k)
  /\ cached # 0 => cached = ReadScope
  /\ \A v \in log : v.whose \in living
=============================================================================
