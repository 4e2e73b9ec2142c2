------------------------------ MODULE Presence ------------------------------
(***************************************************************************)
(* Who is driving. Everything that is done to a page for an agent goes     *)
(* through `tracked`, which counts the actions on the tab, lights it with  *)
(* the first and lets it go dark a moment after the last. A run of Dive's  *)
(* own agent that is stopped drops the action it waits for.                *)
(* The registry's light changes under its lock; the chrome and the page    *)
(* hear of it from what is announced once the lock is released, by whoever *)
(* changed it, and painted by a task of its own: in any order.             *)
(***************************************************************************)
EXTENDS Naturals, SequencesExt

CONSTANTS
  Actors,   \* the agent and the clients of the server
  Agent,    \* Dive's own, which may be stopped
  MaxActs   \* actions begun (bounds Begin)

ASSUME AgentAssumption == Agent \in Actors
ASSUME ActsAssumption == MaxActs \in Nat

VARIABLES
  acting,      \* actors in the middle of an action
  running,     \* the entry's count
  generation,  \* changes of presence in the tab's entry; 0 without one
  lit,         \* the entry's light
  announcing,  \* what was announced of it and has not arrived, the oldest first
  glows,       \* what arrived last: how the tab looks
  lingers,     \* sleeping tasks, by the generation they were started in
  acts,        \* actions so far
  crossed,     \* history: one announcement arrived before an older one
  closed       \* history: the view went under somebody who still acts

looks == <<announcing, glows, crossed>>
nVars == <<acting, running, generation, lit, lingers, acts, closed, looks>>

PresenceInit ==
  /\ acting = {} /\ running = 0 /\ generation = 0 /\ lit = FALSE
  /\ lingers = {} /\ acts = 0 /\ closed = FALSE
  /\ announcing = <<>> /\ glows = FALSE /\ crossed = FALSE

(* What changes the light announces it.                                    *)
Light(on) ==
  /\ lit' = on
  /\ announcing' = IF lit = on THEN announcing ELSE Append(announcing, on)

Begin(a) ==
  /\ a \notin acting /\ acts < MaxActs
  /\ acting' = acting \cup {a} /\ acts' = acts + 1
  /\ running' = running + 1 /\ generation' = generation + 1
  /\ Light(TRUE)
  /\ UNCHANGED <<lingers, closed, glows, crossed>>

Leaves(a) ==
  /\ a \in acting /\ acting' = acting \ {a}
  /\ closed' = (closed /\ acting' # {})

(* Mutant: every action that ends starts the way to dark.                  *)
EndEach(a) ==
  /\ Leaves(a)
  /\ running' = 0 /\ generation' = generation + 1
  /\ lingers' = lingers \cup {generation'}
  /\ UNCHANGED <<lit, acts, looks>>

(* The last one starts the linger; without an entry nothing is to be done. *)
End(a) ==
  /\ Leaves(a)
  /\ running' = IF running = 0 THEN 0 ELSE running - 1
  /\ IF running' > 0 \/ generation = 0
     THEN UNCHANGED <<generation, lingers>>
     ELSE generation' = generation + 1 /\ lingers' = lingers \cup {generation'}
  /\ UNCHANGED <<lit, acts, looks>>

(* Stop: the action is dropped, and with it the code after its await.      *)
Dropped ==
  /\ Leaves(Agent)
  /\ UNCHANGED <<running, generation, lit, lingers, acts, looks>>

(* A linger wakes; a newer action decides when the light goes out.         *)
Darkens(g) ==
  /\ g \in lingers /\ lingers' = lingers \ {g}
  /\ Light(lit /\ ~(g = generation /\ running = 0))
  /\ UNCHANGED <<acting, running, generation, acts, closed, glows, crossed>>

(* forget, when the tab's view is closed. Nothing is announced of that.    *)
ForgetView ==
  /\ running' = 0 /\ generation' = 0 /\ lit' = FALSE
  /\ closed' = (closed \/ acting # {})
  /\ UNCHANGED <<acting, lingers, acts, looks>>

(* An announcement arrives, not always behind the older ones.              *)
Announced(i) ==
  /\ announcing' = RemoveAt(announcing, i) /\ glows' = announcing[i]
  /\ crossed' = (crossed \/ i # 1)
  /\ UNCHANGED <<acting, running, generation, lit, lingers, acts, closed>>

PresenceNext ==
  \/ \E a \in Actors : Begin(a) \/ End(a)
  \/ Dropped \/ ForgetView
  \/ \E g \in lingers : Darkens(g)
  \/ \E i \in DOMAIN announcing : Announced(i)

PresenceSafety == PresenceInit /\ [][PresenceNext]_nVars

-----------------------------------------------------------------------------
PresenceTypeOK ==
  /\ acting \subseteq Actors /\ running \in 0 .. MaxActs /\ acts \in 0 .. MaxActs
  /\ generation \in 0 .. 2 * MaxActs /\ lingers \subseteq 1 .. 2 * MaxActs
  /\ {lit, closed, glows, crossed} \subseteq BOOLEAN
  /\ announcing \in Seq(BOOLEAN)

(* The registry has a tab lit for as long as somebody drives it, whatever  *)
(* began, ended or was stopped beside it, and however the lingers of       *)
(* earlier actions come; unless its view was closed under them. And so it  *)
(* looks in the chrome, and in a page that stays, when all that was        *)
(* announced of it has arrived (what fails never does), unless one         *)
(* announcement ever came before an older one.                             *)
LitWhileDriven ==
  /\ PresenceTypeOK
  /\ acting # {} /\ ~closed => /\ lit
                               /\ announcing = <<>> /\ ~crossed => glows

-----------------------------------------------------------------------------
(* What the comments say and the code does not do.                         *)

(* "Short enough that a finished run stops looking live": a tab is lit     *)
(* only while somebody acts in it or a linger is to come.                  *)
LightHonest == lit => acting # {} \/ lingers # {}
=============================================================================
