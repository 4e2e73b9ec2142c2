---------------------------- MODULE Permissions ----------------------------
(***************************************************************************)
(* What the pages of one tab ask for: camera, microphone, location. The    *)
(* engine's request reaches the browser by a task of its own; there it is  *)
(* answered by what the person said to this page, by what is remembered    *)
(* for the tab's profile, or by the person. Meanwhile frames navigate, the *)
(* view is replaced, the tab moves to another profile, settings change,    *)
(* and the engine gives up on the request. One origin; all steps run on    *)
(* the main thread, one at a time.                                         *)
(***************************************************************************)
EXTENDS Naturals

CONSTANTS
  Frames,    \* the frames of a page
  Kinds,     \* what can be asked for
  Groups,    \* kinds that are asked for together
  Scopes,    \* profiles the tab may be in (numbers; it starts in 1)
  MaxAsks,   \* requests (bounds Ask)
  MaxLabels, \* views the tab gets (bounds Reopen)
  MaxSets    \* changes in the settings (bounds SetPermission)

ASSUME PermissionsAssumption ==
  Scopes \subseteq Nat \ {0} /\ 1 \in Scopes /\ Groups \subseteq SUBSET Kinds

NoFrame == "none"    \* a permission prompt does not say which frame asks
Top == "top"

VARIABLES
  label,     \* the view the host has for the tab; 0 none
  labels,    \* views so far
  bridged,   \* views there are that pass requests on
  scope,     \* the tab's profile
  session,   \* the registry's session: for which view and profile, and what
             \* the person said to the page (temporary)
  kept,      \* what is remembered
  asking,    \* requests the engine waits for, and where they are
  asks,      \* requests so far
  sets,      \* changes in the settings so far
  granted,   \* history: the last request that was granted
  said       \* history: the person's word to the page that is shown

pVars == <<label, labels, bridged, scope, session, kept, asking, asks, sets, granted, said>>

Words == {"allow", "deny"}
PageKeys == Frames \X Kinds
NoSession == [of |-> 0, scope |-> 0, temporary |-> [k \in PageKeys |-> "none"]]
NoRequest == [n |-> 0, of |-> 0, frame |-> NoFrame, kinds |-> {}, at |-> "over"]
Unsaid == [s \in Scopes |-> [k \in PageKeys |-> "none"]]

PermissionsInit ==
  /\ label = 1 /\ labels = 1 /\ bridged = {} /\ scope = 1
  /\ session = NoSession
  /\ kept = [s \in Scopes |-> [k \in Kinds |-> "ask"]]
  /\ asking = {} /\ asks = 0 /\ sets = 0
  /\ granted = NoRequest /\ said = Unsaid

(* What the person said to the page, else what is remembered.              *)
WordOf(spoken, frame, kind) ==
  IF frame # NoFrame /\ spoken[<<frame, kind>>] # "none" THEN spoken[<<frame, kind>>]
  ELSE kept[scope][kind]

-----------------------------------------------------------------------------
(* The engine.                                                             *)

(* submit: the handler only starts a task.                                 *)
Ask(v, frame, kinds) ==
  /\ asks < MaxAsks
  /\ asks' = asks + 1
  /\ asking' = asking \cup
       {[n |-> asks', of |-> v, frame |-> frame, kinds |-> kinds, at |-> "sent"]}
  /\ UNCHANGED <<label, labels, bridged, scope, session, kept, sets, granted, said>>

(* The deadline, or the prompt goes: the registry is told.                 *)
GivesUp(r) ==
  /\ asking' = asking \ {r}
  /\ UNCHANGED <<label, labels, bridged, scope, session, kept, asks, sets, granted, said>>

Affected(v, frame) == {r \in asking : r.of = v /\ (frame = Top \/ r.frame \in {frame, NoFrame})}
Forgets(spoken, frame) ==
  [k \in PageKeys |-> IF frame = Top \/ k[1] = frame THEN "none" ELSE spoken[k]]

(* Mutant: a page that goes leaves what was said to it.                    *)
NavigatingKeeping(v, frame) ==
  /\ asking' = asking \ Affected(v, frame)
  /\ UNCHANGED session
  /\ said' = IF v = label THEN [s \in Scopes |-> Forgets(said[s], frame)] ELSE said
  /\ UNCHANGED <<label, labels, bridged, scope, kept, asks, sets, granted>>

(* A frame is about to navigate: its requests end (all of the page's, if   *)
(* it is the page), then what was said to it is forgotten.                 *)
Navigating(v, frame) ==
  /\ asking' = asking \ Affected(v, frame)
  /\ session' = IF session.of = v
                THEN [session EXCEPT !.temporary = Forgets(@, frame)] ELSE session
  /\ said' = IF v = label THEN [s \in Scopes |-> Forgets(said[s], frame)] ELSE said
  /\ UNCHANGED <<label, labels, bridged, scope, kept, asks, sets, granted>>

(* The native view goes, maybe long after the host forgot it.              *)
ViewCloses(v) ==
  /\ v # label
  /\ bridged' = bridged \ {v}
  /\ asking' = asking \ Affected(v, Top)
  /\ session' = IF session.of = v
                THEN [session EXCEPT !.temporary = Forgets(@, Top)] ELSE session
  /\ UNCHANGED <<label, labels, scope, kept, asks, sets, granted, said>>

-----------------------------------------------------------------------------
(* The tab.                                                                *)

HostForgets ==
  /\ label # 0 /\ label' = 0
  /\ said' = Unsaid
  /\ UNCHANGED <<labels, bridged, scope, session, kept, asking, asks, sets, granted>>

Reopen ==
  /\ label = 0 /\ labels < MaxLabels
  /\ labels' = labels + 1 /\ label' = labels'
  /\ UNCHANGED <<bridged, scope, session, kept, asking, asks, sets, granted, said>>

MovesTo(s) ==
  /\ s # scope /\ scope' = s
  /\ UNCHANGED <<label, labels, bridged, session, kept, asking, asks, sets, granted, said>>

(* close_pending: what the session still has is answered.                  *)
ClosePending == asking' = {r \in asking : r.at = "sent" \/ r.of # session.of}

(* attach_page: begin_current, which compares the labels under the host's  *)
(* lock, then the callbacks.                                               *)
BeginCurrent(v) ==
  /\ v = label /\ v # 0 /\ v \notin bridged
  /\ session' = [NoSession EXCEPT !.of = v, !.scope = scope]
  /\ ClosePending
  /\ bridged' = bridged \cup {v}
  /\ UNCHANGED <<label, labels, scope, kept, asks, sets, granted, said>>

(* The view's DevTools session ended, whether or not the view lives on.    *)
DropSession ==
  /\ session.of # 0
  /\ session' = NoSession
  /\ ClosePending
  /\ UNCHANGED <<label, labels, bridged, scope, kept, asks, sets, granted, said>>

-----------------------------------------------------------------------------
(* The registry.                                                           *)

(* The session is that of the tab's view, for the profile the tab is in.   *)
Current == session.of = label /\ session.scope = scope

(* receive and admit.                                                      *)
Received(r) ==
  LET words == {WordOf(session.temporary, r.frame, k) : k \in r.kinds} IN
  /\ r.at = "sent"
  /\ \/ /\ r.of # label \/ ~Current \/ "deny" \in words
        /\ asking' = asking \ {r} /\ UNCHANGED granted
     \/ /\ r.of = label /\ Current /\ words = {"allow"}
        /\ asking' = asking \ {r} /\ granted' = r
     \/ /\ r.of = label /\ Current /\ "deny" \notin words /\ "ask" \in words
        /\ asking' = (asking \ {r}) \cup {[r EXCEPT !.at = "asked"]}
        /\ UNCHANGED granted
  /\ UNCHANGED <<label, labels, bridged, scope, session, kept, asks, sets, said>>

Tell(spoken, r, word) ==
  [k \in PageKeys |-> IF k[1] = r.frame /\ k[2] \in r.kinds THEN word ELSE spoken[k]]

(* reply and answer, for this page or for good.                            *)
Answers(r, word, forPage) ==
  /\ r.at = "asked" /\ Current /\ (forPage => r.frame # NoFrame)
  /\ asking' = asking \ {r}
  /\ granted' = IF word = "allow" THEN r ELSE granted
  /\ IF forPage
     THEN /\ session' = [session EXCEPT !.temporary = Tell(@, r, word)]
          /\ said' = [said EXCEPT ![scope] = Tell(@, r, word)]
          /\ UNCHANGED kept
     ELSE /\ kept' = [kept EXCEPT ![session.scope] =
                        [k \in Kinds |-> IF k \in r.kinds THEN word ELSE @[k]]]
          /\ UNCHANGED <<session, said>>
  /\ UNCHANGED <<label, labels, bridged, scope, asks, sets>>

Without(spoken, kind) == [k \in PageKeys |-> IF k[2] = kind THEN "none" ELSE spoken[k]]

(* set, in the profile in use: whatever was said or is being asked goes,   *)
(* the engine's own record is reset, and only then the word is written.    *)
SetPermission(s, kind, word, reset) ==
  /\ sets < MaxSets /\ sets' = sets + 1
  /\ IF session.scope = s
     THEN /\ session' = [session EXCEPT !.temporary = Without(@, kind)]
          /\ asking' = {r \in asking : r.at = "sent" \/ kind \notin r.kinds}
     ELSE UNCHANGED <<session, asking>>
  /\ kept' = IF reset THEN [kept EXCEPT ![s][kind] = word] ELSE kept
  /\ said' = [said EXCEPT ![s] = Without(@, kind)]
  /\ UNCHANGED <<label, labels, bridged, scope, asks, granted>>

PermissionsNext ==
  \/ \E v \in bridged :
       \/ ViewCloses(v)
       \/ \E frame \in Frames : Navigating(v, frame)
       \/ \E frame \in Frames \cup {NoFrame}, kinds \in Groups : Ask(v, frame, kinds)
  \/ \E r \in asking :
       \/ GivesUp(r) \/ Received(r)
       \/ \E word \in Words, forPage \in BOOLEAN : Answers(r, word, forPage)
  \/ HostForgets \/ Reopen \/ BeginCurrent(label) \/ DropSession
  \/ \E s \in Scopes : MovesTo(s)
  \/ \E s \in Scopes, kind \in Kinds, word \in Words \cup {"ask"}, reset \in BOOLEAN :
       SetPermission(s, kind, word, reset)

PermissionsSafety == PermissionsInit /\ [][PermissionsNext]_pVars

-----------------------------------------------------------------------------
(* A request is granted only to the view the tab has, and for a reason the *)
(* person would know: just now in answer to it, or because of all it asks  *)
(* for they allowed it to this page, since it was opened, while the tab    *)
(* was in this profile and the settings did not take it back, or else      *)
(* allowed it for good in this profile.                                    *)
GrantJustified ==
  [][granted' # granted =>
       /\ granted'.of = label
       /\ \/ granted'.at = "asked" /\ session.scope = scope
          \/ \A k \in granted'.kinds : WordOf(said[scope], granted'.frame, k) = "allow"]_pVars
=============================================================================
