------------------------------- MODULE Crash -------------------------------
(***************************************************************************)
(* A tab whose renderer dies. The engine reports a death twice: CEF's      *)
(* process hook with the reason, and DevTools without one, which waits a   *)
(* moment for the other. The registry folds the two into one crash,        *)
(* charges it to a budget, and a task reloads the page, leaves it to the   *)
(* person, or owes the reload until the tab is shown; views are replaced,  *)
(* tabs shown, hidden and torn off, and pages reloaded by hand meanwhile.  *)
(* The task speaks to the page through the tab's DevTools session, which   *)
(* may be closed under it; the page may refuse, the notice fail.           *)
(***************************************************************************)
EXTENDS Integers, FiniteSets

CONSTANTS
  MaxAttempts,  \* reloads between two quiet spells
  MaxViews,     \* views the tab gets (bounds Bind)
  MaxCrashes    \* crashes of its renderers (bounds Dies)

ASSUME CrashAssumption == {MaxAttempts, MaxViews, MaxCrashes} \subseteq Nat \ {0}

Crashes == 1 .. MaxCrashes
NotOwed == <<0, 0>>
Calm == 2   \* the age of a history that counts no more

VARIABLES
  view,      \* the view bound to the tab; 0 none
  attached,  \* whether its DevTools session is there, and open
  bound,     \* views so far
  place,     \* where the tab is: in the back, in the main window, torn off
  page,      \* the renderer
  crash,     \* crashes so far
  reports,   \* reports of crashes under way
  count,     \* Attempts: crashes counted ...
  age,       \* ... and the time since the last, in halves of a quiet spell
  newest,    \* the crash the newest report was about; 0 none
  deferred,  \* the view that is owed a reload (0 none), and for which crash
  recoveries,  \* recoveries under way
  charged,   \* history: how often each crash was charged ...
  reloaded,  \* ... and reloads made for it
  spell,     \* history: reloads promised since the page was last quiet, ...
  silence,   \* ... and the time since it last crashed
  ended,     \* history: the crashes known to be somebody's doing
  promised,  \* history: the dead page was promised a reload ...
  letgo      \* ... of which its notice, or the page, was refused

tab == <<view, attached, bound, place>>
registry == <<count, age, newest, deferred>>
fate == <<promised, letgo>>
history == <<charged, reloaded, spell, silence, ended, fate>>
kVars == <<tab, page, crash, reports, registry, recoveries, history>>

CrashInit ==
  /\ view = 1 /\ attached = TRUE /\ bound = 1 /\ place = "main"
  /\ page = "live" /\ crash = 0
  /\ reports = {} /\ recoveries = {}
  /\ count = 0 /\ age = Calm /\ newest = 0 /\ deferred = NotOwed
  /\ charged = [c \in Crashes |-> 0] /\ reloaded = [c \in Crashes |-> 0]
  /\ spell = 0 /\ silence = Calm
  /\ ended = {} /\ promised = FALSE /\ letgo = FALSE

Shown == place # "back"

-----------------------------------------------------------------------------
(* The engine.                                                             *)

(* It crashes, or somebody ends it: a kill, memory pressure, the person.   *)
(* The watcher observes it, unless it lags or its session is closed.       *)
Dies ==
  /\ view # 0 /\ page = "live" /\ crash < MaxCrashes
  /\ page' = "dead" /\ crash' = crash + 1
  /\ \E why \in {"crashed", "stopped"}, observed \in {FALSE, attached} :
       reports' = reports
         \cup {[of |-> crash', in |-> view, why |-> why, stale |-> FALSE]}
         \cup IF observed
              THEN {[of |-> crash', in |-> view, why |-> "unknown", stale |-> FALSE]} ELSE {}
  /\ UNCHANGED <<tab, registry, recoveries, history>>

(* The session is closed for flooding Dive, or was never got; the view     *)
(* lives on without one.                                                   *)
SessionCloses ==
  /\ attached /\ attached' = FALSE
  /\ UNCHANGED <<view, bound, place, page, crash, reports, registry, recoveries, history>>

(* The engine's report, and the watcher's, which counts from when it was   *)
(* observed and waits a moment for the other.                              *)
Native(r) == r.why # "unknown"

(* The engine has reported a crash by the time the page is reloaded: the   *)
(* first backoff is 250 ms.                                                *)
Delivered == \A r \in reports : Native(r) => r.in # view

-----------------------------------------------------------------------------
(* The registry.                                                           *)

(* Mutant: the moment of a reload is not kept.                             *)
BeginReloadUnmarked == newest' = 0 /\ UNCHANGED reports

(* begin_reload: the next crash is another one, and a report observed      *)
(* before is about the crash this answers.                                 *)
BeginReload ==
  /\ newest' = 0
  /\ reports' = {[r EXCEPT !.stale = TRUE] : r \in reports}

(* plan: the budget as it stands, whole again after a quiet spell.         *)
Spent == IF age = Calm THEN 0 ELSE count

(* on_crash.                                                               *)
Charge(r) ==
  /\ charged' = [charged EXCEPT ![r.of] = @ + 1]
  /\ age' = 0
  /\ IF Spent < MaxAttempts
     THEN /\ count' = Spent + 1
          /\ spell' = (IF silence = Calm THEN 0 ELSE spell) + 1
     ELSE count' = Spent /\ UNCHANGED spell

(* duplicate: a report repeats the last one when it was observed less than *)
(* a second after it, or before it. Those of one crash are; one of a later *)
(* crash, of a page the person reloaded, may be either; when the second is *)
(* over, so is the moment of grace of every earlier report.                *)
OutOfDate(r) == r.in # view \/ r.stale
SecondOver(r) == r.of > newest /\ \A q \in reports : q.of < r.of => OutOfDate(q)
New(r) == newest = 0 \/ SecondOver(r)

Recovery(r) == [of |-> r.of, in |-> r.in, why |-> r.why, plan |-> Spent < MaxAttempts,
                at |-> "decide"]
Reloads(t) == t.plan /\ t.why # "stopped"

(* admit, for the engine's report as it comes and for the other after its  *)
(* moment of grace.                                                        *)
Refuse(r) ==
  /\ OutOfDate(r)
  /\ reports' = reports \ {r}
  /\ UNCHANGED <<tab, page, crash, registry, recoveries, history>>

Fold(r) ==
  /\ ~OutOfDate(r) /\ newest # 0
  /\ reports' = reports \ {r} /\ newest' = r.of
  /\ UNCHANGED <<tab, page, crash, count, age, deferred, recoveries, history>>

Admit(r) ==
  /\ ~OutOfDate(r) /\ New(r)
  /\ reports' = reports \ {r} /\ newest' = r.of
  /\ Charge(r)
  /\ recoveries' = recoveries \cup {Recovery(r)}
  /\ silence' = 0
  /\ ended' = IF r.why = "stopped" THEN ended \cup {r.of} ELSE ended
  /\ promised' = (promised \/ (page = "dead" /\ r.of = crash /\ Reloads(Recovery(r))))
  /\ UNCHANGED <<tab, page, crash, deferred, reloaded, letgo>>

(* Half a quiet spell goes by; no report waits that long. (Nothing depends *)
(* on it after the last crash the model allows.)                           *)
TimePasses ==
  /\ crash < MaxCrashes /\ (age < Calm \/ silence < Calm)
  /\ \A r \in reports : r.in # view
  /\ age' = IF age < Calm THEN age + 1 ELSE age
  /\ silence' = IF silence < Calm THEN silence + 1 ELSE silence
  /\ newest' = 0
  /\ UNCHANGED <<tab, page, crash, reports, count, deferred, recoveries, charged, reloaded, spell,
                 ended, fate>>

-----------------------------------------------------------------------------
(* recover.                                                                *)

To(t, at) == recoveries' = (recoveries \ {t}) \cup {[t EXCEPT !.at = at]}

(* recover returns at once if the view was replaced, or the session is     *)
(* closed or missing; and later if the notice of the reload to come cannot *)
(* be delivered.                                                           *)
Returns(t) ==
  /\ t.in # view \/ (t.at = "decide" /\ ~attached)
  /\ recoveries' = recoveries \ {t}
  /\ UNCHANGED <<tab, page, crash, reports, registry, history>>

Decide(t) ==
  /\ t.at = "decide" /\ t.in = view /\ attached
  /\ \/ Reloads(t) /\ Shown /\ To(t, "backoff")
     \/ Reloads(t) /\ ~Shown /\ To(t, "defer")
     \/ ~Reloads(t) /\ recoveries' = recoveries \ {t}
  /\ UNCHANGED <<tab, page, crash, reports, registry, history>>

NoticeFails(t) ==
  /\ t.at = "backoff" /\ t.in = view
  /\ recoveries' = recoveries \ {t}
  /\ letgo' = (letgo \/ (page = "dead" /\ t.of = crash))
  /\ UNCHANGED <<tab, page, crash, reports, registry, charged, reloaded, spell, silence,
                 ended, promised>>

Defer(t) ==
  /\ t.at = "defer" /\ t.in = view
  /\ deferred' = <<view, t.of>>
  /\ To(t, "marked")
  /\ UNCHANGED <<tab, page, crash, reports, count, age, newest, history>>

Revives == page' = "live" /\ promised' = FALSE /\ letgo' = FALSE

(* The reload may fail: then the page is what it was.                      *)
ReloadFor(c) ==
  /\ Delivered
  /\ BeginReload
  /\ \/ Revives /\ reloaded' = [reloaded EXCEPT ![c] = @ + 1]
     \/ letgo' = (page = "dead") /\ UNCHANGED <<page, promised, reloaded>>
NoReload == UNCHANGED <<page, newest, reports, reloaded, fate>>

(* reload_now does nothing without a session.                              *)
ReloadThrough(c) == IF attached THEN ReloadFor(c) ELSE NoReload

(* It may have been brought forward meanwhile.                             *)
LooksAgain(t) ==
  /\ t.at = "marked" /\ t.in = view
  /\ recoveries' = recoveries \ {t}
  /\ IF Shown /\ deferred[1] = view
     THEN ReloadThrough(deferred[2]) /\ deferred' = NotOwed
     ELSE NoReload /\ UNCHANGED deferred
  /\ UNCHANGED <<tab, crash, count, age, charged, spell, silence, ended>>

(* Mutant: a tab hidden during the backoff is left alone.                  *)
ReloadNowIfShown(t) ==
  /\ t.at = "backoff" /\ t.in = view
  /\ recoveries' = recoveries \ {t}
  /\ IF Shown THEN ReloadThrough(t.of) ELSE NoReload
  /\ UNCHANGED <<tab, crash, count, age, deferred, charged, spell, silence, ended>>

ReloadNow(t) ==
  /\ t.at = "backoff" /\ t.in = view
  /\ recoveries' = recoveries \ {t}
  /\ ReloadThrough(t.of)
  /\ UNCHANGED <<tab, crash, count, age, deferred, charged, spell, silence, ended>>

-----------------------------------------------------------------------------
(* The tab and the person.                                                 *)

(* activate_tab and split_layout; the owed reload is the view's own, and   *)
(* is made without a session.                                              *)
Show ==
  /\ view # 0 /\ place # "main"
  /\ place' = "main"
  /\ IF deferred[1] = view
     THEN ReloadFor(deferred[2]) /\ deferred' = NotOwed
     ELSE NoReload /\ UNCHANGED deferred
  /\ UNCHANGED <<view, attached, bound, crash, count, age, recoveries, charged, spell, silence,
                 ended>>

TearOff ==
  /\ view # 0 /\ place # "torn"
  /\ place' = "torn"
  /\ UNCHANGED <<view, attached, bound, page, crash, reports, registry, recoveries, history>>

Hide ==
  /\ place = "main"
  /\ place' = "back"
  /\ UNCHANGED <<view, attached, bound, page, crash, reports, registry, recoveries, history>>

(* Reloads it, or goes elsewhere in it.                                    *)
PersonReloads ==
  /\ view # 0 /\ page = "dead" /\ Delivered
  /\ Revives
  /\ UNCHANGED <<tab, crash, reports, registry, recoveries, charged, reloaded, spell, silence,
                 ended>>

(* drop_tab: closed, or put to sleep.                                      *)
Drop ==
  /\ view # 0
  /\ view' = 0 /\ attached' = FALSE /\ place' = "back"
  /\ count' = 0 /\ age' = Calm /\ newest' = 0 /\ deferred' = NotOwed
  /\ spell' = 0 /\ silence' = Calm
  /\ promised' = FALSE /\ letgo' = FALSE
  /\ UNCHANGED <<bound, page, crash, reports, recoveries, charged, reloaded, ended>>

(* bind_view: a view where there was none, or in the place of another.     *)
Bind ==
  /\ bound < MaxViews
  /\ bound' = bound + 1 /\ view' = bound' /\ attached' = TRUE
  /\ Revives
  /\ count' = 0 /\ age' = Calm /\ newest' = 0 /\ deferred' = NotOwed
  /\ spell' = 0 /\ silence' = Calm
  /\ UNCHANGED <<place, crash, reports, recoveries, charged, reloaded, ended>>

-----------------------------------------------------------------------------
RecoveryStep(t) ==
  Returns(t) \/ Decide(t) \/ NoticeFails(t) \/ Defer(t) \/ LooksAgain(t) \/ ReloadNow(t)
ReportStep(r) == Refuse(r) \/ Fold(r) \/ Admit(r)

CrashNext ==
  \/ Dies \/ SessionCloses \/ TimePasses
  \/ Show \/ TearOff \/ Hide \/ PersonReloads \/ Drop \/ Bind
  \/ \E r \in reports : ReportStep(r)
  \/ \E t \in recoveries : RecoveryStep(t)

CrashSafety == CrashInit /\ [][CrashNext]_kVars

-----------------------------------------------------------------------------
CrashTypeOK ==
  /\ view \in 0 .. MaxViews /\ bound \in 1 .. MaxViews /\ place \in {"back", "main", "torn"}
  /\ {attached, promised, letgo} \subseteq BOOLEAN
  /\ page \in {"live", "dead"} /\ crash \in 0 .. MaxCrashes
  /\ reports \subseteq [of : Crashes, in : 1 .. MaxViews, why : {"crashed", "stopped", "unknown"},
                        stale : BOOLEAN]
  /\ count \in 0 .. MaxAttempts /\ age \in 0 .. Calm /\ silence \in 0 .. Calm
  /\ newest \in 0 .. MaxCrashes /\ deferred \in (0 .. MaxViews) \X (0 .. MaxCrashes)
  /\ recoveries \subseteq [of : Crashes, in : 1 .. MaxViews, plan : BOOLEAN,
                      at : {"decide", "defer", "marked", "backoff"},
                      why : {"crashed", "stopped", "unknown"}]

(* Nobody looks at a page that is owed a reload, but while the task that   *)
(* marked it is about to look, too. (Torn off: see ShownIsReloaded.)       *)
Owed == view # 0 /\ deferred[1] = view /\ ~\E t \in recoveries : t.at = "marked" /\ t.in = view
NotOwedInMain == Owed => place # "main"

(* However the two reports and the reloads overtake each other, one crash  *)
(* is charged once and reloaded for once, a page that keeps crashing is    *)
(* not promised more than its budget before it was quiet, and a renderer   *)
(* that was ended, rather than crashed, is not brought back unasked, if    *)
(* the engine's word of it came within the grace; and a reload that is put *)
(* off is never owed to a page the person looks at in its window.          *)
Budget ==
  /\ CrashTypeOK /\ NotOwedInMain
  /\ \A c \in Crashes : charged[c] <= 1 /\ reloaded[c] <= IF c \in ended THEN 0 ELSE 1
  /\ spell <= MaxAttempts

(* A dead page that was promised a reload is not forgotten by any early    *)
(* return: a task is still about to reload it, or the tab is owed the      *)
(* reload, however it was hidden, shown and crashed before; unless its     *)
(* DevTools session is closed or missing, the notice could not be          *)
(* delivered, or the reload was tried and refused.                         *)
Answered ==
  view # 0 /\ page = "dead" /\ promised =>
    \/ \E t \in recoveries : t.of = crash /\ t.in = view /\ Reloads(t)
    \/ deferred[1] = view
    \/ ~attached \/ letgo

-----------------------------------------------------------------------------
(* What the comments say and the code does not do.                         *)

(* "The tab was in the background: it reloads when it is next shown."      *)
ShownIsReloaded == Owed => ~Shown
=============================================================================
