----------------------------- MODULE TabDiscard -----------------------------
(***************************************************************************)
(* Putting a hidden tab to sleep. A sweep asks the page whether it is      *)
(* idle, asks the main thread to close its native view, waits for the      *)
(* browser to confirm it, and only then marks the tab's row discarded.     *)
(* Between any two of these steps the person may show, reopen or close the *)
(* tab, the page may do something, and a second sweep may want the same.   *)
(*                                                                         *)
(* One tab, whose views are numbered in the order they are opened. The     *)
(* person's handlers and the closures of on_main run on the main thread.   *)
(***************************************************************************)
EXTENDS Integers, Sequences, FiniteSets

CONSTANTS
  Sweepers,   \* the periodic sweep, and the one memory pressure starts
  Tools,      \* tool calls and downloads that keep a tab awake
  MaxViews,   \* views the tab has, one after another
  Unanswered, \* UNANSWERED_BEFORE_FORCE
  MaxQueue    \* messages of the page the session has not processed

Nobody == "nobody"
Unheard == "unheard"
Changed == [to |-> Nobody, busy |-> FALSE]

ASSUME BoundsAssumption ==
  /\ MaxViews \in Nat \ {0} /\ Unanswered \in Nat \ {0} /\ MaxQueue \in Nat \ {0}
  /\ Sweepers \cap {Nobody, Unheard} = {} /\ IsFiniteSet(Tools)

Views == 1 .. MaxViews

VARIABLES
  row,        \* the tab's row in the store: active, discarded or gone
  showing,    \* whether the host shows the tab
  view,       \* the view the host has for it, or 0
  opened,     \* views begun so far
  native,     \* each native view: none, live, closing or dead
  label,      \* the views whose label is registered with the window manager
  entry,      \* the activity registry's entry for the tab
  misses,     \* unanswered questions in a row
  page,       \* the page shown in the view: does it hang, and what it does:
              \* nothing, work it would lose, or it still loads
  queue,      \* what the page sent and the session has not processed
  tool,       \* each tool: the view it was begun on, or 0
  sweep,      \* each sweep: where it is, what it saw, whether that still holds
  main        \* the sweep whose closure the main thread is running

host == <<showing, view, opened>>
engine == <<native, label, page>>
vars == <<row, host, engine, entry, misses, queue, tool, sweep, main>>

NoEntry == [of |-> 0, ready |-> FALSE, closing |-> FALSE, held |-> 0]
Begun(v) == [of |-> v, ready |-> FALSE, closing |-> FALSE, held |-> 0]
Resting == [at |-> "idle", of |-> 0, ticket |-> FALSE, row |-> FALSE, forced |-> FALSE]

Init ==
  /\ row = "active" /\ showing = TRUE /\ view = 1 /\ opened = 1
  /\ native = [v \in Views |-> IF v = 1 THEN "live" ELSE "none"]
  /\ label = {1}
  /\ entry = Begun(1)
  /\ misses = 0
  /\ page = [hung |-> FALSE, does |-> "nothing"]
  /\ queue = <<>>
  /\ tool = [t \in Tools |-> 0]
  /\ sweep = [s \in Sweepers |-> Resting]
  /\ main = Nobody

-----------------------------------------------------------------------------
(* The activity registry. A change to the entry gives it a new revision,   *)
(* so that no ticket agrees with it any more; here each sweep carries      *)
(* whether its ticket, and its copy of the row, are still the current ones. *)

TicketsLapse(sw) == [s \in Sweepers |-> [sw[s] EXCEPT !.ticket = FALSE]]
RowsLapse(sw) == [s \in Sweepers |-> [sw[s] EXCEPT !.row = FALSE]]

Ready == entry.of # 0 /\ entry.ready /\ ~entry.closing /\ entry.held = 0
Current(s) == Ready /\ sweep[s].ticket /\ entry.of = sweep[s].of

Update(v, e) ==
  IF entry.of = v /\ v # 0
  THEN entry' = e /\ sweep' = TicketsLapse(sweep)
  ELSE UNCHANGED <<entry, sweep>>

-----------------------------------------------------------------------------
(* The page and the browser.                                               *)

(* The scripts that watch a view's page are in place.                      *)
Instrumented ==
  /\ view # 0 /\ ~entry.ready
  /\ Update(view, [entry EXCEPT !.ready = TRUE])
  /\ UNCHANGED <<row, host, engine, misses, queue, tool, main>>

(* The page changes, and says so; the browser says so of a page that       *)
(* starts to load, or has.                                                 *)
PageActs ==
  /\ view # 0 /\ ~page.hung /\ Len(queue) < MaxQueue
  /\ \E does \in {"nothing", "work", "load"} : page' = [page EXCEPT !.does = does]
  /\ queue' = Append(queue, Changed)
  /\ UNCHANGED <<row, host, native, label, entry, misses, tool, sweep, main>>

(* One that hangs while it loads is loading ever after.                    *)
PageHangs ==
  /\ view # 0 /\ ~page.hung
  /\ page' = [page EXCEPT !.hung = TRUE]
  /\ UNCHANGED <<row, host, native, label, entry, misses, queue, tool, sweep, main>>

(* It answers a sweep's question with what it is doing.                    *)
PageAnswers(s) ==
  /\ sweep[s].at = "asked" /\ view = sweep[s].of /\ ~page.hung /\ Len(queue) < MaxQueue
  /\ queue' = Append(queue, [to |-> s, busy |-> page.does # "nothing"])
  /\ sweep' = [sweep EXCEPT ![s].at = "answered"]
  /\ UNCHANGED <<row, host, engine, entry, misses, tool, main>>

(* A native view that was told to close is gone.                           *)
NativeDies(v) ==
  /\ native[v] = "closing"
  /\ native' = [native EXCEPT ![v] = "dead"]
  /\ UNCHANGED <<row, host, label, page, entry, misses, queue, tool, sweep, main>>

(* What closing a view through the window manager does: its label goes,    *)
(* and the native view is told to close unless it already was.             *)
Closed(v) == IF native[v] = "live" THEN [native EXCEPT ![v] = "closing"] ELSE native

(* `forget_unanswered`.                                                    *)
Forgotten == misses' = 0

-----------------------------------------------------------------------------
(* The session's worker: one message at a time, the oldest first.          *)


(* An answer is heard if the sweep still waits for it; idle pages move on. *)
Hear(m) ==
  IF sweep[m.to].at = "answered"
  THEN /\ sweep' = [sweep EXCEPT ![m.to] = IF m.busy THEN Resting
                                           ELSE [sweep[m.to] EXCEPT !.at = "request"]]
       /\ Forgotten
  ELSE UNCHANGED <<sweep, misses>>

Ingest ==
  /\ queue # <<>>
  /\ queue' = Tail(queue)
  /\ IF Head(queue) = Changed
     THEN Update(view, entry) /\ UNCHANGED misses
     ELSE Hear(Head(queue)) /\ UNCHANGED entry
  /\ UNCHANGED <<row, host, engine, tool, main>>

-----------------------------------------------------------------------------
(* The person, on the main thread.                                         *)

(* The tab is shown. Without a view one is opened first, under a new nonce. *)
(* Opening may fail; then only the registry has changed.                   *)
Activate ==
  /\ main = Nobody /\ row # "gone"
  /\ \/ /\ view # 0
        /\ showing' = TRUE
        /\ row' = "active" /\ sweep' = RowsLapse(sweep)
        /\ UNCHANGED <<view, opened, engine, entry, queue>>
     \/ /\ view = 0 /\ opened < MaxViews
        /\ LET v == opened + 1 IN
             /\ opened' = v
             /\ entry' = Begun(v)
             /\ \/ /\ view' = v /\ showing' = TRUE
                   /\ native' = [native EXCEPT ![v] = "live"]
                   /\ label' = label \cup {v}
                   /\ page' = [hung |-> FALSE, does |-> "load"]
                   /\ queue' = <<>>
                   /\ row' = "active"
                   /\ sweep' = RowsLapse(TicketsLapse(sweep))
                \/ /\ sweep' = TicketsLapse(sweep)
                   /\ UNCHANGED <<row, showing, view, engine, queue>>
  /\ UNCHANGED <<misses, tool, main>>

(* Another tab is shown instead.                                           *)
Hide ==
  /\ main = Nobody /\ showing
  /\ showing' = FALSE
  /\ UNCHANGED <<row, view, opened, engine, entry, misses, queue, tool, sweep, main>>

CloseTab ==
  /\ main = Nobody /\ row # "gone"
  /\ row' = "gone" /\ showing' = FALSE /\ view' = 0
  /\ native' = IF view = 0 THEN native ELSE Closed(view)
  /\ label' = label \ {view}
  /\ entry' = NoEntry
  /\ sweep' = RowsLapse(TicketsLapse(sweep))
  /\ queue' = <<>>
  /\ Forgotten
  /\ UNCHANGED <<opened, page, tool, main>>

(* A tool call or a download begins on the tab, and ends.                  *)
ToolBegins(t) ==
  /\ tool[t] = 0 /\ entry.of # 0
  /\ tool' = [tool EXCEPT ![t] = entry.of]
  /\ Update(entry.of, [entry EXCEPT !.held = @ + 1])
  /\ UNCHANGED <<row, host, engine, misses, queue, main>>

ToolEnds(t) ==
  /\ tool[t] # 0
  /\ tool' = [tool EXCEPT ![t] = 0]
  /\ Update(tool[t], [entry EXCEPT !.held = IF @ = 0 THEN 0 ELSE @ - 1])
  /\ UNCHANGED <<row, host, engine, misses, queue, main>>

-----------------------------------------------------------------------------
(* A sweep.                                                                *)

At(s, where) == sweep[s].at = where
Goes(s, where) == sweep' = [sweep EXCEPT ![s].at = where]
GivesUp(s) == sweep' = [sweep EXCEPT ![s] = Resting]

(* The store offers the tab: not discarded, and long enough unused.        *)
Pick(s) ==
  /\ At(s, "idle") /\ row = "active"
  /\ sweep' = [sweep EXCEPT ![s] = [Resting EXCEPT !.at = "look", !.row = TRUE]]
  /\ UNCHANGED <<row, host, engine, entry, misses, queue, tool, main>>

(* Under the host's lock: a tab that is shown counts as used just now; one *)
(* that may be asked is, and its ticket is taken; one that is recorded,    *)
(* heard, worked in by the agent or inspected is left alone.               *)
Look(s) ==
  /\ At(s, "look")
  /\ \/ /\ showing
        /\ sweep' = [RowsLapse(sweep) EXCEPT ![s] = Resting]
     \/ ~showing /\ GivesUp(s)
     \/ /\ ~showing /\ Ready /\ view # 0
        /\ sweep' = [sweep EXCEPT ![s].at = "asked", ![s].of = entry.of, ![s].ticket = TRUE]
  /\ UNCHANGED <<row, host, engine, entry, misses, queue, tool, main>>

(* Counts go no further than anyone compares them.                         *)
More(n) == IF n < Unanswered THEN n + 1 ELSE n

(* Mutant: a page that does not answer is asked again for ever.            *)
ProbeTimeoutIdle(s) ==
  /\ sweep[s].at \in {"asked", "answered"} /\ view = sweep[s].of
  /\ GivesUp(s)
  /\ UNCHANGED <<row, host, engine, entry, misses, queue, tool, main>>

(* 400 ms pass without an answer, the session still open. A page that has  *)
(* left enough questions unanswered is put to sleep all the same.          *)
ProbeTimeout(s) ==
  /\ sweep[s].at \in {"asked", "answered"} /\ view = sweep[s].of
  /\ misses' = More(misses)
  /\ IF misses' >= Unanswered
     THEN sweep' = [sweep EXCEPT ![s].at = "request", ![s].forced = TRUE]
     ELSE GivesUp(s)
  /\ UNCHANGED <<row, host, engine, entry, queue, tool, main>>

(* The session the question went to is closed: an answer of nothing.       *)
ProbeClosed(s) ==
  /\ sweep[s].at \in {"asked", "answered"} /\ view # sweep[s].of
  /\ Forgotten
  /\ GivesUp(s)
  /\ UNCHANGED <<row, host, engine, entry, queue, tool, main>>

(* The page's handle or the main thread's turn came too late. A closure    *)
(* that has not started never will; one that has goes on, unheard.         *)
TooLate(s) ==
  /\ sweep[s].at \in {"request", "granted", "refused"}
  /\ main' = IF main = s THEN Unheard ELSE main
  /\ GivesUp(s)
  /\ UNCHANGED <<row, host, engine, entry, misses, queue, tool>>

(* Mutant: the revision is not compared again.                             *)
MayCloseStale(s) == ~showing /\ view # 0 /\ entry.of = sweep[s].of /\ ~entry.closing
                    /\ page.does # "load" /\ row = "active" /\ sweep[s].row

(* request_discard, on the main thread under the host's and store's locks: *)
(* everything is looked at once more, the entry is marked closing, and the *)
(* native view is told to close. Afterwards the host forgets the view.     *)
MayClose(s) == ~showing /\ view # 0 /\ Current(s) /\ page.does # "load"
               /\ row = "active" /\ sweep[s].row

(* Mutant: the host keeps the view it told to close.                       *)
RequestedKept(s) ==
  /\ entry' = [entry EXCEPT !.closing = TRUE]
  /\ native' = [native EXCEPT ![view] = "closing"]
  /\ UNCHANGED <<view, queue, showing, opened>>

Requested(s) ==
  /\ entry' = [entry EXCEPT !.closing = TRUE]
  /\ native' = [native EXCEPT ![view] = "closing"]
  /\ view' = 0 /\ queue' = <<>>
  /\ UNCHANGED <<showing, opened>>

(* The store may fail to commit after the view was told; the sweep hears   *)
(* of an error then. And a tab that might be closed is left alone if it is *)
(* protected after all, its site is to be kept active, its developer tools *)
(* are open, or the closure runs too late.                                 *)
RequestDiscard(s) ==
  /\ At(s, "request") /\ main = Nobody
  /\ main' = s
  /\ \/ /\ MayClose(s) /\ Requested(s)
        /\ Goes(s, "granted") \/ Goes(s, "refused")
     \/ /\ Goes(s, "refused")
        /\ UNCHANGED <<host, native, entry, queue>>
  /\ UNCHANGED <<row, label, page, misses, tool>>

(* A sweep leaves alone a tab it might have asked, or closed.              *)
Spares(s) ==
  \/ At(s, "look") /\ ~showing /\ Ready /\ view # 0 /\ GivesUp(s)
  \/ At(s, "request") /\ MayClose(s) /\ Goes(s, "refused") /\ UNCHANGED view

(* The closure answers whoever still listens.                              *)
Replies ==
  /\ main # Nobody
  /\ main' = Nobody
  /\ IF main = Unheard THEN UNCHANGED sweep
     ELSE IF At(main, "granted") THEN Goes(main, "receipt")
     ELSE GivesUp(main)
  /\ UNCHANGED <<row, host, engine, entry, misses, queue, tool>>

Receipt(s) ==
  /\ At(s, "receipt") /\ main = Nobody /\ native[sweep[s].of] = "dead"
  /\ Goes(s, "finish")
  /\ UNCHANGED <<row, host, engine, entry, misses, queue, tool, main>>

(* Five seconds pass without it.                                           *)
ReceiptTimeout(s) ==
  /\ At(s, "receipt")
  /\ Goes(s, "unconfirmed")
  /\ UNCHANGED <<row, host, engine, entry, misses, queue, tool, main>>

Unconfirmed(s) ==
  /\ At(s, "unconfirmed") /\ main = Nobody
  /\ label' = label \ {sweep[s].of}
  /\ native' = Closed(sweep[s].of)
  /\ GivesUp(s)
  /\ UNCHANGED <<row, host, page, entry, misses, queue, tool, main>>

(* finish_discard: the old label goes whatever happened meanwhile; the row *)
(* is discarded only if the tab is still the one that was told to close.   *)
StillClosing(s) == entry.of = sweep[s].of /\ entry.closing /\ view = 0

(* The second alternative is the tab having changed, or the store failing. *)
FinishDiscard(s) ==
  /\ At(s, "finish") /\ main = Nobody
  /\ label' = label \ {sweep[s].of}
  /\ \/ /\ StillClosing(s) /\ row = "active" /\ sweep[s].row
        /\ row' = "discarded"
        /\ entry' = NoEntry
        /\ Forgotten
        /\ sweep' = [RowsLapse(TicketsLapse(sweep)) EXCEPT ![s] = Resting]
     \/ GivesUp(s) /\ UNCHANGED <<row, entry, misses>>
  /\ UNCHANGED <<host, native, page, queue, tool, main>>

-----------------------------------------------------------------------------
SweepStep(s) ==
  \/ Look(s) \/ ProbeTimeout(s) \/ ProbeClosed(s)
  \/ TooLate(s) \/ RequestDiscard(s)
  \/ Receipt(s) \/ ReceiptTimeout(s) \/ Unconfirmed(s) \/ FinishDiscard(s)

Next ==
  \/ Instrumented \/ PageActs \/ PageHangs \/ Ingest
  \/ Activate \/ Hide \/ CloseTab \/ Replies
  \/ \E v \in Views : NativeDies(v)
  \/ \E t \in Tools : ToolBegins(t) \/ ToolEnds(t)
  \/ \E s \in Sweepers : Pick(s) \/ PageAnswers(s) \/ SweepStep(s)

Safety == Init /\ [][Next]_vars

(* The periodic sweep comes round, each sweep moves on (its timers see to  *)
(* that), and the main thread and the session's worker run. The main       *)
(* thread may be late any number of times, but not every time.             *)
Spec ==
  /\ Safety /\ WF_vars(Replies) /\ WF_vars(Ingest)
  /\ \A s \in Sweepers :
       /\ WF_vars(Pick(s)) /\ WF_vars(SweepStep(s))
       /\ WF_vars(Unconfirmed(s)) /\ WF_vars(FinishDiscard(s))
       /\ SF_vars(RequestDiscard(s))

-----------------------------------------------------------------------------
TypeOK ==
  /\ row \in {"active", "discarded", "gone"}
  /\ showing \in BOOLEAN /\ view \in 0 .. MaxViews /\ opened \in Views
  /\ native \in [Views -> {"none", "live", "closing", "dead"}]
  /\ label \subseteq Views
  /\ entry \in [of : 0 .. MaxViews, ready : BOOLEAN, closing : BOOLEAN,
                held : 0 .. Cardinality(Tools)]
  /\ misses \in 0 .. Unanswered
  /\ page \in [hung : BOOLEAN, does : {"nothing", "work", "load"}]
  /\ \A i \in DOMAIN queue : queue[i] \in [to : Sweepers \cup {Nobody}, busy : BOOLEAN]
  /\ Len(queue) <= MaxQueue
  /\ tool \in [Tools -> 0 .. MaxViews]
  /\ sweep \in [Sweepers -> [at : {"idle", "look", "asked", "answered", "request", "granted",
                                   "refused", "receipt", "unconfirmed", "finish"},
                             of : 0 .. MaxViews, ticket : BOOLEAN, row : BOOLEAN,
                             forced : BOOLEAN]]
  /\ main \in Sweepers \cup {Nobody, Unheard}

(* A sleeping tab has no native view left to draw or run anything.         *)
Asleep == row = "discarded" => view = 0 /\ \A v \in Views : native[v] # "live"

(* What the host shows, or would show, is a live view of its own: no sweep *)
(* that is late closes a tab under the person, or one reopened since; and  *)
(* none that fails half way leaves a tab asleep with its view alive.       *)
ViewIsLive ==
  /\ TypeOK /\ Asleep
  /\ showing => view # 0
  /\ view # 0 => /\ native[view] = "live" /\ view \in label
                 /\ entry.of = view /\ ~entry.closing

(* A sweep tells a view to close only while no tool works on it; and a     *)
(* page with work to lose only when it stopped answering, or when its word *)
(* of the work has not been processed.                                     *)
Told == ~entry.closing /\ entry'.closing
GentleClose ==
  [][Told => /\ \A t \in Tools : tool[t] # view
             /\ page.does = "work" => sweep[main'].forced \/ \E i \in DOMAIN queue : queue[i] = Changed]_vars

(* A hidden page that hangs once it has loaded is not kept for ever, if    *)
(* from some time on no tool works on it, and no sweep finds it protected  *)
(* or comes too late to close it. (One that hangs while it loads is kept:  *)
(* see MayClose.)                                                          *)
Hung == view # 0 /\ page.hung /\ ~showing /\ entry.ready /\ entry.held = 0
Unprotected == <>[][~\E s \in Sweepers : Spares(s)]_vars
HungSleeps == Unprotected => ~<>[](Hung /\ page.does # "load")
=============================================================================
