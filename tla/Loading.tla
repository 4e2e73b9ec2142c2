------------------------------ MODULE Loading ------------------------------
(***************************************************************************)
(* How a tab learns that its page could not be loaded. The engine reports  *)
(* the document requests of all frames, and the frames' commits, to a      *)
(* listener with a bounded buffer that drops its oldest event when full.   *)
(* The listener follows one request, that of the main frame, which it      *)
(* first has to know. The cards that a commit also takes down (sign-in,    *)
(* certificate, upgrade to https) are other components' state.             *)
(***************************************************************************)
EXTENDS Naturals, Sequences

CONSTANTS
  Urls,       \* that documents are asked for from
  MaxLoads,   \* document requests (bounds Requests)
  MaxCommits, \* commits of the main frame (bounds Commits)
  Buffer      \* events the listener's channel holds

ASSUME LoadingAssumption == MaxLoads \in Nat /\ Buffer \in Nat \ {0}

Nothing == [id |-> 0, url |-> "none"]

VARIABLES
  loads,     \* the engine's requests: frame, address, state
  latest,    \* the main frame's latest; 0 none
  commits,   \* commits of the main frame so far
  news,      \* events the listener has not taken
  lagged,    \* some were dropped since it last took one
  listener,  \* listening, or asking for the frame tree
  known,     \* it knows which frame is the main frame
  follows,   \* the request it follows
  shown,     \* the failure the chrome was told of last
  failures   \* history: requests of the main frame that failed as its latest

lVars == <<loads, latest, commits, news, lagged, listener, known, follows, shown, failures>>
engine == <<loads, latest, commits>>

LoadingInit ==
  /\ loads = <<>> /\ latest = 0 /\ commits = 0
  /\ news = <<>> /\ lagged = FALSE
  /\ listener = "refreshing" /\ known = FALSE /\ follows = Nothing
  /\ shown = Nothing /\ failures = {}

-----------------------------------------------------------------------------
(* The engine. A broadcast channel never waits for its receiver.           *)

Reports(event) ==
  /\ news' = IF Len(news) = Buffer THEN Append(Tail(news), event) ELSE Append(news, event)
  /\ lagged' = (lagged \/ Len(news) = Buffer)
  /\ UNCHANGED <<listener, known, follows, shown>>

Sent(i, frame, url) == [what |-> "sent", id |-> i, frame |-> frame, url |-> url]
Over(i, how) == [what |-> how, id |-> i]

(* A later request of the main frame supersedes the one before.            *)
Requests(frame, url) ==
  LET i == Len(loads) + 1 IN
  /\ Len(loads) < MaxLoads
  /\ loads' = Append(loads, [frame |-> frame, url |-> url, going |-> TRUE])
  /\ latest' = IF frame = "main" THEN i ELSE latest
  /\ Reports(Sent(i, frame, url))
  /\ UNCHANGED <<commits, failures>>

(* A redirect keeps the request's id; one that was superseded makes none.  *)
Redirects(i, url) ==
  /\ loads[i].going /\ loads[i].url # url
  /\ loads[i].frame = "main" => i = latest
  /\ loads' = [loads EXCEPT ![i].url = url]
  /\ Reports(Sent(i, loads[i].frame, url))
  /\ UNCHANGED <<latest, commits, failures>>

(* It fails, or ends otherwise: answered, canceled, net::ERR_ABORTED.      *)
Finishes(i, how) ==
  /\ loads[i].going
  /\ loads' = [loads EXCEPT ![i].going = FALSE]
  /\ failures' = IF how = "failed" /\ i = latest
             THEN failures \cup {[id |-> i, url |-> loads[i].url]} ELSE failures
  /\ Reports(Over(i, how))
  /\ UNCHANGED <<latest, commits>>

Commits ==
  /\ commits < MaxCommits /\ commits' = commits + 1
  /\ Reports([what |-> "committed"])
  /\ UNCHANGED <<loads, latest, failures>>

-----------------------------------------------------------------------------
(* The listener.                                                           *)

Takes(what) ==
  /\ listener = "listening" /\ ~lagged
  /\ news # <<>> /\ Head(news).what \in what
  /\ news' = Tail(news)
  /\ UNCHANGED <<engine, lagged, listener, failures>>

(* Page.frameNavigated of the frame without a parent; its id is constant   *)
(* here, so that it names the frame the first time only.                   *)
NotesCommit ==
  /\ Takes({"committed"})
  /\ known' = TRUE
  /\ follows' = IF known THEN follows ELSE Nothing
  /\ UNCHANGED shown

(* Network.requestWillBeSent of a document.                                *)
FollowsRequest ==
  /\ Takes({"sent"})
  /\ follows' = IF known /\ Head(news).frame = "main"
                THEN [id |-> Head(news).id, url |-> Head(news).url] ELSE follows
  /\ UNCHANGED <<known, shown>>

(* Network.loadingFinished; Network.loadingFailed that is no error.        *)
Unfollows ==
  /\ Takes({"ended"})
  /\ follows' = IF follows.id = Head(news).id THEN Nothing ELSE follows
  /\ UNCHANGED <<known, shown>>

(* Network.loadingFailed, which does not say of which frame.               *)
ShowsFailure ==
  /\ Takes({"failed"})
  /\ IF follows.id = Head(news).id
     THEN shown' = follows /\ follows' = Nothing
     ELSE UNCHANGED <<follows, shown>>
  /\ UNCHANGED known

(* Mutant: a gap in the events leaves the request that was followed.       *)
LagsKeeping ==
  /\ listener = "listening" /\ lagged
  /\ lagged' = FALSE
  /\ listener' = "refreshing"
  /\ UNCHANGED <<engine, news, known, follows, shown, failures>>

(* Lagged: what was followed may have been superseded or redirected.       *)
Lags ==
  /\ listener = "listening" /\ lagged
  /\ lagged' = FALSE /\ follows' = Nothing
  /\ listener' = "refreshing"
  /\ UNCHANGED <<engine, news, known, shown, failures>>

(* refresh_main: the frame tree comes, or the call fails.                  *)
Refreshes(answered) ==
  /\ listener = "refreshing"
  /\ listener' = "listening"
  /\ known' = (known \/ answered)
  /\ follows' = IF answered /\ ~known THEN Nothing ELSE follows
  /\ UNCHANGED <<engine, news, lagged, shown, failures>>

LoadingNext ==
  \/ \E url \in Urls, frame \in {"main", "child"} : Requests(frame, url)
  \/ \E i \in DOMAIN loads :
       \/ \E url \in Urls : Redirects(i, url)
       \/ \E how \in {"ended", "failed"} : Finishes(i, how)
  \/ Commits
  \/ NotesCommit \/ FollowsRequest \/ Unfollows \/ ShowsFailure \/ Lags
  \/ \E answered \in BOOLEAN : Refreshes(answered)

LoadingSafety == LoadingInit /\ [][LoadingNext]_lVars

-----------------------------------------------------------------------------
LoadingTypeOK ==
  /\ \A i \in DOMAIN loads : loads[i].going \in BOOLEAN /\ loads[i].url \in Urls
  /\ latest \in 0 .. MaxLoads /\ Len(news) <= Buffer
  /\ follows.id \in 0 .. MaxLoads /\ {lagged, known} \subseteq BOOLEAN

(* The error a tab shows is about a request of its page that did fail, and *)
(* failed while no later one had taken its place, and it names the address *)
(* that request had come to; whatever events were lost on the way, however *)
(* many frames loaded at the time.                                         *)
ErrorHonest == LoadingTypeOK /\ (shown # Nothing => shown \in failures)
=============================================================================
