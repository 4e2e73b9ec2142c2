----------------------------- MODULE Downloads -----------------------------
(***************************************************************************)
(* Downloads, the names they hold and what the list says of them. The      *)
(* engine knows a download by an id, reports its progress with it, and     *)
(* announces its end by address and path only, so the registry works out   *)
(* which one ended. An interrupted download has ended, too, until it is    *)
(* resumed. An empty file holds the name meanwhile. All suggest one name.  *)
(* The rows kept in the Library and the 50 entries that are kept of each   *)
(* list are left out.                                                      *)
(***************************************************************************)
EXTENDS Naturals, Sequences, SequencesExt

CONSTANTS
  Pages,         \* addresses that files come from
  MaxDownloads   \* bounds Requested

ASSUME DownloadsAssumption == MaxDownloads \in Nat

Names == 1 .. MaxDownloads   \* the suggested one, then the numbered ones
NoPath == 0
Interruptions == {"network", "file"}

VARIABLES
  items,         \* the engine's downloads, by id
  files,         \* what is on the disk under each name
  live,          \* per id: the address and path progress gave last; NoPath, NoPath: none
  cancelled,     \* ids somebody asked to cancel
  placeholders,  \* who holds names, by address
  removals,      \* tasks that delete an empty file
  seen,          \* per name: what the list says
  asked          \* history: downloads the person asked to cancel

dVars == <<items, files, live, cancelled, placeholders, removals, seen, asked>>

Ids == 1 .. MaxDownloads
Untracked == <<"none", NoPath>>
Unlisted == [status |-> "none", id |-> 0, resumable |-> FALSE]

DownloadsInit ==
  /\ items = <<>> /\ files = [p \in Names |-> "free"]
  /\ live = [i \in Ids |-> Untracked] /\ cancelled = {}
  /\ placeholders = <<>> /\ removals = {}
  /\ seen = [p \in Names |-> Unlisted] /\ asked = {}

PathOf(i) == IF items[i].settled THEN items[i].path ELSE NoPath
Track(i) == [live EXCEPT ![i] = <<items[i].url, PathOf(i)>>]

-----------------------------------------------------------------------------
(* unique_path creates the file that holds the name it finds free.         *)
Requested(url) ==
  LET p == CHOOSE q \in Names : files[q] = "free" /\ \A r \in 1 .. q - 1 : files[r] # "free" IN
  /\ Len(items) < MaxDownloads
  /\ items' = Append(items, [url |-> url, path |-> p, settled |-> FALSE, state |-> "going"])
  /\ files' = [files EXCEPT ![p] = "empty"]
  /\ placeholders' = Append(placeholders, <<url, p>>)
  /\ seen' = [seen EXCEPT ![p] = [Unlisted EXCEPT !.status = "started"]]
  /\ UNCHANGED <<live, cancelled, removals, asked>>

(* The engine settles on the path some time after it was told it.          *)
Settles(i) ==
  /\ items[i].state = "going" /\ ~items[i].settled
  /\ items' = [items EXCEPT ![i].settled = TRUE]
  /\ UNCHANGED <<files, live, cancelled, placeholders, removals, seen, asked>>

Progress(i) ==
  /\ items[i].state = "going"
  /\ live' = Track(i)
  /\ UNCHANGED <<items, files, cancelled, placeholders, removals, seen, asked>>

(* downloads_cancel; the engine is told, and may be late with it.          *)
CancelDownload(i) ==
  /\ cancelled' = cancelled \cup {i} /\ asked' = asked \cup {i}
  /\ UNCHANGED <<items, files, live, placeholders, removals, seen>>

(* downloads_resume, by the id the failure's notice carried.               *)
Resume(p) ==
  LET i == seen[p].id IN
  /\ seen[p].resumable /\ items[i].state \in Interruptions
  /\ items' = [items EXCEPT ![i].state = "going"]
  /\ UNCHANGED <<files, live, cancelled, placeholders, removals, seen, asked>>

(* take_placeholder: by the path, and then by the address.                 *)
Placeholder(url, path) ==
  LET byPath == SelectInSeq(placeholders, LAMBDA h : path # NoPath /\ h[2] = path)
  IN IF byPath # 0 THEN byPath ELSE SelectInSeq(placeholders, LAMBDA h : h[1] = url)

(* Mutant: what ended is found by its address.                             *)
EndedByAddress(url, path, tracked) == {j \in Ids : tracked[j][1] = url}

(* end: every download progress saw at the path that ended or, where there *)
(* is none, at its address.                                                *)
Ended(url, path, tracked) ==
  {j \in Ids : IF path = NoPath THEN tracked[j][1] = url ELSE tracked[j][2] = path}

(* on_download_updated: the last report, then Finished. A download that    *)
(* was interrupted can still be cancelled; only a cancelled one has no     *)
(* path yet. An interruption's reason is given and used within the step.   *)
Finished(i, how) ==
  LET url == items[i].url
      path == PathOf(i)
      ended == Ended(url, path, Track(i))
      holder == Placeholder(url, path)
      status == IF how = "done" THEN "finished"
                ELSE IF ended \cap cancelled # {} THEN "cancelled" ELSE "failed"
  IN
  /\ \/ items[i].state = "going" /\ (items[i].settled \/ how = "canceled")
     \/ items[i].state \in Interruptions /\ how = "canceled"
  /\ items' = [items EXCEPT ![i].state = how]
  /\ live' = [j \in Ids |-> IF j \in ended THEN Untracked ELSE Track(i)[j]]
  /\ cancelled' = cancelled \ ended
  /\ placeholders' = IF holder = 0 THEN placeholders ELSE RemoveAt(placeholders, holder)
  /\ removals' = IF holder = 0 \/ how = "done" THEN removals
                 ELSE removals \cup {placeholders[holder][2]}
  /\ files' = IF how = "done" THEN [files EXCEPT ![path] = "full"] ELSE files
  /\ \E j \in ended :
       seen' = IF path = NoPath THEN seen
               ELSE [seen EXCEPT ![path] =
                 [status |-> status, id |-> j,
                  resumable |-> status = "failed" /\ how = "network"]]
  /\ UNCHANGED asked

(* remove_placeholder, off the engine's thread.                            *)
Removes(p) ==
  /\ removals' = removals \ {p}
  /\ files' = IF files[p] = "empty" THEN [files EXCEPT ![p] = "free"] ELSE files
  /\ UNCHANGED <<items, live, cancelled, placeholders, seen, asked>>

DownloadsNext ==
  \/ \E url \in Pages : Requested(url)
  \/ \E i \in DOMAIN items :
       \/ Settles(i) \/ Progress(i) \/ CancelDownload(i)
       \/ \E how \in {"done", "canceled"} \cup Interruptions : Finished(i, how)
  \/ \E p \in Names : Resume(p)
  \/ \E p \in removals : Removes(p)

DownloadsSafety == DownloadsInit /\ [][DownloadsNext]_dVars

-----------------------------------------------------------------------------
DownloadsTypeOK ==
  /\ files \in [Names -> {"free", "empty", "full"}]
  /\ cancelled \subseteq Ids /\ asked \subseteq Ids /\ removals \subseteq Names
  /\ \A i \in DOMAIN items :
       items[i].state \in {"going", "done", "canceled"} \cup Interruptions

Shares(i) == \E j \in DOMAIN items \ {i} : items[j].path = items[i].path

(* Of a download that never had to share its name, the list says that it   *)
(* finished exactly when it did, that it was cancelled only if the person  *)
(* asked for it, and that it can be resumed only by its own id; whatever   *)
(* else came from the same address, ended or was cancelled meanwhile.      *)
OwnOutcome ==
  /\ DownloadsTypeOK
  /\ \A i \in DOMAIN items :
       LET row == seen[items[i].path] IN ~Shares(i) =>
         /\ row.status = "finished" <=> items[i].state = "done"
         /\ row.status = "cancelled" => i \in asked
         /\ row.id \in {0, i}

(* "Two downloads of the same name starting together ... the second        *)
(* overwrote the first -- the one thing this function exists to prevent":  *)
(* no two downloads under way are going to one file.                       *)
NamesApart ==
  \A i, j \in DOMAIN items :
    i # j /\ items[i].state = "going" /\ items[j].state = "going"
      => items[i].path # items[j].path
=============================================================================
