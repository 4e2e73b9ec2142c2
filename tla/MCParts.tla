------------------------------ MODULE MCParts ------------------------------
(* Components that share nothing: a behaviour picks one and is a behaviour *)
(* of it, the others staying where they start, so that one exploration is  *)
(* the sum of theirs and not the product.                                  *)
(* Of a tab's crashes: a budget of one; and three crashes, so that one is  *)
(* refused and one comes after a quiet spell, in one view, or two over two *)
(* views, so that reports and recoveries of the first come late.           *)
EXTENDS History, Recovery, DbRecovery, Permissions, Loading, Downloads, Recorder,
        Subtitles, Presence, Crash

VARIABLE part

MCFrames == {"top", "child"}
MCKinds == {"camera", "microphone"}
MCGroups == {{"camera"}, MCKinds}
MCModes == <<"window", "page">>

CrashBound == bound' = 1 \/ crash' < MaxCrashes

MCInit ==
  /\ part \in {"history", "recovery", "database", "permissions", "loading", "downloads",
               "recorder", "subtitles", "presence", "crash"}
  /\ HistoryInit /\ RecoveryInit /\ DbInit /\ PermissionsInit /\ LoadingInit
  /\ DownloadsInit /\ RecorderInit /\ SubtitlesInit /\ PresenceInit /\ CrashInit

MCNext ==
  \/ /\ part = "history" /\ HistoryNext
     /\ UNCHANGED <<part, rVars, bVars, pVars, lVars, dVars, cVars, sVars, nVars, kVars>>
  \/ /\ part = "recovery" /\ RecoveryNext
     /\ UNCHANGED <<part, hVars, bVars, pVars, lVars, dVars, cVars, sVars, nVars, kVars>>
  \/ /\ part = "database" /\ DbNext
     /\ UNCHANGED <<part, hVars, rVars, pVars, lVars, dVars, cVars, sVars, nVars, kVars>>
  \/ /\ part = "permissions" /\ PermissionsNext
     /\ UNCHANGED <<part, hVars, rVars, bVars, lVars, dVars, cVars, sVars, nVars, kVars>>
  \/ /\ part = "loading" /\ LoadingNext
     /\ UNCHANGED <<part, hVars, rVars, bVars, pVars, dVars, cVars, sVars, nVars, kVars>>
  \/ /\ part = "downloads" /\ DownloadsNext
     /\ UNCHANGED <<part, hVars, rVars, bVars, pVars, lVars, cVars, sVars, nVars, kVars>>
  \/ /\ part = "recorder" /\ RecorderNext
     /\ UNCHANGED <<part, hVars, rVars, bVars, pVars, lVars, dVars, sVars, nVars, kVars>>
  \/ /\ part = "subtitles" /\ SubtitlesNext
     /\ UNCHANGED <<part, hVars, rVars, bVars, pVars, lVars, dVars, cVars, nVars, kVars>>
  \/ /\ part = "presence" /\ PresenceNext
     /\ UNCHANGED <<part, hVars, rVars, bVars, pVars, lVars, dVars, cVars, sVars, kVars>>
  \/ /\ part = "crash" /\ CrashNext /\ CrashBound
     /\ UNCHANGED <<part, hVars, rVars, bVars, pVars, lVars, dVars, cVars, sVars, nVars>>
=============================================================================
