--------------------------- MODULE MCApplication ---------------------------
(* The application around the store, on a small instance: who watches      *)
(* which game (GameWatch), what requests share in the server               *)
(* (SittingRequests), and what one page shows (Page).  Each meets the      *)
(* other two only through published snapshots and events, which it         *)
(* produces itself in any order; a behaviour is one of the three scenes.   *)
EXTENDS GameWatch, SittingRequests, Page

VARIABLE scene

(* No page is open.                                                        *)
NoPage ==
    /\ server = [session |-> 1, revision |-> 1] /\ counter = server /\ unsaid = {}
    /\ showOracle = TRUE /\ toggles = 0 /\ inbox = <<>> /\ subscribed = TRUE
    /\ fetch = NoFetch /\ late = None
    /\ screen = None /\ dataMode = None /\ sessionShown = None /\ revisionShown = 0
    /\ gap = FALSE

AppInit ==
    /\ scene \in {"watch", "requests", "page"}
    /\ Init /\ RequestsInit
    /\ scene # "watch" => pin = None /\ detected = None
    /\ IF scene = "page" THEN PageInit ELSE NoPage

AppNext ==
    /\ UNCHANGED scene
    /\ \/ scene = "watch"    /\ Next         /\ UNCHANGED <<requestVars, pageVars>>
       \/ scene = "requests" /\ RequestsNext /\ UNCHANGED <<vars, pageVars>>
       \/ scene = "page"     /\ PageNext     /\ UNCHANGED <<vars, requestVars>>

appVars == <<scene, vars, requestVars, pageVars>>

(* The fairness of GameWatch in its scene, and of Page, which has nothing  *)
(* to do in the others.                                                    *)
AppFairness ==
    /\ WF_vars(scene = "watch" /\ Look) /\ WF_vars(scene = "watch" /\ Follow)
    /\ WF_vars(scene = "watch" /\ Tick) /\ WF_vars(scene = "watch" /\ PublishFirst)
    /\ \A j \in Jobs : WF_vars(scene = "watch" /\ Read(j))
    /\ \A t \in Threads : WF_vars(scene = "watch" /\ (Publish(t) \/ Discard(t) \/ Announce(t)))
    /\ PageFairness

AppSpec == AppInit /\ [][AppNext]_appVars /\ AppFairness

(* api/app.py and ingest/poller.py: the figures follow the game (GameWatch). *)
GameFollowed == []<>(scene = "watch" => UpToDate \/ missed \/ Unwatched)

(* api/app.py: the pages hear of every change of the snapshot (GameWatch). *)
PagesTold == []<>(scene = "watch" => told \/ Unwatched)

(* web/app.js: through overlapping, aborted, late and failing fetches the   *)
(* page comes to show the newest snapshot in the mode selected, but for an  *)
(* event that passed it by and a last fetch that failed, after which it     *)
(* does not look again by itself (Page).                                    *)
PageFollows == []<>(scene = "page" => Shows \/ Overlooked)
=============================================================================
