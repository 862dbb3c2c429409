-------------------------------- MODULE Page --------------------------------
(***************************************************************************)
(* web/app.js and web/briefing.js: one open dashboard page, the event      *)
(* stream that tells it to look, and the replies that may paint it.        *)
(*                                                                         *)
(* Every event, a toggle of Oracle and a choice of game start a fetch of   *)
(* /api/briefing and abort the one before.  The stream is lost and opened  *)
(* again; the server keeps no events for a page that is not subscribed.    *)
(*                                                                         *)
(* Abstractions.  A snapshot is its session and revision; what the page    *)
(* paints is the snapshot and the evidence mode it was served in.  The     *)
(* timers that poll for generated prose refresh as well and are left out.  *)
(***************************************************************************)
EXTENDS Naturals, Sequences, Absence

CONSTANTS
    MaxPublished,       \* bound on the snapshots published
    MaxToggles          \* bound on clicks: Oracle, the game, a lost stream

Modes == {"oracle", "fair"}

VARIABLES
    server,         \* store.snapshot: [session, revision], or None in a switch
    counter,        \* the newest [session, revision] there was
    unsaid,         \* events the server still has to publish, in no order
    showOracle, toggles,
    inbox,          \* this page's queue in store._subscribers
    subscribed,
    fetch,          \* the newest request: its mode, the reply under way, or that it failed
    late,           \* the reply to a superseded request that an abort missed
    screen,         \* what is painted, or None
    dataMode, sessionShown, revisionShown,      \* state.dataMode, .session, .revision
    gap             \* did an event pass this page by since its last fetch?

serverVars == <<server, counter, unsaid>>
painted    == <<screen, dataMode, sessionShown, revisionShown>>
pageVars   == <<serverVars, showOracle, toggles, inbox, subscribed, fetch, late, painted, gap>>

NoFetch == [at |-> "none", mode |-> None, reply |-> None]
Events  == {"state_changed", "game_changed"}
Mode(oracle) == IF oracle THEN "oracle" ELSE "fair"

PageTypeOK ==
    /\ server # None => server = counter
    /\ unsaid \subseteq Events /\ inbox \in Seq(Events)
    /\ showOracle \in BOOLEAN /\ subscribed \in BOOLEAN /\ gap \in BOOLEAN
    /\ fetch.at \in {"none", "sent", "answered", "failed"}
    /\ fetch.at \in {"sent", "failed"} => fetch.reply = None
    /\ screen # None => /\ screen.mode = dataMode
                        /\ screen.revision = revisionShown /\ screen.session = sessionShown
                        /\ revisionShown <= counter.revision
    /\ inbox # <<>> => subscribed

PageInit ==
    /\ server = [session |-> 1, revision |-> 1] /\ counter = server
    /\ unsaid = {}
    /\ showOracle \in BOOLEAN /\ toggles = 0
    /\ inbox = <<>> /\ subscribed = FALSE
    /\ fetch = [at |-> "sent", mode |-> Mode(showOracle), reply |-> None]
    /\ late = None
    /\ screen = None /\ dataMode = None /\ sessionShown = None /\ revisionShown = 0
    /\ gap = FALSE

-----------------------------------------------------------------------------
(* The server, as GameWatch has it: snapshots first, events later.         *)

NewSnapshot ==
    /\ counter.revision < MaxPublished
    /\ \E s \in {counter.session + 1} \cup (IF server = None THEN {} ELSE {counter.session}) :
          server' = [session |-> s, revision |-> counter.revision + 1]
    /\ counter' = server'
    /\ unsaid' = unsaid \cup {IF server = None THEN "game_changed" ELSE "state_changed"}
    /\ UNCHANGED <<showOracle, toggles, inbox, subscribed, fetch, late, painted, gap>>

Switch ==
    /\ server # None /\ counter.revision < MaxPublished
    /\ server' = None
    /\ UNCHANGED <<counter, unsaid, showOracle, toggles, inbox, subscribed, fetch, late,
                   painted, gap>>

(* store.publish(): put in the queue of every subscriber.                  *)
Send(e) ==
    /\ e \in unsaid
    /\ unsaid' = unsaid \ {e}
    /\ inbox' = IF subscribed THEN Append(inbox, e) ELSE inbox
    /\ gap' = (gap \/ ~subscribed)
    /\ UNCHANGED <<server, counter, showOracle, toggles, subscribed, fetch, late, painted>>

(* GET /api/briefing: one snapshot, or the 503 of a switch.                *)
Serve ==
    /\ fetch.at = "sent"
    /\ fetch' = [fetch EXCEPT !.at = "answered", !.reply = server]
    /\ UNCHANGED <<serverVars, showOracle, toggles, inbox, subscribed, late, painted, gap>>

-----------------------------------------------------------------------------
(* refresh(): a new fetch in the mode selected now.  The abort stops the   *)
(* old one unless its reply is already being read.                         *)
Refresh(oracle) ==
    /\ fetch' = [at |-> "sent", mode |-> Mode(oracle), reply |-> None]
    /\ late' \in {None} \cup IF fetch.at = "answered" /\ fetch.reply # None THEN {fetch} ELSE {}
    /\ gap' = FALSE

(* Mutant: any reply may paint.                                            *)
AcceptAnyResponse(f) == f.reply # None

(* Mutant: the sequence number is not compared.                            *)
AcceptOverlappingResponse(f) ==
    /\ f.reply # None
    /\ ~(f.reply.session = sessionShown /\ f.reply.revision < revisionShown)

(* acceptResponse(): the newest request's reply, if it is not older than   *)
(* what is on screen from the same session.                                *)
AcceptResponse(f) ==
    /\ f.reply # None
    /\ f = fetch
    /\ ~(f.reply.session = sessionShown /\ f.reply.revision < revisionShown)

Paint(f) ==
    IF AcceptResponse(f)
    THEN /\ screen' = [session |-> f.reply.session, revision |-> f.reply.revision,
                       mode |-> f.mode]
         /\ dataMode' = f.mode
         /\ sessionShown' = f.reply.session /\ revisionShown' = f.reply.revision
    ELSE UNCHANGED painted

Receive ==
    /\ fetch.at = "answered"
    /\ Paint(fetch)
    /\ fetch' = NoFetch
    /\ UNCHANGED <<serverVars, showOracle, toggles, inbox, subscribed, late, gap>>

(* The handler raises, or the connection breaks, before the reply or in    *)
(* its body: refresh() returns, and nothing makes it try again.            *)
FetchFails ==
    /\ fetch.at \in {"sent", "answered"}
    /\ fetch' = [fetch EXCEPT !.at = "failed", !.reply = None]
    /\ UNCHANGED <<serverVars, showOracle, toggles, inbox, subscribed, late, painted, gap>>

ReceiveLate ==
    /\ late # None
    /\ Paint(late)
    /\ late' = None
    /\ UNCHANGED <<serverVars, showOracle, toggles, inbox, subscribed, fetch, gap>>

(* onmessage: every event refreshes.                                       *)
OnMessage ==
    /\ inbox # <<>>
    /\ inbox' = Tail(inbox)
    /\ screen' = IF Head(inbox) = "game_changed" THEN None ELSE screen
    /\ Refresh(showOracle)
    /\ UNCHANGED <<serverVars, showOracle, toggles, subscribed, dataMode, sessionShown,
                   revisionShown>>

Toggle ==
    /\ toggles < MaxToggles
    /\ toggles' = toggles + 1
    /\ showOracle' = ~showOracle
    /\ Refresh(showOracle')
    /\ UNCHANGED <<serverVars, inbox, subscribed, painted>>

(* The game selector, when its POST has returned.                          *)
ChooseGame ==
    /\ toggles < MaxToggles
    /\ toggles' = toggles + 1
    /\ screen' = None
    /\ Refresh(showOracle)
    /\ UNCHANGED <<serverVars, showOracle, inbox, subscribed, dataMode, sessionShown,
                   revisionShown>>

(* connect(), and onerror: what was queued is gone; opening the stream     *)
(* again fetches nothing.                                                  *)
Connect ==
    /\ ~subscribed
    /\ subscribed' = TRUE
    /\ UNCHANGED <<serverVars, showOracle, toggles, inbox, fetch, late, painted, gap>>

Lose ==
    /\ subscribed /\ toggles < MaxToggles
    /\ toggles' = toggles + 1
    /\ subscribed' = FALSE
    /\ gap' = (gap \/ inbox # <<>>)
    /\ inbox' = <<>>
    /\ UNCHANGED <<serverVars, showOracle, fetch, late, painted>>

PageNext ==
    \/ NewSnapshot \/ Switch \/ Serve \/ FetchFails \/ Receive \/ ReceiveLate
    \/ OnMessage \/ Toggle \/ ChooseGame \/ Connect \/ Lose
    \/ \E e \in Events : Send(e)

(* The loop and the browser do what is due; the first rebuild after a      *)
(* switch comes, as GameWatch shows.                                       *)
PageFairness ==
    /\ WF_pageVars(server = None /\ NewSnapshot)
    /\ WF_pageVars(Serve) /\ WF_pageVars(Receive) /\ WF_pageVars(ReceiveLate)
    /\ WF_pageVars(OnMessage) /\ WF_pageVars(Connect)
    /\ \A e \in Events : WF_pageVars(Send(e))

PageSpec == PageInit /\ [][PageNext]_pageVars /\ PageFairness

-----------------------------------------------------------------------------
(* Properties.                                                             *)

(* What the page comes to.                                                 *)
Shows ==
    /\ server # None
    /\ screen = [session |-> server.session, revision |-> server.revision,
                  mode |-> Mode(showOracle)]

(* Nothing has made the page look since an event was published while its   *)
(* stream was down (or not yet open), or since a fetch of its own failed.  *)
Overlooked == gap \/ fetch.at = "failed"

(* "A reply that overtook a newer one on the wire is dropped": within a    *)
(* session the page never goes back to an older snapshot.                  *)
ScreenNeverGoesBack ==
    [][screen # None /\ screen' # None /\ screen'.session = screen.session
          => screen'.revision >= screen.revision]_pageVars
=============================================================================
