------------------------------ MODULE GameWatch ------------------------------
(***************************************************************************)
(* api/app.py: which game is advised on, and who watches its logs.  With   *)
(* games/selection.py (the pin and detection) and ingest/poller.py.        *)
(*                                                                         *)
(* The event loop runs the supervisor, the player's POST /api/game and the *)
(* watcher; rebuilds run in worker threads.  A cancelled watcher's thread  *)
(* goes on to the end.  Code between two awaits is one action.             *)
(*                                                                         *)
(* Abstractions.  A game's logs are the number of bursts written so far,   *)
(* which is also what a stat() sweep tells apart.  A rebuild reads the     *)
(* game, the generation and the logs in one step: SnapshotStore looks at   *)
(* the reads one by one.  What detection finds is the environment's choice.*)
(***************************************************************************)
EXTENDS Naturals, Absence

CONSTANTS
    Games,
    Threads,            \* worker threads for rebuilds the watcher starts
    MaxWritten,         \* bound on the bursts of log writes, per game
    MaxChoices,         \* bound on pins, unpins and changes of detection
    MayFail             \* may a rebuild raise?

Start == "start"            \* the thread start_watching awaits

ASSUME GameWatchNone == None \notin Games /\ None \notin Nat
ASSUME GameWatchBounds == MaxWritten \in Nat /\ MaxChoices \in Nat /\ MayFail \in BOOLEAN
ASSUME GameWatchStart == Start \notin Threads

Unasked == "unasked"        \* the supervisor is not about to apply anything
Jobs  == Threads \cup {Start}

VARIABLES
    written,            \* logs on disk, per game
    pin, detected,      \* GameSelector._pinned; what detect() would find now
    choices,            \* how often pin or detected have changed
    active, generation, \* store.profile and store._generation
    shown,              \* store.snapshot
    holder,             \* who is inside selection_lock (or in the lifespan's start)
    resolved,           \* what the supervisor's selector.resolve() returned, to apply
    watcher,            \* the task watch(), and its last and pending
    initial,            \* the snapshot start_watching took
    jobs,               \* rebuilds in worker threads
    told,               \* an event was published since the snapshot last changed
    missed              \* the newest change was consumed by a rebuild that raised
                        \* or that an older one overtook

outside == <<written, pin, detected, choices>>
store   == <<active, generation, shown>>
vars    == <<outside, store, holder, resolved, watcher, initial, jobs, told, missed>>

Versions == 0 .. MaxWritten
Idle     == [at |-> "idle", game |-> None, generation |-> 0, version |-> 0]

TypeOK ==
    /\ written \in [Games -> Versions] /\ choices \in 0 .. MaxChoices
    /\ pin \in Games \cup {None} /\ detected \in Games \cup {None}
    /\ active \in Games \cup {None} /\ generation \in Nat
    /\ shown = None \/ /\ shown.game = active /\ shown.generation = generation
                       /\ shown.version <= written[active]
    /\ holder \in {"nobody", "lifespan", "supervisor", "player"}
    /\ resolved \in Games \cup {None, Unasked}
    /\ watcher # None =>
          /\ watcher.game \in Games /\ watcher.thread \in Threads \cup {None}
          /\ watcher.last <= written[watcher.game]
          /\ watcher.pending # None => watcher.pending > watcher.last
    /\ initial \in Versions
    /\ \A j \in Jobs : jobs[j].at \in {"idle", "queued", "read", "announce"}
    /\ jobs[Start].at # "idle" => holder # "nobody" /\ watcher = None
    /\ told \in BOOLEAN /\ missed \in BOOLEAN

-----------------------------------------------------------------------------
(* games/selection.py.                                                     *)

(* resolve(): the pin wins over detection, always.                         *)
Resolve(p, d) == IF p # None THEN p ELSE d

(* What activate() calls a change: "cannot tell" leaves the game alone.    *)
IsSwitch(g) == g # None /\ g # active

-----------------------------------------------------------------------------
Init ==
    /\ written \in [Games -> {0}]
    /\ pin \in Games \cup {None} /\ detected \in Games \cup {None}
    /\ choices = 0
    /\ active = Resolve(pin, detected) /\ generation = 0
    /\ shown = None /\ resolved = Unasked
    /\ watcher = None /\ initial = 0
    /\ jobs = [j \in Jobs |-> IF j = Start /\ active # None
                              THEN [Idle EXCEPT !.at = "queued"] ELSE Idle]
    /\ holder = IF active = None THEN "nobody" ELSE "lifespan"
    /\ told = TRUE /\ missed = FALSE

(* The game writes a burst of rows.                                        *)
Play(g) ==
    /\ written[g] < MaxWritten
    /\ written' = [written EXCEPT ![g] = @ + 1]
    /\ UNCHANGED <<pin, detected, choices, store, holder, resolved, watcher, initial, jobs,
                   told, missed>>

(* A game starts, or the freshest log grows too old to say.                *)
Detect(d) ==
    /\ choices < MaxChoices /\ d # detected
    /\ detected' = d /\ choices' = choices + 1
    /\ UNCHANGED <<written, pin, store, holder, resolved, watcher, initial, jobs, told, missed>>

-----------------------------------------------------------------------------
(* start_watching(), up to its await: look at the files, then read them.   *)
StartWatching(g) ==
    /\ initial' = written[g]
    /\ jobs' = [jobs EXCEPT ![Start] = [Idle EXCEPT !.at = "queued"]]

(* Mutant: the old watcher is left running.                                *)
RetireNothing == UNCHANGED watcher

(* restart_watcher(): the old task is cancelled; its thread is not.        *)
Retire == watcher' = None

(* apply_selection(), up to its await: switch_to, and the watcher's start. *)
(* Says whether the lock is still held.                                    *)
Apply(g, who) ==
    \/ /\ IsSwitch(g)
       /\ active' = g /\ generation' = generation + 1
       /\ shown' = None /\ told' = FALSE /\ missed' = FALSE
       /\ Retire
       /\ StartWatching(g)
       /\ holder' = who
    \/ /\ ~IsSwitch(g)
       /\ holder' = "nobody"
       /\ UNCHANGED <<store, watcher, initial, jobs, told, missed>>

(* Mutant: POST /api/game does not wait for the supervisor.                *)
MayChooseAnyTime == jobs[Start].at = "idle"

MayChoose == holder = "nobody"

(* POST /api/game: pin or unpin, resolve and apply, under the lock.        *)
Choose(c) ==
    /\ MayChoose
    /\ choices < MaxChoices /\ c # pin
    /\ pin' = c /\ choices' = choices + 1
    /\ Apply(Resolve(c, detected), "player")
    /\ UNCHANGED <<written, detected, resolved>>

(* supervise(): take the lock and resolve in a thread ...                  *)
Look ==
    /\ holder = "nobody"
    /\ holder' = "supervisor"
    /\ resolved' = Resolve(pin, detected)
    /\ UNCHANGED <<outside, store, watcher, initial, jobs, told, missed>>

(* ... and apply what it returned.                                         *)
Follow ==
    /\ resolved # Unasked /\ jobs[Start].at = "idle"
    /\ Apply(resolved, "supervisor")
    /\ resolved' = Unasked
    /\ UNCHANGED outside

-----------------------------------------------------------------------------
(* watch(): one turn of its loop.                                          *)

(* Seen twice, one interval apart: the game has finished writing.          *)
Settled(current) == watcher.pending = current

Tick ==
    LET current == written[watcher.game]
    IN  /\ watcher # None /\ watcher.thread = None
        /\ \/ /\ current = watcher.last /\ watcher.pending # None
              /\ watcher' = [watcher EXCEPT !.pending = None]
              /\ UNCHANGED jobs
           \/ /\ current # watcher.last /\ ~Settled(current)
              /\ watcher' = [watcher EXCEPT !.pending = current]
              /\ UNCHANGED jobs
           \/ /\ current # watcher.last /\ Settled(current)
              /\ \E t \in Threads :
                    /\ jobs[t].at = "idle"
                    /\ watcher' = [watcher EXCEPT !.last = current, !.pending = None,
                                                  !.thread = t]
                    /\ jobs' = [jobs EXCEPT ![t].at = "queued"]
        /\ UNCHANGED <<outside, store, holder, resolved, initial, told, missed>>

-----------------------------------------------------------------------------
(* store.rebuild() in thread j, and what waits for its end.                *)

(* Thread t ends: the watcher that awaits it, if it was not cancelled,     *)
(* goes back to sleep.                                                     *)
Wake(t) ==
    watcher' = IF watcher # None /\ watcher.thread = t
               THEN [watcher EXCEPT !.thread = None] ELSE watcher

(* Mutant: the files are looked at when the first rebuild is done.         *)
StartedLookingLate ==
    /\ watcher' = [game |-> active, last |-> written[active], pending |-> None,
                   thread |-> None]
    /\ holder' = "nobody"

(* The rest of start_watching(), restart_watcher() and apply_selection():  *)
(* the task is created, the pages are told (at start there are none), and  *)
(* the lock is released.                                                   *)
Started ==
    /\ watcher' = [game |-> active, last |-> initial, pending |-> None, thread |-> None]
    /\ holder' = "nobody"

(* Mutant: a switch tells nobody.                                          *)
TellNobody == told' = (holder = "lifespan")

TellOfSwitch == told' = TRUE

Read(j) ==
    /\ jobs[j].at = "queued"
    /\ jobs' = [jobs EXCEPT ![j] = [at |-> "read", game |-> active,
                                    generation |-> generation, version |-> written[active]]]
    /\ UNCHANGED <<outside, store, holder, resolved, watcher, initial, told, missed>>

Current(j)  == jobs[j].generation = generation
Reading(j)  == [game |-> jobs[j].game, generation |-> jobs[j].generation,
                version |-> jobs[j].version]

(* Does publishing j leave a change the watcher is done with unshown: one  *)
(* that was on screen, or one a rebuild raised on?                         *)
LeavesMissed(j) ==
    \/ shown # None /\ shown.version > jobs[j].version
    \/ missed /\ watcher # None /\ watcher.last > jobs[j].version

(* The rebuild start_watching awaits is published, or raises: the lock is  *)
(* released either way, by an exception there is no new watcher.           *)
PublishFirst ==
    /\ jobs[Start].at = "read" /\ Current(Start)
    /\ shown' = Reading(Start)
    /\ missed' = LeavesMissed(Start)
    /\ Started /\ TellOfSwitch
    /\ jobs' = [jobs EXCEPT ![Start] = Idle]
    /\ UNCHANGED <<outside, active, generation, resolved, initial>>

FirstFails ==
    /\ MayFail /\ jobs[Start].at = "queued" /\ holder # "lifespan"
    /\ holder' = "nobody"
    /\ jobs' = [jobs EXCEPT ![Start] = Idle]
    /\ UNCHANGED <<outside, store, resolved, watcher, initial, told, missed>>

(* on_change(): publish the rebuild, then hand the event to the loop; a    *)
(* rebuild of a game left behind is discarded.                             *)
Publish(t) ==
    /\ jobs[t].at = "read" /\ Current(t)
    /\ shown' = Reading(t)
    /\ missed' = LeavesMissed(t)
    /\ told' = FALSE
    /\ jobs' = [jobs EXCEPT ![t] = [Idle EXCEPT !.at = "announce"]]
    /\ UNCHANGED <<outside, active, generation, holder, resolved, watcher, initial>>

Discard(t) ==
    /\ jobs[t].at = "read" /\ ~Current(t)
    /\ jobs' = [jobs EXCEPT ![t] = Idle]
    /\ Wake(t)
    /\ UNCHANGED <<outside, store, holder, resolved, initial, told, missed>>

Announce(t) ==
    /\ jobs[t].at = "announce"
    /\ told' = TRUE
    /\ jobs' = [jobs EXCEPT ![t] = Idle]
    /\ Wake(t)
    /\ UNCHANGED <<outside, store, holder, resolved, initial, missed>>

(* A rebuild raises: watch() logs it; the change it was for is consumed.   *)
Fails(t) ==
    /\ MayFail /\ jobs[t].at = "queued"
    /\ jobs' = [jobs EXCEPT ![t] = Idle]
    /\ missed' = TRUE
    /\ Wake(t)
    /\ UNCHANGED <<outside, store, holder, resolved, initial, told>>

-----------------------------------------------------------------------------
Next ==
    \/ \E g \in Games : Play(g)
    \/ \E d \in Games \cup {None} : Detect(d) \/ Choose(d)
    \/ Look \/ Follow \/ Tick \/ PublishFirst \/ FirstFails
    \/ \E j \in Jobs : Read(j)
    \/ \E t \in Threads : Publish(t) \/ Discard(t) \/ Announce(t) \/ Fails(t)

(* The loop and the thread pool run what is ready; the poll never ends.    *)
Fairness ==
    /\ WF_vars(Look) /\ WF_vars(Follow) /\ WF_vars(Tick) /\ WF_vars(PublishFirst)
    /\ \A j \in Jobs : WF_vars(Read(j))
    /\ \A t \in Threads : WF_vars(Publish(t) \/ Discard(t) \/ Announce(t))

Spec == Init /\ [][Next]_vars /\ Fairness

-----------------------------------------------------------------------------
(* Properties.                                                             *)

(* "An explicit choice wins over detection, always": between choices and   *)
(* ticks of the supervisor, however slow its resolve is, a pinned game is  *)
(* the game on screen.                                                     *)
PinnedIsActive == pin # None => active = pin

(* "Neither path can leave the poller watching the game just switched away *)
(* from": the one watcher there is watches the active game.                *)
WatchesActive == watcher # None => watcher.game = active

(* Nobody watches the active game: a switch whose first rebuild raised     *)
(* leaves this behind, and no later tick repairs it.                       *)
Unwatched == holder = "nobody" /\ watcher = None /\ active # None

UpToDate == active # None => shown # None /\ shown.version = written[active]

(* The dashboard's figures follow the game: what was written reaches the   *)
(* screen, unless the rebuild of the newest change raised or was overtaken *)
(* by an older one, or the game's first rebuild did.                       *)
Followed == []<>(UpToDate \/ missed \/ Unwatched)

(* The pages hear of every change of the snapshot in the end.              *)
Told == []<>(told \/ Unwatched)
=============================================================================
