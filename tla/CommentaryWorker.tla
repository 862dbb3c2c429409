--------------------------- MODULE CommentaryWorker ---------------------------
(***************************************************************************)
(* civ_advisor/llm/worker.py: the background generator of commentary.      *)
(*                                                                         *)
(* One generation runs at a time, on an executor of one thread; one more   *)
(* request may wait in `_pending', and the newest wins the place.  Rebuild *)
(* threads schedule the snapshot they published (oracle mode); the         *)
(* dashboards ask for the commentary of a snapshot in either mode, and     *)
(* asking schedules what is missing.  A request computes its prompt        *)
(* without the lock, from a snapshot that may no longer be on screen, so   *)
(* any published snapshot may be asked about at any time.                  *)
(*                                                                         *)
(* Abstractions.  A prompt is its digest, or None when nothing survived    *)
(* the filtering for that mode.  A session is folded into the slot: what   *)
(* is here is one session, whose turns only advance.  Of the model's       *)
(* answer only its acceptance matters.                                     *)
(***************************************************************************)
EXTENDS Naturals

CONSTANTS
    Digests,        \* prompts
    Turns,          \* analysis turns
    Rebuilders,     \* threads that rebuild and then schedule
    MaxRevision,    \* bound on snapshots
    MayClose,       \* is the application shut down?
    None

ASSUME NoneAssumption == None \notin Digests
ASSUME TurnsAssumption == Turns \subseteq Nat \ {0} /\ Turns # {}
ASSUME RevisionAssumption == MaxRevision \in Nat
ASSUME CloseAssumption == MayClose \in BOOLEAN

Modes     == {"oracle", "fair"}
Revisions == 1 .. MaxRevision
Keys      == [mode : Modes, turn : Turns, digest : Digests]
Settled   == {"ready", "error"}
Jobs      == [key : Keys, at : {"submitted", "running", "stored"}]

ASSUME NoneIsNoRequest == None \notin Keys \cup Jobs

VARIABLES
    shown,      \* revision on screen; the snapshots so far are 1 .. shown
    shots,      \* [turn, digest by mode] of every snapshot
    scheduling, \* the revision each rebuild thread has yet to schedule, or 0
    results,    \* _results: status of each key
    ready,      \* _ready: turn of the newest ready prose of each mode, or 0
    active,     \* _active: the key being generated, or None
    pending,    \* _pending: the key of the request that waits, or None
    job,        \* [key, at]: the executor's task, or None
    closed,     \* _closed
    shutdown,   \* the executor takes no more tasks
    generations \* how often each key's prompt was given to the model

worker == <<results, ready, active, pending, job, generations>>
vars   == <<shown, shots, scheduling, results, ready, active, pending, job,
            closed, shutdown, generations>>

TypeOK ==
    /\ shown \in 0 .. MaxRevision
    /\ shots \in [Revisions -> [turn : Turns, digest : [Modes -> Digests \cup {None}]]]
    /\ scheduling \in [Rebuilders -> 0 .. MaxRevision]
    /\ results \in [Keys -> {"none", "queued", "generating"} \cup Settled]
    /\ ready \in [Modes -> Turns \cup {0}]
    /\ active \in Keys \cup {None}
    /\ pending \in Keys \cup {None}
    /\ job \in Jobs \cup {None}
    /\ closed \in BOOLEAN /\ shutdown \in BOOLEAN
    /\ generations \in [Keys -> Nat]

AnyTurn == CHOOSE t \in Turns : TRUE      \* of a snapshot not published yet

Init ==
    /\ shown = 0
    /\ shots = [r \in Revisions |-> [turn |-> AnyTurn, digest |-> [m \in Modes |-> None]]]
    /\ scheduling = [t \in Rebuilders |-> 0]
    /\ results = [k \in Keys |-> "none"]
    /\ ready = [m \in Modes |-> 0]
    /\ active = None /\ pending = None /\ job = None
    /\ closed = FALSE /\ shutdown = FALSE
    /\ generations = [k \in Keys |-> 0]

-----------------------------------------------------------------------------
(* Requests.                                                               *)

(* _request(): None when there is nothing to narrate in this mode.         *)
Narrates(revision, mode) == shots[revision].digest[mode] # None

Key(revision, mode) ==
    [mode |-> mode, turn |-> shots[revision].turn, digest |-> shots[revision].digest[mode]]

Slot(key) == <<key.mode, key.turn>>

(* _start_locked(), given the results as the caller left them.  After      *)
(* shutdown the submission raises once the rest is done.                   *)
Start(key, held) ==
    /\ active' = key
    /\ results' = [held EXCEPT ![key] = "generating"]
    /\ job' = IF shutdown THEN None ELSE [key |-> key, at |-> "submitted"]

(* The one waiting place goes to the newest request; the placeholder of    *)
(* the request it replaces is dropped.                                     *)
Displaced(key) ==
    IF pending # None /\ pending # key
    THEN [results EXCEPT ![pending] = "none"] ELSE results

Wait(key, held) ==
    /\ pending' = key
    /\ results' = [held EXCEPT ![key] = "queued"]
    /\ UNCHANGED <<active, job>>

Ignore == UNCHANGED <<results, active, pending, job>>

StartOrWait(key, held) ==
    IF active = None THEN Start(key, results) /\ UNCHANGED pending
                     ELSE Wait(key, held)

(* Mutant: whatever has a result, even a placeholder, is not queued again. *)
EnqueueOnlyNew(key) ==
    IF results[key] # "none" THEN Ignore ELSE StartOrWait(key, Displaced(key))

(* Mutant: a failed generation is tried again.                             *)
EnqueueRetryingErrors(key) ==
    IF results[key] = "ready" \/ key = active
    THEN Ignore ELSE StartOrWait(key, Displaced(key))

(* _enqueue_locked().                                                      *)
Enqueue(key) ==
    IF results[key] \in Settled \/ key = active
    THEN Ignore ELSE StartOrWait(key, Displaced(key))

(* schedule() with nothing to narrate: the request waiting in this slot is *)
(* dropped.                                                                *)
Unschedule(slot) ==
    /\ pending' = IF pending # None /\ Slot(pending) = slot THEN None ELSE pending
    /\ UNCHANGED <<results, active, job>>

-----------------------------------------------------------------------------
(* The callers.                                                            *)

(* A rebuild publishes a snapshot; its thread schedules it afterwards.     *)
Publish(t, turn, digest) ==
    /\ scheduling[t] = 0 /\ shown < MaxRevision
    /\ shown > 0 => turn >= shots[shown].turn
    /\ shown' = shown + 1
    /\ shots' = [shots EXCEPT ![shown + 1] = [turn |-> turn, digest |-> digest]]
    /\ scheduling' = [scheduling EXCEPT ![t] = shown + 1]
    /\ UNCHANGED <<worker, closed, shutdown>>

Schedule(t) ==
    /\ scheduling[t] # 0
    /\ IF Narrates(scheduling[t], "oracle")
       THEN Enqueue(Key(scheduling[t], "oracle"))
       ELSE Unschedule(<<"oracle", shots[scheduling[t]].turn>>)
    /\ scheduling' = [scheduling EXCEPT ![t] = 0]
    /\ UNCHANGED <<shown, shots, ready, closed, shutdown, generations>>

(* result(): what is held is returned; what was never asked for, or was    *)
(* displaced, is scheduled.                                                *)
Result(revision, mode) ==
    /\ revision <= shown
    /\ Narrates(revision, mode)
    /\ results[Key(revision, mode)] = "none"
    /\ Enqueue(Key(revision, mode))
    /\ UNCHANGED <<shown, shots, scheduling, ready, closed, shutdown, generations>>

-----------------------------------------------------------------------------
(* The executor's thread.                                                  *)

Generate ==
    /\ job # None /\ job.at = "submitted"
    /\ job' = [job EXCEPT !.at = "running"]
    /\ generations' = [generations EXCEPT ![job.key] = @ + 1]
    /\ UNCHANGED <<shown, shots, scheduling, results, ready, active, pending,
                   closed, shutdown>>

(* Mutant: the generation that finished last counts as the newest.         *)
StoreNewestFinished(outcome) ==
    /\ job # None /\ job.at = "running"
    /\ results' = [results EXCEPT ![job.key] = outcome]
    /\ IF outcome = "ready"
       THEN ready' = [ready EXCEPT ![job.key.mode] = job.key.turn]
       ELSE UNCHANGED ready
    /\ job' = [job EXCEPT !.at = "stored"]
    /\ UNCHANGED <<shown, shots, scheduling, active, pending, closed, shutdown, generations>>

(* The end of _generate(): newest ready prose is kept by turn.             *)
Store(outcome) ==
    LET key == job.key
    IN  /\ job # None /\ job.at = "running"
        /\ results' = [results EXCEPT ![key] = outcome]
        /\ IF outcome = "ready" /\ ready[key.mode] <= key.turn
           THEN ready' = [ready EXCEPT ![key.mode] = key.turn]
           ELSE UNCHANGED ready
        /\ job' = [job EXCEPT !.at = "stored"]
        /\ UNCHANGED <<shown, shots, scheduling, active, pending, closed, shutdown, generations>>

(* Mutant: what waits is taken, but not started.                           *)
HandOverWithoutNext(key) ==
    /\ pending' = None
    /\ active' = IF active = key THEN None ELSE active
    /\ job' = None
    /\ UNCHANGED results

(* _finished(), the done callback: hand over to what waits.                *)
HandOver(key) ==
    /\ pending' = None
    /\ IF pending # None /\ ~closed /\ results[pending] \notin Settled
       THEN Start(pending, results)
       ELSE /\ active' = IF active = key THEN None ELSE active
            /\ job' = None
            /\ UNCHANGED results

Finished ==
    /\ job # None /\ job.at = "stored"
    /\ HandOver(job.key)
    /\ UNCHANGED <<shown, shots, scheduling, ready, closed, shutdown, generations>>

(* close(): first the flag, under the lock; then the executor, which       *)
(* cancels a task that has not begun, whose callback runs here.            *)
Close ==
    /\ MayClose /\ ~closed
    /\ closed' = TRUE /\ pending' = None
    /\ UNCHANGED <<shown, shots, scheduling, results, ready, active, job,
                   shutdown, generations>>

Shutdown ==
    /\ closed /\ ~shutdown
    /\ shutdown' = TRUE
    /\ IF job # None /\ job.at = "submitted"
       THEN HandOver(job.key)
       ELSE UNCHANGED <<results, active, pending, job>>
    /\ UNCHANGED <<shown, shots, scheduling, ready, closed, generations>>

Next ==
    \/ \E t \in Rebuilders, turn \in Turns, digest \in [Modes -> Digests \cup {None}] :
          Publish(t, turn, digest)
    \/ \E t \in Rebuilders : Schedule(t)
    \/ \E revision \in Revisions, mode \in Modes : Result(revision, mode)
    \/ Generate
    \/ \E outcome \in Settled : Store(outcome)
    \/ Finished \/ Close \/ Shutdown

Spec == Init /\ [][Next]_vars

(* A rebuild thread schedules what it published; the executor runs what it *)
(* is given, and a generation ends because the HTTP client has a timeout;  *)
(* a dashboard asks again every two seconds while it is told to wait.      *)
AskAboutScreen(mode) == shown # 0 /\ Result(shown, mode)

Fairness ==
    /\ \A t \in Rebuilders : WF_vars(Schedule(t))
    /\ WF_vars(Generate) /\ WF_vars(\E outcome \in Settled : Store(outcome))
    /\ WF_vars(Finished)
    /\ \A mode \in Modes : WF_vars(AskAboutScreen(mode))

FairSpec == Spec /\ Fairness

-----------------------------------------------------------------------------
(* Properties.                                                             *)

(* What the dashboard is told about a snapshot once result() returns.      *)
Status(revision, mode) ==
    IF Narrates(revision, mode) THEN results[Key(revision, mode)] ELSE "idle"
OnScreen(revision, mode) == revision = shown /\ shown # 0 /\ Narrates(shown, mode)

(* A prompt is given to the model once: bursts of rebuilds, dashboards in  *)
(* two modes and late requests for old snapshots never make a 31B model    *)
(* narrate the same evidence twice, even when a place in the queue is lost *)
(* and asked for again.                                                    *)
GeneratedOnce == \A k \in Keys : generations[k] <= 1

(* "queued -- accepted, waiting behind another generation" and             *)
(* "generating -- a request is running right now": once every rebuild has  *)
(* scheduled its snapshot, a status on screen that asks the player to wait *)
(* has something behind it that will replace it.                           *)
WaitingIsTrue ==
    \A mode \in Modes :
        (OnScreen(shown, mode) /\ (\A t \in Rebuilders : scheduling[t] = 0) /\ ~closed) =>
            /\ Status(shown, mode) = "queued" =>
                  pending # None /\ pending = Key(shown, mode) /\ active # None
            /\ Status(shown, mode) = "generating" =>
                  active = Key(shown, mode) /\ job # None /\ job.key = active

(* "A finishing generation for a turn we have already moved past must not  *)
(* displace a newer one."                                                  *)
HistoryNeverGoesBack == [][\A mode \in Modes : ready'[mode] >= ready[mode]]_vars

(* Commentary on screen arrives, or fails, unless the screen moves on or   *)
(* the application closes: no displaced or dropped request spins for ever. *)
WaitingEnds ==
    \A revision \in Revisions, mode \in Modes :
        OnScreen(revision, mode)
            ~> (Status(revision, mode) \in Settled \/ shown # revision \/ closed)
=============================================================================
