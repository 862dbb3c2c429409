---------------------------- MODULE CopilotWorker ----------------------------
(* The copilot (copilot/worker.py, and the handler of POST                  *)
(* /api/copilot/ask): a question is first resolved in the thread of the     *)
(* request -- the model selects catalogue questions, the advisor answers    *)
(* them -- and prose is then composed around the resolution by a single     *)
(* background thread.  The page repeats the request while it is told        *)
(* "generating".  A request is identified by the question, the snapshot and *)
(* the length of the transcript, so each poll may be a new request.         *)
(*                                                                          *)
(* Several polls run in the server's thread pool.  `_resolved' keeps the    *)
(* resolution until the answer is done, and a lock per request, here called *)
(* a gate, is meant to let one of them select.                              *)
EXTENDS Naturals, FiniteSets, Sequences

CONSTANTS
    Pages,        \* browser pages; each has one request under way
    Questions,    \* what a player may ask in free text
    Resolutions,  \* what a selection may come to
    MaxRevision,  \* bound: snapshots published
    MaxAsked,     \* bound: questions asked, over all pages
    MayClose,     \* is the application shut down?
    None

ASSUME CopilotAssumption ==
    /\ IsFiniteSet(Pages)
    /\ MaxRevision \in Nat \ {0} /\ MaxAsked \in Nat
    /\ MayClose \in BOOLEAN
    /\ None \notin Questions \cup Resolutions

Keys     == [question : Questions, revision : 1 .. MaxRevision, history : 0 .. MaxAsked]
Gates    == 1 .. Cardinality(Pages) + 1
Outcomes == {"ready", "rejected"}
Tasks    == [key : Keys, resolution : Resolutions]
Runs     == [key : Keys, resolution : Resolutions, at : {"composing", "stored"}]

ASSUME NoneIsNoRequest == None \notin Keys \cup Runs \cup Outcomes

VARIABLES
    revision,     \* of the snapshot on screen
    transcript,   \* the questions of the exchanges recorded so far
    asked,        \* how many questions the pages have asked
    question,     \* the question each page polls for, or None
    poll,         \* the request of each page: where it is and what it holds
    done,         \* _done: status of each finished answer, or None
    resolved,     \* _resolved: the resolution of each request, or None
    resolving,    \* _resolving: the gate of each request, or 0
    futures,      \* _futures: the requests whose composition is not over
    queue,        \* compositions the executor has not begun
    running,      \* the composition it runs, or None
    closed,       \* _closed
    selections,   \* how often the model selected for each request, up to twice
    compositions  \* how often it composed for each request, up to twice

worker == <<done, resolved, resolving, futures, queue, running, closed>>
counts == <<selections, compositions>>
player == <<revision, transcript, asked, question>>
vars   == <<player, poll, worker, counts>>

Places == {"idle", "waiting", "arrived", "looked", "gated", "selecting", "failed",
           "resolved", "answered"}
Polls  == [at : Places, key : Keys \cup {None}, gate : Gates \cup {0},
           resolution : Resolutions \cup {None},
           status : Outcomes \cup {"generating", None}]
Twice(n)  == IF n = 2 THEN 2 ELSE n + 1
Fresh(at) == [at |-> at, key |-> None, gate |-> 0, resolution |-> None, status |-> None]

TypeOK ==
    /\ revision \in 1 .. MaxRevision
    /\ transcript \in Seq(Questions)
    /\ asked \in 0 .. MaxAsked
    /\ question \in [Pages -> Questions \cup {None}]
    /\ poll \in [Pages -> Polls]
    /\ done \in [Keys -> Outcomes \cup {None}]
    /\ resolved \in [Keys -> Resolutions \cup {None}]
    /\ resolving \in [Keys -> Gates \cup {0}]
    /\ futures \in SUBSET Keys
    /\ queue \in Seq(Tasks)
    /\ running \in Runs \cup {None}
    /\ closed \in BOOLEAN
    /\ selections \in [Keys -> 0 .. 2] /\ compositions \in [Keys -> 0 .. 2]

Init ==
    /\ revision = 1 /\ transcript = <<>> /\ asked = 0
    /\ question = [p \in Pages |-> None]
    /\ poll = [p \in Pages |-> Fresh("idle")]
    /\ done = [k \in Keys |-> None]
    /\ resolved = [k \in Keys |-> None]
    /\ resolving = [k \in Keys |-> 0]
    /\ futures = {} /\ queue = <<>> /\ running = None /\ closed = FALSE
    /\ selections = [k \in Keys |-> 0] /\ compositions = [k \in Keys |-> 0]

-----------------------------------------------------------------------------
(* The page and the handler.                                               *)

Rebuild ==
    /\ revision < MaxRevision /\ ~closed
    /\ revision' = revision + 1
    /\ UNCHANGED <<transcript, asked, question, poll, worker, counts>>

(* The player asks; from then on the page polls.                           *)
Ask(p, q) ==
    /\ poll[p].at = "idle" /\ asked < MaxAsked /\ ~closed
    /\ asked' = asked + 1
    /\ question' = [question EXCEPT ![p] = q]
    /\ poll' = [poll EXCEPT ![p].at = "waiting"]
    /\ UNCHANGED <<revision, transcript, worker, counts>>

(* chat_request(): the identity of this poll.                              *)
Arrive(p) ==
    /\ poll[p].at = "waiting"
    /\ poll' = [poll EXCEPT
                  ![p].at = "arrived",
                  ![p].key = [question |-> question[p], revision |-> revision,
                              history |-> Len(transcript)]]
    /\ UNCHANGED <<player, worker, counts>>

Answer(p, status) ==
    poll' = [poll EXCEPT ![p].at = "answered", ![p].status = status]

(* chat_response(): a finished answer becomes an exchange and the page is  *)
(* done; "generating" does not, and the page asks again.                   *)
Respond(p) ==
    /\ poll[p].at = "answered"
    /\ IF poll[p].status = "generating"
       THEN /\ poll' = [poll EXCEPT ![p] = Fresh("waiting")]
            /\ UNCHANGED <<transcript, question>>
       ELSE /\ poll' = [poll EXCEPT ![p] = Fresh("idle")]
            /\ transcript' = Append(transcript, question[p])
            /\ question' = [question EXCEPT ![p] = None]
    /\ UNCHANGED <<revision, asked, worker, counts>>

-----------------------------------------------------------------------------
(* ask(), in the thread of the request.                                    *)

(* The first look: a finished answer is returned as it is.                 *)
Look(p) ==
    /\ poll[p].at = "arrived"
    /\ IF done[poll[p].key] # None
       THEN Answer(p, done[poll[p].key])
       ELSE poll' = [poll EXCEPT ![p].at = "looked"]
    /\ UNCHANGED <<player, worker, counts>>

(* A gate nobody holds or waits for, for a request that has none.          *)
NewGate(key) ==
    CHOOSE g \in Gates : \A p \in Pages : poll[p].key = key => poll[p].gate # g

(* Mutant: every poll makes a gate of its own.                             *)
FindResolutionWithOwnGate(p) ==
    LET key  == poll[p].key
    IN  /\ poll[p].at = "looked"
        /\ IF resolved[key] # None
           THEN /\ poll' = [poll EXCEPT ![p].at = "resolved", ![p].resolution = resolved[key]]
                /\ UNCHANGED resolving
           ELSE /\ poll' = [poll EXCEPT ![p].at = "gated", ![p].gate = NewGate(key)]
                /\ resolving' = [resolving EXCEPT ![key] = NewGate(key)]
        /\ UNCHANGED <<player, done, resolved, futures, queue, running, closed, counts>>

(* _resolution(): reuse, or take the request's gate.                       *)
FindResolution(p) ==
    LET key  == poll[p].key
        gate == IF resolving[key] = 0 THEN NewGate(key) ELSE resolving[key]
    IN  /\ poll[p].at = "looked"
        /\ IF resolved[key] # None
           THEN /\ poll' = [poll EXCEPT ![p].at = "resolved", ![p].resolution = resolved[key]]
                /\ UNCHANGED resolving
           ELSE /\ poll' = [poll EXCEPT ![p].at = "gated", ![p].gate = gate]
                /\ resolving' = [resolving EXCEPT ![key] = gate]
        /\ UNCHANGED <<player, done, resolved, futures, queue, running, closed, counts>>

Open(p) ==
    \A q \in Pages \ {p} :
        ~(poll[q].at = "selecting" /\ poll[q].key = poll[p].key /\ poll[q].gate = poll[p].gate)

StartSelecting(p) ==
    /\ poll' = [poll EXCEPT ![p].at = "selecting"]
    /\ selections' = [selections EXCEPT ![poll[p].key] = Twice(@)]
    /\ UNCHANGED <<player, worker, compositions>>

(* Mutant: the resolution is not looked for again behind the gate.         *)
PassGateBlindly(p) ==
    /\ poll[p].at = "gated" /\ Open(p)
    /\ StartSelecting(p)

(* Behind the gate: reuse what the poll before us found, or select.        *)
PassGate(p) ==
    /\ poll[p].at = "gated" /\ Open(p)
    /\ IF resolved[poll[p].key] # None
       THEN /\ poll' = [poll EXCEPT ![p].at = "resolved", ![p].gate = 0,
                                    ![p].resolution = resolved[poll[p].key]]
            /\ UNCHANGED <<player, worker, counts>>
       ELSE StartSelecting(p)

(* The model answers and the catalogue resolves, or something raises; the  *)
(* gate is left either way, before the failure is recorded.                *)
Selected(p, resolution) ==
    /\ poll[p].at = "selecting"
    /\ resolved' = [resolved EXCEPT ![poll[p].key] = resolution]
    /\ poll' = [poll EXCEPT ![p].at = "resolved", ![p].gate = 0, ![p].resolution = resolution]
    /\ UNCHANGED <<player, done, resolving, futures, queue, running, closed, counts>>

SelectFails(p) ==
    /\ poll[p].at = "selecting"
    /\ poll' = [poll EXCEPT ![p].at = "failed", ![p].gate = 0]
    /\ UNCHANGED <<player, worker, counts>>

(* Mutant: the failure is told to this poll only.                          *)
SelectionFailedUnrecorded(p) ==
    /\ poll[p].at = "failed"
    /\ Answer(p, "generating")
    /\ UNCHANGED <<player, worker, counts>>

(* _selection_failed().                                                    *)
SelectionFailed(p) ==
    /\ poll[p].at = "failed"
    /\ done' = [done EXCEPT ![poll[p].key] = "rejected"]
    /\ resolving' = [resolving EXCEPT ![poll[p].key] = 0]
    /\ Answer(p, "rejected")
    /\ UNCHANGED <<player, resolved, futures, queue, running, closed, counts>>

SubmitOnce(p) ==
    LET key == poll[p].key
    IN  /\ Answer(p, "generating")
        /\ IF key \notin futures /\ ~closed
           THEN /\ futures' = futures \cup {key}
                /\ queue' = Append(queue, [key |-> key, resolution |-> poll[p].resolution])
           ELSE UNCHANGED <<futures, queue>>

(* Mutant: whether the answer is done is not asked again.                  *)
SubmitWithoutLooking(p) ==
    /\ poll[p].at = "resolved"
    /\ SubmitOnce(p)
    /\ UNCHANGED <<player, done, resolved, resolving, running, closed, counts>>

(* The second look, and the submission of the composition.                 *)
Submit(p) ==
    /\ poll[p].at = "resolved"
    /\ IF done[poll[p].key] # None
       THEN Answer(p, done[poll[p].key]) /\ UNCHANGED <<futures, queue>>
       ELSE SubmitOnce(p)
    /\ UNCHANGED <<player, done, resolved, resolving, running, closed, counts>>

-----------------------------------------------------------------------------
(* The executor's thread.                                                  *)

Compose ==
    /\ running = None /\ queue # <<>>
    /\ running' = [key |-> Head(queue).key, resolution |-> Head(queue).resolution,
                   at |-> "composing"]
    /\ queue' = Tail(queue)
    /\ compositions' = [compositions EXCEPT ![Head(queue).key] = Twice(@)]
    /\ UNCHANGED <<player, poll, done, resolved, resolving, futures, closed, selections>>

(* The end of _run(): prose that passes validation, or the reason it does  *)
(* not.                                                                    *)
Finish(outcome) ==
    /\ running # None /\ running.at = "composing"
    /\ done' = [done EXCEPT ![running.key] = outcome]
    /\ resolved' = [resolved EXCEPT ![running.key] = None]
    /\ resolving' = [resolving EXCEPT ![running.key] = 0]
    /\ running' = [running EXCEPT !.at = "stored"]
    /\ UNCHANGED <<player, poll, futures, queue, closed, counts>>

(* _forget(), the done callback.                                           *)
Forget ==
    /\ running # None /\ running.at = "stored"
    /\ futures' = futures \ {running.key}
    /\ running' = None
    /\ UNCHANGED <<player, poll, done, resolved, resolving, queue, closed, counts>>

(* close(): compositions not begun are cancelled, and their callbacks run. *)
Close ==
    /\ MayClose /\ ~closed
    /\ closed' = TRUE
    /\ queue' = <<>>
    /\ futures' = futures \ {queue[i].key : i \in DOMAIN queue}
    /\ UNCHANGED <<player, poll, done, resolved, resolving, running, counts>>

Handle(p) ==
    \/ Arrive(p) \/ Look(p) \/ FindResolution(p) \/ PassGate(p) \/ Submit(p) \/ Respond(p)
    \/ (\E r \in Resolutions : Selected(p, r)) \/ SelectFails(p) \/ SelectionFailed(p)

Work == Compose \/ (\E outcome \in Outcomes : Finish(outcome)) \/ Forget

Next ==
    \/ \E p \in Pages : Handle(p) \/ \E q \in Questions : Ask(p, q)
    \/ Work \/ Rebuild \/ Close

Spec == Init /\ [][Next]_vars

(* The server runs its threads, model calls end (the client has a timeout) *)
(* and the page polls again.                                               *)
Fairness == (\A p \in Pages : WF_vars(Handle(p))) /\ WF_vars(Work)

FairSpec == Spec /\ Fairness

-----------------------------------------------------------------------------
(* Properties.                                                             *)

(* Prose is composed once per request, even for a poll that looked before  *)
(* the answer was stored and comes to submit after its future is gone.     *)
ComposedOnce == \A k \in Keys : compositions[k] <= 1

(* "A poll of a generation already running reuses that resolution": what   *)
(* is on screen while prose is written is what the prose is written        *)
(* around, whichever poll selected and whichever submitted.                *)
ShownIsNarrated ==
    \A p \in Pages :
        (poll[p].at = "answered" /\ poll[p].status = "generating" /\ poll[p].key \in futures) =>
            /\ \A i \in DOMAIN queue :
                  queue[i].key = poll[p].key => queue[i].resolution = poll[p].resolution
            /\ running # None /\ running.key = poll[p].key =>
                  running.resolution = poll[p].resolution

(* Until a request has its answer, one poll at a time selects for it, and  *)
(* none while the prose is being written.                                  *)
SelectsAlone ==
    \A p \in Pages :
        (poll[p].at = "selecting" /\ done[poll[p].key] = None) =>
            /\ poll[p].key \notin futures
            /\ \A q \in Pages \ {p} : ~(poll[q].at = "selecting" /\ poll[q].key = poll[p].key)

(* A page that asked is answered, though other pages' answers and new      *)
(* snapshots keep changing the identity of its request.                    *)
QuestionsAreAnswered ==
    \A p \in Pages : question[p] # None ~> (question[p] = None \/ closed)

(* "select+resolve now runs in the calling thread, once per request        *)
(* identity".                                                              *)
SelectedOnce == \A k \in Keys : selections[k] <= 1
=============================================================================
