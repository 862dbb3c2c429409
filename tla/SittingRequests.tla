--------------------------- MODULE SittingRequests ---------------------------
(***************************************************************************)
(* What a sitting's requests share in the server: the player's reports     *)
(* (decisions/context.py, ContextStore) and the turns seen so far          *)
(* (decisions/changes.py, History), with the handlers of api/app.py that   *)
(* call them from a thread pool and the game switch that clears them from  *)
(* the event loop.  PlayerRecord has the third store the handlers point at *)
(* a sitting.                                                              *)
(*                                                                         *)
(* Abstractions.  A sitting is a (session, epoch), numbered in the order   *)
(* they were opened; ids begin with the time they were made, which is the  *)
(* order History sorts them in.  A report is one label of one settlement   *)
(* with a value.  Whether what a form depended on has changed is a choice. *)
(* One insertion into the history's list is one step; looking whether the  *)
(* turn is there and inserting it are two, because nothing locks them.     *)
(***************************************************************************)
EXTENDS Naturals, Sequences, FiniteSets, SequencesExt, Absence

CONSTANTS
    Requests,           \* requests in flight
    Labels, Values,     \* what a form asks, what a player may answer
    Limit,              \* HISTORY_LIMIT
    MaxSitting, MaxTurn, MaxRevision, MaxContextRevision    \* bounds

ASSUME HistoryLimit == Limit \in Nat

VARIABLES
    snapshot,       \* store.snapshot: sitting, turn, revision -- or None
    latest,         \* the sitting opened last
    leaving,        \* is activate() between history.forget() and switch_to()?
    request,        \* the requests in flight and the snapshot each captured
    context,        \* ContextStore: session and epoch, revision, reports
    history,        \* History.entries
    seen,           \* turns recorded since the last forget, and their revisions
    overlapped      \* have two requests been inside history.record() at once,
                    \* or one while a switch forgot?

shared      == <<context, history, seen, overlapped>>
requestVars == <<snapshot, latest, leaving, request, context, history, seen, overlapped>>

Sittings  == 0 .. MaxSitting
Snapshots == [sitting : 1 .. MaxSitting, turn : 1 .. MaxTurn, revision : 1 .. MaxRevision]
NoRequest      == [at |-> "idle", snapshot |-> None]
Stages    == {"captured", "adopted", "append"}
Inside    == {r \in Requests : request[r].at = "append"}

RequestsTypeOK ==
    /\ snapshot = None \/ snapshot \in Snapshots
    /\ latest \in Sittings /\ leaving \in BOOLEAN /\ overlapped \in BOOLEAN
    /\ \A r \in Requests :
          \/ request[r] = NoRequest
          \/ (request[r].at \in Stages /\ request[r].snapshot \in Snapshots)
    /\ context.sitting \in Sittings /\ context.revision \in Nat
    /\ context.held \subseteq [label : Labels, value : Values, sitting : Sittings]
    /\ \A p, q \in context.held : p.label = q.label => p = q      \* a dict
    /\ history \in Seq(Snapshots) /\ Len(history) <= Limit
    /\ seen \subseteq Snapshots

RequestsInit ==
    /\ snapshot = None /\ latest = 0 /\ leaving = FALSE
    /\ request = [r \in Requests |-> NoRequest]
    /\ context = [sitting |-> 0, revision |-> 0, held |-> {}]
    /\ history = <<>> /\ seen = {} /\ overlapped = FALSE

-----------------------------------------------------------------------------
(* What a rebuild publishes: the same turn again, a later one, or the      *)
(* first of a new sitting.                                                 *)
Rebuild ==
    LET revision == IF snapshot = None THEN 1 ELSE snapshot.revision + 1
        next(s, t) == snapshot' = [sitting |-> s, turn |-> t, revision |-> revision]
    IN  /\ revision <= MaxRevision
        /\ \/ /\ snapshot # None
              /\ \E t \in {snapshot.turn, snapshot.turn + 1} \cap 1 .. MaxTurn :
                    next(snapshot.sitting, t)
              /\ UNCHANGED latest
           \/ /\ latest < MaxSitting
              /\ latest' = latest + 1
              /\ next(latest + 1, 1)
        /\ UNCHANGED <<leaving, request, shared>>

(* activate(): the history is cleared ...                                  *)
Forget ==
    /\ snapshot # None /\ ~leaving /\ latest < MaxSitting
    /\ leaving' = TRUE
    /\ history' = <<>> /\ seen' = {}
    /\ overlapped' = (overlapped \/ Inside # {})
    /\ UNCHANGED <<snapshot, latest, request, context>>

(* ... and the store leaves the game.                                      *)
SwitchTo ==
    /\ leaving
    /\ leaving' = FALSE /\ snapshot' = None
    /\ UNCHANGED <<latest, request, shared>>

-----------------------------------------------------------------------------
(* ContextStore, each method under its lock.                               *)

(* Mutant: the revision is the sitting's own and starts again.             *)
AdoptAfresh(s) ==
    context' = IF context.sitting = s THEN context
               ELSE [sitting |-> s, revision |-> 0, held |-> {}]

(* adopt(): another sitting's reports go; the revision tells.              *)
Adopt(s) ==
    context' = IF context.sitting = s THEN context
               ELSE [sitting  |-> s,
                     revision |-> IF context.held # {} \/ context.revision # 0
                                  THEN context.revision + 1 ELSE 0,
                     held     |-> {}]

(* Mutant: only the revision is checked, not the session.                  *)
RefusedByRevision(s, base, changed) == base # context.revision /\ changed

(* The conflicts submit() raises: a form of another sitting; one rendered  *)
(* at an older revision when something its values depend on has changed.   *)
Refused(s, base, changed) ==
    \/ s # context.sitting
    \/ base # context.revision /\ changed

(* submit(): the revision moves only when the value does.                  *)
Submit(label, value, s, base, changed) ==
    LET report == [label |-> label, value |-> value, sitting |-> s]
    IN  context' =
          IF Refused(s, base, changed) \/ report \in context.held
          THEN context
          ELSE [context EXCEPT !.revision = @ + 1,
                               !.held = {p \in context.held : p.label # label} \cup {report}]

(* clear() and invalidate(), of which nothing in the program calls the     *)
(* second: with one settlement and one label each removes the same.        *)
Clear(label) ==
    /\ \E p \in context.held : p.label = label
    /\ context' = [context EXCEPT !.revision = @ + 1,
                                  !.held = {p \in context.held : p.label # label}]

-----------------------------------------------------------------------------
(* History.                                                                *)

Key(e)       == <<e.sitting, e.turn>>
Earlier(k, l) == k[1] < l[1] \/ (k[1] = l[1] /\ k[2] < l[2])
Before(e, f) == Earlier(Key(e), Key(f))
Entries      == {history[i] : i \in DOMAIN history}

(* Mutant: the newest turns are the ones that go.                          *)
TrimNewest(list) == IF Len(list) <= Limit THEN list ELSE SubSeq(list, 1, Limit)

Trim(list) ==
    IF Len(list) <= Limit THEN list ELSE SubSeq(list, Len(list) - Limit + 1, Len(list))

(* entries.append(entry); sort, which is stable; trim.                     *)
Place(e) == CHOOSE n \in 0 .. Len(history) :
                \A i \in DOMAIN history : Before(e, history[i]) <=> i > n

Insert(e) == Trim(InsertAt(history, Place(e) + 1, e))

(* A rebuild of a turn already recorded replaces it, unless it is older.   *)
Replace(e) ==
    [i \in DOMAIN history |->
        IF Key(history[i]) = Key(e) /\ e.revision >= history[i].revision
        THEN e ELSE history[i]]

-----------------------------------------------------------------------------
(* The handlers.                                                           *)

At(r, stage) == request' = [request EXCEPT ![r].at = stage]
Done(r)      == request' = [request EXCEPT ![r] = NoRequest]

(* The ghosts: what was recorded, until two requests overlap.              *)
Saw(e, overlap) ==
    /\ overlapped' = (overlapped \/ overlap)
    /\ seen' = IF overlapped' THEN {} ELSE seen \cup {e}

(* current().                                                              *)
Capture(r) ==
    /\ request[r] = NoRequest /\ snapshot # None
    /\ request' = [request EXCEPT ![r] = [at |-> "captured", snapshot |-> snapshot]]
    /\ UNCHANGED <<snapshot, latest, leaving, shared>>

(* context_store.adopt(captured): brief_for(), GET and POST /api/context.  *)
AdoptFor(r) ==
    /\ request[r].at = "captured" /\ context.revision < MaxContextRevision
    /\ Adopt(request[r].snapshot.sitting)
    /\ At(r, "adopted")
    /\ UNCHANGED <<snapshot, latest, leaving, history, seen, overlapped>>

(* POST /api/context: a form rendered some time ago.                       *)
SubmitFor(r, label, value, s, base, changed) ==
    /\ request[r].at = "adopted" /\ context.revision < MaxContextRevision
    /\ s \in 1 .. latest /\ base <= context.revision
    /\ Submit(label, value, s, base, changed)
    /\ Done(r)
    /\ UNCHANGED <<snapshot, latest, leaving, history, seen, overlapped>>

(* DELETE /api/context: it adopts nothing.                                 *)
ClearReport(label) ==
    /\ context.revision < MaxContextRevision
    /\ Clear(label)
    /\ UNCHANGED <<snapshot, latest, leaving, request, history, seen, overlapped>>

(* _changes(): previous() looks at the history; record() scans it ...      *)
Compare(r) ==
    LET e == request[r].snapshot
    IN  /\ request[r].at = "adopted"
        /\ \/ /\ Key(e) \in {Key(f) : f \in Entries}
              /\ history' = Replace(e)
              /\ Saw(e, Inside # {})
              /\ Done(r)
           \/ /\ Key(e) \notin {Key(f) : f \in Entries}
              /\ At(r, "append")
              /\ overlapped' = (overlapped \/ Inside # {})
              /\ seen' = IF overlapped' THEN {} ELSE seen
              /\ UNCHANGED history
        /\ UNCHANGED <<snapshot, latest, leaving, context>>

(* ... and inserts the turn it did not find.                               *)
Add(r) ==
    /\ request[r].at = "append"
    /\ history' = Insert(request[r].snapshot)
    /\ Saw(request[r].snapshot, FALSE)
    /\ Done(r)
    /\ UNCHANGED <<snapshot, latest, leaving, context>>

(* Every other GET ends here.                                              *)
Respond(r) ==
    /\ request[r].at = "adopted"
    /\ Done(r)
    /\ UNCHANGED <<snapshot, latest, leaving, shared>>

RequestsNext ==
    \/ Rebuild \/ Forget \/ SwitchTo
    \/ \E r \in Requests : Capture(r) \/ AdoptFor(r) \/ Compare(r) \/ Add(r) \/ Respond(r)
    \/ \E r \in Requests, label \in Labels, value \in Values, s \in Sittings,
          base \in 0 .. MaxContextRevision, changed \in BOOLEAN :
          SubmitFor(r, label, value, s, base, changed)
    \/ \E label \in Labels : ClearReport(label)

RequestsSpec == RequestsInit /\ [][RequestsNext]_requestVars

-----------------------------------------------------------------------------
(* Properties.                                                             *)

(* "A form opened before a reload must never attach its values to the new  *)
(* session": whatever requests of several sittings adopt in between, the   *)
(* reports held were all entered for the sitting they are held under.      *)
ReportsOfThisSitting == \A p \in context.held : p.sitting = context.sitting

(* The context revision is part of every explanation's identity: while it  *)
(* stands still, so does what the player reported -- across sittings too.  *)
RevisionTellsReports ==
    [][context.held' # context.held => context.revision' > context.revision]_requestVars

(* As long as no two requests are inside record() at once, the history is  *)
(* the newest turns of all that were recorded since the last switch, each  *)
(* once, in order and in its newest reading, though requests with old      *)
(* snapshots record old sittings' turns late.                              *)
HistoryIsNewestTurns ==
    ~overlapped =>
        LET keys == {Key(e) : e \in seen}
        IN  /\ \A i \in DOMAIN history :
                  /\ history[i] \in seen
                  /\ \A e \in seen :
                        Key(e) = Key(history[i]) => e.revision <= history[i].revision
                  /\ i > 1 => Before(history[i - 1], history[i])
                  /\ Cardinality({k \in keys : Earlier(Key(history[i]), k)}) = Len(history) - i
            /\ Len(history) < Limit => \A e \in seen : Key(e) \in {Key(f) : f \in Entries}
=============================================================================
