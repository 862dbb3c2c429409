----------------------------- MODULE PlayerRecord -----------------------------
(***************************************************************************)
(* civ_advisor/context_store.py: PersistentContextStore, the player's      *)
(* goals, watchlist entries and acknowledgements, with the handlers of     *)
(* api/app.py that call it.                                                *)
(*                                                                         *)
(* The record lives in one JSON file, here the one --context-file names,   *)
(* which every game shares.  It is loaded once, when a process starts,     *)
(* pointed at a sitting by `adopt', and saved whole, atomically, by each   *)
(* change the player makes; adopt itself saves nothing.  Requests run in a thread pool: a handler   *)
(* takes the published snapshot, adopts the snapshot's sitting, and only   *)
(* then writes, so other requests come in between.                         *)
(*                                                                         *)
(* Abstractions.  A sitting is a (session, epoch) pair, numbered in the    *)
(* order the store opened them; no two processes share one.  An entry is   *)
(* identified by its subject and the sitting it was recorded in (the id    *)
(* kind:session:subject); text, fingerprint and the save's seeds play no   *)
(* part in what is kept, and the record's revision is only reported.       *)
(***************************************************************************)
EXTENDS Naturals, FiniteSets

CONSTANTS
    Games,              \* games whose sittings use this file
    Subjects,           \* decisions an entry can be about
    Requests,           \* requests in flight
    SittingsPerProcess, \* bound on the sittings one process sees
    MaxSitting,         \* bound on sittings in all
    FirstFiles,         \* what may be on disk at first: kinds of file
    ReadMayFail,        \* may the system refuse to read a file that is there?
    None

ASSUME NoneAssumption == None \notin Games
ASSUME ReadAssumption == ReadMayFail \in BOOLEAN
ASSUME FilesAssumption == FirstFiles \subseteq {"absent", "current", "newer", "damaged"}
ASSUME SittingAssumption == SittingsPerProcess \in Nat /\ MaxSitting \in Nat

Unnamed == "unnamed"        \* game = "": recorded before games were told apart

VARIABLES
    disk,       \* [kind, entries]: the file.  kind "newer" is another schema
    aside,      \* entries in files that were moved aside
    running,    \* is there a process?
    loaded,     \* _loaded
    entries, pending, foreign,      \* what applies, is offered, is another game's
    game, sitting,                  \* game and (session, epoch) adopted, or None
    newest, first,                  \* newest sitting published; first of this process
    gameOf,                         \* the game of every sitting so far
    request,                        \* what each request in flight holds
    owed,                           \* ids the player was told are saved
    accepted,                       \* <<id, sitting>> the player associated
    warned                          \* ids offered to the player, or in a file left unread

memory == <<loaded, entries, pending, foreign, game, sitting>>
play   == <<newest, first, gameOf>>
ghosts == <<owed, accepted, warned>>
vars   == <<disk, aside, running, loaded, entries, pending, foreign, game, sitting,
            newest, first, gameOf, request, owed, accepted, warned>>

Sittings == 0 .. MaxSitting
Ids      == Subjects \X Sittings
Entries  == [subject : Subjects, made : Sittings, sitting : Sittings,
             game : Games \cup {Unnamed}]
Files    == [kind : {"absent", "current", "newer", "damaged"}, entries : SUBSET Entries]

Id(e)     == <<e.subject, e.made>>
IdsOf(S)  == {Id(e) : e \in S}
Put(S, e) == {x \in S : Id(x) # Id(e)} \cup {e}

Idle == [at |-> "idle", sitting |-> 0]

TypeOK ==
    /\ disk \in Files /\ aside \subseteq Entries
    /\ running \in BOOLEAN
    /\ loaded \subseteq Entries /\ entries \subseteq Entries
    /\ pending \subseteq Entries /\ foreign \subseteq Entries
    /\ game \in Games \cup {None} /\ sitting \in Sittings \cup {None}
    /\ newest \in Sittings /\ first \in 1 .. MaxSitting + 1
    /\ gameOf \in [Sittings -> Games \cup {Unnamed}]
    /\ request \in [Requests -> [at : {"idle", "captured", "adopted"}, sitting : Sittings]]
    /\ owed \subseteq Ids /\ accepted \subseteq Ids \X Sittings /\ warned \subseteq Ids
    /\ \A e, f \in entries : Id(e) = Id(f) => e = f      \* entries is a dict

(* An older installation may have left a file: entries of sitting 0, made  *)
(* before games were distinguished.                                        *)
Legacy == [subject : Subjects, made : {0}, sitting : {0}, game : {Unnamed}]

Init ==
    /\ disk \in {[kind |-> k, entries |-> IF k = "absent" THEN {} ELSE Legacy] : k \in FirstFiles}
    /\ aside = {} /\ running = FALSE
    /\ loaded = {} /\ entries = {} /\ pending = {} /\ foreign = {}
    /\ game = None /\ sitting = None
    /\ newest = 0 /\ first = 1 /\ gameOf = [s \in Sittings |-> Unnamed]
    /\ request = [r \in Requests |-> Idle]
    /\ owed = IdsOf(disk.entries) /\ accepted = {} /\ warned = {}

-----------------------------------------------------------------------------
(* The process and the file.                                               *)

(* A file that cannot be read or parsed is moved aside; the move may fail. *)
Quarantine ==
    \/ /\ disk' = [kind |-> "absent", entries |-> {}]
       /\ aside' = aside \cup disk.entries
    \/ UNCHANGED <<disk, aside>>

(* load(): a file of this schema is taken in, another schema is reported,  *)
(* a damaged one is moved aside -- as is a good one that the operating     *)
(* system would not let us read this time.                                 *)
Load ==
    \/ /\ disk.kind = "current"
       /\ loaded' = disk.entries
       /\ UNCHANGED <<disk, aside>>
    \/ /\ disk.kind \in {"absent", "newer"}
       /\ loaded' = {}
       /\ UNCHANGED <<disk, aside>>
    \/ /\ disk.kind # "absent"
       /\ disk.kind = "damaged" \/ ReadMayFail
       /\ loaded' = {}
       /\ Quarantine

Start ==
    /\ ~running
    /\ Load
    /\ running' = TRUE
    /\ entries' = {} /\ pending' = {} /\ foreign' = {}
    /\ game' = None /\ sitting' = None
    /\ first' = newest + 1
    /\ warned' = (warned \ IdsOf(loaded')) \cup IdsOf(disk'.entries \ loaded')
    /\ UNCHANGED <<newest, gameOf, request, owed, accepted>>

(* The process dies or is closed: what was not saved is gone.  A crash in  *)
(* the middle of a save leaves the old file or the new one (os.replace).   *)
Stop ==
    /\ running
    /\ running' = FALSE
    /\ loaded' = {} /\ entries' = {} /\ pending' = {} /\ foreign' = {}
    /\ game' = None /\ sitting' = None
    /\ request' = [r \in Requests |-> Idle]
    /\ UNCHANGED <<disk, aside, play, ghosts>>

(* The store publishes the first snapshot of a new sitting.                *)
NewSitting(g) ==
    /\ running
    /\ newest < MaxSitting /\ newest + 1 < first + SittingsPerProcess
    /\ newest' = newest + 1
    /\ gameOf' = [gameOf EXCEPT ![newest + 1] = g]
    /\ UNCHANGED <<disk, aside, running, memory, first, request, ghosts>>

(* Mutant: only what applies is written.                                   *)
SaveAppliedOnly == disk' \in {disk, [kind |-> "current", entries |-> entries']}

(* _save_locked, after the change that called it: everything held in       *)
(* memory, or nothing when the write fails.                                *)
Save ==
    disk' \in {disk, [kind |-> "current", entries |-> entries' \cup pending' \cup foreign']}

Saved == disk' = [kind |-> "current", entries |-> entries' \cup pending' \cup foreign']

(* What the player has been warned of: what is offered now, and what was   *)
(* and is not among the entries a save has just put in the record again.   *)
Warn(again) ==
    warned' = IdsOf(pending') \cup (warned \ IF Saved THEN IdsOf(again) ELSE {})

-----------------------------------------------------------------------------
(* The record's operations, each under its lock.                           *)

(* Mutant: what was put aside as another game's is not looked at again.    *)
CandidatesWithoutForeign == loaded \cup entries

(* adopt(): what is in `pending' when it runs again is not a candidate.    *)
Candidates == loaded \cup entries \cup foreign

(* Mutant: every entry of the same game applies.                           *)
AdoptWholeGame(s) ==
    LET g    == gameOf[s]
        mine == {e \in Candidates : e.game = g}
    IN  IF <<game, sitting>> = <<g, s>>
        THEN UNCHANGED memory
        ELSE /\ game' = g /\ sitting' = s /\ entries' = mine /\ loaded' = {}
             /\ foreign' = {e \in Candidates : e.game \notin {Unnamed, g}}
             /\ pending' = {e \in Candidates : e.game = Unnamed}

Adopt(s) ==
    LET g    == gameOf[s]
        mine == {e \in Candidates : e.game = g /\ e.sitting = s}
        rest == Candidates \ mine
    IN  IF <<game, sitting>> = <<g, s>>
        THEN UNCHANGED memory
        ELSE /\ game' = g /\ sitting' = s
             /\ entries' = mine
             /\ foreign' = {e \in rest : e.game \notin {Unnamed, g}}
             /\ pending' = {e \in rest : e.game \in {Unnamed, g}}
             /\ loaded' = {}

(* record(): filed under the sitting the STORE is at, for the game of the  *)
(* snapshot the request holds.                                             *)
Record(subject, seen) ==
    LET e == [subject |-> subject, made |-> sitting, sitting |-> sitting,
              game |-> gameOf[seen]]
    IN  /\ entries' = Put(entries, e)
        /\ UNCHANGED <<loaded, pending, foreign, game, sitting>>
        /\ Save
        /\ owed' = IF Saved THEN owed \cup {Id(e)} ELSE owed
        /\ Warn({e})

(* associate(): the held group of sitting s becomes this sitting's.        *)
Associate(s) ==
    LET group == {e \in pending : e.sitting = s}
        moved == {[e EXCEPT !.sitting = sitting, !.game = game] : e \in group}
    IN  /\ running /\ sitting # None /\ group # {}
        /\ entries' = {e \in entries : Id(e) \notin IdsOf(moved)} \cup moved
        /\ pending' = pending \ group
        /\ UNCHANGED <<loaded, foreign, game, sitting>>
        /\ Save
        /\ accepted' = accepted \cup (IdsOf(moved) \X {sitting})
        /\ Warn(moved)
        /\ UNCHANGED <<aside, running, play, request, owed>>

Discard(s) ==
    LET group == {e \in pending : e.sitting = s}
    IN  /\ running /\ group # {}
        /\ pending' = pending \ group
        /\ UNCHANGED <<loaded, entries, foreign, game, sitting>>
        /\ Save
        /\ owed' = owed \ IdsOf(group)
        /\ UNCHANGED <<aside, running, play, request, accepted, warned>>

Forget(id) ==
    /\ running /\ id \in IdsOf(entries)
    /\ entries' = {e \in entries : Id(e) # id}
    /\ UNCHANGED <<loaded, pending, foreign, game, sitting>>
    /\ Save
    /\ owed' = owed \ {id}
    /\ UNCHANGED <<aside, running, play, request, accepted, warned>>

-----------------------------------------------------------------------------
(* The handlers.                                                           *)

(* current(): the request takes the snapshot on screen.                    *)
Capture(r) ==
    /\ running /\ request[r].at = "idle" /\ newest >= first
    /\ request' = [request EXCEPT ![r] = [at |-> "captured", sitting |-> newest]]
    /\ UNCHANGED <<disk, aside, running, memory, play, ghosts>>

(* record.adopt(captured.session, ...).                                    *)
AdoptFor(r) ==
    /\ request[r].at = "captured"
    /\ Adopt(request[r].sitting)
    /\ request' = [request EXCEPT ![r].at = "adopted"]
    /\ warned' = warned \cup IdsOf(pending')
    /\ UNCHANGED <<disk, aside, running, play, owed, accepted>>

(* POST /api/record.                                                       *)
RecordFor(r, subject) ==
    /\ request[r].at = "adopted"
    /\ Record(subject, request[r].sitting)
    /\ request' = [request EXCEPT ![r] = Idle]
    /\ UNCHANGED <<aside, running, play, accepted>>

(* GET /api/briefing, /api/record, ...: adopt is the only change.          *)
Respond(r) ==
    /\ request[r].at = "adopted"
    /\ request' = [request EXCEPT ![r] = Idle]
    /\ UNCHANGED <<disk, aside, running, memory, play, ghosts>>

Next ==
    \/ Start \/ Stop
    \/ \E g \in Games : NewSitting(g)
    \/ \E r \in Requests : Capture(r) \/ AdoptFor(r) \/ Respond(r)
    \/ \E r \in Requests, subject \in Subjects : RecordFor(r, subject)
    \/ \E s \in Sittings : Associate(s) \/ Discard(s)
    \/ \E id \in Ids : Forget(id)

Spec == Init /\ [][Next]_vars

-----------------------------------------------------------------------------
(* Properties.                                                             *)

(* The module's promise that notes are never lost silently: what the       *)
(* player was told is saved is on disk, moved aside, or still held by the  *)
(* running process, until the player forgets or discards it.               *)
NoNoteLost ==
    owed \subseteq IdsOf(disk.entries \cup aside \cup loaded \cup entries \cup pending \cup foreign)

(* "A different sitting does not inherit plans": what applies was recorded *)
(* in this sitting or was associated with it by the player, whatever the   *)
(* order in which requests of several sittings adopt it.                   *)
AppliedWasRecordedOrAccepted ==
    \A e \in entries :
        /\ e.sitting = sitting
        /\ e.made = sitting \/ <<Id(e), sitting>> \in accepted

(* "Still kept, so it survives the next save rather than being silently    *)
(* erased": through sittings of several games taking turns, crashes, saves *)
(* and moves that fail, a note is lost only once the player was warned of  *)
(* it: it was offered in another sitting of its game (what is offered, the *)
(* next adopt forgets), or load() said its file was left in place unread   *)
(* (which the next save overwrites).                                       *)
NoteLostOnlyAfterWarning ==
    owed \subseteq warned \cup
        IdsOf(disk.entries \cup aside \cup loaded \cup entries \cup pending \cup foreign)
=============================================================================
