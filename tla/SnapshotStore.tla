---------------------------- MODULE SnapshotStore ----------------------------
(***************************************************************************)
(* civ_advisor/store.py: the Store that owns the published snapshot.       *)
(*                                                                         *)
(* A rebuild runs in a worker thread.  It reads profile, logs_dir and      *)
(* generation one after the other WITHOUT the lock, reads the logs, and    *)
(* only then takes the lock to publish; archiving and scheduling the       *)
(* commentary follow with the lock released.  The event loop meanwhile     *)
(* may move the store to another game: activate() (api/app.py) writes      *)
(* archive_root first, and only after file I/O of its own calls switch_to. *)
(*                                                                         *)
(* Abstractions.  A log directory is named by its game: GameSelector maps  *)
(* a profile to one directory for the whole run.  The content of a         *)
(* directory is whatever the game has just written, so each read returns   *)
(* any turn and any seeds.  _session, _epoch and _session_seq are counted  *)
(* together in the code; `epoch' stands for the three (0: no session yet). *)
(*                                                                         *)
(* `published' (every snapshot ever published), and the fields src and     *)
(* sitting of a snapshot (the directory it was read from and the           *)
(* generation it was read under), are there for the properties only.       *)
(***************************************************************************)
EXTENDS Naturals, FiniteSets

CONSTANTS
    Games,          \* game profiles; each has one logs directory
    Keys,           \* save seeds that GameCore.log may record
    Turns,          \* turns that Player_Stats rows may carry
    Threads,        \* worker threads able to run a rebuild
    None,           \* Python's None
    MaxRevision,    \* bound on the number of snapshots published
    MaxGeneration   \* bound on the number of game switches

ASSUME NoneAssumption == None \notin Games \cup Keys \cup {"logs_wiped"}
ASSUME TurnsAssumption == Turns \subseteq Nat \ {0}
ASSUME BoundsAssumption == MaxRevision \in Nat /\ MaxGeneration \in Nat

VARIABLES
    profile, logsDir, archiveRoot,   \* the game the store points at
    generation, pendingSwitch,       \* _generation, _pending_switch
    snapshot,                        \* the published Snapshot, or None
    revision, epoch, epochReason,    \* _revision, _epoch/_session, _session_reason
    sessionHasData, observedKey,     \* _session_has_data, _observed_key
    pendingReason,                   \* _pending_reason
    pc, job,                         \* rebuild threads: control point and locals
    switching,                       \* the game activate() is moving to, or None
    archived,                        \* directories mirrored, with where they went
    narrated,                        \* revision last handed to the commentary worker
    published                        \* history of snapshots

session  == <<revision, epoch, epochReason, sessionHasData, observedKey, pendingReason>>
selection == <<profile, logsDir, archiveRoot, generation, switching>>
effects  == <<archived, narrated>>
vars == <<profile, logsDir, archiveRoot, generation, pendingSwitch, snapshot,
          revision, epoch, epochReason, sessionHasData, observedKey, pendingReason,
          pc, job, switching, archived, narrated, published>>

NoRows   == 0                        \* raw.stats is empty
Reading  == Turns \cup {NoRows}      \* newest turn a read found
Continue == "continue"               \* _session_reason_locked returned None
Reasons  == {"first_load", "logs_wiped", "different_save", "turn_went_backwards",
             "game_switched"}

Snapshots == [game : Games, src : Games, sitting : Nat, epoch : Nat, reason : Reasons,
              key : Keys \cup {None}, revision : Nat, turn : Reading]

ASSUME NoneIsNoSnapshot == None \notin Snapshots
ASSUME NoneIsNotShown ==
    None \notin [game : Games, sitting : Nat, session : Nat, revision : Nat, turn : Reading]

Points == {"off", "profile", "dir", "read", "commit", "archive", "schedule"}

Jobs == [profile : Games \cup {None}, dir : Games \cup {None}, gen : Nat,
         turn : Reading, key : Keys \cup {None},
         epoch : Nat, revision : Nat, root : Games \cup {None}, savedKey : Keys \cup {None}]

IdleJob == [profile |-> None, dir |-> None, gen |-> 0, turn |-> NoRows, key |-> None,
            epoch |-> 0, revision |-> 0, root |-> None, savedKey |-> None]

TypeOK ==
    /\ profile \in Games \cup {None}
    /\ logsDir \in Games \cup {None}
    /\ archiveRoot \in Games \cup {None}
    /\ switching \in Games \cup {None}
    /\ generation \in Nat /\ revision \in Nat /\ epoch \in Nat /\ narrated \in Nat
    /\ pendingSwitch \in BOOLEAN /\ sessionHasData \in BOOLEAN
    /\ snapshot \in Snapshots \cup {None}
    /\ epochReason \in Reasons
    /\ observedKey \in Keys \cup {None}
    /\ pendingReason \in {"logs_wiped", None}
    /\ pc \in [Threads -> Points]
    /\ job \in [Threads -> Jobs]
    /\ archived \subseteq [src : Games, root : Games, epoch : Nat, key : Keys \cup {None}]
    /\ published \subseteq Snapshots

(* create_app builds the Store on the game it was started for, or idle.    *)
Init ==
    /\ profile \in Games \cup {None}
    /\ logsDir = profile /\ archiveRoot = profile
    /\ generation = 0 /\ pendingSwitch = FALSE /\ switching = None
    /\ snapshot = None /\ revision = 0 /\ epoch = 0 /\ epochReason = "first_load"
    /\ sessionHasData = FALSE /\ observedKey = None /\ pendingReason = None
    /\ pc = [t \in Threads |-> "off"] /\ job = [t \in Threads |-> IdleJob]
    /\ archived = {} /\ narrated = 0 /\ published = {}

-----------------------------------------------------------------------------
(* Selecting a game: activate() on the event loop.                         *)

(* activate(): archive_root is assigned first, before the early return and *)
(* before the record is loaded and the history forgotten.                  *)
Activate(g) ==
    /\ switching = None
    /\ profile # g => generation < MaxGeneration
    /\ archiveRoot' = g
    /\ switching' = IF profile = g THEN None ELSE g
    /\ UNCHANGED <<profile, logsDir, generation, pendingSwitch, snapshot, session,
                   pc, job, effects, published>>

(* Mutant of SwitchTo: the switch leaves the next epoch to the turn rules. *)
SwitchToWithoutPendingSwitch ==
    /\ switching # None
    /\ profile' = switching /\ logsDir' = switching
    /\ snapshot' = None /\ observedKey' = None
    /\ sessionHasData' = FALSE /\ pendingReason' = None
    /\ generation' = generation + 1
    /\ switching' = None
    /\ UNCHANGED <<archiveRoot, pendingSwitch, revision, epoch, epochReason, pc, job,
                   effects, published>>

(* Store.switch_to, reached at the end of activate().                      *)
SwitchTo ==
    /\ switching # None
    /\ profile' = switching /\ logsDir' = switching
    /\ snapshot' = None /\ observedKey' = None
    /\ sessionHasData' = FALSE /\ pendingReason' = None
    /\ pendingSwitch' = (profile # None)
    /\ generation' = generation + 1
    /\ switching' = None
    /\ UNCHANGED <<archiveRoot, revision, epoch, epochReason, pc, job, effects, published>>

-----------------------------------------------------------------------------
(* A rebuild, in thread t.                                                 *)

Goto(t, point) == pc' = [pc EXCEPT ![t] = point]

Return(t) ==
    /\ pc' = [pc EXCEPT ![t] = "off"]
    /\ job' = [job EXCEPT ![t] = IdleJob]

Unlocked == UNCHANGED <<selection, pendingSwitch, snapshot, session, published>>

(* `profile, logs_dir, generation = ...': three reads, no lock.            *)
ReadProfile(t) ==
    /\ pc[t] = "off"
    /\ job' = [job EXCEPT ![t] = [IdleJob EXCEPT !.profile = profile]]
    /\ Goto(t, "profile")
    /\ Unlocked /\ UNCHANGED effects

ReadLogsDir(t) ==
    /\ pc[t] = "profile"
    /\ job' = [job EXCEPT ![t].dir = logsDir]
    /\ Goto(t, "dir")
    /\ Unlocked /\ UNCHANGED effects

(* Mutant of ReadGeneration: an idle store is rebuilt all the same.        *)
ReadGenerationWhenIdle(t) ==
    /\ pc[t] = "dir"
    /\ job' = [job EXCEPT ![t].gen = generation]
    /\ Goto(t, "read")
    /\ Unlocked /\ UNCHANGED effects

(* ... and the early return of an idle store.                              *)
ReadGeneration(t) ==
    /\ pc[t] = "dir"
    /\ IF None \in {job[t].profile, job[t].dir}
       THEN Return(t)
       ELSE Goto(t, "read") /\ job' = [job EXCEPT ![t].gen = generation]
    /\ Unlocked /\ UNCHANGED effects

(* load_logs, build_state, run_all, game_key and the tuner capture: what   *)
(* they return depends on the game's files alone.                          *)
ReadLogs(t, turn, key) ==
    /\ pc[t] = "read"
    /\ job' = [job EXCEPT ![t].turn = turn, ![t].key = key]
    /\ Goto(t, "commit")
    /\ Unlocked /\ UNCHANGED effects

(* game_key reads a file it has only just seen to exist, and an advisor    *)
(* may raise: the exception leaves rebuild() with nothing changed.         *)
ReadFails(t) ==
    /\ pc[t] = "read"
    /\ Return(t)
    /\ Unlocked /\ UNCHANGED effects

(* Mutants of StillCurrent: one comparison of the recheck forgotten.       *)
StillCurrentButForGeneration(t) == job[t].profile = profile /\ job[t].dir = logsDir
StillCurrentButForDirectory(t) == job[t].profile = profile /\ job[t].gen = generation

(* The recheck under the lock.                                             *)
StillCurrent(t) ==
    /\ job[t].profile = profile
    /\ job[t].dir = logsDir
    /\ job[t].gen = generation

Discard(t) ==
    /\ pc[t] = "commit"
    /\ ~StillCurrent(t)
    /\ Return(t)
    /\ Unlocked /\ UNCHANGED effects

(* Mutants of SessionReason: a rule of the chain forgotten.                *)
SessionReasonIgnoringTurns(turn, key) ==
    IF pendingSwitch THEN "game_switched"
    ELSE IF turn = NoRows THEN IF epoch = 0 THEN "first_load" ELSE Continue
    ELSE IF pendingReason # None THEN pendingReason
    ELSE IF epoch = 0 THEN "first_load"
    ELSE IF None \notin {key, observedKey} /\ key # observedKey THEN "different_save"
    ELSE Continue

SessionReasonIgnoringSeeds(turn, key) ==
    IF pendingSwitch THEN "game_switched"
    ELSE IF turn = NoRows THEN IF epoch = 0 THEN "first_load" ELSE Continue
    ELSE IF pendingReason # None THEN pendingReason
    ELSE IF epoch = 0 THEN "first_load"
    ELSE IF snapshot # None /\ snapshot.turn > turn THEN "turn_went_backwards"
    ELSE Continue

(* _session_reason_locked: the first rule that fires.                      *)
SessionReason(turn, key) ==
    IF pendingSwitch THEN "game_switched"
    ELSE IF turn = NoRows THEN IF epoch = 0 THEN "first_load" ELSE Continue
    ELSE IF pendingReason # None THEN pendingReason
    ELSE IF epoch = 0 THEN "first_load"
    ELSE IF None \notin {key, observedKey} /\ key # observedKey THEN "different_save"
    ELSE IF snapshot # None /\ snapshot.turn > turn THEN "turn_went_backwards"
    ELSE Continue

(* Mutant of PendingReason: the next read of any kind uses the reason up.  *)
PendingReasonUsedUpByEmptyRead(turn) ==
    IF pendingSwitch THEN pendingReason
    ELSE IF turn # NoRows \/ pendingReason # None THEN None
    ELSE IF epoch > 0 /\ sessionHasData THEN "logs_wiped"
    ELSE pendingReason

(* Its side effect: an empty read after data was seen is a wiped directory,*)
(* and the next read with rows uses the reason up.                         *)
PendingReason(turn) ==
    IF pendingSwitch THEN pendingReason
    ELSE IF turn # NoRows THEN None
    ELSE IF epoch > 0 /\ sessionHasData THEN "logs_wiped"
    ELSE pendingReason

(* _capture_locked and the publication, one critical section.              *)
Capture(t) ==
    LET turn   == job[t].turn
        key    == job[t].key
        reason == SessionReason(turn, key)
        starts == reason # Continue
    IN  /\ revision' = revision + 1
        /\ pendingSwitch' = FALSE
        /\ pendingReason' = PendingReason(turn)
        /\ epoch' = IF starts THEN epoch + 1 ELSE epoch
        /\ epochReason' = IF starts THEN reason ELSE epochReason
        /\ observedKey' = IF starts \/ key # None THEN key ELSE observedKey
        /\ sessionHasData' = (turn # NoRows \/ (sessionHasData /\ ~starts))
        /\ snapshot' = [game |-> job[t].profile, src |-> job[t].dir,
                        sitting |-> job[t].gen, epoch |-> epoch',
                        reason |-> epochReason', key |-> observedKey',
                        revision |-> revision', turn |-> turn]

Publish(t) ==
    /\ pc[t] = "commit"
    /\ StillCurrent(t)
    /\ revision < MaxRevision
    /\ Capture(t)
    /\ published' = published \cup {snapshot'}
    /\ job' = [job EXCEPT ![t].epoch = epoch', ![t].revision = revision',
                          ![t].root = archiveRoot, ![t].savedKey = observedKey']
    /\ Goto(t, "archive")
    /\ UNCHANGED <<selection, effects>>

(* Mutant of Archive: the live logs_dir is read again after the lock.      *)
ArchiveLiveDirectory(t) ==
    /\ pc[t] = "archive"
    /\ archived' = IF job[t].root = None \/ job[t].turn = NoRows THEN archived
                   ELSE archived \cup {[src |-> logsDir, root |-> job[t].root,
                                        epoch |-> job[t].epoch, key |-> job[t].savedKey]}
    /\ Goto(t, "schedule")
    /\ Unlocked /\ UNCHANGED <<job, narrated>>

(* _archive: mirrors the directory this rebuild read, if it held rows.     *)
Archive(t) ==
    /\ pc[t] = "archive"
    /\ archived' = IF job[t].root = None \/ job[t].turn = NoRows THEN archived
                   ELSE archived \cup {[src |-> job[t].dir, root |-> job[t].root,
                                        epoch |-> job[t].epoch, key |-> job[t].savedKey]}
    /\ Goto(t, "schedule")
    /\ Unlocked /\ UNCHANGED <<job, narrated>>

(* commentary_worker.schedule(snapshot), the last call of a rebuild.       *)
Schedule(t) ==
    /\ pc[t] = "schedule"
    /\ narrated' = job[t].revision
    /\ Return(t)
    /\ Unlocked /\ UNCHANGED archived

Rebuild(t) ==
    \/ ReadProfile(t) \/ ReadLogsDir(t) \/ ReadGeneration(t)
    \/ \E turn \in Reading, key \in Keys \cup {None} : ReadLogs(t, turn, key)
    \/ ReadFails(t) \/ Discard(t) \/ Publish(t) \/ Archive(t) \/ Schedule(t)

Next ==
    \/ \E g \in Games : Activate(g)
    \/ SwitchTo
    \/ \E t \in Threads : Rebuild(t)

Spec == Init /\ [][Next]_vars

-----------------------------------------------------------------------------
(* Properties.                                                             *)

(* Store.rebuild's discard rule: what is on screen was read, by the active *)
(* game's own readers, from its own directory, entirely after the last     *)
(* switch.  Torn reads of profile, logs_dir and generation and A->B->A     *)
(* sequences must all be caught by the recheck under the lock.             *)
SnapshotOfThisSitting ==
    snapshot # None =>
        /\ snapshot.game = profile
        /\ snapshot.src = profile
        /\ snapshot.sitting = generation

(* The session id is what the player's saved record is filed under, so one *)
(* session never spans a game switch, not even a switch away and back.     *)
SessionWithinOneSitting ==
    \A p, q \in published :
        p.epoch = q.epoch => p.sitting = q.sitting /\ p.game = q.game

(* _session_reason_locked: a turn that moves backwards, with or without an *)
(* empty read in between, never stays in the session it moved back from.   *)
TurnsAdvanceWithinSession ==
    \A p, q \in published :
        (p.epoch = q.epoch /\ p.revision < q.revision /\ q.turn # NoRows) => p.turn <= q.turn

(* A session never mixes two saves: every snapshot with rows that names    *)
(* its save's seeds names the same ones.                                   *)
OneSavePerSession ==
    \A p, q \in published :
        (p.epoch = q.epoch /\ NoRows \notin {p.turn, q.turn} /\ None \notin {p.key, q.key})
            => p.key = q.key

(* A wiped Logs/ directory ends the session: rows, an empty read and rows  *)
(* again are never three snapshots of one session.                         *)
WipeEndsSession ==
    \A p, q, r \in published :
        ~ /\ p.epoch = q.epoch /\ q.epoch = r.epoch
          /\ p.revision < q.revision /\ q.revision < r.revision
          /\ p.turn # NoRows /\ q.turn = NoRows /\ r.turn # NoRows

(* _archive is handed the locked section's own session, directory and      *)
(* seeds: one session's archive directory never receives the logs of two   *)
(* games.                                                                  *)
ArchiveSessionHoldsOneGame ==
    \A a, b \in archived : a.epoch = b.epoch => a.src = b.src

(* store.py: "a switch_to landing in the gap ... must not be able to mirror*)
(* one game's logs into another's archive root".                           *)
ArchivedUnderOwnRoot == \A a \in archived : a.root = a.src

-----------------------------------------------------------------------------
(* What the store's readers may rely on, and how its state maps to it.     *)
Feed == INSTANCE SnapshotFeed WITH
    game <- profile,
    sitting <- generation,
    shown <- IF snapshot = None THEN None
             ELSE [game |-> snapshot.game, sitting |-> snapshot.sitting,
                   session |-> snapshot.epoch, revision |-> snapshot.revision,
                   turn |-> snapshot.turn],
    sessions <- epoch,
    played <- sessionHasData

(* The store implements the feed its readers rely on: every rebuild step is *)
(* a Continue, an Open or invisible, every switch_to a Switch.              *)
ImplementsFeed == Feed!Spec

=============================================================================
