------------------------- MODULE SnapshotStoreProofs -------------------------
(***************************************************************************)
(* Proofs about SnapshotStore, for any number of games, threads, saves and *)
(* turns.                                                                  *)
(***************************************************************************)
EXTENDS SnapshotStore, TLAPS

(* A thread past its three unlocked reads has found a game selected.       *)
JobsHaveGame ==
    \A t \in Threads : pc[t] \notin {"off", "profile", "dir"} =>
        job[t].profile \in Games /\ job[t].dir \in Games

TypeInv == TypeOK /\ JobsHaveGame

-----------------------------------------------------------------------------
LEMMA IdleJobType == IdleJob \in Jobs
  BY DEF IdleJob, Jobs, Reading, NoRows

LEMMA ReadingIsNat == Reading \subseteq Nat
  BY TurnsAssumption DEF Reading, NoRows

LEMMA InitTypes == Init => TypeInv
  <1> SUFFICES ASSUME Init PROVE TypeInv
    OBVIOUS
  <1>1. job \in [Threads -> Jobs]
    BY IdleJobType DEF Init
  <1>2. pc \in [Threads -> Points] /\ JobsHaveGame
    BY DEF Init, Points, JobsHaveGame
  <1>3. pendingSwitch \in BOOLEAN /\ sessionHasData \in BOOLEAN
    BY DEF Init
  <1>4. /\ archived \subseteq [src : Games, root : Games, epoch : Nat, key : Keys \cup {None}]
        /\ published \subseteq Snapshots
    BY DEF Init
  <1>5. QED
    BY <1>1, <1>2, <1>3, <1>4 DEF Init, TypeInv, TypeOK, Reasons

(* Publishing keeps the types: the one step that builds a Snapshot.        *)
LEMMA PublishTypes ==
    ASSUME TypeInv, NEW t \in Threads, Publish(t)
    PROVE  TypeInv'
  <1> USE DEF TypeInv, TypeOK
  <1>1. /\ revision' \in Nat /\ epoch' \in Nat /\ epochReason' \in Reasons
        /\ observedKey' \in Keys \cup {None}
        /\ pendingSwitch' \in BOOLEAN /\ sessionHasData' \in BOOLEAN
        /\ pendingReason' \in {"logs_wiped", None}
    <2> DEFINE turn == job[t].turn
               key  == job[t].key
               reason == SessionReason(turn, key)
    <2>1. turn \in Reading /\ key \in Keys \cup {None}
      BY DEF Jobs
    <2>2. reason \in Reasons \cup {Continue}
      BY DEF SessionReason, Reasons, Continue
    <2>3. PendingReason(turn) \in {"logs_wiped", None}
      BY DEF PendingReason
    <2>4. /\ revision' \in Nat /\ epoch' \in Nat
          /\ observedKey' \in Keys \cup {None}
          /\ pendingReason' \in {"logs_wiped", None}
      BY <2>1, <2>2, <2>3 DEF Publish, Capture
    <2>5. epochReason' \in Reasons
      BY <2>2 DEF Publish, Capture, Reasons
    <2>6. pendingSwitch' \in BOOLEAN /\ sessionHasData' \in BOOLEAN
      BY DEF Publish, Capture
    <2>7. QED BY <2>4, <2>5, <2>6
  <1>2. snapshot' \in Snapshots
    <2>1. /\ job[t].profile \in Games /\ job[t].dir \in Games
          /\ job[t].gen \in Nat /\ job[t].turn \in Reading
      BY DEF Publish, JobsHaveGame, Jobs
    <2>2. snapshot' = [game |-> job[t].profile, src |-> job[t].dir,
                       sitting |-> job[t].gen, epoch |-> epoch',
                       reason |-> epochReason', key |-> observedKey',
                       revision |-> revision', turn |-> job[t].turn]
      BY DEF Publish, Capture
    <2>3. QED BY <1>1, <2>1, <2>2 DEF Snapshots
  <1>3. job' \in [Threads -> Jobs] /\ pc' \in [Threads -> Points]
    <2>1. [job[t] EXCEPT !.epoch = epoch', !.revision = revision',
                         !.root = archiveRoot, !.savedKey = observedKey'] \in Jobs
      BY <1>1 DEF Jobs
    <2>2. QED BY <2>1 DEF Publish, Goto, Points
  <1>4. JobsHaveGame'
    <2>1. \A u \in Threads : job'[u].profile = job[u].profile /\ job'[u].dir = job[u].dir
      BY DEF Publish, Jobs
    <2>2. \A u \in Threads : u # t => pc'[u] = pc[u]
      BY DEF Publish, Goto
    <2>3. QED BY <2>1, <2>2 DEF JobsHaveGame, Publish
  <1>5. QED
    BY <1>1, <1>2, <1>3, <1>4 DEF Publish, selection, effects

LEMMA StepTypes == TypeInv /\ [Next]_vars => TypeInv'
  <1> SUFFICES ASSUME TypeInv, [Next]_vars PROVE TypeInv'
    OBVIOUS
  <1> USE DEF TypeInv, TypeOK
  <1>1. ASSUME NEW g \in Games, Activate(g) PROVE TypeInv'
    BY <1>1 DEF Activate, session, effects, JobsHaveGame
  <1>2. CASE SwitchTo
    <2>1. pendingSwitch' \in BOOLEAN /\ sessionHasData' \in BOOLEAN
      BY <1>2 DEF SwitchTo
    <2>2. QED BY <1>2, <2>1 DEF SwitchTo, effects, JobsHaveGame
  <1>3. ASSUME NEW t \in Threads, ReadProfile(t) PROVE TypeInv'
    BY <1>3 DEF ReadProfile, Goto, Unlocked, selection, session, effects, JobsHaveGame,
       Jobs, IdleJob, Points, Reading
  <1>4. ASSUME NEW t \in Threads, ReadLogsDir(t) PROVE TypeInv'
    BY <1>4 DEF ReadLogsDir, Goto, Unlocked, selection, session, effects, JobsHaveGame,
       Jobs, Points
  <1>5. ASSUME NEW t \in Threads, ReadGeneration(t) PROVE TypeInv'
    BY <1>5 DEF ReadGeneration, Return, Goto, Unlocked, selection, session, effects,
       JobsHaveGame, Jobs, IdleJob, Points, Reading
  <1>6. ASSUME NEW t \in Threads, NEW turn \in Reading, NEW key \in Keys \cup {None},
               ReadLogs(t, turn, key)
        PROVE  TypeInv'
    <2>1. [job[t] EXCEPT !.turn = turn, !.key = key] \in Jobs
      BY DEF Jobs
    <2>2. job' \in [Threads -> Jobs] /\ pc' \in [Threads -> Points]
      BY <1>6, <2>1 DEF ReadLogs, Goto, Points
    <2>3. QED
      BY <1>6, <2>2 DEF ReadLogs, Goto, Unlocked, selection, session, effects, JobsHaveGame,
         Jobs
  <1>7. ASSUME NEW t \in Threads, ReadFails(t) \/ Discard(t) PROVE TypeInv'
    BY <1>7 DEF ReadFails, Discard, Return, Unlocked, selection, session, effects,
       JobsHaveGame, Jobs, IdleJob, Points, Reading
  <1>8. ASSUME NEW t \in Threads, Publish(t) PROVE TypeInv'
    BY <1>8, PublishTypes
  <1>9. ASSUME NEW t \in Threads, Archive(t) PROVE TypeInv'
    <2>1. archived' \subseteq [src : Games, root : Games, epoch : Nat, key : Keys \cup {None}]
      BY <1>9 DEF Archive, JobsHaveGame, Jobs
    <2>2. QED
      BY <1>9, <2>1 DEF Archive, Goto, Unlocked, selection, session, JobsHaveGame, Points
  <1>10. ASSUME NEW t \in Threads, Schedule(t) PROVE TypeInv'
    BY <1>10 DEF Schedule, Return, Unlocked, selection, session, JobsHaveGame, Jobs,
       IdleJob, Points, Reading
  <1>11. CASE UNCHANGED vars
    BY <1>11 DEF vars, JobsHaveGame
  <1>12. QED
    BY <1>1, <1>2, <1>3, <1>4, <1>5, <1>6, <1>7, <1>8, <1>9, <1>10, <1>11 DEF Next, Rebuild

(* Every state of the store is well typed: in particular no snapshot is    *)
(* ever published for "no game", although an idle store's fields are read  *)
(* without the lock.                                                       *)
THEOREM TypeCorrect == Spec => []TypeOK
  <1>1. Spec => []TypeInv
    BY InitTypes, StepTypes, PTL DEF Spec
  <1>2. TypeInv => TypeOK
    BY DEF TypeInv
  <1>3. QED BY <1>1, <1>2, PTL

-----------------------------------------------------------------------------
(* The discard rule.  Three facts carry it: the two selection fields agree *)
(* whenever the lock is free; sessions still open belong to the current    *)
(* generation, unless a switch is waiting to close the last one; and an    *)
(* idle store has published nothing, so its first load closes nothing.     *)
SittingInv ==
    /\ profile = logsDir
    /\ profile = None => published = {}
    /\ \A p \in published :
          /\ p.sitting <= generation
          /\ p.epoch <= epoch
          /\ (p.epoch = epoch /\ ~pendingSwitch) => (p.sitting = generation /\ p.game = profile)

DiscardInv == TypeInv /\ SittingInv /\ SnapshotOfThisSitting /\ SessionWithinOneSitting

(* The steps that leave the selection and the session alone.               *)
LEMMA QuietSittings ==
    ASSUME DiscardInv, TypeInv',
           UNCHANGED <<profile, logsDir, generation, pendingSwitch, snapshot, epoch, published>>
    PROVE  DiscardInv'
  BY DEF DiscardInv, SittingInv, SnapshotOfThisSitting, SessionWithinOneSitting

(* The only step that adds a snapshot.                                     *)
LEMMA PublishSittings ==
    ASSUME DiscardInv, NEW t \in Threads, Publish(t)
    PROVE  SittingInv' /\ SnapshotOfThisSitting' /\ SessionWithinOneSitting'
  <1> USE DEF DiscardInv, TypeInv, TypeOK
  <1>1. /\ snapshot' \in Snapshots
        /\ published' = published \cup {snapshot'}
        /\ snapshot'.epoch = epoch'
        /\ snapshot'.game = profile /\ snapshot'.src = logsDir
        /\ snapshot'.sitting = generation
    <2>1. TypeInv' BY PublishTypes
    <2>2. snapshot' # None
      <3>1. snapshot' \in Snapshots
        <4>1. /\ job[t] \in Jobs /\ job[t].profile \in Games /\ job[t].dir \in Games
          BY DEF Publish, JobsHaveGame
        <4>2. /\ revision' \in Nat /\ epoch' \in Nat /\ epochReason' \in Reasons
              /\ observedKey' \in Keys \cup {None}
          BY <2>1
        <4>3. QED BY <4>1, <4>2 DEF Publish, Capture, Jobs, Snapshots
      <3>2. QED BY <3>1, NoneIsNoSnapshot
    <2>3. QED
      BY <2>1, <2>2 DEF Publish, Capture, StillCurrent
  <1>2. UNCHANGED <<profile, logsDir, generation>> /\ pendingSwitch' = FALSE
    BY DEF Publish, Capture, selection
  <1>3. profile \in Games
    BY <1>1 DEF Snapshots
  <1>4. epoch' = epoch + 1 \/ (epoch' = epoch /\ ~pendingSwitch)
    BY DEF Publish, Capture, SessionReason, Continue
  <1>5. \A p \in published : p \in Snapshots
    OBVIOUS
  <1>6. SittingInv'
    BY <1>1, <1>2, <1>3, <1>4, <1>5, NoneAssumption DEF SittingInv, Snapshots
  <1>7. SnapshotOfThisSitting'
    BY <1>1, <1>2 DEF SnapshotOfThisSitting, SittingInv
  <1>8. SessionWithinOneSitting'
    <2>1. \A p \in published : p.epoch = snapshot'.epoch
                => p.sitting = generation /\ p.game = profile
      BY <1>1, <1>4, <1>5 DEF SittingInv, Snapshots
    <2>2. QED
      BY <1>1, <2>1 DEF SessionWithinOneSitting
  <1>9. QED BY <1>6, <1>7, <1>8

LEMMA StepSittings == DiscardInv /\ [Next]_vars => DiscardInv'
  <1> SUFFICES ASSUME DiscardInv, [Next]_vars PROVE DiscardInv'
    OBVIOUS
  <1>1. TypeInv'
    BY StepTypes DEF DiscardInv
  <1>2. ASSUME NEW g \in Games, Activate(g) PROVE DiscardInv'
    BY <1>1, <1>2, QuietSittings DEF Activate, session
  <1>3. CASE SwitchTo
    <2>1. /\ profile' = switching /\ logsDir' = switching /\ snapshot' = None
          /\ generation' = generation + 1 /\ pendingSwitch' = (profile # None)
          /\ switching # None
          /\ UNCHANGED <<epoch, published>>
      BY <1>3 DEF SwitchTo
    <2>2. SittingInv'
      <3>1. ASSUME NEW p \in published
            PROVE  p.sitting <= generation + 1 /\ p.epoch <= epoch /\ profile # None
        BY DEF DiscardInv, SittingInv, TypeInv, TypeOK, Snapshots
      <3>2. published # {} => pendingSwitch'
        BY <2>1, <3>1
      <3>3. QED
        BY <2>1, <3>1, <3>2 DEF SittingInv
    <2>3. QED
      BY <1>1, <2>1, <2>2 DEF DiscardInv, SnapshotOfThisSitting, SessionWithinOneSitting
  <1>4. ASSUME NEW t \in Threads, Rebuild(t), ~Publish(t) PROVE DiscardInv'
    <2>1. Unlocked
      BY <1>4 DEF Rebuild, ReadProfile, ReadLogsDir, ReadGeneration, ReadLogs, ReadFails,
         Discard, Archive, Schedule
    <2>2. QED
      BY <1>1, <2>1, QuietSittings DEF Unlocked, selection, session
  <1>5. ASSUME NEW t \in Threads, Publish(t) PROVE DiscardInv'
    BY <1>1, <1>5, PublishSittings DEF DiscardInv
  <1>6. CASE UNCHANGED vars
    BY <1>1, <1>6, QuietSittings DEF vars
  <1>7. QED
    BY <1>2, <1>3, <1>4, <1>5, <1>6 DEF Next

LEMMA DiscardInvariant == Spec => []DiscardInv
  <1>1. Init => DiscardInv
    BY InitTypes DEF Init, DiscardInv, SittingInv, SnapshotOfThisSitting,
       SessionWithinOneSitting
  <1>2. QED
    BY <1>1, StepSittings, PTL DEF Spec

(* Store.rebuild's discard rule holds for any number of rebuild threads    *)
(* and any sequence of switches: what is published was read, by the active *)
(* game's readers, from its own directory, since the last switch_to.       *)
THEOREM DiscardRule == Spec => []SnapshotOfThisSitting
  <1>1. DiscardInv => SnapshotOfThisSitting
    BY DEF DiscardInv
  <1>2. QED BY <1>1, DiscardInvariant, PTL

(* No session id, under which the player's record is filed, is ever shared *)
(* by two sittings, so none is shared by two games.                        *)
THEOREM SessionsStayInTheirSitting == Spec => []SessionWithinOneSitting
  <1>1. DiscardInv => SessionWithinOneSitting
    BY DEF DiscardInv
  <1>2. QED BY <1>1, DiscardInvariant, PTL

-----------------------------------------------------------------------------
(* The epoch rules.  What makes them inductive is what the store remembers *)
(* about the rows its open session has shown: that there were some, that   *)
(* they reach no further than the snapshot on screen, which save they came *)
(* from; and that once an empty read has followed them, the pending reason *)
(* stands until the session is closed.                                     *)
HeldByStore(p) ==
    /\ sessionHasData
    /\ pendingReason = None =>
          /\ snapshot # None /\ p.turn <= snapshot.turn
          /\ p.key # None => p.key = observedKey

SessionInv ==
    /\ \A p \in published : p.revision <= revision /\ p.epoch <= epoch /\ p.epoch > 0
    /\ \A p \in published :
          (p.epoch = epoch /\ p.turn # NoRows /\ ~pendingSwitch) => HeldByStore(p)
    /\ \A p, q \in published :
          (/\ p.epoch = epoch /\ q.epoch = epoch /\ ~pendingSwitch
           /\ p.revision < q.revision /\ p.turn # NoRows /\ q.turn = NoRows)
              => pendingReason # None

SessionRules == TurnsAdvanceWithinSession /\ OneSavePerSession /\ WipeEndsSession

EpochInv == DiscardInv /\ SessionInv /\ SessionRules

LEMMA QuietSessions ==
    ASSUME EpochInv, DiscardInv',
           UNCHANGED <<pendingSwitch, snapshot, session, published>>
    PROVE  EpochInv'
  BY DEF EpochInv, SessionInv, SessionRules, HeldByStore, TurnsAdvanceWithinSession,
     OneSavePerSession, WipeEndsSession, session

(* What Publish(t) adds, in the terms of the epoch rules.                  *)
LEMMA PublishStep ==
    ASSUME TypeInv, NEW t \in Threads, Publish(t)
    PROVE  /\ published' = published \cup {snapshot'}
           /\ snapshot' \in Snapshots /\ snapshot' # None
           /\ snapshot'.revision = revision + 1 /\ revision' = revision + 1
           /\ snapshot'.epoch = epoch' /\ snapshot'.key = observedKey'
           /\ snapshot'.turn = job[t].turn
           /\ job[t].turn \in Nat /\ job[t].key \in Keys \cup {None}
           /\ epoch' = IF SessionReason(job[t].turn, job[t].key) = Continue
                       THEN epoch ELSE epoch + 1
           /\ observedKey' = IF SessionReason(job[t].turn, job[t].key) # Continue
                                  \/ job[t].key # None
                             THEN job[t].key ELSE observedKey
           /\ pendingReason' = PendingReason(job[t].turn)
           /\ ~pendingSwitch'
           /\ sessionHasData' = (job[t].turn # NoRows
                  \/ (sessionHasData /\ SessionReason(job[t].turn, job[t].key) = Continue))
  <1>1. TypeInv'
    BY PublishTypes
  <1>2. /\ job[t] \in Jobs /\ job[t].profile \in Games /\ job[t].dir \in Games
        /\ revision' \in Nat /\ epoch' \in Nat /\ epochReason' \in Reasons
        /\ observedKey' \in Keys \cup {None}
    BY <1>1 DEF Publish, JobsHaveGame, TypeInv, TypeOK
  <1>3. snapshot' \in Snapshots
    BY <1>2 DEF Publish, Capture, Jobs, Snapshots
  <1>4. job[t].turn \in Nat /\ job[t].key \in Keys \cup {None}
    BY <1>2, ReadingIsNat DEF Jobs
  <1>5. snapshot' # None
    BY <1>3, NoneIsNoSnapshot
  <1>6. /\ published' = published \cup {snapshot'}
        /\ snapshot'.revision = revision + 1 /\ revision' = revision + 1
        /\ snapshot'.epoch = epoch' /\ snapshot'.key = observedKey'
        /\ snapshot'.turn = job[t].turn
    BY DEF Publish, Capture
  <1>7. /\ epoch' = IF SessionReason(job[t].turn, job[t].key) = Continue
                    THEN epoch ELSE epoch + 1
        /\ observedKey' = IF SessionReason(job[t].turn, job[t].key) # Continue
                               \/ job[t].key # None
                          THEN job[t].key ELSE observedKey
        /\ pendingReason' = PendingReason(job[t].turn)
        /\ ~pendingSwitch'
        /\ sessionHasData' = (job[t].turn # NoRows
               \/ (sessionHasData /\ SessionReason(job[t].turn, job[t].key) = Continue))
    BY DEF Publish, Capture
  <1>8. QED
    BY <1>3, <1>4, <1>5, <1>6, <1>7

LEMMA PublishSessions ==
    ASSUME EpochInv, NEW t \in Threads, Publish(t)
    PROVE  SessionInv' /\ SessionRules'
  <1> DEFINE turn == job[t].turn
             key  == job[t].key
             new  == snapshot'
             reason == SessionReason(turn, key)
  <1>1. TypeInv BY DEF EpochInv, DiscardInv
  <1>2. /\ published' = published \cup {new}
        /\ new \in Snapshots /\ new # None
        /\ new.revision = revision + 1 /\ revision' = revision + 1
        /\ new.epoch = epoch' /\ new.key = observedKey' /\ new.turn = turn
        /\ turn \in Nat /\ key \in Keys \cup {None}
        /\ epoch' = IF reason = Continue THEN epoch ELSE epoch + 1
        /\ observedKey' = IF reason # Continue \/ key # None THEN key ELSE observedKey
        /\ pendingReason' = PendingReason(turn)
        /\ ~pendingSwitch'
        /\ sessionHasData' = (turn # NoRows \/ (sessionHasData /\ reason = Continue))
        /\ reason = SessionReason(turn, key) /\ new = snapshot'
    BY <1>1, PublishStep
  <1> HIDE DEF turn, key, new, reason
  <1>3. revision \in Nat /\ epoch \in Nat
    BY <1>1 DEF TypeInv, TypeOK
  <1>4. \A p \in published : /\ p.revision \in Nat /\ p.epoch \in Nat /\ p.turn \in Nat
                             /\ p.revision <= revision /\ p.epoch <= epoch /\ p.epoch > 0
    <2>1. \A p \in published : p \in Snapshots
      BY <1>1 DEF TypeInv, TypeOK
    <2>2. Reading \subseteq Nat
      BY ReadingIsNat
    <2>3. \A p \in published : p.revision <= revision /\ p.epoch <= epoch /\ p.epoch > 0
      BY DEF EpochInv, SessionInv
    <2>4. \A p \in Snapshots : p.revision \in Nat /\ p.epoch \in Nat /\ p.turn \in Reading
      BY DEF Snapshots
    <2>5. QED BY <2>1, <2>2, <2>3, <2>4
  <1>5. CASE reason # Continue
    <2>1. \A p \in published : p.epoch < epoch'
      BY <1>2, <1>3, <1>4, <1>5
    <2>2. turn # NoRows => sessionHasData'
      BY <1>2
    <2>3. \A p \in {new} : p.turn # NoRows => HeldByStore(p)'
      BY <1>2, <2>2 DEF HeldByStore
    <2>4. \A p \in published' : p.epoch = epoch' => p = new
      <3>1. \A p \in published : p.epoch # epoch'
        BY <1>3, <1>4, <2>1
      <3>2. QED BY <1>2, <3>1
    <2>5. \A p \in published' : p.revision <= revision' /\ p.epoch <= epoch' /\ p.epoch > 0
      BY <1>2, <1>3, <1>4, <1>5
    <2>6. SessionInv'
      <3>1. \A p \in published' :
               (p.epoch = epoch' /\ p.turn # NoRows) => HeldByStore(p)'
        BY <2>3, <2>4
      <3>2. \A p, q \in published' :
               (p.epoch = epoch' /\ q.epoch = epoch') => ~(p.revision < q.revision)
        BY <1>2, <1>3, <2>4
      <3>3. QED BY <2>5, <3>1, <3>2 DEF SessionInv
    <2>7. SessionRules'
      BY <1>2, <1>4, <2>1 DEF EpochInv, SessionRules, TurnsAdvanceWithinSession,
         OneSavePerSession, WipeEndsSession
    <2>8. QED BY <2>6, <2>7
  <1>6. CASE reason = Continue /\ turn = NoRows
    <2>1. ~pendingSwitch /\ epoch > 0 /\ epoch' = epoch
      BY <1>2, <1>3, <1>6 DEF SessionReason, Continue
    <2>2. \A p \in published : (p.epoch = epoch /\ p.turn # NoRows) => HeldByStore(p)
      BY <2>1 DEF EpochInv, SessionInv
    <2>3. /\ sessionHasData' = sessionHasData
          /\ sessionHasData => pendingReason' # None
          /\ pendingReason # None => pendingReason' # None
      <3>1. sessionHasData \in BOOLEAN
        BY <1>1 DEF TypeInv, TypeOK
      <3>2. pendingReason' = IF sessionHasData THEN "logs_wiped" ELSE pendingReason
        BY <1>2, <1>6, <2>1 DEF PendingReason
      <3>3. sessionHasData' = sessionHasData
        BY <1>2, <1>6, <3>1
      <3>4. QED BY <3>2, <3>3, NoneAssumption
    <2>4. SessionInv'
      BY <1>2, <1>3, <1>4, <1>6, <2>1, <2>2, <2>3 DEF SessionInv, HeldByStore
    <2>5. SessionRules'
      <3>1. TurnsAdvanceWithinSession'
        <4>1. \A q \in published' : q.turn # NoRows => q \in published
          BY <1>2, <1>6
        <4>2. \A p \in published', q \in published : p.revision < q.revision => p \in published
          BY <1>2, <1>3, <1>4
        <4>3. QED
          BY <4>1, <4>2 DEF EpochInv, SessionRules, TurnsAdvanceWithinSession
      <3>2. OneSavePerSession'
        BY <1>2, <1>6 DEF EpochInv, SessionRules, OneSavePerSession
      <3>3. WipeEndsSession'
        <4>1. \A r \in published' : r.turn # NoRows => r \in published
          BY <1>2, <1>6
        <4>2. \A q \in published', r \in published : q.revision < r.revision => q \in published
          BY <1>2, <1>3, <1>4
        <4>3. QED
          BY <4>1, <4>2 DEF EpochInv, SessionRules, WipeEndsSession
      <3>4. QED BY <3>1, <3>2, <3>3 DEF SessionRules
    <2>6. QED BY <2>4, <2>5
  <1>7. CASE reason = Continue /\ turn # NoRows
    <2>1. /\ ~pendingSwitch /\ epoch > 0 /\ epoch' = epoch /\ pendingReason = None
          /\ None \in {key, observedKey} \/ key = observedKey
          /\ snapshot = None \/ ~(snapshot.turn > turn)
      <3>1. pendingReason \in {"logs_wiped", None}
        BY <1>1 DEF TypeInv, TypeOK
      <3>2. QED BY <1>2, <1>3, <1>7, <3>1 DEF SessionReason, Continue
    <2>2. \A p \in published : (p.epoch = epoch /\ p.turn # NoRows) =>
              /\ p.turn <= turn
              /\ p.key # None => p.key = observedKey
      <3>1. snapshot # None => snapshot.turn \in Nat
        BY <1>1, ReadingIsNat DEF TypeInv, TypeOK, Snapshots
      <3>2. QED BY <1>2, <1>4, <2>1, <3>1 DEF EpochInv, SessionInv, HeldByStore
    <2>3. \A p, q \in published : ~(/\ p.epoch = epoch /\ q.epoch = epoch
              /\ p.revision < q.revision /\ p.turn # NoRows /\ q.turn = NoRows)
      BY <2>1 DEF EpochInv, SessionInv
    <2>4. \A p \in published : (p.epoch = epoch /\ p.turn # NoRows /\ p.key # None)
              => observedKey' = p.key
      BY <1>2, <1>7, <2>1, <2>2
    <2>5. SessionInv'
      <3>1. sessionHasData' /\ pendingReason' = None
        BY <1>2, <1>7, <2>1 DEF PendingReason
      <3>2. QED
        BY <1>2, <1>3, <1>4, <1>7, <2>1, <2>2, <2>3, <2>4, <3>1 DEF SessionInv, HeldByStore
    <2>6. TurnsAdvanceWithinSession'
      <3>1. SUFFICES ASSUME NEW p \in published', NEW q \in published',
                            p.epoch = q.epoch, p.revision < q.revision, q.turn # NoRows
                     PROVE  p.turn <= q.turn
        BY DEF TurnsAdvanceWithinSession
      <3>2. p \in published
        BY <1>2, <1>3, <1>4, <3>1
      <3>3. CASE q \in published
        BY <3>1, <3>2, <3>3 DEF EpochInv, SessionRules, TurnsAdvanceWithinSession
      <3>4. CASE q = new
        <4>1. p.epoch = epoch /\ q.turn = turn
          BY <1>2, <2>1, <3>1, <3>4
        <4>2. p.turn # NoRows => p.turn <= turn
          BY <2>2, <3>2, <4>1
        <4>3. QED BY <1>2, <4>1, <4>2 DEF NoRows
      <3>5. QED BY <1>2, <3>3, <3>4
    <2>7. OneSavePerSession'
      BY <1>2, <2>1, <2>4 DEF EpochInv, SessionRules, OneSavePerSession
    <2>8. WipeEndsSession'
      <3>1. SUFFICES ASSUME NEW p \in published', NEW q \in published', NEW r \in published',
                            p.epoch = q.epoch, q.epoch = r.epoch,
                            p.revision < q.revision, q.revision < r.revision,
                            p.turn # NoRows, q.turn = NoRows, r.turn # NoRows
                     PROVE  FALSE
        BY DEF WipeEndsSession
      <3>2. p \in published /\ q \in published
        BY <1>2, <1>3, <1>4, <3>1
      <3>3. CASE r \in published
        BY <3>1, <3>2, <3>3 DEF EpochInv, SessionRules, WipeEndsSession
      <3>4. CASE r = new
        BY <1>2, <2>1, <2>3, <3>1, <3>2, <3>4
      <3>5. QED BY <1>2, <3>3, <3>4
    <2>9. QED BY <2>5, <2>6, <2>7, <2>8 DEF SessionRules
  <1>8. QED BY <1>5, <1>6, <1>7

LEMMA StepSessions == EpochInv /\ [Next]_vars => EpochInv'
  <1> SUFFICES ASSUME EpochInv, [Next]_vars PROVE EpochInv'
    OBVIOUS
  <1>1. DiscardInv'
    BY StepSittings DEF EpochInv
  <1>2. ASSUME NEW g \in Games, Activate(g) PROVE EpochInv'
    BY <1>1, <1>2, QuietSessions DEF Activate
  <1>3. CASE SwitchTo
    <2>1. /\ pendingSwitch' = (profile # None)
          /\ UNCHANGED <<revision, epoch, published>>
      BY <1>3 DEF SwitchTo
    <2>2. published = {} \/ pendingSwitch'
      BY <2>1 DEF EpochInv, DiscardInv, SittingInv
    <2>3. SessionInv'
      BY <2>1, <2>2 DEF EpochInv, SessionInv, HeldByStore
    <2>4. QED
      BY <1>1, <2>1, <2>3 DEF EpochInv, SessionRules, TurnsAdvanceWithinSession,
         OneSavePerSession, WipeEndsSession
  <1>4. ASSUME NEW t \in Threads, Rebuild(t), ~Publish(t) PROVE EpochInv'
    <2>1. Unlocked
      BY <1>4 DEF Rebuild, ReadProfile, ReadLogsDir, ReadGeneration, ReadLogs, ReadFails,
         Discard, Archive, Schedule
    <2>2. QED
      BY <1>1, <2>1, QuietSessions DEF Unlocked
  <1>5. ASSUME NEW t \in Threads, Publish(t) PROVE EpochInv'
    BY <1>1, <1>5, PublishSessions DEF EpochInv
  <1>6. CASE UNCHANGED vars
    BY <1>1, <1>6, QuietSessions DEF vars, session
  <1>7. QED
    BY <1>2, <1>3, <1>4, <1>5, <1>6 DEF Next

LEMMA EpochInvariant == Spec => []EpochInv
  <1>1. Init => EpochInv
    BY InitTypes DEF Init, EpochInv, DiscardInv, SittingInv, SnapshotOfThisSitting,
       SessionWithinOneSitting, SessionInv, SessionRules, TurnsAdvanceWithinSession,
       OneSavePerSession, WipeEndsSession
  <1>2. QED
    BY <1>1, StepSessions, PTL DEF Spec

(* The epoch rules hold whatever the game writes, wipes or reloads, and    *)
(* however many rebuilds finish in whatever order.  The first: rows of an  *)
(* earlier turn never join the session of a later one, even when an empty  *)
(* read came between them.                                                 *)
THEOREM TurnsNeverGoBack == Spec => []TurnsAdvanceWithinSession
  <1>1. EpochInv => TurnsAdvanceWithinSession
    BY DEF EpochInv, SessionRules
  <1>2. QED BY <1>1, EpochInvariant, PTL

(* The second: all rows of one session that name their save's seeds name   *)
(* the same ones, also when snapshots that name none lie between them.     *)
THEOREM SessionsHoldOneSave == Spec => []OneSavePerSession
  <1>1. EpochInv => OneSavePerSession
    BY DEF EpochInv, SessionRules
  <1>2. QED BY <1>1, EpochInvariant, PTL

(* The third: after rows and then an empty read, the pending reason stands *)
(* until the next rows have opened a session of their own.                 *)
THEOREM WipesCloseSessions == Spec => []WipeEndsSession
  <1>1. EpochInv => WipeEndsSession
    BY DEF EpochInv, SessionRules
  <1>2. QED BY <1>1, EpochInvariant, PTL

-----------------------------------------------------------------------------
(* The archive.  A rebuild that still has to archive carries the session   *)
(* and the directory of a snapshot it published, and so does every entry   *)
(* made, long after the store may have moved to another game.              *)
ArchiveInv ==
    /\ \A t \in Threads : pc[t] = "archive" =>
          \E p \in published : p.epoch = job[t].epoch /\ p.game = job[t].dir
    /\ \A a \in archived : \E p \in published : p.epoch = a.epoch /\ p.game = a.src

LEMMA StepArchive == DiscardInv /\ ArchiveInv /\ [Next]_vars => ArchiveInv'
  <1> SUFFICES ASSUME DiscardInv, ArchiveInv, [Next]_vars PROVE ArchiveInv'
    OBVIOUS
  <1>1. TypeInv BY DEF DiscardInv
  <1>2. ASSUME NEW g \in Games, Activate(g) PROVE ArchiveInv'
    BY <1>2 DEF Activate, effects, ArchiveInv
  <1>3. CASE SwitchTo
    BY <1>3 DEF SwitchTo, effects, ArchiveInv
  <1>4. ASSUME NEW t \in Threads, Rebuild(t), ~Publish(t), ~Archive(t) PROVE ArchiveInv'
    <2>1. UNCHANGED <<published, archived>>
      BY <1>4 DEF Rebuild, ReadProfile, ReadLogsDir, ReadGeneration, ReadLogs, ReadFails,
         Discard, Schedule, Unlocked, effects
    <2>2. \A u \in Threads : pc'[u] = "archive" => pc[u] = "archive" /\ job'[u] = job[u]
      <3>1. pc \in [Threads -> Points] /\ job \in [Threads -> Jobs]
        BY <1>1 DEF TypeInv, TypeOK
      <3>2. \A u \in Threads \ {t} : pc'[u] = pc[u] /\ job'[u] = job[u]
        BY <1>4, <3>1 DEF Rebuild, ReadProfile, ReadLogsDir, ReadGeneration, ReadLogs,
           ReadFails, Discard, Schedule, Return, Goto
      <3>3. pc'[t] # "archive"
        BY <1>4, <3>1 DEF Rebuild, ReadProfile, ReadLogsDir, ReadGeneration, ReadLogs,
           ReadFails, Discard, Schedule, Return, Goto, Points
      <3>4. QED BY <3>2, <3>3
    <2>3. QED BY <2>1, <2>2 DEF ArchiveInv
  <1>5. ASSUME NEW t \in Threads, Publish(t) PROVE ArchiveInv'
    <2>1. /\ published' = published \cup {snapshot'}
          /\ snapshot'.epoch = epoch'
      BY <1>1, <1>5, PublishStep
    <2>2. snapshot'.game = job[t].dir
      BY <1>5 DEF DiscardInv, SittingInv, Publish, Capture, StillCurrent
    <2>3. /\ \A u \in Threads \ {t} : pc'[u] = pc[u] /\ job'[u] = job[u]
          /\ job'[t].dir = job[t].dir /\ job'[t].epoch = epoch'
      BY <1>1, <1>5 DEF Publish, Goto, TypeInv, TypeOK, Jobs
    <2>4. archived' = archived
      BY <1>5 DEF Publish, effects
    <2>5. \A u \in Threads : pc'[u] = "archive" =>
             \E p \in published' : p.epoch = job'[u].epoch /\ p.game = job'[u].dir
      <3>1. \E p \in published' : p.epoch = job'[t].epoch /\ p.game = job'[t].dir
        BY <2>1, <2>2, <2>3
      <3>2. \A u \in Threads \ {t} : pc'[u] = "archive" =>
                 \E p \in published' : p.epoch = job'[u].epoch /\ p.game = job'[u].dir
        BY <2>1, <2>3 DEF ArchiveInv
      <3>3. QED BY <3>1, <3>2
    <2>6. \A a \in archived' : \E p \in published' : p.epoch = a.epoch /\ p.game = a.src
      BY <2>1, <2>4 DEF ArchiveInv
    <2>7. QED
      BY <2>5, <2>6 DEF ArchiveInv
  <1>6. ASSUME NEW t \in Threads, Archive(t) PROVE ArchiveInv'
    <2>1. /\ UNCHANGED <<published, job>>
          /\ \A u \in Threads : pc'[u] = "archive" => pc[u] = "archive"
          /\ pc[t] = "archive"
          /\ \A a \in archived' : a \in archived
                \/ (a.src = job[t].dir /\ a.epoch = job[t].epoch)
      BY <1>1, <1>6 DEF Archive, Goto, Unlocked, TypeInv, TypeOK
    <2>2. QED BY <2>1 DEF ArchiveInv
  <1>7. CASE UNCHANGED vars
    BY <1>7 DEF vars, ArchiveInv
  <1>8. QED
    BY <1>2, <1>3, <1>4, <1>5, <1>6, <1>7 DEF Next

(* Each session's archive directory receives one game's logs only, though  *)
(* the copy is made with the lock released.                                *)
THEOREM ArchivesAreOfOneGame == Spec => []ArchiveSessionHoldsOneGame
  <1>1. Init => ArchiveInv
    BY DEF Init, ArchiveInv
  <1>2. DiscardInv /\ ArchiveInv => ArchiveSessionHoldsOneGame
    BY DEF DiscardInv, SessionWithinOneSitting, ArchiveInv,
       ArchiveSessionHoldsOneGame
  <1>3. QED
    BY <1>1, <1>2, StepArchive, DiscardInvariant, PTL DEF Spec

-----------------------------------------------------------------------------
(* The refinement of SnapshotFeed.  A store that has published keeps a     *)
(* snapshot of the open session on screen until a switch blanks it, and    *)
(* rows the session has shown are on that snapshot unless the reason that  *)
(* will close the session is already pending.                              *)
FeedInv ==
    /\ switching # None => switching # profile
    /\ profile = None => epoch = 0
    /\ (epoch > 0 /\ ~pendingSwitch) => snapshot # None /\ snapshot.epoch = epoch
    /\ (sessionHasData /\ pendingReason = None /\ snapshot # None) => snapshot.turn # NoRows
    /\ sessionHasData => snapshot # None

RefinementInv == DiscardInv /\ FeedInv

(* The two cases of Publish(t): what it shows, and whether it opens a      *)
(* session or continues the one on screen.                                 *)
LEMMA PublishShows ==
    ASSUME DiscardInv, NEW t \in Threads, Publish(t)
    PROVE  /\ profile # None /\ UNCHANGED <<profile, generation, switching>>
           /\ snapshot' # None
           /\ snapshot'.game = profile /\ snapshot'.sitting = generation
           /\ snapshot'.epoch = epoch' /\ snapshot'.revision = revision'
           /\ revision' = revision + 1
           /\ snapshot'.turn = job[t].turn /\ job[t].turn \in Reading
  <1>1. TypeInv BY DEF DiscardInv
  <1>2. /\ snapshot' # None /\ snapshot' \in Snapshots
        /\ snapshot'.epoch = epoch' /\ snapshot'.revision = revision'
        /\ revision' = revision + 1 /\ snapshot'.turn = job[t].turn
    BY <1>1, PublishStep
  <1>3. snapshot'.game = profile /\ snapshot'.sitting = generation
    BY DEF Publish, Capture, StillCurrent
  <1>4. profile # None
    BY <1>2, <1>3, NoneAssumption DEF Snapshots
  <1>5. QED
    BY <1>2, <1>3, <1>4 DEF Publish, selection, Snapshots

LEMMA StepFeedInv == RefinementInv /\ [Next]_vars => RefinementInv'
  <1> SUFFICES ASSUME RefinementInv, [Next]_vars PROVE FeedInv'
    BY StepSittings DEF RefinementInv
  <1>1. DiscardInv /\ FeedInv /\ TypeInv
    BY DEF RefinementInv, DiscardInv
  <1>2. ASSUME NEW g \in Games, Activate(g) PROVE FeedInv'
    BY <1>1, <1>2 DEF FeedInv, Activate, session
  <1>3. CASE SwitchTo
    <2>1. /\ switching' = None /\ profile' # None /\ sessionHasData' = FALSE
          /\ pendingSwitch' = (profile # None) /\ epoch' = epoch
      BY <1>3 DEF SwitchTo
    <2>2. epoch > 0 => profile # None
      BY <1>1 DEF FeedInv
    <2>3. QED
      BY <2>1, <2>2 DEF FeedInv
  <1>4. ASSUME NEW t \in Threads, Rebuild(t), ~Publish(t) PROVE FeedInv'
    <2>1. Unlocked
      BY <1>4 DEF Rebuild, ReadProfile, ReadLogsDir, ReadGeneration, ReadLogs, ReadFails,
         Discard, Archive, Schedule
    <2>2. QED
      BY <1>1, <2>1 DEF FeedInv, Unlocked, selection, session
  <1>5. ASSUME NEW t \in Threads, Publish(t) PROVE FeedInv'
    <2>1. /\ snapshot' # None /\ snapshot'.epoch = epoch'
          /\ snapshot'.turn = job[t].turn
          /\ profile # None /\ profile' = profile /\ switching' = switching
      BY <1>1, <1>5, PublishShows
    <2>2. (sessionHasData' /\ pendingReason' = None) => job[t].turn # NoRows
      <3>1. /\ sessionHasData' = (job[t].turn # NoRows
                  \/ (sessionHasData /\ SessionReason(job[t].turn, job[t].key) = Continue))
            /\ pendingReason' = PendingReason(job[t].turn)
        BY <1>1, <1>5, PublishStep
      <3>2. SUFFICES ASSUME job[t].turn = NoRows, sessionHasData, pendingReason' = None,
                            SessionReason(job[t].turn, job[t].key) = Continue
                     PROVE  FALSE
        BY <3>1
      <3>3. ~pendingSwitch /\ epoch # 0
        BY <3>2 DEF SessionReason, Continue
      <3>4. epoch > 0
        BY <1>1, <3>3 DEF TypeInv, TypeOK
      <3>5. PendingReason(job[t].turn) = "logs_wiped"
        BY <3>2, <3>3, <3>4 DEF PendingReason
      <3>6. QED BY <3>1, <3>2, <3>5, NoneAssumption
    <2>3. QED
      BY <1>1, <2>1, <2>2 DEF FeedInv
  <1>6. CASE UNCHANGED vars
    BY <1>1, <1>6 DEF FeedInv, vars
  <1>7. QED
    BY <1>2, <1>3, <1>4, <1>5, <1>6 DEF Next

(* A publication is a step of the feed.                                    *)
LEMMA PublishIsFeedStep ==
    ASSUME RefinementInv, NEW t \in Threads, Publish(t)
    PROVE  Feed!Next
  <1> DEFINE turn == job[t].turn
             key == job[t].key
  <1>1. DiscardInv /\ FeedInv /\ TypeInv
    BY DEF RefinementInv, DiscardInv
  <1>2. turn \in Turns \cup {0}
    BY <1>1, PublishShows DEF Reading, NoRows
  <1>3. Feed!Show(turn, epoch')
    BY <1>1, PublishShows DEF Feed!Show
  <1>4. /\ epoch' = IF SessionReason(turn, key) = Continue THEN epoch ELSE epoch + 1
        /\ sessionHasData' = (turn # NoRows
               \/ (sessionHasData /\ SessionReason(turn, key) = Continue))
    BY <1>1, PublishStep
  <1>5. CASE SessionReason(turn, key) # Continue
    BY <1>2, <1>3, <1>4, <1>5 DEF Feed!Open, Feed!Next, NoRows
  <1>6. CASE SessionReason(turn, key) = Continue
    <2>1. ~pendingSwitch /\ epoch # 0
      <3>1. pendingReason \in {"logs_wiped", None}
        BY <1>1 DEF TypeInv, TypeOK
      <3>2. QED BY <1>6, <3>1 DEF SessionReason, Continue
    <2>2. snapshot \in Snapshots /\ snapshot # None /\ snapshot.epoch = epoch
      BY <1>1, <2>1 DEF FeedInv, TypeInv, TypeOK
    <2>3. (turn # 0 /\ sessionHasData) => snapshot.turn > 0 /\ snapshot.turn <= turn
      <3>1. SUFFICES ASSUME turn # 0, sessionHasData
                     PROVE  snapshot.turn > 0 /\ snapshot.turn <= turn
        OBVIOUS
      <3>2. pendingReason = None /\ ~(snapshot.turn > turn)
        <4>1. pendingReason \in {"logs_wiped", None}
          BY <1>1 DEF TypeInv, TypeOK
        <4>2. QED BY <1>6, <2>1, <2>2, <3>1, <4>1 DEF SessionReason, Continue, NoRows
      <3>3. snapshot.turn \in Nat /\ turn \in Nat
        BY <1>1, <1>2, <2>2, ReadingIsNat DEF TypeInv, TypeOK, Snapshots, Reading, NoRows
      <3>4. snapshot.turn # NoRows
        BY <1>1, <2>2, <3>1, <3>2 DEF FeedInv
      <3>5. QED BY <3>2, <3>3, <3>4 DEF NoRows
    <2>4. Feed!Show(turn, snapshot.epoch) /\ epoch' = epoch
          /\ sessionHasData' = (sessionHasData \/ turn # 0)
      <3>1. sessionHasData \in BOOLEAN /\ sessionHasData' \in BOOLEAN
        BY <1>1, StepTypes, PublishTypes DEF TypeInv, TypeOK
      <3>2. QED BY <1>3, <1>4, <1>6, <2>2, <3>1 DEF NoRows
    <2>5. Feed!Continue(turn)
      <3>1. [game |-> snapshot.game, sitting |-> snapshot.sitting,
             session |-> snapshot.epoch, revision |-> snapshot.revision,
             turn |-> snapshot.turn] # None
        BY <2>2, NoneIsNotShown DEF Snapshots
      <3>2. turn = 0 \/ ~sessionHasData \/ (snapshot.turn > 0 /\ snapshot.turn <= turn)
        BY <2>3
      <3>3. QED BY <2>2, <2>4, <3>1, <3>2 DEF Feed!Continue
    <2>6. QED BY <1>2, <2>5 DEF Feed!Next
  <1>7. QED BY <1>5, <1>6

LEMMA StepRefinement == RefinementInv /\ [Next]_vars => [Feed!Next]_(Feed!vars)
  <1> SUFFICES ASSUME RefinementInv, [Next]_vars PROVE [Feed!Next]_(Feed!vars)
    OBVIOUS
  <1>1. ASSUME NEW g \in Games, Activate(g) PROVE UNCHANGED Feed!vars
    BY <1>1 DEF Activate, session, Feed!vars
  <1>2. CASE SwitchTo
    <2>1. switching \in Games /\ switching # profile
      BY <1>2 DEF SwitchTo, RefinementInv, FeedInv, DiscardInv, TypeInv, TypeOK
    <2>2. Feed!Switch(switching)
      BY <1>2, <2>1 DEF SwitchTo, Feed!Switch
    <2>3. QED BY <2>1, <2>2 DEF Feed!Next
  <1>3. ASSUME NEW t \in Threads, Rebuild(t), ~Publish(t) PROVE UNCHANGED Feed!vars
    <2>1. Unlocked
      BY <1>3 DEF Rebuild, ReadProfile, ReadLogsDir, ReadGeneration, ReadLogs, ReadFails,
         Discard, Archive, Schedule
    <2>2. QED
      BY <2>1 DEF Unlocked, selection, session, Feed!vars
  <1>4. ASSUME NEW t \in Threads, Publish(t) PROVE Feed!Next
    BY <1>4, PublishIsFeedStep
  <1>5. CASE UNCHANGED vars
    BY <1>5 DEF vars, Feed!vars
  <1>6. QED
    BY <1>1, <1>2, <1>3, <1>4, <1>5 DEF Next

(* The threaded store implements SnapshotFeed for any number of threads,   *)
(* games and saves: its readers may rely on one sitting at a time, on      *)
(* revisions without gaps, and on a session only ever continuing what is   *)
(* on screen.                                                              *)
THEOREM StoreImplementsFeed == Spec => ImplementsFeed
  <1>1. Init => Feed!Init /\ RefinementInv
    BY InitTypes DEF Init, Feed!Init, RefinementInv, DiscardInv, SittingInv, FeedInv,
       SnapshotOfThisSitting, SessionWithinOneSitting
  <1>2. QED
    BY <1>1, StepFeedInv, StepRefinement, PTL DEF Spec, ImplementsFeed, Feed!Spec
=============================================================================
