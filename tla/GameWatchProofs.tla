--------------------------- MODULE GameWatchProofs ---------------------------
(***************************************************************************)
(* Proofs about GameWatch, for any games, worker threads and bounds: who   *)
(* holds selection_lock decides what may be pinned, applied and watched.   *)
(***************************************************************************)
EXTENDS GameWatch, TLAPS

Points   == {"idle", "queued", "read", "announce"}
JobType  == [at : Points, game : Games \cup {None}, generation : Nat, version : Nat]
Watchers == [game : Games, last : Nat, pending : Nat \cup {None}, thread : Threads \cup {None}]

Types ==
    /\ written \in [Games -> Versions] /\ choices \in 0 .. MaxChoices
    /\ pin \in Games \cup {None} /\ detected \in Games \cup {None}
    /\ active \in Games \cup {None} /\ generation \in Nat
    /\ holder \in {"nobody", "lifespan", "supervisor", "player"}
    /\ resolved \in Games \cup {None, Unasked}
    /\ watcher \in Watchers \cup {None}
    /\ initial \in Versions
    /\ jobs \in [Jobs -> JobType]
    /\ told \in BOOLEAN /\ missed \in BOOLEAN

(* What a rebuild in flight has read: of the active game if it began since *)
(* the last switch, and never more than is on disk.                        *)
JobsAreOfTheirTime ==
    \A j \in Jobs :
        /\ jobs[j].at \in {"queued", "read"} => active # None
        /\ jobs[j].at = "read" =>
              /\ jobs[j].game \in Games
              /\ jobs[j].generation <= generation
              /\ jobs[j].version <= written[jobs[j].game]
              /\ jobs[j].generation = generation => jobs[j].game = active

(* While start_watching() awaits its rebuild the lock is held, nobody      *)
(* watches, and no answer of the supervisor's is waiting to be applied.    *)
StartHoldsTheLock ==
    jobs[Start].at # "idle" =>
        /\ jobs[Start].at \in {"queued", "read"}
        /\ holder # "nobody" /\ watcher = None /\ resolved = Unasked
        /\ initial <= written[active]

(* What the supervisor is about to apply was resolved under the lock it    *)
(* still holds, so that no pin has been made since.                        *)
AnswerIsOfThisPin ==
    resolved # Unasked => holder = "supervisor" /\ (pin # None => resolved = pin)

ShownIsRead ==
    shown # None => /\ shown.game = active /\ shown.generation = generation
                    /\ active \in Games
                    /\ shown.version \in Nat /\ shown.version <= written[active]

WatcherKeepsUp ==
    watcher # None => /\ watcher.game = active /\ watcher.last <= written[watcher.game]
                      /\ watcher.pending # None => watcher.pending > watcher.last

Inv == /\ Types /\ JobsAreOfTheirTime /\ StartHoldsTheLock /\ AnswerIsOfThisPin
       /\ ShownIsRead /\ WatcherKeepsUp /\ PinnedIsActive

USE DEF Versions, Jobs, Start

-----------------------------------------------------------------------------
LEMMA IdleIsJob == Idle \in JobType /\ [Idle EXCEPT !.at = "queued"] \in JobType
                   /\ [Idle EXCEPT !.at = "announce"] \in JobType
  BY DEF Idle, JobType, Points

LEMMA InitInv == Init => Inv
  <1> SUFFICES ASSUME Init PROVE Inv
    OBVIOUS
  <1>1. Types
    <2>1. jobs \in [Jobs -> JobType]
      BY IdleIsJob DEF Init
    <2>2. written \in [Games -> Versions] /\ 0 \in Versions /\ 0 \in 0 .. MaxChoices
      BY GameWatchBounds DEF Init
    <2>3. QED
      BY <2>1, <2>2 DEF Init, Types, Resolve
  <1>2. \A j \in Jobs : jobs[j].at \in {"idle", "queued"} /\ (jobs[j].at = "queued" => j = Start /\ active # None)
    BY DEF Init, Idle
  <1>3. JobsAreOfTheirTime
    BY <1>2 DEF JobsAreOfTheirTime
  <1>4. StartHoldsTheLock
    <2>1. Start \in Jobs
      OBVIOUS
    <2>2. jobs[Start].at # "idle" => active # None /\ jobs[Start].at = "queued"
      BY <1>2, <2>1
    <2>3. active # None => holder = "lifespan" /\ initial = 0 /\ 0 <= written[active]
      BY <1>1 DEF Init, Types
    <2>4. QED
      BY <2>2, <2>3 DEF Init, StartHoldsTheLock
  <1>5. AnswerIsOfThisPin /\ ShownIsRead /\ WatcherKeepsUp /\ PinnedIsActive
    BY DEF Init, AnswerIsOfThisPin, ShownIsRead, WatcherKeepsUp, PinnedIsActive, Resolve
  <1>6. QED
    BY <1>1, <1>3, <1>4, <1>5 DEF Inv

(* The game writes: what was read is still on disk.                        *)
LEMMA PlayStep == ASSUME Inv, NEW g \in Games, Play(g) PROVE Inv'
  <1> USE DEF Inv, Types
  <1>1. written' \in [Games -> Versions] /\ \A h \in Games : written[h] <= written'[h]
    BY GameWatchBounds DEF Play
  <1>2. Types'
    BY <1>1 DEF Play, store
  <1>3. JobsAreOfTheirTime'
    <2>1. SUFFICES ASSUME NEW j \in Jobs PROVE
              /\ jobs[j].at \in {"queued", "read"} => active # None
              /\ jobs[j].at = "read" =>
                    /\ jobs[j].game \in Games
                    /\ jobs[j].generation <= generation
                    /\ jobs[j].version <= written'[jobs[j].game]
                    /\ jobs[j].generation = generation => jobs[j].game = active
      BY DEF Play, store, JobsAreOfTheirTime
    <2>2. jobs[j].version \in Nat
      BY DEF JobType
    <2>3. QED
      BY <1>1, <2>2 DEF JobsAreOfTheirTime
  <1>4. StartHoldsTheLock'
    <2>1. jobs[Start].at # "idle" => active \in Games
      BY DEF StartHoldsTheLock, JobsAreOfTheirTime
    <2>2. jobs[Start].at # "idle" => initial <= written'[active]
      BY <1>1, <2>1 DEF StartHoldsTheLock
    <2>3. QED
      BY <2>2 DEF StartHoldsTheLock, Play, store
  <1>5. AnswerIsOfThisPin' /\ PinnedIsActive'
    BY DEF Play, store, AnswerIsOfThisPin, PinnedIsActive
  <1>6. WatcherKeepsUp'
    BY <1>1 DEF Play, WatcherKeepsUp, Watchers, store
  <1>7. ShownIsRead'
    BY <1>1 DEF Play, store, ShownIsRead
  <1>8. QED
    BY <1>2, <1>3, <1>4, <1>5, <1>6, <1>7

LEMMA DetectStep == ASSUME Inv, NEW d \in Games \cup {None}, Detect(d) PROVE Inv'
  <1> USE DEF Inv, Types
  <1>1. Types'
    BY GameWatchBounds DEF Detect, store
  <1>2. QED
    BY <1>1 DEF Detect, store, JobsAreOfTheirTime, StartHoldsTheLock, AnswerIsOfThisPin,
                ShownIsRead, WatcherKeepsUp, PinnedIsActive

-----------------------------------------------------------------------------
(* The lock.                                                               *)

(* apply_selection() keeps the invariant when nothing is left to apply     *)
(* after it and what it applies is the pin, if there is one.               *)
LEMMA ApplyStep ==
    ASSUME Inv, NEW g \in Games \cup {None}, NEW who \in {"supervisor", "player"},
           Apply(g, who), jobs[Start].at = "idle",
           written' = written, detected' = detected, choices' \in 0 .. MaxChoices,
           pin' \in Games \cup {None}, pin' # None => g = pin',
           resolved' = Unasked
    PROVE  Inv'
  <1> USE DEF Inv, Types
  <1>1. AnswerIsOfThisPin'
    BY DEF AnswerIsOfThisPin
  <1>2. CASE ~IsSwitch(g)
    <2>1. /\ UNCHANGED <<active, generation, shown, watcher, initial, jobs, told, missed>>
          /\ holder' = "nobody"
      BY <1>2 DEF Apply, store
    <2>2. Types'
      BY <2>1
    <2>3. PinnedIsActive'
      BY <1>2, <2>1, GameWatchNone DEF IsSwitch, PinnedIsActive
    <2>4. JobsAreOfTheirTime' /\ StartHoldsTheLock' /\ ShownIsRead' /\ WatcherKeepsUp'
      BY <2>1 DEF JobsAreOfTheirTime, StartHoldsTheLock, ShownIsRead, WatcherKeepsUp
    <2>5. QED
      BY <1>1, <2>2, <2>3, <2>4
  <1>3. CASE IsSwitch(g)
    <2>1. /\ g \in Games /\ active' = g /\ generation' = generation + 1
          /\ shown' = None /\ told' = FALSE /\ missed' = FALSE /\ watcher' = None
          /\ initial' = written[g] /\ holder' = who
          /\ jobs' = [jobs EXCEPT ![Start] = [Idle EXCEPT !.at = "queued"]]
      BY <1>3 DEF Apply, IsSwitch, Retire, StartWatching
    <2>2. Types'
      <3>1. jobs' \in [Jobs -> JobType]
        BY <2>1, IdleIsJob
      <3>2. initial' \in Versions /\ generation' \in Nat
        BY <2>1
      <3>3. QED
        BY <2>1, <3>1, <3>2
    <2>3. /\ jobs'[Start].at = "queued"
          /\ \A j \in Jobs : j # Start => jobs'[j] = jobs[j]
      BY <2>1 DEF Idle
    <2>4. JobsAreOfTheirTime'
      <3>1. \A j \in Jobs : jobs[j].generation \in Nat
        BY DEF JobType
      <3>2. g # None
        BY <2>1, GameWatchNone
      <3>3. QED
        BY <2>1, <2>3, <3>1, <3>2 DEF JobsAreOfTheirTime
    <2>5. StartHoldsTheLock'
      BY <2>1, <2>2, <2>3 DEF StartHoldsTheLock
    <2>6. ShownIsRead' /\ WatcherKeepsUp' /\ PinnedIsActive'
      BY <2>1 DEF ShownIsRead, WatcherKeepsUp, PinnedIsActive
    <2>7. QED
      BY <1>1, <2>2, <2>4, <2>5, <2>6
  <1>4. QED
    BY <1>2, <1>3

LEMMA ChooseStep == ASSUME Inv, NEW c \in Games \cup {None}, Choose(c) PROVE Inv'
  <1> USE DEF Inv, Types
  <1>1. resolved = Unasked /\ jobs[Start].at = "idle"
    BY DEF Choose, MayChoose, AnswerIsOfThisPin, StartHoldsTheLock
  <1>2. Resolve(c, detected) \in Games \cup {None} /\ (c # None => Resolve(c, detected) = c)
    BY DEF Resolve
  <1>3. choices' \in 0 .. MaxChoices
    BY GameWatchBounds DEF Choose
  <1>4. QED
    BY <1>1, <1>2, <1>3, ApplyStep DEF Choose

LEMMA FollowStep == ASSUME Inv, Follow PROVE Inv'
  <1> USE DEF Inv, Types
  <1>1. resolved \in Games \cup {None} /\ (pin # None => resolved = pin)
    BY DEF Follow, AnswerIsOfThisPin
  <1>2. QED
    BY <1>1, ApplyStep DEF Follow, outside

LEMMA LookStep == ASSUME Inv, Look PROVE Inv'
  <1> USE DEF Inv, Types
  <1>1. jobs[Start].at = "idle"
    BY DEF Look, StartHoldsTheLock
  <1>2. Types' /\ AnswerIsOfThisPin'
    BY DEF Look, outside, store, Resolve, AnswerIsOfThisPin
  <1>3. QED
    BY <1>1, <1>2 DEF Look, outside, store, JobsAreOfTheirTime, StartHoldsTheLock,
                      ShownIsRead, WatcherKeepsUp, PinnedIsActive

-----------------------------------------------------------------------------
(* The watcher and the threads.                                            *)

(* The poll sees what is on disk, which is never less than it saw before.  *)
LEMMA TickStep == ASSUME Inv, Tick PROVE Inv'
  <1> USE DEF Inv, Types
  <1> DEFINE current == written[watcher.game]
  <1>1. watcher \in Watchers /\ watcher.game \in Games
        /\ current \in Nat /\ watcher.last <= current
    <2>1. watcher # None /\ watcher \in Watchers
      BY DEF Tick
    <2>2. watcher.game \in Games
      BY <2>1 DEF Watchers
    <2>3. written[watcher.game] \in 0 .. MaxWritten
      BY <2>2
    <2>4. QED
      BY <2>1, <2>2, <2>3, GameWatchBounds DEF WatcherKeepsUp
  <1>2. watcher' \in Watchers /\ watcher'.game = watcher.game
        /\ watcher'.last <= current
        /\ (watcher'.pending # None => watcher'.pending > watcher'.last)
    <2>1. \/ watcher' = [watcher EXCEPT !.pending = None]
          \/ current # watcher.last /\ watcher' = [watcher EXCEPT !.pending = current]
          \/ \E t \in Threads : watcher' = [watcher EXCEPT !.last = current, !.pending = None,
                                                           !.thread = t]
      BY DEF Tick
    <2>2. CASE watcher' = [watcher EXCEPT !.pending = None]
      BY <1>1, <2>2 DEF Watchers
    <2>3. CASE current # watcher.last /\ watcher' = [watcher EXCEPT !.pending = current]
      <3>1. watcher.last \in Nat /\ current > watcher.last
        BY <1>1, <2>3 DEF Watchers
      <3>2. QED
        BY <1>1, <2>3, <3>1 DEF Watchers
    <2>4. CASE \E t \in Threads : watcher' = [watcher EXCEPT !.last = current, !.pending = None,
                                                           !.thread = t]
      <3>1. PICK t \in Threads : watcher' = [watcher EXCEPT !.last = current, !.pending = None,
                                                            !.thread = t]
        BY <2>4
      <3>2. watcher' = [game |-> watcher.game, last |-> current, pending |-> None, thread |-> t]
        BY <1>1, <3>1 DEF Watchers
      <3>3. QED
        BY <1>1, <3>2 DEF Watchers
    <2>5. QED
      BY <2>1, <2>2, <2>3, <2>4
  <1>3. \/ jobs' = jobs
        \/ \E t \in Threads : jobs' = [jobs EXCEPT ![t].at = "queued"]
    BY DEF Tick
  <1>4. jobs' \in [Jobs -> JobType] /\ jobs'[Start] = jobs[Start]
        /\ \A j \in Jobs : jobs'[j] = jobs[j] \/ jobs'[j].at = "queued"
    BY <1>3, GameWatchStart DEF JobType, Points
  <1>5. Types'
    BY <1>2, <1>4 DEF Tick, outside, store
  <1>6. watcher # None /\ active # None
    BY <1>1, GameWatchNone DEF Tick, WatcherKeepsUp
  <1>7. JobsAreOfTheirTime'
    BY <1>4, <1>6 DEF Tick, outside, store, JobsAreOfTheirTime
  <1>8. StartHoldsTheLock'
    BY <1>4, <1>6 DEF Tick, outside, store, StartHoldsTheLock
  <1>9. WatcherKeepsUp'
    BY <1>2, <1>6 DEF Tick, outside, store, WatcherKeepsUp
  <1>10. AnswerIsOfThisPin' /\ ShownIsRead' /\ PinnedIsActive'
    BY DEF Tick, outside, store, AnswerIsOfThisPin, ShownIsRead, PinnedIsActive
  <1>11. QED
    BY <1>5, <1>7, <1>8, <1>9, <1>10

LEMMA ReadStep == ASSUME Inv, NEW j \in Jobs, Read(j) PROVE Inv'
  <1> USE DEF Inv, Types
  <1>1. active \in Games
    BY DEF Read, JobsAreOfTheirTime
  <1>2. written[active] \in Nat /\ generation \in Nat
    BY <1>1, GameWatchBounds
  <1>3. jobs'[j] = [at |-> "read", game |-> active, generation |-> generation,
                    version |-> written[active]]
        /\ \A i \in Jobs : i # j => jobs'[i] = jobs[i]
    BY DEF Read
  <1>4. jobs' \in [Jobs -> JobType]
    BY <1>1, <1>2 DEF Read, JobType, Points
  <1>5. Types'
    BY <1>4 DEF Read, outside, store
  <1>6. JobsAreOfTheirTime'
    BY <1>1, <1>2, <1>3 DEF Read, outside, store, JobsAreOfTheirTime
  <1>7. StartHoldsTheLock'
    BY <1>3 DEF Read, outside, store, StartHoldsTheLock
  <1>8. AnswerIsOfThisPin' /\ ShownIsRead' /\ WatcherKeepsUp' /\ PinnedIsActive'
    BY DEF Read, outside, store, AnswerIsOfThisPin, ShownIsRead, WatcherKeepsUp, PinnedIsActive
  <1>9. QED
    BY <1>5, <1>6, <1>7, <1>8

(* What is published was read since the last switch.                       *)
LEMMA ReadingIsShown ==
    ASSUME Inv, NEW j \in Jobs, jobs[j].at = "read", Current(j),
           shown' = Reading(j), UNCHANGED <<active, generation, written>>
    PROVE  ShownIsRead'
  <1>1. jobs[j].version \in Nat
    BY DEF Inv, Types, JobType
  <1>2. QED
    BY <1>1 DEF Inv, JobsAreOfTheirTime, Current, Reading, ShownIsRead

LEMMA FirstSteps == ASSUME Inv, PublishFirst \/ FirstFails PROVE Inv'
  <1> USE DEF Inv, Types
  <1>1. /\ resolved = Unasked /\ watcher = None /\ active \in Games
        /\ initial <= written[active]
    BY DEF PublishFirst, FirstFails, StartHoldsTheLock, JobsAreOfTheirTime
  <1>2. /\ jobs' = [jobs EXCEPT ![Start] = Idle] /\ holder' = "nobody"
        /\ UNCHANGED <<written, pin, detected, choices, active, generation, resolved, initial>>
    BY DEF PublishFirst, FirstFails, Started, outside, store
  <1>3. /\ jobs' \in [Jobs -> JobType] /\ jobs'[Start].at = "idle"
        /\ \A i \in Jobs : i # Start => jobs'[i] = jobs[i]
    BY <1>2, IdleIsJob DEF Idle
  <1>4. /\ watcher' \in Watchers \cup {None}
        /\ WatcherKeepsUp'
    <2>1. CASE PublishFirst
      BY <2>1, <1>1, <1>2 DEF PublishFirst, Started, Watchers, WatcherKeepsUp
    <2>2. CASE FirstFails
      BY <2>2, <1>1 DEF FirstFails, WatcherKeepsUp
    <2>3. QED
      BY <2>1, <2>2
  <1>5. ShownIsRead'
    <2>1. CASE PublishFirst
      BY <2>1, <1>2, ReadingIsShown DEF PublishFirst
    <2>2. CASE FirstFails
      BY <2>2, <1>2 DEF FirstFails, store, ShownIsRead
    <2>3. QED
      BY <2>1, <2>2
  <1>6. told' \in BOOLEAN /\ missed' \in BOOLEAN
    BY DEF PublishFirst, FirstFails, TellOfSwitch, LeavesMissed
  <1>7. Types'
    BY <1>2, <1>3, <1>4, <1>6
  <1>8. JobsAreOfTheirTime' /\ StartHoldsTheLock'
    BY <1>2, <1>3 DEF JobsAreOfTheirTime, StartHoldsTheLock
  <1>9. AnswerIsOfThisPin' /\ PinnedIsActive'
    BY <1>1, <1>2 DEF AnswerIsOfThisPin, PinnedIsActive
  <1>10. QED
    BY <1>4, <1>5, <1>7, <1>8, <1>9

(* A thread's later steps end its job or only announce it, and at most     *)
(* wake the watcher that waits for it.                                     *)
LEMMA ThreadStep ==
    ASSUME Inv, NEW t \in Threads, Publish(t) \/ Discard(t) \/ Announce(t) \/ Fails(t)
    PROVE  Inv'
  <1> USE DEF Inv, Types
  <1>1. /\ UNCHANGED <<written, pin, detected, choices, active, generation, holder,
                       resolved, initial>>
        /\ \/ jobs' = [jobs EXCEPT ![t] = Idle]
           \/ jobs' = [jobs EXCEPT ![t] = [Idle EXCEPT !.at = "announce"]]
    BY DEF Publish, Discard, Announce, Fails, outside, store
  <1>2. /\ jobs' \in [Jobs -> JobType] /\ jobs'[Start] = jobs[Start]
        /\ jobs'[t].at \in {"idle", "announce"}
        /\ \A i \in Jobs : i # t => jobs'[i] = jobs[i]
    BY <1>1, IdleIsJob, GameWatchStart DEF Idle
  <1>3. watcher' = watcher \/ (watcher # None /\ watcher' = [watcher EXCEPT !.thread = None])
    BY DEF Publish, Discard, Announce, Fails, Wake
  <1>4. /\ watcher' \in Watchers \cup {None}
        /\ WatcherKeepsUp' /\ (watcher = None => watcher' = None)
    <2>1. CASE watcher' = watcher
      BY <2>1, <1>1 DEF WatcherKeepsUp
    <2>2. CASE watcher # None /\ watcher' = [watcher EXCEPT !.thread = None]
      BY <2>2, <1>1 DEF WatcherKeepsUp, Watchers
    <2>3. QED
      BY <1>3, <2>1, <2>2
  <1>5. ShownIsRead'
    <2>1. CASE Publish(t)
      BY <2>1, <1>1, ReadingIsShown DEF Publish
    <2>2. CASE ~Publish(t)
      BY <2>2, <1>1 DEF Discard, Announce, Fails, store, ShownIsRead
    <2>3. QED
      BY <2>1, <2>2
  <1>6. told' \in BOOLEAN /\ missed' \in BOOLEAN
    BY DEF Publish, Discard, Announce, Fails, LeavesMissed
  <1>7. Types'
    BY <1>1, <1>2, <1>4, <1>6
  <1>8. JobsAreOfTheirTime' /\ StartHoldsTheLock'
    BY <1>1, <1>2, <1>4 DEF JobsAreOfTheirTime, StartHoldsTheLock
  <1>9. AnswerIsOfThisPin' /\ PinnedIsActive'
    BY <1>1 DEF AnswerIsOfThisPin, PinnedIsActive
  <1>10. QED
    BY <1>4, <1>5, <1>7, <1>8, <1>9

LEMMA StepInv == Inv /\ [Next]_vars => Inv'
  <1> SUFFICES ASSUME Inv, [Next]_vars PROVE Inv'
    OBVIOUS
  <1>1. CASE UNCHANGED vars
    BY <1>1 DEF vars, outside, store, Inv, Types, JobsAreOfTheirTime, StartHoldsTheLock,
                AnswerIsOfThisPin, ShownIsRead, WatcherKeepsUp, PinnedIsActive
  <1>2. CASE Next
    BY <1>2, PlayStep, DetectStep, ChooseStep, LookStep, FollowStep, TickStep, FirstSteps,
       ReadStep, ThreadStep DEF Next
  <1>3. QED
    BY <1>1, <1>2

-----------------------------------------------------------------------------
THEOREM InvHolds == Spec => []Inv
  BY InitInv, StepInv, PTL DEF Spec

(* games/selection.py: "The pin wins over detection, always": however slow *)
(* the supervisor's answer, a pinned game is the game on screen.           *)
THEOREM PinWins == Spec => []PinnedIsActive
  BY InvHolds, PTL DEF Inv

(* api/app.py: the one watcher there is watches the active game, across    *)
(* cancellations, rebuilds that raise and threads that outlive them.       *)
THEOREM WatcherOfActiveGame == Spec => []WatchesActive
  <1>1. Inv => WatchesActive
    BY DEF Inv, WatcherKeepsUp, WatchesActive
  <1>2. QED
    BY InvHolds, <1>1, PTL

(* The types, and with them: what is shown was read from the active game   *)
(* since the last switch, and nobody watches while a start is under way.   *)
THEOREM TypesHold == Spec => []TypeOK
  <1>1. Inv => TypeOK
    BY GameWatchBounds DEF Inv, Types, TypeOK, ShownIsRead, WatcherKeepsUp, StartHoldsTheLock,
       Watchers, JobType, Points
  <1>2. QED
    BY InvHolds, <1>1, PTL
=============================================================================
