------------------------ MODULE CommentaryWorkerProofs ------------------------
(***************************************************************************)
(* Proofs about CommentaryWorker, for any number of prompts, turns,        *)
(* snapshots and rebuild threads.                                          *)
(***************************************************************************)
EXTENDS CommentaryWorker, TLAPS

(* The executor works on the active key; what waits is another key, waits  *)
(* behind an active one and has no result; and a prompt that was given to  *)
(* the model either has its result or is with the model now.               *)
QueueInv ==
    /\ job # None => active = job.key
    /\ pending # None => /\ active # None /\ pending # active
                         /\ results[pending] \notin Settled
    /\ (job # None /\ job.at = "stored") => results[job.key] \in Settled
    /\ (job # None /\ job.at = "submitted") => generations[job.key] = 0
    /\ \A k \in Keys : generations[k] <= 1
    /\ \A k \in Keys : generations[k] # 0 =>
          \/ results[k] \in Settled
          \/ job # None /\ job.key = k /\ job.at # "submitted"

OneRebuilder == \A t, u \in Rebuilders : t = u

(* What is told to wait.  A "queued" that nothing stands behind can only   *)
(* be left in oracle mode, on a prompt that is not on screen or whose      *)
(* rebuild has yet to schedule it.                                         *)
Backed ==
    /\ active # None => job # None /\ results[active] \in {"generating"} \cup Settled
    /\ \A k \in Keys : results[k] = "generating" => active = k
    /\ \A k \in Keys : (results[k] = "queued" /\ k.mode = "fair") => pending = k

Scheduled == \A t \in Rebuilders : scheduling[t] = 0

ScreenBacked ==
    (OnScreen(shown, "oracle") /\ Scheduled /\ results[Key(shown, "oracle")] = "queued")
        => pending = Key(shown, "oracle")

WaitInv ==
    /\ OneRebuilder
    /\ shutdown => closed
    /\ \A t \in Rebuilders : scheduling[t] \in {0, shown}
    /\ ~closed => Backed /\ ScreenBacked

-----------------------------------------------------------------------------
(* Types.                                                                  *)

Statuses == {"none", "queued", "generating"} \cup Settled

LEMMA KeyIsKey ==
    ASSUME TypeOK, NEW r \in Revisions, NEW m \in Modes, Narrates(r, m)
    PROVE  Key(r, m) \in Keys
  BY DEF TypeOK, Narrates, Key, Keys

(* What a request does to the queue, in the terms of its types.            *)
LEMMA EnqueueTypes ==
    ASSUME TypeOK, NEW key \in Keys, Enqueue(key)
    PROVE  /\ results' \in [Keys -> Statuses]
           /\ active' \in Keys \cup {None} /\ pending' \in Keys \cup {None}
           /\ job' \in Jobs \cup {None}
  <1> USE DEF TypeOK, Statuses
  <1>1. CASE Ignore
    BY <1>1 DEF Ignore
  <1>2. CASE StartOrWait(key, Displaced(key))
    <2>1. Displaced(key) \in [Keys -> Statuses]
      BY DEF Displaced
    <2>2. [key |-> key, at |-> "submitted"] \in Jobs
      BY DEF Jobs
    <2>3. CASE active = None
      BY <1>2, <2>2, <2>3 DEF StartOrWait, Start
    <2>4. CASE active # None
      BY <1>2, <2>1, <2>4 DEF StartOrWait, Wait
    <2>5. QED BY <2>3, <2>4
  <1>3. QED BY <1>1, <1>2 DEF Enqueue

LEMMA HandOverTypes ==
    ASSUME TypeOK, NEW key \in Keys, HandOver(key)
    PROVE  /\ results' \in [Keys -> Statuses]
           /\ active' \in Keys \cup {None} /\ pending' \in Keys \cup {None}
           /\ job' \in Jobs \cup {None}
  <1> USE DEF TypeOK, Statuses
  <1>1. CASE pending # None /\ ~closed /\ results[pending] \notin Settled
    <2>1. Start(pending, results) /\ pending' = None /\ pending \in Keys
      BY <1>1 DEF HandOver
    <2>2. [key |-> pending, at |-> "submitted"] \in Jobs
      BY <2>1 DEF Jobs
    <2>3. QED BY <2>1, <2>2 DEF Start
  <1>2. CASE ~(pending # None /\ ~closed /\ results[pending] \notin Settled)
    BY <1>2 DEF HandOver
  <1>3. QED BY <1>1, <1>2

LEMMA InitTypes == Init => TypeOK
  <1> SUFFICES ASSUME Init PROVE TypeOK
    OBVIOUS
  <1>1. AnyTurn \in Turns
    BY TurnsAssumption DEF AnyTurn
  <1>2. [turn |-> AnyTurn, digest |-> [m \in Modes |-> None]]
           \in [turn : Turns, digest : [Modes -> Digests \cup {None}]]
    BY <1>1
  <1>3. shots \in [Revisions -> [turn : Turns, digest : [Modes -> Digests \cup {None}]]]
    BY <1>2 DEF Init
  <1>4. 0 \in 0 .. MaxRevision
    BY RevisionAssumption
  <1>5. QED BY <1>3, <1>4 DEF Init, TypeOK

LEMMA StepTypes == TypeOK /\ [Next]_vars => TypeOK'
  <1> SUFFICES ASSUME TypeOK, [Next]_vars PROVE TypeOK'
    OBVIOUS
  <1> USE DEF TypeOK
  <1>1. ASSUME NEW t \in Rebuilders, NEW turn \in Turns,
               NEW digest \in [Modes -> Digests \cup {None}], Publish(t, turn, digest)
        PROVE  TypeOK'
    <2>1. shown + 1 \in 0 .. MaxRevision /\ shown + 1 \in Revisions
      BY <1>1, RevisionAssumption DEF Publish, Revisions
    <2>2. shots' \in [Revisions -> [turn : Turns, digest : [Modes -> Digests \cup {None}]]]
      BY <1>1, <2>1 DEF Publish
    <2>3. QED BY <1>1, <2>1, <2>2 DEF Publish, worker
  <1>2. ASSUME NEW t \in Rebuilders, Schedule(t) PROVE TypeOK'
    <2>1. scheduling[t] \in Revisions
      BY <1>2, RevisionAssumption DEF Schedule, Revisions
    <2>2. scheduling' \in [Rebuilders -> 0 .. MaxRevision]
      BY <1>2, RevisionAssumption DEF Schedule
    <2>3. CASE Narrates(scheduling[t], "oracle")
      <3>1. Key(scheduling[t], "oracle") \in Keys
        BY <2>1, <2>3, KeyIsKey DEF Modes
      <3>2. Enqueue(Key(scheduling[t], "oracle"))
        BY <1>2, <2>3 DEF Schedule
      <3>3. /\ results' \in [Keys -> Statuses]
            /\ active' \in Keys \cup {None} /\ pending' \in Keys \cup {None}
            /\ job' \in Jobs \cup {None}
        BY <3>1, <3>2, EnqueueTypes
      <3>4. QED BY <1>2, <2>2, <3>3 DEF Schedule, Statuses
    <2>4. CASE ~Narrates(scheduling[t], "oracle")
      BY <1>2, <2>2, <2>4 DEF Schedule, Unschedule
    <2>5. QED BY <2>3, <2>4
  <1>3. ASSUME NEW revision \in Revisions, NEW mode \in Modes, Result(revision, mode)
        PROVE  TypeOK'
    <2>1. Key(revision, mode) \in Keys /\ Enqueue(Key(revision, mode))
      BY <1>3, KeyIsKey DEF Result
    <2>2. /\ results' \in [Keys -> Statuses]
          /\ active' \in Keys \cup {None} /\ pending' \in Keys \cup {None}
          /\ job' \in Jobs \cup {None}
      BY <2>1, EnqueueTypes
    <2>3. QED BY <1>3, <2>2 DEF Result, Statuses
  <1>4. CASE Generate
    <2>1. job \in Jobs
      BY <1>4 DEF Generate
    <2>2. job' \in Jobs
      BY <1>4, <2>1 DEF Generate, Jobs
    <2>3. generations' \in [Keys -> Nat]
      BY <1>4, <2>1 DEF Generate, Jobs
    <2>4. QED BY <1>4, <2>2, <2>3 DEF Generate
  <1>5. ASSUME NEW outcome \in Settled, Store(outcome) PROVE TypeOK'
    <2>1. job \in Jobs
      BY <1>5 DEF Store
    <2>2. job' \in Jobs /\ job.key \in Keys /\ job.key.mode \in Modes /\ job.key.turn \in Turns
      BY <1>5, <2>1 DEF Store, Jobs, Keys
    <2>3. ready' \in [Modes -> Turns \cup {0}]
      BY <1>5, <2>2 DEF Store
    <2>4. results' \in [Keys -> Statuses]
      BY <1>5, <2>2 DEF Store, Statuses
    <2>5. QED BY <1>5, <2>2, <2>3, <2>4 DEF Store, Statuses
  <1>6. CASE Finished
    <2>1. job.key \in Keys
      BY <1>6 DEF Finished, Jobs
    <2>2. /\ results' \in [Keys -> Statuses]
          /\ active' \in Keys \cup {None} /\ pending' \in Keys \cup {None}
          /\ job' \in Jobs \cup {None}
      BY <1>6, <2>1, HandOverTypes DEF Finished
    <2>3. QED BY <1>6, <2>2 DEF Finished, Statuses
  <1>7. CASE Close
    BY <1>7 DEF Close
  <1>8. CASE Shutdown
    <2>1. CASE job # None /\ job.at = "submitted"
      <3>1. job.key \in Keys /\ HandOver(job.key)
        BY <1>8, <2>1 DEF Shutdown, Jobs
      <3>2. /\ results' \in [Keys -> Statuses]
            /\ active' \in Keys \cup {None} /\ pending' \in Keys \cup {None}
            /\ job' \in Jobs \cup {None}
        BY <3>1, HandOverTypes
      <3>3. QED BY <1>8, <3>2 DEF Shutdown, Statuses
    <2>2. CASE ~(job # None /\ job.at = "submitted")
      BY <1>8, <2>2 DEF Shutdown
    <2>3. QED BY <2>1, <2>2
  <1>9. CASE UNCHANGED vars
    BY <1>9 DEF vars
  <1>10. QED
    BY <1>1, <1>2, <1>3, <1>4, <1>5, <1>6, <1>7, <1>8, <1>9 DEF Next

(* The worker's state is well typed.                                       *)
THEOREM TypesHold == Spec => []TypeOK
  BY InitTypes, StepTypes, PTL DEF Spec

-----------------------------------------------------------------------------
(* Every prompt once.                                                      *)

LEMMA EnqueueKeepsQueue ==
    ASSUME TypeOK, QueueInv, NEW key \in Keys, Enqueue(key), UNCHANGED generations
    PROVE  QueueInv'
  <1> USE DEF TypeOK, QueueInv
  <1>1. CASE Ignore
    BY <1>1 DEF Ignore
  <1>2. CASE ~(results[key] \in Settled \/ key = active) /\ active = None
    <2>1. /\ job = None /\ pending = None /\ generations[key] = 0
      BY <1>2, NoneIsNoRequest DEF Jobs
    <2>2. /\ active' = key /\ results' = [results EXCEPT ![key] = "generating"]
          /\ job' = None \/ job' = [key |-> key, at |-> "submitted"]
          /\ pending' = pending
      BY <1>2 DEF Enqueue, StartOrWait, Start
    <2>3. QED BY <1>2, <2>1, <2>2
  <1>3. CASE ~(results[key] \in Settled \/ key = active) /\ active # None
    <2>1. /\ pending' = key /\ results' = [Displaced(key) EXCEPT ![key] = "queued"]
          /\ UNCHANGED <<active, job>>
      BY <1>3 DEF Enqueue, StartOrWait, Wait
    <2>2. results'[key] = "queued"
      BY <2>1 DEF Displaced
    <2>3. \A k \in Keys : k \notin {key, pending} => results'[k] = results[k]
      BY <2>1 DEF Displaced
    <2>4. generations[key] = 0 /\ (pending # None => generations[pending] = 0)
      BY <1>3
    <2>5. job # None => job.key \notin {key, pending}
      BY <1>3
    <2>6. job # None => job.key \in Keys
      BY DEF Jobs
    <2>7. key # None /\ "queued" \notin Settled
      BY NoneIsNoRequest DEF Settled
    <2>8. \A k \in Keys : generations[k] # 0 =>
             \/ results'[k] \in Settled
             \/ job # None /\ job.key = k /\ job.at # "submitted"
      <3>1. \A k \in Keys : generations[k] # 0 => k \notin {key, pending}
        BY <2>4, NoneIsNoRequest
      <3>2. QED BY <2>3, <3>1
    <2>9. (job # None /\ job.at = "stored") => results'[job.key] \in Settled
      BY <2>3, <2>5, <2>6
    <2>10. pending' # active' /\ active' # None /\ results'[pending'] \notin Settled
      BY <1>3, <2>1, <2>2, <2>7
    <2>11. QED
      BY <2>1, <2>8, <2>9, <2>10
  <1>4. QED BY <1>1, <1>2, <1>3 DEF Enqueue

(* Handing over from a task whose result is in, or that was cancelled by   *)
(* the executor once the worker was closed.                                *)
LEMMA HandOverKeepsQueue ==
    ASSUME TypeOK, QueueInv, job # None, HandOver(job.key), UNCHANGED generations,
           job.at = "stored" \/ (job.at = "submitted" /\ closed)
    PROVE  QueueInv'
  <1> USE DEF TypeOK, QueueInv
  <1>1. job.key \in Keys
    BY DEF Jobs
  <1>2. CASE pending # None /\ ~closed /\ results[pending] \notin Settled
    <2>1. /\ pending' = None /\ active' = pending
          /\ results' = [results EXCEPT ![pending] = "generating"]
          /\ job' = None \/ job' = [key |-> pending, at |-> "submitted"]
      BY <1>2 DEF HandOver, Start
    <2>2. job.at = "stored" /\ results[job.key] \in Settled /\ pending # job.key
      BY <1>2
    <2>3. \A k \in Keys : generations[k] # 0 => results[k] \in Settled /\ k # pending
      BY <1>2, <2>2
    <2>4. QED BY <1>2, <2>1, <2>3
  <1>3. CASE ~(pending # None /\ ~closed /\ results[pending] \notin Settled)
    <2>1. pending' = None /\ job' = None /\ results' = results
      BY <1>3 DEF HandOver
    <2>2. \A k \in Keys : generations[k] # 0 => results[k] \in Settled
      <3>1. job.at = "submitted" => generations[job.key] = 0
        OBVIOUS
      <3>2. job.at = "stored" => results[job.key] \in Settled
        OBVIOUS
      <3>3. QED BY <1>1, <3>1, <3>2
    <2>3. QED BY <2>1, <2>2
  <1>4. QED BY <1>2, <1>3

LEMMA StepQueue == TypeOK /\ QueueInv /\ [Next]_vars => QueueInv'
  <1> SUFFICES ASSUME TypeOK, QueueInv, [Next]_vars PROVE QueueInv'
    OBVIOUS
  <1>1. ASSUME NEW t \in Rebuilders, NEW turn \in Turns,
               NEW digest \in [Modes -> Digests \cup {None}], Publish(t, turn, digest)
        PROVE  QueueInv'
    BY <1>1 DEF Publish, worker, QueueInv
  <1>2. ASSUME NEW t \in Rebuilders, Schedule(t) PROVE QueueInv'
    <2>1. CASE Narrates(scheduling[t], "oracle")
      <3>1. scheduling[t] \in Revisions
        BY <1>2, RevisionAssumption DEF Schedule, Revisions, TypeOK
      <3>2. Key(scheduling[t], "oracle") \in Keys
        BY <2>1, <3>1, KeyIsKey DEF Modes
      <3>3. Enqueue(Key(scheduling[t], "oracle")) /\ UNCHANGED generations
        BY <1>2, <2>1 DEF Schedule
      <3>4. QED BY <3>2, <3>3, EnqueueKeepsQueue
    <2>2. CASE ~Narrates(scheduling[t], "oracle")
      BY <1>2, <2>2 DEF Schedule, Unschedule, QueueInv
    <2>3. QED BY <2>1, <2>2
  <1>3. ASSUME NEW revision \in Revisions, NEW mode \in Modes, Result(revision, mode)
        PROVE  QueueInv'
    BY <1>3, KeyIsKey, EnqueueKeepsQueue DEF Result
  <1>4. CASE Generate
    <2>1. job \in Jobs /\ job.key \in Keys /\ job # None /\ job.at = "submitted"
      BY <1>4 DEF Generate, TypeOK, Jobs
    <2>2. /\ job' \in Jobs /\ job' # None /\ job'.key = job.key /\ job'.at = "running"
      BY <1>4, <2>1, NoneIsNoRequest DEF Generate, Jobs
    <2>3. generations[job.key] = 0
      BY <2>1 DEF QueueInv
    <2>4. /\ generations' = [generations EXCEPT ![job.key] = 1]
          /\ UNCHANGED <<results, active, pending>>
      BY <1>4, <2>1, <2>3 DEF Generate, TypeOK
    <2>5. QED BY <2>1, <2>2, <2>4 DEF QueueInv, TypeOK
  <1>5. ASSUME NEW outcome \in Settled, Store(outcome) PROVE QueueInv'
    <2>1. job \in Jobs /\ job.key \in Keys /\ job # None /\ job.at = "running"
      BY <1>5 DEF Store, TypeOK, Jobs
    <2>2. /\ job' \in Jobs /\ job' # None /\ job'.key = job.key /\ job'.at = "stored"
      BY <1>5, <2>1, NoneIsNoRequest DEF Store, Jobs
    <2>3. results' = [results EXCEPT ![job.key] = outcome]
          /\ UNCHANGED <<active, pending, generations>>
      BY <1>5 DEF Store
    <2>4. QED BY <2>1, <2>2, <2>3 DEF QueueInv, TypeOK
  <1>6. CASE Finished
    BY <1>6, HandOverKeepsQueue DEF Finished
  <1>7. CASE Close
    BY <1>7 DEF Close, QueueInv
  <1>8. CASE Shutdown
    <2>1. CASE job # None /\ job.at = "submitted"
      BY <1>8, <2>1, HandOverKeepsQueue DEF Shutdown
    <2>2. CASE ~(job # None /\ job.at = "submitted")
      BY <1>8, <2>2 DEF Shutdown, QueueInv
    <2>3. QED BY <2>1, <2>2
  <1>9. CASE UNCHANGED vars
    BY <1>9 DEF vars, QueueInv
  <1>10. QED
    BY <1>1, <1>2, <1>3, <1>4, <1>5, <1>6, <1>7, <1>8, <1>9 DEF Next

LEMMA QueueInvariant == Spec => [](TypeOK /\ QueueInv)
  <1>1. Init => QueueInv
    BY DEF Init, QueueInv, Modes, Keys
  <1>2. QED
    BY <1>1, InitTypes, StepTypes, StepQueue, PTL DEF Spec

(* No prompt is given to the model twice, however many rebuilds, late      *)
(* dashboards and displaced requests ask for it, and whether or not the    *)
(* worker is closed between two of them.                                   *)
THEOREM PromptsOnce == Spec => []GeneratedOnce
  <1>1. QueueInv => GeneratedOnce
    BY DEF QueueInv, GeneratedOnce
  <1>2. QED BY <1>1, QueueInvariant, PTL

(* "A finishing generation for a turn we have already moved past must not  *)
(* displace a newer one": in neither mode does the newest ready prose go   *)
(* back to an earlier turn.                                                *)
THEOREM HistoryAdvances == Spec => HistoryNeverGoesBack
  <1>1. TypeOK /\ [Next]_vars => [\A mode \in Modes : ready'[mode] >= ready[mode]]_vars
    <2> SUFFICES ASSUME TypeOK, Next
                 PROVE  \A mode \in Modes : ready'[mode] >= ready[mode]
      OBVIOUS
    <2>1. \A mode \in Modes : ready[mode] \in Nat
      <3>1. ready \in [Modes -> Turns \cup {0}]
        BY DEF TypeOK
      <3>2. Turns \cup {0} \subseteq Nat
        BY TurnsAssumption
      <3>3. QED BY <3>1, <3>2
    <2>2. CASE ready' = ready
      BY <2>1, <2>2
    <2>3. ASSUME NEW outcome \in Settled, Store(outcome)
          PROVE  \A mode \in Modes : ready'[mode] >= ready[mode]
      <3>1. job.key.mode \in Modes /\ job.key.turn \in Nat
        BY <2>3, TurnsAssumption DEF Store, TypeOK, Jobs, Keys
      <3>2. CASE ready[job.key.mode] <= job.key.turn
        BY <2>1, <2>3, <3>1, <3>2 DEF Store, TypeOK
      <3>3. CASE ~(ready[job.key.mode] <= job.key.turn)
        BY <2>1, <2>3, <3>1, <3>3 DEF Store
      <3>4. QED BY <3>2, <3>3
    <2>4. QED
      BY <2>2, <2>3 DEF Next, Publish, worker, Schedule, Result, Generate, Finished, Close,
         Shutdown
  <1>2. QED
    BY <1>1, TypesHold, PTL DEF Spec, HistoryNeverGoesBack

-----------------------------------------------------------------------------
(* Waiting.                                                                *)

(* After a step of the queue, what is queued is what waits, or was queued  *)
(* before and did not wait then either.                                    *)
QueuedIsOld ==
    \A k \in Keys : results'[k] = "queued" =>
        pending' = k \/ (results[k] = "queued" /\ pending # k)

LEMMA EnqueueBacked ==
    ASSUME TypeOK, QueueInv, Backed, ~shutdown, NEW key \in Keys, Enqueue(key)
    PROVE  Backed' /\ QueuedIsOld /\ (results'[key] = "queued" => pending' = key)
  <1> USE DEF TypeOK
  <1>0. /\ None \notin Keys
        /\ \A x \in {"queued", "generating", "none"} : x \notin Settled
    BY NoneIsNoRequest DEF Settled
  <1>1. CASE Ignore /\ (results[key] \in Settled \/ key = active)
    <2>1. results[key] # "queued"
      BY <1>0, <1>1 DEF Backed
    <2>2. QED BY <1>1, <2>1 DEF Ignore, Backed, QueuedIsOld
  <1>2. CASE ~(results[key] \in Settled \/ key = active) /\ active = None
    <2>1. /\ active' = key /\ results' = [results EXCEPT ![key] = "generating"]
          /\ job' = [key |-> key, at |-> "submitted"]
          /\ pending' = pending
      BY <1>2 DEF Enqueue, StartOrWait, Start
    <2>2. job' # None
      BY <2>1, NoneIsNoRequest DEF Jobs
    <2>3. \A k \in Keys : results'[k] = IF k = key THEN "generating" ELSE results[k]
      BY <2>1
    <2>4. \A k \in Keys : results[k] # "generating"
      BY <1>0, <1>2 DEF Backed
    <2>5. QED BY <2>1, <2>2, <2>3, <2>4 DEF Backed, QueuedIsOld
  <1>3. CASE ~(results[key] \in Settled \/ key = active) /\ active # None
    <2>1. /\ pending' = key /\ results' = [Displaced(key) EXCEPT ![key] = "queued"]
          /\ UNCHANGED <<active, job>>
      BY <1>3 DEF Enqueue, StartOrWait, Wait
    <2>2. \A k \in Keys : results'[k] = IF k = key THEN "queued"
                                        ELSE IF k = pending THEN "none" ELSE results[k]
      BY <1>0, <2>1 DEF Displaced
    <2>3. active \in Keys /\ active # key /\ active # pending
      BY <1>3 DEF QueueInv
    <2>4. QueuedIsOld
      BY <2>1, <2>2 DEF QueuedIsOld
    <2>5. \A k \in Keys : (results'[k] = "queued" /\ k.mode = "fair") => pending' = k
      BY <2>4 DEF Backed, QueuedIsOld
    <2>6. \A k \in Keys : results'[k] = "generating" => active = k
      BY <2>2 DEF Backed
    <2>7. job # None /\ results'[active] \in {"generating"} \cup Settled
      BY <1>3, <2>2, <2>3 DEF Backed
    <2>8. QED BY <2>1, <2>4, <2>5, <2>6, <2>7 DEF Backed
  <1>4. QED BY <1>1, <1>2, <1>3 DEF Enqueue

LEMMA HandOverBacked ==
    ASSUME TypeOK, QueueInv, Backed, ~shutdown, ~closed,
           job # None, job.at = "stored", HandOver(job.key)
    PROVE  Backed' /\ QueuedIsOld
  <1> USE DEF TypeOK
  <1>0. /\ None \notin Keys /\ active = job.key /\ active # None
        /\ \A k \in Keys : results[k] # "generating"
    <2>1. None \notin Keys /\ active = job.key /\ active # None
      BY NoneIsNoRequest DEF QueueInv, Jobs
    <2>2. results[active] # "generating"
      BY <2>1 DEF QueueInv, Settled
    <2>3. QED BY <2>1, <2>2 DEF Backed
  <1>1. CASE pending # None
    <2>1. /\ active' = pending /\ pending \in Keys
          /\ results' = [results EXCEPT ![pending] = "generating"]
          /\ job' = [key |-> pending, at |-> "submitted"]
      BY <1>1 DEF HandOver, Start, QueueInv
    <2>2. job' # None
      BY <2>1, NoneIsNoRequest DEF Jobs
    <2>3. \A k \in Keys : results'[k] = IF k = pending THEN "generating" ELSE results[k]
      BY <2>1
    <2>4. QED BY <1>0, <2>1, <2>2, <2>3 DEF Backed, QueuedIsOld
  <1>2. CASE pending = None
    <2>1. active' = None /\ job' = None /\ results' = results /\ pending' = None
      BY <1>0, <1>2 DEF HandOver
    <2>2. QED BY <1>0, <1>2, <2>1 DEF Backed, QueuedIsOld
  <1>3. QED BY <1>1, <1>2

LEMMA StepWait ==
    TypeOK /\ TypeOK' /\ QueueInv /\ WaitInv /\ [Next]_vars => WaitInv'
  <1> SUFFICES ASSUME TypeOK, TypeOK', QueueInv, WaitInv, [Next]_vars PROVE WaitInv'
    OBVIOUS
  <1>0. OneRebuilder /\ OneRebuilder' /\ (shutdown => closed)
    BY DEF WaitInv, OneRebuilder
  <1>a. \A t \in Rebuilders : scheduling[t] \in {0, shown}
    BY DEF WaitInv
  <1>b. shown \in Nat /\ \A r \in 1 .. shown : r \in Revisions
    BY RevisionAssumption DEF TypeOK, Revisions
  <1>1. ASSUME NEW t \in Rebuilders, NEW turn \in Turns,
               NEW digest \in [Modes -> Digests \cup {None}], Publish(t, turn, digest)
        PROVE  WaitInv'
    <2>1. scheduling' = [u \in Rebuilders |-> shown + 1] /\ shown' = shown + 1
      BY <1>0, <1>1 DEF Publish, OneRebuilder, TypeOK
    <2>2. ~Scheduled'
      BY <1>b, <2>1 DEF Scheduled
    <2>3. Backed => Backed'
      BY <1>1 DEF Publish, worker, Backed
    <2>4. QED
      BY <1>0, <1>1, <2>1, <2>2, <2>3 DEF Publish, WaitInv, ScreenBacked
  <1>2. ASSUME NEW t \in Rebuilders, Schedule(t) PROVE WaitInv'
    <2>1. /\ scheduling[t] = shown /\ shown # 0 /\ shown \in Revisions
          /\ UNCHANGED <<shown, shots, closed, shutdown>>
          /\ \A u \in Rebuilders : scheduling'[u] = 0
      BY <1>0, <1>2, <1>a, <1>b DEF Schedule, OneRebuilder, TypeOK
    <2>2. ASSUME ~closed PROVE Backed' /\ ScreenBacked'
      <3>1. Backed /\ ~shutdown
        BY <1>0, <2>2 DEF WaitInv
      <3>2. CASE Narrates(shown, "oracle")
        <4>1. Key(shown, "oracle") \in Keys /\ Enqueue(Key(shown, "oracle"))
          BY <1>2, <2>1, <3>2, KeyIsKey DEF Schedule, Modes
        <4>2. Backed' /\ (results'[Key(shown, "oracle")] = "queued"
                            => pending' = Key(shown, "oracle"))
          BY <3>1, <4>1, EnqueueBacked
        <4>3. Key(shown, "oracle")' = Key(shown, "oracle")
          BY <2>1 DEF Key
        <4>4. QED BY <4>2, <4>3 DEF ScreenBacked
      <3>3. CASE ~Narrates(shown, "oracle")
        <4>1. Unschedule(<<"oracle", shots[shown].turn>>)
          BY <1>2, <2>1, <3>3 DEF Schedule
        <4>2. \A k \in Keys : (k.mode = "fair" /\ pending = k) => pending' = k
          <5>1. \A k \in Keys : k.mode = "fair" => Slot(k) # <<"oracle", shots[shown].turn>>
            BY DEF Slot
          <5>2. QED BY <4>1, <5>1 DEF Unschedule
        <4>3. Backed'
          BY <3>1, <4>1, <4>2 DEF Backed, Unschedule
        <4>4. ~Narrates(shown, "oracle")'
          BY <2>1, <3>3 DEF Narrates
        <4>5. QED BY <4>3, <4>4 DEF ScreenBacked, OnScreen
      <3>4. QED BY <3>2, <3>3
    <2>3. QED BY <1>0, <2>1, <2>2 DEF WaitInv
  <1> DEFINE Screen == Key(shown, "oracle")
  <1>3. ASSUME QueuedIsOld, ScreenBacked, UNCHANGED <<shown, shots, scheduling>>
        PROVE  ScreenBacked'
    <2>1. SUFFICES ASSUME OnScreen(shown, "oracle"), Scheduled, results'[Screen] = "queued"
                   PROVE  pending' = Screen
      BY <1>3 DEF ScreenBacked, OnScreen, Narrates, Scheduled, Key
    <2>2. Screen \in Keys
      BY <1>b, <2>1, KeyIsKey, RevisionAssumption DEF OnScreen, Modes, Revisions, TypeOK
    <2> HIDE DEF Screen
    <2>3. results[Screen] = "queued" => pending = Screen
      BY <1>3, <2>1 DEF ScreenBacked, Screen
    <2>4. QED BY <1>3, <2>1, <2>2, <2>3 DEF QueuedIsOld
  <1>4. ASSUME NEW revision \in Revisions, NEW mode \in Modes, Result(revision, mode)
        PROVE  WaitInv'
    <2>1. /\ Key(revision, mode) \in Keys /\ Enqueue(Key(revision, mode))
          /\ UNCHANGED <<shown, shots, scheduling, closed, shutdown>>
      BY <1>4, KeyIsKey DEF Result
    <2>2. ASSUME ~closed PROVE Backed' /\ ScreenBacked'
      <3>1. Backed' /\ QueuedIsOld
        BY <1>0, <2>1, <2>2, EnqueueBacked DEF WaitInv
      <3>2. QED BY <1>3, <2>1, <2>2, <3>1 DEF WaitInv
    <2>3. QED BY <1>0, <1>a, <2>1, <2>2 DEF WaitInv
  <1>5. ASSUME NEW outcome \in Settled, Store(outcome) PROVE WaitInv'
    <2>1. /\ job # None /\ job \in Jobs /\ job.key \in Keys /\ active = job.key
          /\ job' # None
          /\ \A k \in Keys : results'[k] = IF k = job.key THEN outcome ELSE results[k]
          /\ UNCHANGED <<shown, shots, scheduling, active, pending, closed, shutdown>>
      BY <1>5, NoneIsNoRequest DEF Store, TypeOK, QueueInv, Jobs
    <2>2. outcome \notin {"queued", "generating"}
      BY DEF Settled
    <2>3. Backed => Backed'
      BY <2>1, <2>2 DEF Backed
    <2>4. QueuedIsOld
      BY <2>1, <2>2 DEF QueuedIsOld
    <2>5. QED BY <1>0, <1>3, <1>a, <2>1, <2>3, <2>4 DEF WaitInv
  <1>6. CASE Generate
    <2>1. /\ job' # None
          /\ UNCHANGED <<shown, shots, scheduling, results, active, pending, closed, shutdown>>
      BY <1>6, NoneIsNoRequest DEF Generate, TypeOK, Jobs
    <2>2. Backed => Backed'
      BY <2>1 DEF Backed
    <2>3. QueuedIsOld
      BY <2>1 DEF QueuedIsOld
    <2>4. QED BY <1>0, <1>3, <1>a, <2>1, <2>2, <2>3 DEF WaitInv
  <1>7. CASE Finished
    <2>1. /\ job # None /\ job.at = "stored" /\ HandOver(job.key)
          /\ UNCHANGED <<shown, shots, scheduling, closed, shutdown>>
      BY <1>7 DEF Finished
    <2>2. ASSUME ~closed PROVE Backed' /\ QueuedIsOld
      BY <1>0, <2>1, <2>2, HandOverBacked DEF WaitInv
    <2>3. QED BY <1>0, <1>3, <1>a, <2>1, <2>2 DEF WaitInv
  <1>8. CASE Close \/ Shutdown
    <2>1. closed' /\ UNCHANGED <<shown, scheduling>>
      BY <1>8 DEF Close, Shutdown
    <2>2. QED BY <1>0, <1>a, <2>1 DEF WaitInv
  <1>9. CASE UNCHANGED vars
    <2>1. UNCHANGED <<shown, shots, scheduling, results, active, pending, job, closed, shutdown>>
      BY <1>9 DEF vars
    <2>2. Backed => Backed'
      BY <2>1 DEF Backed
    <2>3. QueuedIsOld
      BY <2>1 DEF QueuedIsOld
    <2>4. QED BY <1>0, <1>3, <1>a, <2>1, <2>2, <2>3 DEF WaitInv
  <1>10. QED
    BY <1>1, <1>2, <1>4, <1>5, <1>6, <1>7, <1>8, <1>9 DEF Next

(* A status on screen that asks the player to wait has something behind it *)
(* that will replace it, whoever asks about which snapshot meanwhile, as   *)
(* long as rebuilds follow one another (of two that overlap, the older may *)
(* drop the request the newer made).                                       *)
THEOREM WaitingHasCause == OneRebuilder => (Spec => []WaitingIsTrue)
  <1>1. OneRebuilder /\ Init => WaitInv
    BY DEF Init, WaitInv, Backed, ScreenBacked, OnScreen
  <1>2. TypeOK /\ QueueInv /\ WaitInv => WaitingIsTrue
    <2> SUFFICES ASSUME TypeOK, QueueInv, WaitInv, NEW mode \in Modes,
                        OnScreen(shown, mode), Scheduled, ~closed
                 PROVE  /\ Status(shown, mode) = "queued" =>
                              pending # None /\ pending = Key(shown, mode) /\ active # None
                        /\ Status(shown, mode) = "generating" =>
                              active = Key(shown, mode) /\ job # None /\ job.key = active
      BY DEF WaitingIsTrue, Scheduled
    <2>1. shown \in Revisions /\ Narrates(shown, mode)
      BY RevisionAssumption DEF OnScreen, TypeOK, Revisions
    <2>2. Key(shown, mode) \in Keys /\ Key(shown, mode) # None
          /\ Key(shown, mode).mode = mode
      BY <2>1, KeyIsKey, NoneIsNoRequest DEF Key
    <2>3. Backed /\ ScreenBacked
      BY DEF WaitInv
    <2>4. Status(shown, mode) = results[Key(shown, mode)]
      BY <2>1 DEF Status
    <2>5. results[Key(shown, mode)] = "queued" => pending = Key(shown, mode)
      BY <2>2, <2>3 DEF Backed, ScreenBacked, Modes
    <2>6. results[Key(shown, mode)] = "generating" => active = Key(shown, mode)
      BY <2>2, <2>3 DEF Backed
    <2>7. active # None => job # None /\ job.key = active
      BY <2>3 DEF Backed, QueueInv
    <2>8. pending # None => active # None
      BY DEF QueueInv
    <2>9. QED BY <2>2, <2>4, <2>5, <2>6, <2>7, <2>8
  <1>3. TypeOK /\ QueueInv /\ WaitInv /\ [Next]_vars => WaitInv'
    BY StepTypes, StepWait
  <1>4. QED
    BY <1>1, <1>2, <1>3, QueueInvariant, PTL DEF Spec
=============================================================================
