-------------------------- MODULE CopilotWorkerProofs --------------------------
(***************************************************************************)
(* Proofs about CopilotWorker, for any number of pages, questions,         *)
(* snapshots and resolutions.                                              *)
(***************************************************************************)
EXTENDS CopilotWorker, FiniteSetTheorems, TLAPS

Busy == {p \in Pages : poll[p].at # "idle"}

(* The poll holds the resolution it submits, or that it submitted.         *)
Holds(p) ==
    poll[p].at = "resolved" \/ (poll[p].at = "answered" /\ poll[p].status = "generating")

(* What a poll holds where it is.  Every question asked is an exchange or  *)
(* still polled for: that keeps the length of the transcript, and so the   *)
(* identity of the next poll, within bounds.                               *)
PollInv ==
    /\ asked = Len(transcript) + Cardinality(Busy)
    /\ \A p \in Pages :
          /\ poll[p].at = "idle" <=> question[p] = None
          /\ poll[p].at \in {"idle", "waiting"} <=> poll[p].key = None
          /\ poll[p].at \in {"gated", "selecting"} <=> poll[p].gate # 0
          /\ Holds(p) => poll[p].resolution # None

-----------------------------------------------------------------------------
(* Types.                                                                  *)

LEMMA FinitelyBusy == TypeOK => IsFiniteSet(Busy) /\ Cardinality(Busy) \in Nat
  <1>1. Busy \in SUBSET Pages
    BY DEF Busy
  <1>2. IsFiniteSet(Busy)
    BY <1>1, FS_Subset, CopilotAssumption
  <1>3. QED BY <1>2, FS_CardinalityType

(* There is a gate more than there are pages.                              *)
LEMMA NewGateIsGate ==
    ASSUME TypeOK, NEW key \in Keys
    PROVE  NewGate(key) \in Gates
  <1> DEFINE f == [p \in Pages |-> poll[p].gate]
             T == {f[p] : p \in Pages}
  <1>1. f \in Surjection(Pages, T)
    BY DEF Surjection
  <1>2. IsFiniteSet(T) /\ Cardinality(T) <= Cardinality(Pages)
    <2> HIDE DEF f, T
    <2>1. QED BY <1>1, FS_Surjection, CopilotAssumption
  <1>3. Cardinality(Pages) \in Nat
    BY FS_CardinalityType, CopilotAssumption
  <1>4. IsFiniteSet(Gates) /\ Cardinality(Gates) = Cardinality(Pages) + 1
    BY <1>3, FS_Interval DEF Gates
  <1>5. PICK g \in Gates : g \notin T
    <2>1. SUFFICES ASSUME Gates \in SUBSET T PROVE FALSE
      OBVIOUS
    <2> HIDE DEF T
    <2>2. Cardinality(Gates) <= Cardinality(T) /\ Cardinality(T) \in Nat
      BY <1>2, <2>1, FS_Subset, FS_CardinalityType
    <2>3. QED BY <1>2, <1>3, <1>4, <2>2
  <1>6. \A p \in Pages : poll[p].gate # g
    BY <1>5
  <1>7. QED BY <1>6 DEF NewGate

LEMMA InitTypes == Init => TypeOK /\ PollInv
  <1> SUFFICES ASSUME Init PROVE TypeOK /\ PollInv
    OBVIOUS
  <1>1. Busy = {}
    BY DEF Init, Busy, Fresh
  <1>2. Cardinality(Busy) = 0 /\ Len(transcript) = 0
    BY <1>1, FS_EmptySet DEF Init
  <1>3. Fresh("idle") \in Polls
    BY DEF Fresh, Polls, Places
  <1>4. /\ revision \in 1 .. MaxRevision /\ transcript \in Seq(Questions)
        /\ asked \in 0 .. MaxAsked /\ question \in [Pages -> Questions \cup {None}]
        /\ poll \in [Pages -> Polls]
    BY <1>3, CopilotAssumption DEF Init
  <1>5. /\ done \in [Keys -> Outcomes \cup {None}]
        /\ resolved \in [Keys -> Resolutions \cup {None}]
        /\ resolving \in [Keys -> Gates \cup {0}]
    BY DEF Init
  <1>6. queue \in Seq(Tasks)
    BY DEF Init
  <1>7. futures \in SUBSET Keys /\ running \in Runs \cup {None} /\ closed \in BOOLEAN
    BY DEF Init
  <1>8. selections \in [Keys -> 0 .. 2] /\ compositions \in [Keys -> 0 .. 2]
    BY DEF Init
  <1>9. TypeOK
    BY <1>4, <1>5, <1>6, <1>7, <1>8 DEF TypeOK
  <1>10. PollInv
    BY <1>2 DEF Init, PollInv, Fresh, Holds
  <1>11. QED BY <1>9, <1>10

(* Where nobody starts or stops being busy, only the moved poll matters.   *)
LEMMA SameBusy ==
    ASSUME TypeOK, PollInv, NEW p \in Pages, poll' \in [Pages -> Polls],
           \A q \in Pages \ {p} : poll'[q] = poll[q],
           poll[p].at # "idle", poll'[p].at \notin {"idle", "waiting"},
           poll'[p].key # None,
           poll'[p].at \in {"gated", "selecting"} <=> poll'[p].gate # 0,
           Holds(p)' => poll'[p].resolution # None,
           UNCHANGED <<asked, transcript, question>>
    PROVE  PollInv'
  <1>1. Busy' = Busy
    BY DEF Busy
  <1>2. \A q \in Pages : question'[q] = None <=> poll'[q].at = "idle"
    BY DEF PollInv
  <1>3. QED BY <1>1, <1>2 DEF PollInv, Holds

LEMMA SteadyPolls ==
    ASSUME PollInv, UNCHANGED <<asked, transcript, question, poll>>
    PROVE  PollInv'
  BY DEF PollInv, Busy, Holds

(* The forms a move of one poll takes.                                     *)
LEMMA MovedPoll ==
    ASSUME poll \in [Pages -> Polls], NEW p \in Pages, NEW at \in Places,
           poll' = [poll EXCEPT ![p].at = at]
    PROVE  poll' \in [Pages -> Polls]
  <1>1. poll[p] \in Polls
    OBVIOUS
  <1>2. [poll[p] EXCEPT !.at = at] \in Polls
    BY <1>1 DEF Polls
  <1>3. QED BY <1>2

LEMMA AnsweredPoll ==
    ASSUME poll \in [Pages -> Polls], NEW p \in Pages,
           NEW status \in Outcomes \cup {"generating"},
           poll' = [poll EXCEPT ![p].at = "answered", ![p].status = status]
    PROVE  poll' \in [Pages -> Polls]
  <1>1. poll[p] \in Polls
    OBVIOUS
  <1>2. "answered" \in Places
    BY DEF Places
  <1>3. [poll[p] EXCEPT !.at = "answered", !.status = status] \in Polls
    BY <1>1, <1>2 DEF Polls
  <1>4. QED BY <1>3

LEMMA AskTypes ==
    ASSUME TypeOK, PollInv, NEW p \in Pages, NEW q \in Questions, Ask(p, q)
    PROVE  TypeOK' /\ PollInv'
  <1> USE DEF TypeOK
  <1>0. "waiting" \in Places
    BY DEF Places
  <1>1. poll' \in [Pages -> Polls]
    BY <1>0, MovedPoll DEF Ask
  <1>2. question' \in [Pages -> Questions \cup {None}] /\ asked' \in 0 .. MaxAsked
    BY CopilotAssumption DEF Ask
  <1>3. TypeOK'
    BY <1>1, <1>2 DEF Ask, worker, counts
  <1>4. Busy' = Busy \cup {p} /\ p \notin Busy
    BY DEF Ask, Busy, Polls
  <1>5. Cardinality(Busy') = Cardinality(Busy) + 1
    BY <1>4, FinitelyBusy, FS_AddElement
  <1>6. asked' = Len(transcript') + Cardinality(Busy')
    BY <1>5, FinitelyBusy DEF Ask, PollInv
  <1>7. \A r \in Pages :
          /\ poll'[r].at = "idle" <=> question'[r] = None
          /\ poll'[r].at \in {"idle", "waiting"} <=> poll'[r].key = None
          /\ poll'[r].at \in {"gated", "selecting"} <=> poll'[r].gate # 0
          /\ Holds(r)' => poll'[r].resolution # None
    BY CopilotAssumption DEF Ask, PollInv, Polls, Holds
  <1>8. QED BY <1>3, <1>6, <1>7 DEF PollInv

LEMMA ArriveTypes ==
    ASSUME TypeOK, PollInv, NEW p \in Pages, Arrive(p)
    PROVE  TypeOK' /\ PollInv'
  <1> USE DEF TypeOK
  <1> DEFINE key == [question |-> question[p], revision |-> revision,
                     history |-> Len(transcript)]
  <1>1. Len(transcript) \in 0 .. MaxAsked
    BY FinitelyBusy, CopilotAssumption DEF PollInv
  <1>2. question[p] \in Questions
    BY DEF Arrive, PollInv
  <1>3. key \in Keys /\ key # None
    BY <1>1, <1>2, NoneIsNoRequest DEF Keys
  <1>4. /\ poll' = [poll EXCEPT ![p].at = "arrived", ![p].key = key]
        /\ poll[p].at = "waiting"
        /\ UNCHANGED <<player, worker, counts>>
    BY DEF Arrive
  <1> HIDE DEF key
  <1>0. "arrived" \in Places
    BY DEF Places
  <1>5. poll' \in [Pages -> Polls]
    <2>1. poll[p] \in Polls
      OBVIOUS
    <2>2. [poll[p] EXCEPT !.at = "arrived", !.key = key] \in Polls
      BY <1>0, <1>3, <2>1 DEF Polls
    <2>3. QED BY <1>4, <2>2
  <1>6. /\ poll'[p].at = "arrived" /\ poll'[p].key = key /\ poll'[p].gate = poll[p].gate
        /\ \A q \in Pages \ {p} : poll'[q] = poll[q]
    BY <1>4 DEF Polls
  <1>7. poll[p].gate = 0
    BY <1>4 DEF PollInv
  <1>8. UNCHANGED <<asked, transcript, question>>
    BY <1>4 DEF player
  <1>9. PollInv'
    BY <1>3, <1>4, <1>5, <1>6, <1>7, <1>8, SameBusy DEF Holds
  <1>10. TypeOK'
    BY <1>4, <1>5 DEF player, worker, counts
  <1>11. QED BY <1>9, <1>10

LEMMA RespondTypes ==
    ASSUME TypeOK, PollInv, NEW p \in Pages, Respond(p)
    PROVE  TypeOK' /\ PollInv'
  <1> USE DEF TypeOK
  <1>1. poll[p].at = "answered" /\ question[p] \in Questions
    BY DEF Respond, PollInv
  <1>2. Fresh("waiting") \in Polls /\ Fresh("idle") \in Polls
    BY DEF Fresh, Polls, Places
  <1>3. CASE poll[p].status = "generating"
    <2>1. /\ poll' = [poll EXCEPT ![p] = Fresh("waiting")]
          /\ UNCHANGED <<revision, transcript, asked, question, worker, counts>>
      BY <1>3 DEF Respond
    <2>2. Busy' = Busy
      BY <1>1, <2>1 DEF Busy, Fresh
    <2>3. TypeOK'
      BY <1>2, <2>1 DEF worker, counts
    <2>4. PollInv'
      BY <1>1, <2>1, <2>2, CopilotAssumption DEF PollInv, Fresh, Holds
    <2>5. QED BY <2>3, <2>4
  <1>4. CASE poll[p].status # "generating"
    <2>1. /\ poll' = [poll EXCEPT ![p] = Fresh("idle")]
          /\ transcript' = Append(transcript, question[p])
          /\ question' = [question EXCEPT ![p] = None]
          /\ UNCHANGED <<revision, asked, worker, counts>>
      BY <1>4 DEF Respond
    <2>2. Busy' = Busy \ {p} /\ p \in Busy
      BY <1>1, <2>1 DEF Busy, Fresh
    <2>3. Cardinality(Busy') = Cardinality(Busy) - 1
      BY <2>2, FinitelyBusy, FS_RemoveElement
    <2>4. transcript' \in Seq(Questions) /\ Len(transcript') = Len(transcript) + 1
      BY <1>1, <2>1
    <2>5. asked' = Len(transcript') + Cardinality(Busy')
      BY <2>1, <2>3, <2>4, FinitelyBusy DEF PollInv
    <2>6. TypeOK'
      BY <1>2, <2>1, <2>4 DEF worker, counts
    <2>7. PollInv'
      BY <1>1, <2>1, <2>5, CopilotAssumption DEF PollInv, Fresh, Holds
    <2>8. QED BY <2>6, <2>7
  <1>5. QED BY <1>3, <1>4

LEMMA LookTypes ==
    ASSUME TypeOK, PollInv, NEW p \in Pages, Look(p)
    PROVE  TypeOK' /\ PollInv'
  <1> USE DEF TypeOK
  <1>1. poll[p].key \in Keys /\ poll[p].at = "arrived" /\ poll[p].gate = 0
    BY DEF Look, PollInv, Polls
  <1>2. "looked" \in Places
    BY DEF Places
  <1>3. UNCHANGED <<asked, transcript, question, revision, worker, counts>>
    BY DEF Look, player
  <1>4. CASE done[poll[p].key] # None
    <2> DEFINE status == done[poll[p].key]
    <2>1. status \in Outcomes
      BY <1>1, <1>4
    <2>2. poll' = [poll EXCEPT ![p].at = "answered", ![p].status = status]
      BY <1>4 DEF Look, Answer
    <2> HIDE DEF status
    <2>3. poll' \in [Pages -> Polls]
      BY <2>1, <2>2, AnsweredPoll
    <2>4. /\ poll'[p].at = "answered" /\ poll'[p].status # "generating"
          /\ poll'[p].key = poll[p].key /\ poll'[p].gate = 0
          /\ \A q \in Pages \ {p} : poll'[q] = poll[q]
      BY <1>1, <2>1, <2>2 DEF Polls, Outcomes
    <2>5. PollInv'
      BY <1>1, <1>3, <2>3, <2>4, NoneIsNoRequest, SameBusy DEF Holds
    <2>6. QED BY <1>3, <2>3, <2>5 DEF worker, counts
  <1>5. CASE done[poll[p].key] = None
    <2>1. poll' = [poll EXCEPT ![p].at = "looked"]
      BY <1>5 DEF Look
    <2>2. poll' \in [Pages -> Polls]
      BY <1>2, <2>1, MovedPoll
    <2>3. PollInv'
      BY <1>1, <1>3, <2>1, <2>2, NoneIsNoRequest, SameBusy DEF Polls, Holds
    <2>4. QED BY <1>3, <2>2, <2>3 DEF worker, counts
  <1>6. QED BY <1>4, <1>5

(* What taking the gate, or not needing it, does to the poll.              *)
LEMMA FindResolutionTypes ==
    ASSUME TypeOK, PollInv, NEW p \in Pages, FindResolution(p)
    PROVE  TypeOK' /\ PollInv'
  <1> USE DEF TypeOK
  <1> DEFINE key  == poll[p].key
             gate == IF resolving[key] = 0 THEN NewGate(key) ELSE resolving[key]
  <1>1. key \in Keys /\ poll[p].at = "looked" /\ poll[p].gate = 0
    BY DEF FindResolution, PollInv, Polls
  <1>2. "resolved" \in Places /\ "gated" \in Places
    BY DEF Places
  <1>3. UNCHANGED <<player, done, resolved, futures, queue, running, closed, counts>>
    BY DEF FindResolution
  <1>4. gate \in Gates
    BY <1>1, NewGateIsGate
  <1>5. \A g \in Gates : g # 0
    BY FS_CardinalityType, CopilotAssumption DEF Gates
  <1>6. CASE resolved[key] # None
    <2>1. /\ poll' = [poll EXCEPT ![p].at = "resolved", ![p].resolution = resolved[key]]
          /\ UNCHANGED resolving
      BY <1>6 DEF FindResolution
    <2>2. resolved[key] \in Resolutions
      BY <1>1, <1>6
    <2>3. poll' \in [Pages -> Polls]
      <3>1. poll[p] \in Polls
        OBVIOUS
      <3>2. [poll[p] EXCEPT !.at = "resolved", !.resolution = resolved[key]] \in Polls
        BY <1>2, <2>2, <3>1 DEF Polls
      <3>3. QED BY <2>1, <3>2
    <2>4. /\ poll'[p].at = "resolved" /\ poll'[p].resolution # None
          /\ poll'[p].key = key /\ poll'[p].gate = 0
          /\ \A q \in Pages \ {p} : poll'[q] = poll[q]
      BY <1>1, <2>1, <2>2, CopilotAssumption DEF Polls
    <2>5. PollInv'
      BY <1>1, <1>3, <2>3, <2>4, NoneIsNoRequest, SameBusy DEF Holds, player
    <2>6. QED BY <1>3, <2>1, <2>3, <2>5 DEF player, counts
  <1>7. CASE resolved[key] = None
    <2>1. /\ poll' = [poll EXCEPT ![p].at = "gated", ![p].gate = gate]
          /\ resolving' = [resolving EXCEPT ![key] = gate]
      BY <1>7 DEF FindResolution
    <2> HIDE DEF gate
    <2>2. poll' \in [Pages -> Polls]
      <3>1. poll[p] \in Polls
        OBVIOUS
      <3>2. [poll[p] EXCEPT !.at = "gated", !.gate = gate] \in Polls
        BY <1>2, <1>4, <3>1 DEF Polls
      <3>3. QED BY <2>1, <3>2
    <2>3. resolving' \in [Keys -> Gates \cup {0}]
      BY <1>4, <2>1
    <2>4. PollInv'
      BY <1>1, <1>3, <1>4, <1>5, <2>1, <2>2, NoneIsNoRequest, SameBusy DEF Polls, Holds, player
    <2>5. QED BY <1>3, <2>2, <2>3, <2>4 DEF player, counts
  <1>8. QED BY <1>6, <1>7

LEMMA ResolvedPoll ==
    ASSUME poll \in [Pages -> Polls], NEW p \in Pages, NEW r \in Resolutions,
           poll' = [poll EXCEPT ![p].at = "resolved", ![p].gate = 0, ![p].resolution = r]
    PROVE  /\ poll' \in [Pages -> Polls]
           /\ poll'[p].at = "resolved" /\ poll'[p].gate = 0 /\ poll'[p].resolution = r
           /\ poll'[p].key = poll[p].key
           /\ \A q \in Pages \ {p} : poll'[q] = poll[q]
  <1>1. "resolved" \in Places
    BY DEF Places
  <1>2. poll[p] \in Polls
    OBVIOUS
  <1> DEFINE v == [poll[p] EXCEPT !.at = "resolved", !.gate = 0, !.resolution = r]
  <1>3. v \in Polls
    BY <1>1, <1>2 DEF Polls
  <1>4. poll' = [poll EXCEPT ![p] = v]
    OBVIOUS
  <1>5. v.at = "resolved" /\ v.gate = 0 /\ v.resolution = r /\ v.key = poll[p].key
    BY <1>2 DEF Polls
  <1> HIDE DEF v
  <1>6. poll' \in [Pages -> Polls]
    BY <1>3, <1>4
  <1>7. poll'[p] = v /\ \A q \in Pages \ {p} : poll'[q] = poll[q]
    BY ONLY <1>4, poll \in [Pages -> Polls]
  <1>8. QED BY ONLY <1>5, <1>6, <1>7

LEMMA TwiceCounts == \A n \in 0 .. 2 : Twice(n) \in 0 .. 2
  BY DEF Twice

LEMMA PassGateTypes ==
    ASSUME TypeOK, PollInv, NEW p \in Pages, PassGate(p)
    PROVE  TypeOK' /\ PollInv'
  <1> USE DEF TypeOK
  <1> DEFINE key == poll[p].key
  <1>1. key \in Keys /\ poll[p].at = "gated" /\ poll[p].gate # 0
    BY DEF PassGate, PollInv, Polls
  <1>2. "selecting" \in Places
    BY DEF Places
  <1>3. CASE resolved[key] # None
    <2>1. /\ poll' = [poll EXCEPT ![p].at = "resolved", ![p].gate = 0,
                                  ![p].resolution = resolved[key]]
          /\ UNCHANGED <<player, worker, counts>>
      BY <1>3 DEF PassGate
    <2>2. resolved[key] \in Resolutions
      BY <1>1, <1>3
    <2>3. poll' \in [Pages -> Polls]
      BY <2>1, <2>2, ResolvedPoll
    <2>4. /\ poll'[p].at = "resolved" /\ poll'[p].gate = 0
          /\ poll'[p].resolution # None /\ poll'[p].key = key
          /\ \A q \in Pages \ {p} : poll'[q] = poll[q]
      BY <1>3, <2>1, <2>2, ResolvedPoll
    <2>5. PollInv'
      BY <1>1, <2>1, <2>3, <2>4, NoneIsNoRequest, SameBusy DEF Holds, player
    <2>6. QED BY <2>1, <2>3, <2>5 DEF player, worker, counts
  <1>4. CASE resolved[key] = None
    <2>1. /\ poll' = [poll EXCEPT ![p].at = "selecting"]
          /\ selections' = [selections EXCEPT ![key] = Twice(@)]
          /\ UNCHANGED <<player, worker, compositions>>
      BY <1>4 DEF PassGate, StartSelecting
    <2>2. poll' \in [Pages -> Polls]
      BY <1>2, <2>1, MovedPoll
    <2>3. selections' \in [Keys -> 0 .. 2]
      BY <1>1, <2>1, TwiceCounts
    <2>4. PollInv'
      BY <1>1, <2>1, <2>2, NoneIsNoRequest, SameBusy DEF Polls, Holds, player
    <2>5. QED BY <2>1, <2>2, <2>3, <2>4 DEF player, worker
  <1>5. QED BY <1>3, <1>4

LEMMA SelectedTypes ==
    ASSUME TypeOK, PollInv, NEW p \in Pages, NEW r \in Resolutions, Selected(p, r)
    PROVE  TypeOK' /\ PollInv'
  <1> USE DEF TypeOK
  <1>1. poll[p].key \in Keys /\ poll[p].at = "selecting"
    BY DEF Selected, PollInv, Polls
  <1>3. /\ poll' = [poll EXCEPT ![p].at = "resolved", ![p].gate = 0, ![p].resolution = r]
        /\ resolved' = [resolved EXCEPT ![poll[p].key] = r]
        /\ UNCHANGED <<player, done, resolving, futures, queue, running, closed, counts>>
    BY DEF Selected
  <1>4. /\ poll' \in [Pages -> Polls]
        /\ poll'[p].at = "resolved" /\ poll'[p].gate = 0
        /\ poll'[p].resolution # None /\ poll'[p].key = poll[p].key
        /\ \A q \in Pages \ {p} : poll'[q] = poll[q]
    BY <1>3, ResolvedPoll, CopilotAssumption
  <1>5. PollInv'
    BY <1>1, <1>3, <1>4, NoneIsNoRequest, SameBusy DEF Holds, player
  <1>6. QED BY <1>1, <1>3, <1>4, <1>5 DEF player, counts

LEMMA FailureTypes ==
    ASSUME TypeOK, PollInv, NEW p \in Pages, SelectFails(p) \/ SelectionFailed(p)
    PROVE  TypeOK' /\ PollInv'
  <1> USE DEF TypeOK
  <1>1. poll[p].key \in Keys
    BY DEF SelectFails, SelectionFailed, PollInv, Polls
  <1>2. "failed" \in Places /\ "answered" \in Places /\ "rejected" \in Outcomes
    BY DEF Places, Outcomes
  <1>3. CASE SelectFails(p)
    <2>1. /\ poll' = [poll EXCEPT ![p].at = "failed", ![p].gate = 0]
          /\ poll[p].at = "selecting"
          /\ UNCHANGED <<player, worker, counts>>
      BY <1>3 DEF SelectFails
    <2>2. poll' \in [Pages -> Polls]
      <3>1. poll[p] \in Polls
        OBVIOUS
      <3>2. [poll[p] EXCEPT !.at = "failed", !.gate = 0] \in Polls
        BY <1>2, <3>1 DEF Polls
      <3>3. QED BY <2>1, <3>2
    <2>3. PollInv'
      BY <1>1, <2>1, <2>2, NoneIsNoRequest, SameBusy DEF Polls, Holds, player
    <2>4. QED BY <2>1, <2>2, <2>3 DEF player, worker, counts
  <1>4. CASE SelectionFailed(p)
    <2>1. /\ poll' = [poll EXCEPT ![p].at = "answered", ![p].status = "rejected"]
          /\ poll[p].at = "failed"
          /\ done' = [done EXCEPT ![poll[p].key] = "rejected"]
          /\ resolving' = [resolving EXCEPT ![poll[p].key] = 0]
          /\ UNCHANGED <<player, resolved, futures, queue, running, closed, counts>>
      BY <1>4 DEF SelectionFailed, Answer
    <2>2. poll' \in [Pages -> Polls]
      BY <1>2, <2>1, AnsweredPoll
    <2>3. poll[p].gate = 0
      BY <2>1 DEF PollInv
    <2>4. PollInv'
      BY <1>1, <2>1, <2>2, <2>3, NoneIsNoRequest, SameBusy DEF Polls, Holds, player
    <2>5. QED BY <1>2, <2>1, <2>2, <2>4 DEF player, counts
  <1>5. QED BY <1>3, <1>4

LEMMA SubmitTypes ==
    ASSUME TypeOK, PollInv, NEW p \in Pages, Submit(p)
    PROVE  TypeOK' /\ PollInv'
  <1> USE DEF TypeOK
  <1> DEFINE key == poll[p].key
  <1>1. key \in Keys /\ poll[p].at = "resolved" /\ poll[p].gate = 0
    BY DEF Submit, PollInv, Polls
  <1>3. UNCHANGED <<player, done, resolved, resolving, running, closed, counts>>
    BY DEF Submit
  <1>4. PICK status \in Outcomes \cup {"generating"} :
          poll' = [poll EXCEPT ![p].at = "answered", ![p].status = status]
    BY <1>1 DEF Submit, SubmitOnce, Answer
  <1>5. poll' \in [Pages -> Polls]
    BY <1>4, AnsweredPoll
  <1>6. /\ poll'[p].at = "answered" /\ poll'[p].gate = 0
        /\ poll'[p].resolution = poll[p].resolution /\ poll'[p].key = key
        /\ \A q \in Pages \ {p} : poll'[q] = poll[q]
    BY <1>1, <1>4 DEF Polls
  <1>7. poll[p].resolution # None
    BY <1>1 DEF PollInv, Holds
  <1>8. PollInv'
    BY <1>1, <1>3, <1>5, <1>6, <1>7, NoneIsNoRequest, SameBusy DEF Holds, player
  <1>9. futures' \in SUBSET Keys /\ queue' \in Seq(Tasks)
    <2>1. CASE key \notin futures /\ ~closed /\ done[key] = None
      <3>1. [key |-> key, resolution |-> poll[p].resolution] \in Tasks
        BY <1>1, <1>7 DEF Tasks, Polls
      <3>2. /\ futures' = futures \cup {key}
            /\ queue' = Append(queue, [key |-> key, resolution |-> poll[p].resolution])
        BY <2>1 DEF Submit, SubmitOnce
      <3>3. QED BY <1>1, <3>1, <3>2
    <2>2. CASE ~(key \notin futures /\ ~closed /\ done[key] = None)
      BY <2>2 DEF Submit, SubmitOnce
    <2>3. QED BY <2>1, <2>2
  <1>10. QED BY <1>3, <1>5, <1>8, <1>9 DEF player, counts

LEMMA ComposeTypes ==
    ASSUME TypeOK, PollInv, Compose
    PROVE  TypeOK' /\ PollInv'
  <1> USE DEF TypeOK
  <1>1. Head(queue) \in Tasks /\ Tail(queue) \in Seq(Tasks)
    BY DEF Compose
  <1>2. Head(queue).key \in Keys /\ Head(queue).resolution \in Resolutions
    BY <1>1 DEF Tasks
  <1>3. running' \in Runs
    BY <1>2 DEF Compose, Runs
  <1>4. compositions' \in [Keys -> 0 .. 2]
    BY <1>2, TwiceCounts DEF Compose
  <1>5. TypeOK'
    BY <1>1, <1>3, <1>4 DEF Compose, player
  <1>6. PollInv'
    BY SteadyPolls DEF Compose, player
  <1>7. QED BY <1>5, <1>6

LEMMA FinishTypes ==
    ASSUME TypeOK, PollInv, NEW outcome \in Outcomes, Finish(outcome)
    PROVE  TypeOK' /\ PollInv'
  <1> USE DEF TypeOK
  <1>1. running \in Runs /\ running.key \in Keys
    BY DEF Finish, Runs
  <1>2. running' \in Runs
    BY <1>1 DEF Finish, Runs
  <1>3. TypeOK'
    BY <1>1, <1>2 DEF Finish, player, counts
  <1>4. PollInv'
    BY SteadyPolls DEF Finish, player
  <1>5. QED BY <1>3, <1>4

LEMMA StepTypes == TypeOK /\ PollInv /\ [Next]_vars => TypeOK' /\ PollInv'
  <1> SUFFICES ASSUME TypeOK, PollInv, [Next]_vars PROVE TypeOK' /\ PollInv'
    OBVIOUS
  <1>1. ASSUME NEW p \in Pages, Handle(p) PROVE TypeOK' /\ PollInv'
    BY <1>1, ArriveTypes, LookTypes, FindResolutionTypes, PassGateTypes, SubmitTypes,
       RespondTypes, SelectedTypes, FailureTypes DEF Handle
  <1>2. ASSUME NEW p \in Pages, NEW q \in Questions, Ask(p, q) PROVE TypeOK' /\ PollInv'
    BY <1>2, AskTypes
  <1>3. CASE Compose
    BY <1>3, ComposeTypes
  <1>4. ASSUME NEW outcome \in Outcomes, Finish(outcome) PROVE TypeOK' /\ PollInv'
    BY <1>4, FinishTypes
  <1>5. CASE Forget
    BY <1>5, SteadyPolls DEF Forget, player, counts, TypeOK
  <1>6. CASE Rebuild
    BY <1>6, SteadyPolls, CopilotAssumption DEF Rebuild, worker, counts, TypeOK
  <1>7. CASE Close
    <2>1. queue' \in Seq(Tasks)
      BY <1>7 DEF Close
    <2>2. QED BY <1>7, <2>1, SteadyPolls DEF Close, player, counts, TypeOK
  <1>8. CASE UNCHANGED vars
    BY <1>8, SteadyPolls DEF vars, player, worker, counts, TypeOK
  <1>9. QED
    BY <1>1, <1>2, <1>3, <1>4, <1>5, <1>6, <1>7, <1>8 DEF Next, Work

(* The worker's state is well typed: the length of the transcript stays    *)
(* within the questions asked, and a new gate is always to be had.         *)
THEOREM TypesHold == Spec => []TypeOK
  BY InitTypes, StepTypes, PTL DEF Spec

-----------------------------------------------------------------------------
(* Resolutions and compositions.                                           *)

Sought(p) == poll[p].key \in Keys /\ done[poll[p].key] = None

(* While a request has no answer, the polls that hold a gate hold the one  *)
(* gate of the request, one of them at most selects and only while nothing *)
(* is resolved, and every resolution a poll holds is the one stored.       *)
SoughtInv ==
    \A p \in Pages : Sought(p) =>
        /\ poll[p].gate \in {0, resolving[poll[p].key]}
        /\ poll[p].at = "selecting" => resolved[poll[p].key] = None
        /\ Holds(p) => resolved[poll[p].key] = poll[p].resolution
        /\ \A q \in Pages :
              (/\ poll[p].at = "selecting" /\ poll[q].at = "selecting"
               /\ poll[q].key = poll[p].key) => q = p

(* And what is composed, or is to be, is composed around that resolution.  *)
ComposedInv ==
    \A k \in Keys : done[k] = None =>
        /\ k \in futures => resolved[k] # None
        /\ \A i \in DOMAIN queue : queue[i].key = k => queue[i].resolution = resolved[k]
        /\ (running # None /\ running.key = k) => running.resolution = resolved[k]

(* A task waits or runs once, with its future; and a request composed for  *)
(* has its answer or is with the model now.                                *)
TaskInv ==
    /\ \A i \in DOMAIN queue : queue[i].key \in futures /\ compositions[queue[i].key] = 0
    /\ \A i, j \in DOMAIN queue : queue[i].key = queue[j].key => i = j
    /\ running # None => /\ running.key \in futures
                         /\ \A i \in DOMAIN queue : queue[i].key # running.key
                         /\ running.at = "stored" => done[running.key] # None
    /\ \A k \in Keys : compositions[k] # 0 =>
          done[k] # None \/ (running # None /\ running.key = k)

SafeInv == SoughtInv /\ ComposedInv /\ TaskInv /\ ComposedOnce /\ ShownIsNarrated

LEMMA InitSafe == Init => SafeInv
  <1> SUFFICES ASSUME Init PROVE SafeInv
    OBVIOUS
  <1>1. DOMAIN queue = {} /\ running = None /\ futures = {}
    BY DEF Init
  <1>2. \A p \in Pages : poll[p].at = "idle" /\ poll[p].gate = 0
    BY DEF Init, Fresh
  <1>3. SoughtInv
    BY <1>2 DEF SoughtInv, Holds
  <1>4. ComposedInv /\ TaskInv /\ ComposedOnce
    BY <1>1 DEF ComposedInv, TaskInv, ComposedOnce, Init
  <1>5. ShownIsNarrated
    BY <1>2 DEF ShownIsNarrated
  <1>6. QED BY <1>3, <1>4, <1>5 DEF SafeInv

(* A poll that moves to where it neither selects nor holds anything, while *)
(* answers are only added.                                                 *)
LEMMA QuietMove ==
    ASSUME TypeOK, SafeInv, NEW p \in Pages,
           \A q \in Pages \ {p} : poll'[q] = poll[q],
           poll'[p].at # "selecting", poll'[p].gate = 0, ~Holds(p)',
           \A k \in Keys : /\ done[k] # None => done'[k] # None
                           /\ done'[k] = None => resolving'[k] = resolving[k],
           UNCHANGED <<resolved, futures, queue, running, compositions>>
    PROVE  SafeInv'
  <1> USE DEF SafeInv
  <1>1. SoughtInv'
    BY DEF SoughtInv, Sought, Holds
  <1>2. ComposedInv'
    BY DEF ComposedInv
  <1>3. running # None => running.key \in Keys
    BY DEF TypeOK, Runs
  <1>4. TaskInv'
    BY <1>3 DEF TaskInv
  <1>5. ComposedOnce'
    BY DEF ComposedOnce
  <1>6. ShownIsNarrated'
    BY DEF ShownIsNarrated, Holds
  <1>7. QED BY <1>1, <1>2, <1>4, <1>5, <1>6

(* What only polls and gates change leaves the compositions as they are.   *)
LEMMA SameTasks ==
    ASSUME SafeInv, UNCHANGED <<done, futures, queue, running, compositions>>
    PROVE  TaskInv' /\ ComposedOnce'
  BY DEF SafeInv, TaskInv, ComposedOnce

LEMMA FindResolutionSafe ==
    ASSUME TypeOK, PollInv, SafeInv, NEW p \in Pages, FindResolution(p)
    PROVE  SafeInv'
  <1> USE DEF SafeInv
  <1> DEFINE key  == poll[p].key
             gate == IF resolving[key] = 0 THEN NewGate(key) ELSE resolving[key]
  <1>1. key \in Keys /\ poll[p].at = "looked" /\ poll[p].gate = 0
    BY DEF FindResolution, PollInv, Polls, TypeOK
  <1>2. UNCHANGED <<done, resolved, futures, queue, running, compositions>>
    BY DEF FindResolution, counts
  <1>3. TaskInv' /\ ComposedOnce' /\ ComposedInv'
    BY <1>2, SameTasks DEF ComposedInv
  <1>4. CASE resolved[key] # None
    <2>1. /\ poll' = [poll EXCEPT ![p].at = "resolved", ![p].resolution = resolved[key]]
          /\ UNCHANGED resolving
      BY <1>4 DEF FindResolution
    <2>2. /\ poll'[p].at = "resolved" /\ poll'[p].resolution = resolved[key]
          /\ poll'[p].key = key /\ poll'[p].gate = 0
          /\ \A q \in Pages \ {p} : poll'[q] = poll[q]
      BY <1>1, <2>1 DEF TypeOK, Polls
    <2>3. SoughtInv'
      <3>1. \A q \in Pages : /\ Sought(q)' => Sought(q)
                             /\ poll'[q].key = poll[q].key
                             /\ poll'[q].gate \in {0, poll[q].gate}
                             /\ poll'[q].at = "selecting" => poll[q].at = "selecting"
        <4>1. SUFFICES ASSUME NEW q \in Pages
                       PROVE  /\ Sought(q)' => Sought(q)
                              /\ poll'[q].key = poll[q].key
                              /\ poll'[q].gate \in {0, poll[q].gate}
                              /\ poll'[q].at = "selecting" => poll[q].at = "selecting"
          OBVIOUS
        <4>2. CASE q = p
          BY <1>2, <2>2, <4>2 DEF Sought
        <4>3. CASE q # p
          BY <1>2, <2>2, <4>3 DEF Sought
        <4>4. QED BY <4>2, <4>3
      <3>2. \A q \in Pages : Holds(q)' =>
               \/ Holds(q) /\ poll'[q].resolution = poll[q].resolution
               \/ poll'[q].resolution = resolved[poll[q].key]
        BY <2>2 DEF Holds
      <3>3. UNCHANGED <<done, resolved, resolving>>
        BY <1>2, <2>1
      <3>4. QED BY <3>1, <3>2, <3>3 DEF SoughtInv
    <2>4. ShownIsNarrated'
      BY <1>2, <2>2 DEF ShownIsNarrated
    <2>5. QED BY <1>3, <2>3, <2>4
  <1>5. CASE resolved[key] = None
    <2>1. /\ poll' = [poll EXCEPT ![p].at = "gated", ![p].gate = gate]
          /\ resolving' = [resolving EXCEPT ![key] = gate]
      BY <1>5 DEF FindResolution
    <2> HIDE DEF gate
    <2>2. /\ poll'[p].at = "gated" /\ poll'[p].gate = gate /\ poll'[p].key = key
          /\ \A q \in Pages \ {p} : poll'[q] = poll[q]
      BY <1>1, <2>1 DEF TypeOK, Polls
    <2>3. resolving'[key] = gate
          /\ \A k \in Keys \ {key} : resolving'[k] = resolving[k]
      BY <1>1, <2>1 DEF TypeOK
    <2>4. resolving[key] # 0 => gate = resolving[key]
      BY DEF gate
    <2>5. SoughtInv'
      <3>1. \A q \in Pages : Sought(q)' => Sought(q)
        BY <1>2, <2>2 DEF Sought
      <3>2. \A q \in Pages : Sought(q)' => poll'[q].gate \in {0, resolving'[poll'[q].key]}
        <4>1. SUFFICES ASSUME NEW q \in Pages, Sought(q)'
                       PROVE  poll'[q].gate \in {0, resolving'[poll'[q].key]}
          OBVIOUS
        <4>2. CASE q = p
          BY <2>2, <2>3, <4>2
        <4>3. CASE q # p /\ poll[q].key # key
          <5>1. poll[q].key \in Keys /\ poll'[q] = poll[q]
            BY <2>2, <3>1, <4>1, <4>3 DEF Sought
          <5>2. resolving'[poll[q].key] = resolving[poll[q].key]
            BY <2>3, <4>3, <5>1
          <5>3. QED BY <3>1, <4>1, <5>1, <5>2 DEF SoughtInv
        <4>4. CASE q # p /\ poll[q].key = key
          BY <2>2, <2>3, <2>4, <3>1, <4>1, <4>4 DEF SoughtInv
        <4>5. QED BY <4>2, <4>3, <4>4
      <3>3. \A q \in Pages : /\ poll'[q].key = poll[q].key
                             /\ poll'[q].at = "selecting" => poll[q].at = "selecting"
                             /\ Holds(q)' => Holds(q) /\ poll'[q].resolution = poll[q].resolution
        BY <2>2 DEF Holds
      <3>4. QED BY <1>2, <3>1, <3>2, <3>3 DEF SoughtInv
    <2>6. ShownIsNarrated'
      BY <1>2, <2>2 DEF ShownIsNarrated
    <2>7. QED BY <1>3, <2>5, <2>6
  <1>6. QED BY <1>4, <1>5

(* A poll that leaves the gate, or needs none, with what is resolved.      *)
LEMMA ReuseSafe ==
    ASSUME SafeInv, NEW p \in Pages,
           \A q \in Pages \ {p} : poll'[q] = poll[q],
           poll'[p].key = poll[p].key, poll'[p].gate = 0,
           poll'[p].at = "resolved", poll'[p].resolution = resolved[poll[p].key],
           UNCHANGED <<done, resolved, resolving, futures, queue, running, compositions>>
    PROVE  SafeInv'
  <1> USE DEF SafeInv
  <1>1. \A q \in Pages : /\ Sought(q)' => Sought(q)
                         /\ poll'[q].key = poll[q].key
                         /\ poll'[q].gate \in {0, poll[q].gate}
                         /\ poll'[q].at = "selecting" => poll[q].at = "selecting"
    <2>1. SUFFICES ASSUME NEW q \in Pages
                   PROVE  /\ Sought(q)' => Sought(q)
                          /\ poll'[q].key = poll[q].key
                          /\ poll'[q].gate \in {0, poll[q].gate}
                          /\ poll'[q].at = "selecting" => poll[q].at = "selecting"
      OBVIOUS
    <2>2. CASE q = p
      BY <2>2 DEF Sought
    <2>3. CASE q # p
      BY <2>3 DEF Sought
    <2>4. QED BY <2>2, <2>3
  <1>2. \A q \in Pages : Holds(q)' =>
           \/ Holds(q) /\ poll'[q].resolution = poll[q].resolution
           \/ poll'[q].resolution = resolved[poll[q].key]
    BY DEF Holds
  <1>3. SoughtInv'
    BY <1>1, <1>2 DEF SoughtInv
  <1>4. ComposedInv' /\ TaskInv' /\ ComposedOnce'
    BY SameTasks DEF ComposedInv
  <1>5. ShownIsNarrated'
    BY DEF ShownIsNarrated
  <1>6. QED BY <1>3, <1>4, <1>5

LEMMA PassGateSafe ==
    ASSUME TypeOK, PollInv, SafeInv, NEW p \in Pages, PassGate(p)
    PROVE  SafeInv'
  <1> USE DEF SafeInv
  <1> DEFINE key == poll[p].key
  <1>1. key \in Keys /\ poll[p].at = "gated" /\ poll[p].gate # 0
    BY DEF PassGate, PollInv, Polls, TypeOK
  <1>2. CASE resolved[key] # None
    <2>1. /\ poll' = [poll EXCEPT ![p].at = "resolved", ![p].gate = 0,
                                  ![p].resolution = resolved[key]]
          /\ UNCHANGED <<done, resolved, resolving, futures, queue, running, compositions>>
      BY <1>2 DEF PassGate, worker, counts
    <2>2. resolved[key] \in Resolutions
      BY <1>1, <1>2 DEF TypeOK
    <2>3. poll \in [Pages -> Polls]
      BY DEF TypeOK
    <2>4. /\ poll'[p].at = "resolved" /\ poll'[p].gate = 0
          /\ poll'[p].resolution = resolved[key] /\ poll'[p].key = key
          /\ \A q \in Pages \ {p} : poll'[q] = poll[q]
      BY <2>1, <2>2, <2>3, ResolvedPoll
    <2>5. UNCHANGED <<done, resolved, resolving, futures, queue, running, compositions>>
      BY <2>1
    <2>6. QED BY <2>4, <2>5, ReuseSafe
  <1>3. CASE resolved[key] = None
    <2>1. /\ poll' = [poll EXCEPT ![p].at = "selecting"]
          /\ UNCHANGED <<done, resolved, resolving, futures, queue, running, compositions>>
          /\ Open(p)
      BY <1>3 DEF PassGate, StartSelecting, worker
    <2>2. /\ poll'[p].at = "selecting" /\ poll'[p].key = key /\ poll'[p].gate = poll[p].gate
          /\ \A q \in Pages \ {p} : poll'[q] = poll[q]
      BY <1>1, <2>1 DEF TypeOK, Polls
    <2>3. \A q \in Pages : /\ Sought(q)' => Sought(q)
                           /\ poll'[q].key = poll[q].key
                           /\ poll'[q].gate = poll[q].gate
                           /\ q # p => poll'[q].at = poll[q].at
                           /\ Holds(q)' => Holds(q) /\ poll'[q].resolution = poll[q].resolution
      BY <2>1, <2>2 DEF Sought, Holds
    <2>4. Sought(p) => \A q \in Pages \ {p} :
                          ~(poll[q].at = "selecting" /\ poll[q].key = key)
      <3>1. SUFFICES ASSUME Sought(p), NEW q \in Pages \ {p},
                            poll[q].at = "selecting", poll[q].key = key
                     PROVE  FALSE
        OBVIOUS
      <3>2. Sought(q)
        BY <3>1 DEF Sought
      <3>3. poll[q].gate # 0
        BY <3>1 DEF PollInv
      <3>4. poll[q].gate = resolving[key] /\ poll[p].gate = resolving[key]
        BY <1>1, <3>1, <3>2, <3>3 DEF SoughtInv
      <3>5. QED BY <2>1, <3>1, <3>4 DEF Open
    <2>5. SoughtInv'
      <3>1. SUFFICES ASSUME NEW q \in Pages, Sought(q)'
                     PROVE  /\ poll'[q].gate \in {0, resolving'[poll'[q].key]}
                            /\ poll'[q].at = "selecting" => resolved'[poll'[q].key] = None
                            /\ Holds(q)' => resolved'[poll'[q].key] = poll'[q].resolution
                            /\ \A r \in Pages :
                                  (/\ poll'[q].at = "selecting" /\ poll'[r].at = "selecting"
                                   /\ poll'[r].key = poll'[q].key) => r = q
        BY DEF SoughtInv
      <3>2. Sought(q)
        BY <2>3, <3>1
      <3>3. CASE q = p
        BY <1>3, <2>1, <2>2, <2>3, <2>4, <3>2, <3>3 DEF SoughtInv
      <3>4. CASE q # p /\ poll[q].key = key
        <4>1. Sought(p)
          BY <1>1, <3>2, <3>4 DEF Sought
        <4>2. poll'[q].at # "selecting"
          BY <2>3, <2>4, <3>4, <4>1
        <4>3. QED BY <2>1, <2>3, <3>2, <4>2 DEF SoughtInv
      <3>5. CASE q # p /\ poll[q].key # key
        <4>1. \A r \in Pages : poll'[r].key = poll'[q].key => r # p
          BY <2>2, <2>3, <3>5
        <4>2. QED BY <2>1, <2>3, <3>2, <3>5, <4>1 DEF SoughtInv
      <3>6. QED BY <3>3, <3>4, <3>5
    <2>6. ComposedInv' /\ TaskInv' /\ ComposedOnce'
      BY <2>1, SameTasks DEF ComposedInv
    <2>7. ShownIsNarrated'
      BY <2>1, <2>2 DEF ShownIsNarrated
    <2>8. QED BY <2>5, <2>6, <2>7
  <1>4. QED BY <1>2, <1>3

(* While the request has no answer nothing was resolved before, so no poll *)
(* and no task holds another resolution of it.                             *)
LEMMA SelectedSafe ==
    ASSUME TypeOK, PollInv, SafeInv, NEW p \in Pages, NEW res \in Resolutions, Selected(p, res)
    PROVE  SafeInv'
  <1> USE DEF SafeInv
  <1> DEFINE key == poll[p].key
  <1>1. key \in Keys /\ poll[p].at = "selecting" /\ res # None
    BY CopilotAssumption DEF Selected, PollInv, Polls, TypeOK
  <1>2. /\ poll' = [poll EXCEPT ![p].at = "resolved", ![p].gate = 0, ![p].resolution = res]
        /\ resolved' = [resolved EXCEPT ![key] = res]
        /\ UNCHANGED <<done, resolving, futures, queue, running, compositions>>
    BY DEF Selected, counts
  <1>3. /\ poll'[p].at = "resolved" /\ poll'[p].gate = 0 /\ poll'[p].resolution = res
        /\ poll'[p].key = key
        /\ \A q \in Pages \ {p} : poll'[q] = poll[q]
    BY <1>2, ResolvedPoll DEF TypeOK
  <1>4. /\ resolved'[key] = res
        /\ \A k \in Keys \ {key} : resolved'[k] = resolved[k]
    BY <1>1, <1>2 DEF TypeOK
  <1>5. done[key] = None => resolved[key] = None
    BY <1>1 DEF SoughtInv, Sought
  <1>6. SoughtInv'
    <2>1. SUFFICES ASSUME NEW q \in Pages, Sought(q)'
                   PROVE  /\ poll'[q].gate \in {0, resolving'[poll'[q].key]}
                          /\ poll'[q].at = "selecting" => resolved'[poll'[q].key] = None
                          /\ Holds(q)' => resolved'[poll'[q].key] = poll'[q].resolution
                          /\ \A r \in Pages :
                                (/\ poll'[q].at = "selecting" /\ poll'[r].at = "selecting"
                                 /\ poll'[r].key = poll'[q].key) => r = q
      BY DEF SoughtInv
    <2>2. CASE q = p
      BY <1>3, <1>4, <2>2
    <2>3. CASE q # p
      <3>1. poll'[q] = poll[q] /\ Sought(q) /\ (Holds(q)' <=> Holds(q))
        BY <1>2, <1>3, <2>1, <2>3 DEF Sought, Holds
      <3>2. poll[q].gate \in {0, resolving'[poll[q].key]}
        BY <1>2, <3>1 DEF SoughtInv
      <3>3. poll[q].key = key => poll[q].at # "selecting" /\ ~Holds(q)
        BY <1>1, <1>5, <2>3, <3>1 DEF SoughtInv, Sought, PollInv
      <3>4. poll[q].key # key => resolved'[poll[q].key] = resolved[poll[q].key]
        BY <1>4, <3>1 DEF Sought
      <3>5. \A r \in Pages : poll'[r].at = "selecting" => r # p /\ poll'[r] = poll[r]
        BY <1>3
      <3>6. QED BY <3>1, <3>2, <3>3, <3>4, <3>5 DEF SoughtInv
    <2>4. QED BY <2>2, <2>3
  <1>7. ComposedInv'
    <2>1. SUFFICES ASSUME NEW k \in Keys, done'[k] = None
                   PROVE  /\ k \in futures' => resolved'[k] # None
                          /\ \A i \in DOMAIN queue' :
                                queue'[i].key = k => queue'[i].resolution = resolved'[k]
                          /\ (running' # None /\ running'.key = k)
                                => running'.resolution = resolved'[k]
      BY DEF ComposedInv
    <2>2. CASE k # key
      BY <1>2, <1>4, <2>1, <2>2 DEF ComposedInv
    <2>3. CASE k = key
      <3>1. k \notin futures
        BY <1>2, <1>5, <2>1, <2>3 DEF ComposedInv
      <3>2. QED BY <1>2, <3>1 DEF TaskInv
    <2>4. QED BY <2>2, <2>3
  <1>8. TaskInv' /\ ComposedOnce'
    BY <1>2, SameTasks
  <1>9. ShownIsNarrated'
    <2>1. UNCHANGED <<futures, queue, running>>
      BY <1>2
    <2>2. QED BY <1>3, <2>1 DEF ShownIsNarrated
  <1>10. QED BY <1>6, <1>7, <1>8, <1>9

(* The second look: what is submitted has no answer, no task and no future *)
(* yet, so it was never composed.                                          *)
LEMMA SubmitSafe ==
    ASSUME TypeOK, PollInv, SafeInv, NEW p \in Pages, Submit(p)
    PROVE  SafeInv'
  <1> USE DEF SafeInv
  <1> DEFINE key == poll[p].key
             res == poll[p].resolution
  <1>1. key \in Keys /\ poll[p].at = "resolved" /\ poll[p].gate = 0 /\ res # None
    BY DEF Submit, PollInv, Polls, TypeOK, Holds
  <1>2. UNCHANGED <<done, resolved, resolving, running, compositions>>
    BY DEF Submit, counts
  <1>3. CASE done[key] # None
    <2> DEFINE status == done[key]
    <2>1. status \in Outcomes
      BY <1>1, <1>3 DEF TypeOK
    <2>2. /\ poll' = [poll EXCEPT ![p].at = "answered", ![p].status = status]
          /\ UNCHANGED <<futures, queue>>
      BY <1>3 DEF Submit, Answer
    <2> HIDE DEF status
    <2>3. /\ poll'[p].at = "answered" /\ poll'[p].status = status /\ poll'[p].gate = 0
          /\ \A q \in Pages \ {p} : poll'[q] = poll[q]
      BY <1>1, <2>2 DEF TypeOK, Polls
    <2>4. ~Holds(p)'
      BY <2>1, <2>3 DEF Holds, Outcomes
    <2>5. QED BY <1>2, <2>2, <2>3, <2>4, QuietMove
  <1>4. CASE done[key] = None
    <2>1. poll' = [poll EXCEPT ![p].at = "answered", ![p].status = "generating"]
      BY <1>4 DEF Submit, SubmitOnce, Answer
    <2>2. /\ poll'[p].at = "answered" /\ poll'[p].status = "generating"
          /\ poll'[p].gate = 0 /\ poll'[p].key = key /\ poll'[p].resolution = res
          /\ \A q \in Pages \ {p} : poll'[q] = poll[q]
      BY <1>1, <2>1 DEF TypeOK, Polls
    <2>3. \A q \in Pages : /\ poll'[q].key = poll[q].key
                           /\ poll'[q].gate = poll[q].gate
                           /\ poll'[q].resolution = poll[q].resolution
                           /\ (poll'[q].at = "selecting" <=> poll[q].at = "selecting")
                           /\ (Sought(q)' <=> Sought(q))
                           /\ (Holds(q)' <=> Holds(q))
      <3>1. SUFFICES ASSUME NEW q \in Pages
                     PROVE  /\ poll'[q].key = poll[q].key
                            /\ poll'[q].gate = poll[q].gate
                            /\ poll'[q].resolution = poll[q].resolution
                            /\ (poll'[q].at = "selecting" <=> poll[q].at = "selecting")
                            /\ (Sought(q)' <=> Sought(q))
                            /\ (Holds(q)' <=> Holds(q))
        OBVIOUS
      <3>2. CASE q = p
        BY <1>1, <1>2, <2>2, <3>2 DEF Sought, Holds
      <3>3. CASE q # p
        BY <1>2, <2>2, <3>3 DEF Sought, Holds
      <3>4. QED BY <3>2, <3>3
    <2>4. SoughtInv'
      BY <1>2, <2>3 DEF SoughtInv
    <2>5. resolved[key] = res
      BY <1>1, <1>4 DEF SoughtInv, Sought, Holds
    <2>6. \A q \in Pages : (Holds(q) /\ poll[q].key = key) => poll[q].resolution = res
      BY <1>1, <1>4, <2>5 DEF SoughtInv, Sought
    <2>7. CASE key \in futures \/ closed
      <3>1. UNCHANGED <<futures, queue>>
        BY <1>4, <2>7 DEF Submit, SubmitOnce
      <3>2. ComposedInv' /\ TaskInv' /\ ComposedOnce'
        BY <1>2, <3>1 DEF ComposedInv, TaskInv, ComposedOnce
      <3>3. ShownIsNarrated'
        <4>1. SUFFICES ASSUME NEW q \in Pages, poll'[q].at = "answered",
                              poll'[q].status = "generating", poll'[q].key \in futures'
                       PROVE  /\ \A i \in DOMAIN queue' :
                                    queue'[i].key = poll'[q].key
                                      => queue'[i].resolution = poll'[q].resolution
                              /\ running' # None /\ running'.key = poll'[q].key
                                    => running'.resolution = poll'[q].resolution
          BY DEF ShownIsNarrated
        <4>2. CASE q = p
          BY <1>1, <1>2, <1>4, <2>2, <2>5, <3>1, <4>2 DEF ComposedInv
        <4>3. CASE q # p
          BY <1>2, <2>2, <3>1, <4>1, <4>3 DEF ShownIsNarrated
        <4>4. QED BY <4>2, <4>3
      <3>4. QED BY <2>4, <3>2, <3>3
    <2>8. CASE key \notin futures /\ ~closed
      <3> DEFINE task == [key |-> key, resolution |-> res]
      <3>1. futures' = futures \cup {key} /\ queue' = Append(queue, task)
        BY <1>4, <2>8 DEF Submit, SubmitOnce
      <3>2. /\ DOMAIN queue' = 1 .. Len(queue) + 1 /\ DOMAIN queue = 1 .. Len(queue)
            /\ Len(queue) \in Nat
            /\ queue'[Len(queue) + 1].key = key /\ queue'[Len(queue) + 1].resolution = res
            /\ \A i \in 1 .. Len(queue) : queue'[i] = queue[i]
        <4>1. queue \in Seq(Tasks) /\ task.key = key /\ task.resolution = res
          BY DEF TypeOK
        <4> HIDE DEF task
        <4>2. QED BY <3>1, <4>1
      <3>3. compositions[key] = 0
        BY <1>1, <1>4, <2>8 DEF TaskInv
      <3>4. /\ \A i \in DOMAIN queue : queue[i].key # key
            /\ running # None => running.key # key
        BY <2>8 DEF TaskInv
      <3>5. ComposedInv'
        <4>1. SUFFICES ASSUME NEW k \in Keys, done[k] = None
                       PROVE  /\ k \in futures' => resolved[k] # None
                              /\ \A i \in DOMAIN queue' :
                                    queue'[i].key = k => queue'[i].resolution = resolved[k]
                              /\ (running # None /\ running.key = k)
                                    => running.resolution = resolved[k]
          BY <1>2 DEF ComposedInv
        <4>2. k \in futures' => resolved[k] # None
          BY <1>1, <2>5, <3>1, <4>1 DEF ComposedInv
        <4>3. ASSUME NEW i \in DOMAIN queue', queue'[i].key = k
              PROVE  queue'[i].resolution = resolved[k]
          BY <2>5, <3>2, <4>1, <4>3 DEF ComposedInv
        <4>4. QED BY <4>1, <4>2, <4>3 DEF ComposedInv
      <3>6. TaskInv'
        <4>1. \A i \in DOMAIN queue' :
                 queue'[i].key \in futures' /\ compositions[queue'[i].key] = 0
          BY <3>1, <3>2, <3>3 DEF TaskInv
        <4>2. \A i, j \in DOMAIN queue' : queue'[i].key = queue'[j].key => i = j
          BY <3>2, <3>4 DEF TaskInv
        <4>3. running # None => /\ running.key \in futures'
                               /\ \A i \in DOMAIN queue' : queue'[i].key # running.key
          BY <3>1, <3>2, <3>4 DEF TaskInv
        <4>4. QED BY <1>2, <4>1, <4>2, <4>3 DEF TaskInv
      <3>7. ComposedOnce'
        BY <1>2 DEF ComposedOnce
      <3>8. ShownIsNarrated'
        <4>1. SUFFICES ASSUME NEW q \in Pages, poll'[q].at = "answered",
                              poll'[q].status = "generating", poll'[q].key \in futures'
                       PROVE  /\ \A i \in DOMAIN queue' :
                                    queue'[i].key = poll'[q].key
                                      => queue'[i].resolution = poll'[q].resolution
                              /\ running # None /\ running.key = poll'[q].key
                                    => running.resolution = poll'[q].resolution
          BY <1>2 DEF ShownIsNarrated
        <4>2. CASE poll'[q].key = key
          <5>1. poll'[q].resolution = res
            BY <2>3, <2>6, <4>1, <4>2 DEF Holds
          <5>2. QED BY <3>2, <3>4, <4>2, <5>1
        <4>3. CASE poll'[q].key # key
          <5>1. q # p /\ poll'[q] = poll[q] /\ poll[q].key \in futures
            BY <2>2, <3>1, <4>1, <4>3
          <5>2. \A i \in DOMAIN queue' : queue'[i].key = poll[q].key =>
                   i \in DOMAIN queue /\ queue'[i] = queue[i]
            BY <3>2, <4>3, <5>1
          <5>3. QED BY <4>1, <5>1, <5>2 DEF ShownIsNarrated
        <4>4. QED BY <4>2, <4>3
      <3>9. QED BY <2>4, <3>5, <3>6, <3>7, <3>8
    <2>9. QED BY <2>7, <2>8
  <1>5. QED BY <1>3, <1>4

LEMMA ComposeSafe ==
    ASSUME TypeOK, SafeInv, Compose
    PROVE  SafeInv'
  <1> USE DEF SafeInv
  <1> DEFINE task == Head(queue)
  <1>1. /\ running = None /\ queue # <<>> /\ queue \in Seq(Tasks)
        /\ UNCHANGED <<poll, done, resolved, resolving, futures>>
    BY DEF Compose, TypeOK
  <1>2. /\ DOMAIN queue = 1 .. Len(queue) /\ Len(queue) \in Nat \ {0}
        /\ task = queue[1] /\ task \in Tasks
        /\ DOMAIN Tail(queue) = 1 .. Len(queue) - 1
        /\ \A i \in 1 .. Len(queue) - 1 : Tail(queue)[i] = queue[i + 1]
    BY <1>1
  <1>3. queue' = Tail(queue) /\ running' # None
        /\ running'.key = task.key /\ running'.resolution = task.resolution
        /\ running'.at = "composing"
    <2>1. running' = [key |-> task.key, resolution |-> task.resolution, at |-> "composing"]
          /\ queue' = Tail(queue)
      BY DEF Compose
    <2>2. running' \in Runs
      BY <1>2, <2>1 DEF Tasks, Runs
    <2>3. QED BY <2>1, <2>2, NoneIsNoRequest
  <1>4. compositions[task.key] = 0 /\ task.key \in futures /\ task.key \in Keys
    BY <1>2 DEF TaskInv, Tasks
  <1>5. compositions'[task.key] = 1
        /\ \A k \in Keys \ {task.key} : compositions'[k] = compositions[k]
    BY <1>4 DEF Compose, Twice, TypeOK
  <1>6. \A i \in DOMAIN queue' : /\ i + 1 \in DOMAIN queue /\ queue'[i] = queue[i + 1]
                                /\ queue'[i].key # task.key /\ queue'[i].key \in Keys
    <2>1. SUFFICES ASSUME NEW i \in DOMAIN queue'
                   PROVE  /\ i + 1 \in DOMAIN queue /\ queue'[i] = queue[i + 1]
                          /\ queue'[i].key # task.key /\ queue'[i].key \in Keys
      OBVIOUS
    <2>2. i + 1 \in DOMAIN queue /\ queue'[i] = queue[i + 1] /\ i + 1 # 1 /\ 1 \in DOMAIN queue
      BY <1>2, <1>3, <2>1
    <2>3. queue[i + 1].key # task.key
      BY <1>2, <2>2 DEF TaskInv
    <2>4. queue[i + 1] \in Tasks
      BY <1>1, <1>2, <2>2
    <2>5. QED BY <2>2, <2>3, <2>4 DEF Tasks
  <1>7. SoughtInv'
    BY <1>1 DEF SoughtInv, Sought, Holds
  <1>8. ComposedInv'
    BY <1>1, <1>2, <1>3, <1>6 DEF ComposedInv
  <1>9. TaskInv'
    <2>1. \A i \in DOMAIN queue' :
             queue'[i].key \in futures' /\ compositions'[queue'[i].key] = 0
      BY <1>1, <1>5, <1>6 DEF TaskInv
    <2>2. \A i, j \in DOMAIN queue' : queue'[i].key = queue'[j].key => i = j
      <3>1. SUFFICES ASSUME NEW i \in DOMAIN queue', NEW j \in DOMAIN queue',
                            queue'[i].key = queue'[j].key
                     PROVE  i = j
        OBVIOUS
      <3>2. i + 1 = j + 1
        BY <1>6, <3>1 DEF TaskInv
      <3>3. i \in Nat /\ j \in Nat
        BY <1>2, <1>3
      <3>4. QED BY <3>2, <3>3
    <2>3. \A k \in Keys : compositions'[k] # 0 =>
             done'[k] # None \/ (running' # None /\ running'.key = k)
      BY <1>1, <1>3, <1>5 DEF TaskInv
    <2>4. running'.key \in futures' /\ running'.at # "stored"
      BY <1>1, <1>3, <1>4
    <2>5. QED BY <1>3, <1>6, <2>1, <2>2, <2>3, <2>4 DEF TaskInv
  <1>10. ComposedOnce'
    BY <1>5 DEF ComposedOnce
  <1>11. ShownIsNarrated'
    BY <1>1, <1>2, <1>3, <1>6 DEF ShownIsNarrated
  <1>12. QED BY <1>7, <1>8, <1>9, <1>10, <1>11

LEMMA FinishSafe ==
    ASSUME TypeOK, SafeInv, NEW outcome \in Outcomes, Finish(outcome)
    PROVE  SafeInv'
  <1> USE DEF SafeInv
  <1> DEFINE key == running.key
  <1>1. /\ running # None /\ running \in Runs /\ key \in Keys
        /\ UNCHANGED <<poll, futures, queue, compositions>>
    BY DEF Finish, TypeOK, Runs, counts
  <1>2. /\ done'[key] # None
        /\ \A k \in Keys \ {key} : /\ done'[k] = done[k]
                                   /\ resolved'[k] = resolved[k]
                                   /\ resolving'[k] = resolving[k]
    BY <1>1, NoneIsNoRequest DEF Finish, TypeOK
  <1>3. running' # None /\ running'.key = key /\ running'.resolution = running.resolution
    <2>1. running' \in Runs /\ running'.key = key
          /\ running'.resolution = running.resolution
      BY <1>1 DEF Finish, Runs
    <2>2. QED BY <2>1, NoneIsNoRequest
  <1>4. SoughtInv'
    <2>1. \A q \in Pages : Sought(q)' => /\ Sought(q)
                                         /\ resolved'[poll[q].key] = resolved[poll[q].key]
                                         /\ resolving'[poll[q].key] = resolving[poll[q].key]
      BY <1>1, <1>2 DEF Sought
    <2>2. \A q \in Pages : Holds(q)' <=> Holds(q)
      BY <1>1 DEF Holds
    <2>3. QED BY <1>1, <2>1, <2>2 DEF SoughtInv
  <1>5. ComposedInv'
    BY <1>1, <1>2, <1>3 DEF ComposedInv
  <1>6. TaskInv'
    BY <1>1, <1>2, <1>3 DEF TaskInv
  <1>7. ComposedOnce'
    BY <1>1 DEF ComposedOnce
  <1>8. ShownIsNarrated'
    BY <1>1, <1>3 DEF ShownIsNarrated
  <1>9. QED BY <1>4, <1>5, <1>6, <1>7, <1>8

(* Forgetting a future, or cancelling what has not begun.                  *)
LEMMA ForgetSafe ==
    ASSUME TypeOK, SafeInv, Forget
    PROVE  SafeInv'
  <1> USE DEF SafeInv
  <1>1. /\ running # None /\ running.at = "stored" /\ running.key \in Keys
        /\ futures' = futures \ {running.key} /\ running' = None
        /\ UNCHANGED <<poll, done, resolved, resolving, queue, compositions>>
    BY DEF Forget, TypeOK, Runs, counts
  <1>2. SoughtInv'
    BY <1>1 DEF SoughtInv, Sought, Holds
  <1>3. ComposedInv'
    BY <1>1 DEF ComposedInv
  <1>4. TaskInv' /\ ComposedOnce'
    BY <1>1 DEF TaskInv, ComposedOnce
  <1>5. ShownIsNarrated'
    BY <1>1 DEF ShownIsNarrated
  <1>6. QED BY <1>2, <1>3, <1>4, <1>5

LEMMA CloseSafe ==
    ASSUME TypeOK, SafeInv, Close
    PROVE  SafeInv'
  <1> USE DEF SafeInv
  <1>1. /\ queue' = <<>> /\ futures' = futures \ {queue[i].key : i \in DOMAIN queue}
        /\ UNCHANGED <<poll, done, resolved, resolving, running, compositions>>
    BY DEF Close, counts
  <1>2. DOMAIN queue' = {}
    BY <1>1
  <1>3. SoughtInv'
    BY <1>1 DEF SoughtInv, Sought, Holds
  <1>4. ComposedInv'
    BY <1>1, <1>2 DEF ComposedInv
  <1>5. TaskInv' /\ ComposedOnce'
    BY <1>1, <1>2 DEF TaskInv, ComposedOnce
  <1>6. ShownIsNarrated'
    BY <1>1, <1>2 DEF ShownIsNarrated
  <1>7. QED BY <1>3, <1>4, <1>5, <1>6

(* The page's own steps, the first look and a failed selection.            *)
LEMMA QuietSteps ==
    ASSUME TypeOK, PollInv, SafeInv, NEW p \in Pages,
           \/ \E q \in Questions : Ask(p, q)
           \/ Arrive(p) \/ Respond(p) \/ Look(p) \/ SelectFails(p) \/ SelectionFailed(p)
    PROVE  SafeInv'
  <1> USE DEF TypeOK
  <1>1. poll[p].at \in {"idle", "waiting", "arrived", "answered", "failed"} => poll[p].gate = 0
    BY DEF PollInv
  <1>2. ASSUME NEW q \in Questions, Ask(p, q) PROVE SafeInv'
    <2>1. /\ poll'[p].at = "waiting" /\ poll'[p].gate = 0
          /\ \A r \in Pages \ {p} : poll'[r] = poll[r]
      BY <1>1, <1>2 DEF Ask, Polls
    <2>2. QED BY <1>2, <2>1, QuietMove DEF Ask, worker, counts, Holds
  <1>3. CASE Arrive(p)
    <2>1. /\ poll'[p].at = "arrived" /\ poll'[p].gate = 0
          /\ \A r \in Pages \ {p} : poll'[r] = poll[r]
      BY <1>1, <1>3 DEF Arrive, Polls
    <2>2. UNCHANGED <<done, resolved, resolving, futures, queue, running, compositions>>
      BY <1>3 DEF Arrive, worker, counts
    <2>3. QED BY <2>1, <2>2, QuietMove DEF Holds
  <1>4. CASE Respond(p)
    <2>1. /\ poll'[p].at \in {"idle", "waiting"} /\ poll'[p].gate = 0
          /\ \A r \in Pages \ {p} : poll'[r] = poll[r]
      BY <1>4 DEF Respond, Fresh
    <2>2. UNCHANGED <<done, resolved, resolving, futures, queue, running, compositions>>
      BY <1>4 DEF Respond, worker, counts
    <2>3. QED BY <2>1, <2>2, QuietMove DEF Holds
  <1>5. CASE Look(p)
    <2>1. poll[p].at = "arrived" /\ poll[p].key \in Keys
      BY <1>5 DEF Look, PollInv, Polls
    <2>2. /\ poll'[p].gate = 0
          /\ \/ poll'[p].at = "looked"
             \/ poll'[p].at = "answered" /\ poll'[p].status \in Outcomes
          /\ \A r \in Pages \ {p} : poll'[r] = poll[r]
      <3>1. CASE done[poll[p].key] # None
        <4> DEFINE status == done[poll[p].key]
        <4>1. status \in Outcomes
          BY <2>1, <3>1
        <4>2. poll' = [poll EXCEPT ![p].at = "answered", ![p].status = status]
          BY <1>5, <3>1 DEF Look, Answer
        <4> HIDE DEF status
        <4>3. QED BY <1>1, <2>1, <4>1, <4>2 DEF Polls
      <3>2. CASE done[poll[p].key] = None
        <4>1. poll' = [poll EXCEPT ![p].at = "looked"]
          BY <1>5, <3>2 DEF Look
        <4>2. QED BY <1>1, <2>1, <4>1 DEF Polls
      <3>3. QED BY <3>1, <3>2
    <2>3. UNCHANGED <<done, resolved, resolving, futures, queue, running, compositions>>
      BY <1>5 DEF Look, worker, counts
    <2>4. poll'[p].at # "selecting" /\ ~Holds(p)'
      BY <2>2 DEF Holds, Outcomes
    <2>5. QED BY <2>2, <2>3, <2>4, QuietMove
  <1>6. CASE SelectFails(p)
    <2>1. /\ poll'[p].at = "failed" /\ poll'[p].gate = 0
          /\ \A r \in Pages \ {p} : poll'[r] = poll[r]
      BY <1>6 DEF SelectFails, Polls
    <2>2. UNCHANGED <<done, resolved, resolving, futures, queue, running, compositions>>
      BY <1>6 DEF SelectFails, worker, counts
    <2>3. QED BY <2>1, <2>2, QuietMove DEF Holds
  <1>7. CASE SelectionFailed(p)
    <2>1. poll[p].at = "failed" /\ poll[p].key \in Keys
      BY <1>7 DEF SelectionFailed, PollInv, Polls
    <2>2. poll' = [poll EXCEPT ![p].at = "answered", ![p].status = "rejected"]
      BY <1>7 DEF SelectionFailed, Answer
    <2>3. /\ poll'[p].at = "answered" /\ poll'[p].status = "rejected" /\ poll'[p].gate = 0
          /\ \A r \in Pages \ {p} : poll'[r] = poll[r]
      BY <1>1, <2>1, <2>2 DEF Polls
    <2>4. \A k \in Keys : /\ done[k] # None => done'[k] # None
                          /\ done'[k] = None => resolving'[k] = resolving[k]
      BY <1>7, <2>1, NoneIsNoRequest DEF SelectionFailed, Outcomes
    <2>5. UNCHANGED <<resolved, futures, queue, running, compositions>>
      BY <1>7 DEF SelectionFailed, counts
    <2>6. QED BY <2>3, <2>4, <2>5, QuietMove DEF Holds
  <1>8. QED BY <1>2, <1>3, <1>4, <1>5, <1>6, <1>7

LEMMA Stutter ==
    ASSUME SafeInv,
           UNCHANGED <<poll, done, resolved, resolving, futures, queue, running, compositions>>
    PROVE  SafeInv'
  BY DEF SafeInv, SoughtInv, Sought, Holds, ComposedInv, TaskInv, ComposedOnce, ShownIsNarrated

LEMMA StepSafe == TypeOK /\ PollInv /\ SafeInv /\ [Next]_vars => SafeInv'
  <1> SUFFICES ASSUME TypeOK, PollInv, SafeInv, [Next]_vars PROVE SafeInv'
    OBVIOUS
  <1>1. ASSUME NEW p \in Pages, Handle(p) PROVE SafeInv'
    BY <1>1, QuietSteps, FindResolutionSafe, PassGateSafe, SelectedSafe, SubmitSafe DEF Handle
  <1>2. ASSUME NEW p \in Pages, NEW q \in Questions, Ask(p, q) PROVE SafeInv'
    BY <1>2, QuietSteps
  <1>3. CASE Work
    BY <1>3, ComposeSafe, FinishSafe, ForgetSafe DEF Work
  <1>4. CASE Rebuild
    BY <1>4, Stutter DEF Rebuild, worker, counts
  <1>5. CASE Close
    BY <1>5, CloseSafe
  <1>6. CASE UNCHANGED vars
    BY <1>6, Stutter DEF vars, worker, counts
  <1>7. QED
    BY <1>1, <1>2, <1>3, <1>4, <1>5, <1>6 DEF Next

(* Prose is composed at most once for a request, however many polls carry  *)
(* it and wherever they stand when it is stored and its future forgotten.  *)
THEOREM ComposesOnce == Spec => []ComposedOnce
  <1>1. SafeInv => ComposedOnce
    BY DEF SafeInv
  <1>2. QED BY <1>1, InitTypes, StepTypes, InitSafe, StepSafe, PTL DEF Spec

(* The prose under way is written around the resolution that every poll    *)
(* told to wait for it was given.                                          *)
THEOREM NarratesWhatIsShown == Spec => []ShownIsNarrated
  <1>1. SafeInv => ShownIsNarrated
    BY DEF SafeInv
  <1>2. QED BY <1>1, InitTypes, StepTypes, InitSafe, StepSafe, PTL DEF Spec

(* Until a request has its answer one poll at a time selects for it, and   *)
(* none once its prose is submitted.                                       *)
THEOREM OneSelectsAtATime == Spec => []SelectsAlone
  <1>1. TypeOK /\ PollInv /\ SafeInv => SelectsAlone
    <2>1. SUFFICES ASSUME TypeOK, PollInv, SafeInv, NEW p \in Pages,
                          poll[p].at = "selecting", done[poll[p].key] = None
                   PROVE  /\ poll[p].key \notin futures
                          /\ \A q \in Pages \ {p} :
                                ~(poll[q].at = "selecting" /\ poll[q].key = poll[p].key)
      BY DEF SelectsAlone
    <2>2. poll[p].key \in Keys
      BY <2>1 DEF TypeOK, PollInv, Polls
    <2>3. QED BY <2>1, <2>2 DEF SafeInv, SoughtInv, Sought, ComposedInv
  <1>2. QED BY <1>1, InitTypes, StepTypes, InitSafe, StepSafe, PTL DEF Spec
=============================================================================
