-------------------------- MODULE PlayerRecordProofs --------------------------
(***************************************************************************)
(* Proofs about PlayerRecord, for any number of games, subjects, requests, *)
(* sittings and restarts.                                                  *)
(***************************************************************************)
EXTENDS PlayerRecord, TLAPS

(* What a request holds is a sitting of this process, the record points at *)
(* one such sitting or at none, and only a record that points at none      *)
(* still holds what it loaded.                                             *)
Pointed ==
    /\ first <= newest + 1
    /\ \A s \in 1 .. newest : gameOf[s] \in Games
    /\ \A r \in Requests : request[r].at # "idle" =>
          running /\ request[r].sitting \in first .. newest
    /\ \A r \in Requests : request[r].at = "adopted" => game # None
    /\ game # None => /\ sitting \in first .. newest /\ game = gameOf[sitting]
                      /\ loaded = {}
    /\ game = None => /\ sitting = None
                      /\ entries = {} /\ pending = {} /\ foreign = {}
    /\ ~running => game = None

TypeInv == TypeOK /\ Pointed

(* An entry that no longer carries the sitting it was made in was accepted *)
(* for the one it carries.                                                 *)
Vouched(S) == \A e \in S : e.made = e.sitting \/ <<Id(e), e.sitting>> \in accepted

ProvenanceInv ==
    /\ Vouched(disk.entries) /\ Vouched(loaded) /\ Vouched(entries)
    /\ Vouched(pending) /\ Vouched(foreign)
    /\ \A e \in entries : e.sitting = sitting

(* Where a note is never lost: one sitting for each process, a file of     *)
(* this schema, and a system that lets us read it.                         *)
OneSittingEach ==
    /\ SittingsPerProcess <= 1
    /\ FirstFiles \subseteq {"absent", "current"}
    /\ ReadMayFail = FALSE

Held == loaded \cup entries \cup pending \cup foreign

NoteInv ==
    /\ OneSittingEach
    /\ newest <= first
    /\ disk.kind \in {"absent", "current"}
    /\ disk.kind = "absent" => disk.entries = {}
    /\ owed \subseteq IdsOf(disk.entries)
    /\ running => owed \subseteq IdsOf(Held)

-----------------------------------------------------------------------------
(* Types.                                                                  *)

RequestTypes == [at : {"idle", "captured", "adopted"}, sitting : Sittings]

LEMMA IdleIsRequest == 0 \in Sittings /\ Idle \in RequestTypes
  BY SittingAssumption DEF Sittings, Idle, RequestTypes

(* An entry's id is its subject and the sitting it was made in.            *)
LEMMA IdOfEntry ==
    ASSUME NEW e \in Entries
    PROVE  /\ Id(e) \in Ids
           /\ \A f \in Entries : Id(e) = Id(f) <=> (e.subject = f.subject /\ e.made = f.made)
  BY DEF Id, Ids, Entries

LEMMA IdsOfEntries == \A S \in SUBSET Entries : IdsOf(S) \subseteq Ids
  <1> SUFFICES ASSUME NEW S \in SUBSET Entries, NEW e \in S PROVE Id(e) \in Ids
    BY DEF IdsOf
  <1> QED BY IdOfEntry

(* Filing an entry under another sitting and game leaves its id.           *)
LEMMA Refiled ==
    ASSUME NEW e \in Entries, NEW s \in Sittings, NEW g \in Games
    PROVE  /\ [e EXCEPT !.sitting = s, !.game = g] \in Entries
           /\ Id([e EXCEPT !.sitting = s, !.game = g]) = Id(e)
  BY DEF Entries, Id

LEMMA InitTypes == Init => TypeInv
  <1> SUFFICES ASSUME Init PROVE TypeInv
    OBVIOUS
  <1>1. 0 \in Sittings
    BY SittingAssumption DEF Sittings
  <1>2. Legacy \subseteq Entries
    BY <1>1 DEF Legacy, Entries
  <1>3. disk \in Files
    BY <1>2, FilesAssumption DEF Init, Files
  <1>4. owed \subseteq Ids
    <2>1. disk.entries \subseteq Entries
      BY <1>3 DEF Files
    <2>2. QED BY <2>1, IdsOfEntries DEF Init
  <1>5. 1 \in 1 .. MaxSitting + 1
    BY SittingAssumption
  <1>6. TypeOK
    BY <1>1, <1>3, <1>4, <1>5 DEF Init, TypeOK, Idle
  <1>7. Pointed
    BY DEF Init, Pointed, Idle
  <1>8. QED BY <1>6, <1>7 DEF TypeInv

(* Pointing the record at a sitting of this process: what it holds stays   *)
(* well typed, and of two entries filed under the same id in the same      *)
(* sitting for the same game there is only one.                            *)
LEMMA AdoptTypes ==
    ASSUME TypeInv, NEW s \in first .. newest, running, Adopt(s),
           UNCHANGED <<first, newest, gameOf>>
    PROVE  /\ loaded' \subseteq Entries /\ entries' \subseteq Entries
           /\ pending' \subseteq Entries /\ foreign' \subseteq Entries
           /\ \A e, f \in entries' : Id(e) = Id(f) => e = f
           /\ game' \in Games /\ game' = gameOf[s] /\ sitting' = s /\ s \in Sittings
           /\ loaded' = {}
  <1>1. s \in Sittings /\ s \in 1 .. newest
    BY SittingAssumption DEF TypeInv, TypeOK, Sittings
  <1>2. gameOf[s] \in Games
    BY <1>1 DEF TypeInv, Pointed
  <1>3. CASE <<game, sitting>> = <<gameOf[s], s>>
    <2>1. UNCHANGED memory /\ game \in Games /\ sitting = s
      BY <1>2, <1>3 DEF Adopt
    <2>2. loaded = {}
      BY <2>1, NoneAssumption DEF TypeInv, Pointed
    <2>3. QED
      BY <1>1, <1>2, <1>3, <2>1, <2>2 DEF TypeInv, TypeOK, memory
  <1>4. CASE <<game, sitting>> # <<gameOf[s], s>>
    <2>1. /\ game' = gameOf[s] /\ sitting' = s /\ loaded' = {}
          /\ entries' = {e \in Candidates : e.game = gameOf[s] /\ e.sitting = s}
          /\ foreign' \subseteq Candidates /\ pending' \subseteq Candidates
      BY <1>4 DEF Adopt
    <2>2. Candidates \subseteq Entries
      BY DEF Candidates, TypeInv, TypeOK
    <2>3. \A e, f \in entries' : Id(e) = Id(f) => e = f
      BY <2>1, <2>2 DEF Id, Entries
    <2>4. QED
      BY <1>1, <1>2, <2>1, <2>2, <2>3
  <1>5. QED BY <1>3, <1>4

LEMMA SaveTypes ==
    ASSUME disk \in Files, Save,
           entries' \subseteq Entries, pending' \subseteq Entries, foreign' \subseteq Entries
    PROVE  disk' \in Files
  BY DEF Save, Files

LEMMA WarnTypes ==
    ASSUME NEW again, Warn(again), warned \subseteq Ids, pending' \subseteq Entries
    PROVE  warned' \subseteq Ids
  <1>1. IdsOf(pending') \subseteq Ids
    BY IdsOfEntries
  <1>2. QED BY <1>1 DEF Warn

LEMMA StepTypes == TypeInv /\ [Next]_vars => TypeInv'
  <1> SUFFICES ASSUME TypeInv, [Next]_vars PROVE TypeInv'
    OBVIOUS
  <1>a. newest \in Nat /\ first \in Nat /\ newest <= MaxSitting /\ MaxSitting \in Nat
    BY SittingAssumption DEF TypeInv, TypeOK, Sittings
  <1>1. CASE Start
    <2>1. disk' \in Files /\ aside' \subseteq Entries /\ loaded' \subseteq Entries
      BY <1>1 DEF Start, Load, Quarantine, TypeInv, TypeOK, Files
    <2>2. first' \in 1 .. MaxSitting + 1
      BY <1>1, <1>a DEF Start
    <2>3. warned' \subseteq Ids
      <3>1. disk'.entries \ loaded' \in SUBSET Entries
        BY <2>1 DEF Files
      <3>2. IdsOf(disk'.entries \ loaded') \subseteq Ids
        BY <3>1, IdsOfEntries
      <3>3. QED BY <1>1, <3>2 DEF Start, TypeInv, TypeOK
    <2>4. TypeOK'
      BY <1>1, <2>1, <2>2, <2>3 DEF Start, TypeInv, TypeOK
    <2>5. Pointed'
      BY <1>1, <1>a DEF Start, TypeInv, Pointed
    <2>6. QED BY <2>4, <2>5 DEF TypeInv
  <1>2. CASE Stop
    <2>1. TypeOK'
      <3>1. request' \in [Requests -> RequestTypes]
        BY <1>2, IdleIsRequest DEF Stop
      <3>2. QED
        BY <1>2, <3>1 DEF Stop, play, ghosts, TypeInv, TypeOK, RequestTypes
    <2>2. Pointed'
      BY <1>2 DEF Stop, play, ghosts, TypeInv, Pointed, Idle
    <2>3. QED BY <2>1, <2>2 DEF TypeInv
  <1>3. ASSUME NEW g \in Games, NewSitting(g) PROVE TypeInv'
    <2>1. newest' \in Sittings /\ newest' = newest + 1
      BY <1>3, <1>a DEF NewSitting, Sittings
    <2>2. gameOf' \in [Sittings -> Games \cup {Unnamed}]
      BY <1>3 DEF NewSitting, TypeInv, TypeOK
    <2>3. TypeOK'
      BY <1>3, <2>1, <2>2 DEF NewSitting, memory, ghosts, TypeInv, TypeOK
    <2>4. \A s \in 1 .. newest + 1 : gameOf'[s] \in Games
      <3>1. \A s \in Sittings : gameOf'[s] = IF s = newest + 1 THEN g ELSE gameOf[s]
        BY <1>3 DEF NewSitting, TypeInv, TypeOK
      <3>2. \A s \in 1 .. newest + 1 : s \in Sittings /\ (s # newest + 1 => s \in 1 .. newest)
        BY <1>a, <2>1 DEF Sittings
      <3>3. QED BY <3>1, <3>2 DEF TypeInv, Pointed
    <2>5. game # None => game = gameOf'[sitting] /\ sitting \in first .. newest + 1
      <3>1. game # None => sitting \in first .. newest /\ sitting # newest + 1
        BY <1>a DEF TypeInv, Pointed
      <3>2. game # None => gameOf'[sitting] = gameOf[sitting]
        BY <1>3, <3>1, <1>a DEF NewSitting, TypeInv, TypeOK, Sittings
      <3>3. QED BY <3>1, <3>2, <1>a DEF TypeInv, Pointed
    <2>6. Pointed'
      BY <1>3, <1>a, <2>1, <2>4, <2>5 DEF NewSitting, memory, TypeInv, Pointed
    <2>7. QED BY <2>3, <2>6 DEF TypeInv
  <1>4. ASSUME NEW r \in Requests, Capture(r) PROVE TypeInv'
    <2>1. request' = [request EXCEPT ![r] = [at |-> "captured", sitting |-> newest]]
      BY <1>4 DEF Capture
    <2>2. TypeOK'
      BY <1>4 DEF Capture, memory, play, ghosts, TypeInv, TypeOK
    <2>3. newest \in first .. newest
      BY <1>4, <1>a DEF Capture
    <2>4. Pointed'
      BY <1>4, <2>1, <2>3 DEF Capture, memory, play, TypeInv, TypeOK, Pointed
    <2>5. QED BY <2>2, <2>4 DEF TypeInv
  <1>5. ASSUME NEW r \in Requests, AdoptFor(r) PROVE TypeInv'
    <2> DEFINE s == request[r].sitting
    <2>1. s \in first .. newest /\ running
      BY <1>5 DEF AdoptFor, TypeInv, Pointed
    <2>2. /\ loaded' \subseteq Entries /\ entries' \subseteq Entries
          /\ pending' \subseteq Entries /\ foreign' \subseteq Entries
          /\ \A e, f \in entries' : Id(e) = Id(f) => e = f
          /\ game' \in Games /\ game' = gameOf[s] /\ sitting' = s /\ s \in Sittings
          /\ loaded' = {}
      BY <1>5, <2>1, AdoptTypes DEF AdoptFor, play
    <2>3. request' = [request EXCEPT ![r].at = "adopted"]
      BY <1>5 DEF AdoptFor
    <2>4. TypeOK'
      <3>1. IdsOf(pending') \subseteq Ids
        BY <2>2, IdsOfEntries
      <3>2. QED
        BY <1>5, <2>2, <2>3, <3>1 DEF AdoptFor, play, TypeInv, TypeOK
    <2>5. Pointed'
      <3>1. game' # None
        BY <2>2, NoneAssumption
      <3>2. \A q \in Requests : request'[q].sitting = request[q].sitting
                /\ (request'[q].at # "idle" => request[q].at # "idle")
        BY <1>5, <2>3 DEF AdoptFor, TypeInv, TypeOK
      <3>3. QED
        BY <1>5, <2>1, <2>2, <3>1, <3>2 DEF AdoptFor, play, TypeInv, Pointed
    <2>6. QED BY <2>4, <2>5 DEF TypeInv
  <1>6. ASSUME NEW r \in Requests, Respond(r) PROVE TypeInv'
    <2>1. request' = [request EXCEPT ![r] = Idle]
      BY <1>6 DEF Respond
    <2>2. TypeOK'
      BY <1>6, <1>a, <2>1 DEF Respond, memory, play, ghosts, TypeInv, TypeOK, Idle, Sittings
    <2>3. Pointed'
      BY <1>6, <2>1 DEF Respond, memory, play, TypeInv, TypeOK, Pointed, Idle
    <2>4. QED BY <2>2, <2>3 DEF TypeInv
  <1>7. ASSUME NEW r \in Requests, NEW subject \in Subjects, RecordFor(r, subject)
        PROVE  TypeInv'
    <2> DEFINE e == [subject |-> subject, made |-> sitting, sitting |-> sitting,
                     game |-> gameOf[request[r].sitting]]
    <2>1. /\ request[r].sitting \in 1 .. newest /\ game # None /\ running
          /\ sitting \in Sittings
      BY <1>7, <1>a DEF RecordFor, TypeInv, TypeOK, Pointed, Sittings
    <2>2. e \in Entries
      BY <2>1 DEF Entries, TypeInv, Pointed
    <2>3. /\ entries' = Put(entries, e)
          /\ UNCHANGED <<loaded, pending, foreign, game, sitting>> /\ Save
          /\ request' = [request EXCEPT ![r] = Idle]
          /\ UNCHANGED <<aside, running, play, accepted>>
          /\ owed' \subseteq owed \cup {Id(e)} /\ Warn({e})
      BY <1>7 DEF RecordFor, Record
    <2> HIDE DEF e
    <2>4. entries' \subseteq Entries /\ \A x, y \in entries' : Id(x) = Id(y) => x = y
      BY <2>2, <2>3 DEF Put, TypeInv, TypeOK
    <2>5. Id(e) \in Ids
      BY <2>2 DEF Id, Ids, Entries
    <2>6. disk' \in Files
      BY <2>3, <2>4, SaveTypes DEF TypeInv, TypeOK
    <2>7. TypeOK'
      <3>1. warned' \subseteq Ids
        BY <2>3, WarnTypes DEF TypeInv, TypeOK
      <3>2. QED
        BY <1>a, <2>3, <2>4, <2>5, <2>6, <3>1 DEF play, TypeInv, TypeOK, Idle, Sittings
    <2>8. Pointed'
      BY <2>1, <2>3 DEF play, TypeInv, TypeOK, Pointed, Idle
    <2>9. QED BY <2>7, <2>8 DEF TypeInv
  <1>8. ASSUME NEW s \in Sittings, Associate(s) PROVE TypeInv'
    <2> DEFINE group == {e \in pending : e.sitting = s}
               moved == {[e EXCEPT !.sitting = sitting, !.game = game] : e \in group}
    <2>1. /\ entries' = {e \in entries : Id(e) \notin IdsOf(moved)} \cup moved
          /\ pending' = pending \ group
          /\ UNCHANGED <<loaded, foreign, game, sitting>> /\ Save
          /\ accepted' = accepted \cup (IdsOf(moved) \X {sitting}) /\ Warn(moved)
          /\ UNCHANGED <<aside, running, play, request, owed>>
          /\ running /\ sitting # None
      BY <1>8 DEF Associate
    <2>2. sitting \in Sittings /\ game \in Games
      BY <2>1 DEF TypeInv, TypeOK, Pointed
    <2>3. group \subseteq Entries /\ moved \subseteq Entries
      <3>1. group \subseteq Entries
        BY DEF TypeInv, TypeOK
      <3>2. \A e \in group : [e EXCEPT !.sitting = sitting, !.game = game] \in Entries
        BY <2>2, <3>1, Refiled
      <3>3. QED BY <3>1, <3>2
    <2>4. \A x, y \in moved : Id(x) = Id(y) => x = y
      <3>1. \A x \in moved : x \in Entries /\ x.sitting = sitting /\ x.game = game
        BY <2>2, <2>3 DEF Entries
      <3>2. \A x, y \in moved : Id(x) = Id(y) => x.subject = y.subject /\ x.made = y.made
        BY <2>3, IdOfEntry
      <3>3. QED BY <3>1, <3>2 DEF Entries
    <2>5. IdsOf(moved) \subseteq Ids
      BY <2>3, IdsOfEntries
    <2> HIDE DEF group, moved
    <2>6. entries' \subseteq Entries /\ \A x, y \in entries' : Id(x) = Id(y) => x = y
      BY <2>1, <2>3, <2>4 DEF IdsOf, TypeInv, TypeOK
    <2>7. disk' \in Files
      BY <2>1, <2>6, SaveTypes DEF TypeInv, TypeOK
    <2>8. TypeOK'
      <3>1. pending' \subseteq Entries
        BY <2>1 DEF TypeInv, TypeOK
      <3>2. warned' \subseteq Ids
        BY <2>1, <3>1, WarnTypes DEF TypeInv, TypeOK
      <3>3. QED
        BY <2>1, <2>2, <2>5, <2>6, <2>7, <3>2 DEF play, TypeInv, TypeOK
    <2>9. Pointed'
      BY <2>1 DEF play, TypeInv, Pointed
    <2>10. QED BY <2>8, <2>9 DEF TypeInv
  <1>9. ASSUME NEW s \in Sittings, Discard(s) PROVE TypeInv'
    <2>1. /\ pending' \subseteq pending /\ owed' \subseteq owed /\ Save /\ running
          /\ UNCHANGED <<loaded, entries, foreign, game, sitting>>
          /\ UNCHANGED <<aside, running, play, request, accepted, warned>>
          /\ pending # {}
      BY <1>9 DEF Discard
    <2>2. disk' \in Files
      BY <2>1, SaveTypes DEF TypeInv, TypeOK
    <2>3. TypeOK'
      BY <2>1, <2>2 DEF play, TypeInv, TypeOK
    <2>4. Pointed'
      BY <2>1 DEF play, TypeInv, Pointed
    <2>5. QED BY <2>3, <2>4 DEF TypeInv
  <1>10. ASSUME NEW id \in Ids, Forget(id) PROVE TypeInv'
    <2>1. /\ entries' \subseteq entries /\ owed' \subseteq owed /\ Save /\ running
          /\ UNCHANGED <<loaded, pending, foreign, game, sitting>>
          /\ UNCHANGED <<aside, running, play, request, accepted, warned>>
      BY <1>10 DEF Forget
    <2>2. disk' \in Files
      BY <2>1, SaveTypes DEF TypeInv, TypeOK
    <2>3. TypeOK'
      BY <2>1, <2>2 DEF play, TypeInv, TypeOK
    <2>4. Pointed'
      BY <2>1 DEF play, TypeInv, Pointed
    <2>5. QED BY <2>3, <2>4 DEF TypeInv
  <1>11. CASE UNCHANGED vars
    BY <1>11 DEF vars, TypeInv, TypeOK, Pointed
  <1>12. QED
    BY <1>1, <1>2, <1>3, <1>4, <1>5, <1>6, <1>7, <1>8, <1>9, <1>10, <1>11 DEF Next

LEMMA TypeInvariant == Spec => []TypeInv
  BY InitTypes, StepTypes, PTL DEF Spec

(* The record is always well typed: an entry's id never names two entries  *)
(* that apply, though `associate' re-files entries under another sitting.  *)
THEOREM TypesHold == Spec => []TypeOK
  <1>1. TypeInv => TypeOK
    BY DEF TypeInv
  <1>2. QED BY <1>1, TypeInvariant, PTL

-----------------------------------------------------------------------------
(* Where the entries come from.                                            *)

LEMMA StepProvenance == TypeInv /\ ProvenanceInv /\ [Next]_vars => ProvenanceInv'
  <1> SUFFICES ASSUME TypeInv, ProvenanceInv, [Next]_vars PROVE ProvenanceInv'
    OBVIOUS
  <1> USE DEF ProvenanceInv, Vouched
  <1>1. CASE Start
    <2>1. /\ loaded' \subseteq disk.entries /\ disk'.entries \subseteq disk.entries
          /\ entries' = {} /\ pending' = {} /\ foreign' = {} /\ accepted' = accepted
      BY <1>1 DEF Start, Load, Quarantine, ghosts
    <2>2. QED BY <2>1
  <1>2. CASE Stop
    BY <1>2 DEF Stop, ghosts
  <1>3. ASSUME NEW g \in Games, NewSitting(g) PROVE ProvenanceInv'
    BY <1>3 DEF NewSitting, memory, ghosts
  <1>4. ASSUME NEW r \in Requests, Capture(r) \/ Respond(r) PROVE ProvenanceInv'
    BY <1>4 DEF Capture, Respond, memory, ghosts
  <1>5. ASSUME NEW r \in Requests, AdoptFor(r) PROVE ProvenanceInv'
    <2>1. Adopt(request[r].sitting) /\ UNCHANGED <<disk, accepted>>
      BY <1>5 DEF AdoptFor, ghosts
    <2>2. CASE UNCHANGED memory
      BY <2>1, <2>2 DEF memory
    <2>3. CASE ~UNCHANGED memory
      <3>1. /\ \A e \in entries' : e \in Candidates /\ e.sitting = sitting'
            /\ pending' \subseteq Candidates /\ foreign' \subseteq Candidates
            /\ loaded' = {}
        BY <2>1, <2>3 DEF Adopt
      <3>2. Vouched(Candidates)
        BY DEF Candidates
      <3>3. QED BY <2>1, <3>1, <3>2
    <2>4. QED BY <2>2, <2>3
  <1>6. ASSUME NEW r \in Requests, NEW subject \in Subjects, RecordFor(r, subject)
        PROVE  ProvenanceInv'
    <2>1. PICK e : /\ e.made = sitting /\ e.sitting = sitting
                   /\ entries' = Put(entries, e)
      BY <1>6 DEF RecordFor, Record
    <2>2. /\ UNCHANGED <<loaded, pending, foreign, sitting, accepted>>
          /\ disk'.entries \in {disk.entries, entries' \cup pending' \cup foreign'}
      BY <1>6 DEF RecordFor, Record, Save
    <2>3. \A x \in entries' : x \in entries \/ x = e
      BY <2>1 DEF Put
    <2>4. Vouched(entries)' /\ \A x \in entries' : x.sitting = sitting'
      BY <2>1, <2>2, <2>3
    <2>5. Vouched(pending)' /\ Vouched(foreign)' /\ Vouched(loaded)' /\ Vouched(disk.entries)
      BY <2>2
    <2>6. QED BY <2>2, <2>4, <2>5
  <1>7. ASSUME NEW s \in Sittings, Associate(s) PROVE ProvenanceInv'
    <2> DEFINE group == {e \in pending : e.sitting = s}
               moved == {[e EXCEPT !.sitting = sitting, !.game = game] : e \in group}
    <2>1. /\ entries' = {e \in entries : Id(e) \notin IdsOf(moved)} \cup moved
          /\ pending' \subseteq pending
          /\ UNCHANGED <<loaded, foreign, sitting>> /\ Save
          /\ accepted' = accepted \cup (IdsOf(moved) \X {sitting})
          /\ sitting # None
      BY <1>7 DEF Associate
    <2>2. \A x \in moved : x.sitting = sitting
      <3>1. sitting \in Sittings /\ game \in Games /\ group \subseteq Entries
        BY <2>1 DEF TypeInv, TypeOK, Pointed
      <3>2. QED BY <3>1 DEF Entries
    <2>3. \A x \in moved : <<Id(x), sitting>> \in accepted'
      BY <2>1 DEF IdsOf
    <2> HIDE DEF moved, group
    <2>4. Vouched(entries)' /\ \A x \in entries' : x.sitting = sitting'
      BY <2>1, <2>2, <2>3
    <2>5. Vouched(pending)' /\ Vouched(foreign)' /\ Vouched(loaded)' /\ Vouched(disk.entries)
      BY <2>1
    <2>6. disk'.entries \in {disk.entries, entries' \cup pending' \cup foreign'}
      BY <2>1 DEF Save
    <2>7. QED BY <2>1, <2>4, <2>5, <2>6
  <1>8. ASSUME NEW s \in Sittings, Discard(s) PROVE ProvenanceInv'
    BY <1>8 DEF Discard, Save
  <1>9. ASSUME NEW id \in Ids, Forget(id) PROVE ProvenanceInv'
    BY <1>9 DEF Forget, Save
  <1>10. CASE UNCHANGED vars
    BY <1>10 DEF vars
  <1>11. QED
    BY <1>1, <1>2, <1>3, <1>4, <1>5, <1>6, <1>7, <1>8, <1>9, <1>10 DEF Next

(* "A different sitting does not inherit plans": through any interleaving  *)
(* of requests that adopt different sittings, failed saves, crashes and    *)
(* restarts, what applies was recorded here or accepted here.              *)
THEOREM PlansAreNotInherited == Spec => []AppliedWasRecordedOrAccepted
  <1>1. Init => ProvenanceInv
    <2>1. Init => disk.entries \subseteq Legacy /\ entries = {} /\ loaded = {}
                  /\ pending = {} /\ foreign = {}
      BY DEF Init
    <2>2. QED BY <2>1 DEF ProvenanceInv, Vouched, Legacy
  <1>2. ProvenanceInv => AppliedWasRecordedOrAccepted
    BY DEF ProvenanceInv, Vouched, AppliedWasRecordedOrAccepted
  <1>3. QED
    BY <1>1, <1>2, StepProvenance, TypeInvariant, PTL DEF Spec

-----------------------------------------------------------------------------
(* Entries of other games.  While a process runs, what the player is owed  *)
(* is in memory, moved aside or warned of; what a crash leaves is on disk, *)
(* moved aside or warned of; and all that is offered is warned of, so that *)
(* an adopt that forgets it forgets nothing else.                          *)

WarnedInv ==
    /\ running => owed \subseteq warned \cup IdsOf(aside) \cup IdsOf(Held)
    /\ owed \subseteq warned \cup IdsOf(aside) \cup IdsOf(disk.entries)
    /\ IdsOf(pending) \subseteq warned

(* Another sitting is adopted: only what was on offer may be forgotten.    *)
LEMMA AdoptForgets ==
    ASSUME NEW s, Adopt(s)
    PROVE  IdsOf(Held) \subseteq IdsOf(Held') \cup IdsOf(pending)
  <1>1. CASE UNCHANGED memory
    BY <1>1 DEF memory, Held
  <1>2. CASE ~UNCHANGED memory
    <2>1. Candidates \subseteq Held'
      BY <1>2 DEF Adopt, Held
    <2>2. Held \subseteq Candidates \cup pending
      BY DEF Held, Candidates
    <2>3. QED BY <2>1, <2>2 DEF IdsOf
  <1>3. QED BY <1>1, <1>2

(* A change the player made: a save that succeeds writes all that is held, *)
(* one that fails nothing, and only what a save has put in the record      *)
(* again is no longer warned of.                                           *)
LEMMA SavedChange ==
    ASSUME WarnedInv, running, running', UNCHANGED aside, loaded' = {}, Save,
           NEW again, again \subseteq entries', Warn(again),
           owed' \subseteq owed \cup IF Saved THEN IdsOf(again) ELSE {},
           owed' \cap IdsOf(Held) \subseteq IdsOf(Held')
    PROVE  WarnedInv'
  <1>1. IdsOf(again) \subseteq IdsOf(Held')
    BY DEF IdsOf, Held
  <1>2. IdsOf(pending') \subseteq warned'
    BY DEF Warn
  <1>3. CASE Saved
    <2>1. disk'.entries = Held'
      BY <1>3 DEF Saved, Held
    <2>2. owed' \subseteq owed \cup IdsOf(again) /\ warned \subseteq warned' \cup IdsOf(again)
      BY <1>3 DEF Warn
    <2>3. owed' \subseteq warned' \cup IdsOf(aside) \cup IdsOf(Held')
      BY <1>1, <2>2 DEF WarnedInv
    <2>4. QED BY <1>2, <2>1, <2>3 DEF WarnedInv
  <1>4. CASE ~Saved
    <2>1. disk' = disk
      BY <1>4 DEF Save, Saved
    <2>2. owed' \subseteq owed /\ warned \subseteq warned'
      BY <1>4 DEF Warn
    <2>3. QED BY <1>2, <2>1, <2>2 DEF WarnedInv
  <1>5. QED BY <1>3, <1>4

LEMMA StepWarned == TypeInv /\ WarnedInv /\ [Next]_vars => WarnedInv'
  <1> SUFFICES ASSUME TypeInv, WarnedInv, [Next]_vars PROVE WarnedInv'
    OBVIOUS
  <1>1. CASE Start
    <2>1. /\ loaded' \subseteq disk'.entries /\ entries' = {} /\ pending' = {} /\ foreign' = {}
          /\ disk.entries \cup aside \subseteq disk'.entries \cup aside'
          /\ warned' = (warned \ IdsOf(loaded')) \cup IdsOf(disk'.entries \ loaded')
          /\ owed' = owed
      BY <1>1 DEF Start, Load, Quarantine
    <2>2. owed \subseteq warned \cup IdsOf(aside \cup disk.entries)
      BY DEF WarnedInv, IdsOf
    <2>3. owed' \subseteq warned' \cup IdsOf(aside') \cup IdsOf(loaded')
      BY <2>1, <2>2 DEF IdsOf
    <2>4. Held' = loaded' /\ IdsOf(loaded') \subseteq IdsOf(disk'.entries) /\ IdsOf(pending') = {}
      BY <2>1 DEF Held, IdsOf
    <2>5. QED BY <2>3, <2>4 DEF WarnedInv
  <1>2. CASE Stop
    BY <1>2 DEF Stop, ghosts, WarnedInv, IdsOf
  <1>3. ASSUME NEW g \in Games, NewSitting(g) PROVE WarnedInv'
    BY <1>3 DEF NewSitting, memory, ghosts, WarnedInv, Held
  <1>4. ASSUME NEW r \in Requests, Capture(r) \/ Respond(r) PROVE WarnedInv'
    <2>1. UNCHANGED <<disk, aside, running, memory, ghosts>>
      BY <1>4 DEF Capture, Respond
    <2>2. QED BY <2>1 DEF memory, ghosts, WarnedInv, Held
  <1>5. ASSUME NEW r \in Requests, AdoptFor(r) PROVE WarnedInv'
    <2>1. /\ Adopt(request[r].sitting) /\ warned' = warned \cup IdsOf(pending')
          /\ UNCHANGED <<disk, aside, running, owed>>
      BY <1>5 DEF AdoptFor
    <2>2. IdsOf(Held) \subseteq IdsOf(Held') \cup IdsOf(pending)
      BY <2>1, AdoptForgets
    <2>3. QED BY <2>1, <2>2 DEF WarnedInv
  <1>6. ASSUME NEW r \in Requests, NEW subject \in Subjects, RecordFor(r, subject)
        PROVE  WarnedInv'
    <2>1. loaded' = {} /\ running /\ running' /\ aside' = aside
      BY <1>6 DEF RecordFor, Record, TypeInv, Pointed
    <2>2. PICK e : /\ entries' = Put(entries, e)
                   /\ owed' = IF Saved THEN owed \cup {Id(e)} ELSE owed
                   /\ Warn({e})
      BY <1>6 DEF RecordFor, Record
    <2>3. UNCHANGED <<loaded, pending, foreign>> /\ Save
      BY <1>6 DEF RecordFor, Record
    <2>4. IdsOf(Held) \subseteq IdsOf(Held') /\ {e} \subseteq entries'
      BY <2>2, <2>3 DEF IdsOf, Held, Put
    <2>5. owed' \subseteq owed \cup IF Saved THEN IdsOf({e}) ELSE {}
      BY <2>2 DEF IdsOf
    <2>6. QED BY <2>1, <2>2, <2>3, <2>4, <2>5, SavedChange
  <1>7. ASSUME NEW s \in Sittings, Associate(s) PROVE WarnedInv'
    <2> DEFINE group == {e \in pending : e.sitting = s}
               moved == {[e EXCEPT !.sitting = sitting, !.game = game] : e \in group}
    <2>1. /\ entries' = {e \in entries : Id(e) \notin IdsOf(moved)} \cup moved
          /\ pending' = pending \ group
          /\ UNCHANGED <<loaded, foreign, aside, running, owed>> /\ Save /\ Warn(moved)
          /\ running /\ sitting # None
      BY <1>7 DEF Associate
    <2>2. loaded' = {} /\ sitting \in Sittings /\ game \in Games /\ pending \subseteq Entries
      BY <2>1 DEF TypeInv, TypeOK, Pointed
    <2>3. IdsOf(group) \subseteq IdsOf(moved)
      <3>1. SUFFICES ASSUME NEW e \in group PROVE Id(e) \in IdsOf(moved)
        BY DEF IdsOf
      <3>2. Id([e EXCEPT !.sitting = sitting, !.game = game]) \in IdsOf(moved)
        BY DEF IdsOf
      <3>3. QED BY <2>2, <3>2, Refiled
    <2> HIDE DEF group, moved
    <2>4. IdsOf(Held) \subseteq IdsOf(Held')
      BY <2>1, <2>3 DEF IdsOf, Held
    <2>5. QED BY <2>1, <2>2, <2>4, SavedChange
  <1>8. ASSUME NEW s \in Sittings, Discard(s) PROVE WarnedInv'
    <2> DEFINE group == {e \in pending : e.sitting = s}
    <2>1. /\ pending' = pending \ group /\ owed' = owed \ IdsOf(group)
          /\ UNCHANGED <<loaded, entries, foreign, aside, running, warned>> /\ Save
          /\ running /\ pending # {}
      BY <1>8 DEF Discard
    <2>2. loaded' = {}
      BY <2>1 DEF TypeInv, Pointed
    <2> HIDE DEF group
    <2>3. owed' \cap IdsOf(Held) \subseteq IdsOf(Held') /\ IdsOf(pending') \subseteq warned
      BY <2>1 DEF IdsOf, Held, WarnedInv
    <2>4. Warn({})
      BY <2>1, <2>3 DEF Warn, IdsOf
    <2>5. QED BY <2>1, <2>2, <2>3, <2>4, SavedChange
  <1>9. ASSUME NEW id \in Ids, Forget(id) PROVE WarnedInv'
    <2>1. /\ entries' = {e \in entries : Id(e) # id} /\ owed' = owed \ {id}
          /\ UNCHANGED <<loaded, pending, foreign, aside, running, warned>> /\ Save
          /\ running /\ entries # {}
      BY <1>9 DEF Forget, IdsOf
    <2>2. loaded' = {}
      BY <2>1 DEF TypeInv, Pointed
    <2>3. owed' \cap IdsOf(Held) \subseteq IdsOf(Held')
      BY <2>1 DEF IdsOf, Held
    <2>4. Warn({})
      BY <2>1 DEF Warn, IdsOf, WarnedInv
    <2>5. QED BY <2>1, <2>2, <2>3, <2>4, SavedChange
  <1>10. CASE UNCHANGED vars
    BY <1>10 DEF vars, WarnedInv, Held
  <1>11. QED
    BY <1>1, <1>2, <1>3, <1>4, <1>5, <1>6, <1>7, <1>8, <1>9, <1>10 DEF Next

(* "Still kept, so it survives the next save rather than being silently    *)
(* erased": whatever file a process finds, and however many sittings of    *)
(* however many games take turns, fail to save, crash and restart, a note  *)
(* is lost only once the player was offered it in another sitting or told  *)
(* that its file was left unread.                                          *)
THEOREM NotesLostOnlyAfterWarning == Spec => []NoteLostOnlyAfterWarning
  <1>1. Init => WarnedInv
    BY DEF Init, WarnedInv, IdsOf
  <1>2. WarnedInv => NoteLostOnlyAfterWarning
    BY DEF WarnedInv, NoteLostOnlyAfterWarning, IdsOf
  <1>3. QED
    BY <1>1, <1>2, StepWarned, TypeInvariant, PTL DEF Spec

-----------------------------------------------------------------------------
(* Notes are not lost.  With one sitting for each process the record is    *)
(* adopted once, so what it held then it still holds or has written; and   *)
(* every save that succeeds writes all of it, every one that fails none.   *)

LEMMA StepNotes == TypeInv /\ NoteInv /\ [Next]_vars => NoteInv'
  <1> SUFFICES ASSUME TypeInv, NoteInv, [Next]_vars PROVE NoteInv'
    OBVIOUS
  <1>a. newest \in Nat /\ first \in Nat /\ SittingsPerProcess \in Nat
    BY SittingAssumption DEF TypeInv, TypeOK, Sittings
  <1>b. OneSittingEach' /\ OneSittingEach
    BY DEF NoteInv, OneSittingEach
  <1>1. CASE Start
    <2>1. UNCHANGED disk /\ loaded' = disk.entries
      BY <1>1, <1>b DEF Start, Load, NoteInv, OneSittingEach
    <2>2. QED
      BY <1>1, <1>a, <1>b, <2>1 DEF Start, ghosts, NoteInv, Held, IdsOf
  <1>2. CASE Stop
    BY <1>2, <1>b DEF Stop, play, ghosts, NoteInv
  <1>3. ASSUME NEW g \in Games, NewSitting(g) PROVE NoteInv'
    <2>1. Held' = Held /\ UNCHANGED <<disk, owed, running>> /\ newest' <= first'
      BY <1>3, <1>a, <1>b DEF NewSitting, memory, ghosts, OneSittingEach, Held
    <2>2. QED BY <1>b, <2>1 DEF NoteInv
  <1>4. ASSUME NEW r \in Requests, Capture(r) \/ Respond(r) PROVE NoteInv'
    <2>1. Held' = Held /\ UNCHANGED <<disk, owed, running, newest, first>>
      BY <1>4 DEF Capture, Respond, memory, play, ghosts, Held
    <2>2. QED BY <1>b, <2>1 DEF NoteInv
  <1>5. ASSUME NEW r \in Requests, AdoptFor(r) PROVE NoteInv'
    <2> DEFINE s == request[r].sitting
    <2>1. Adopt(s) /\ s \in first .. newest
      BY <1>5 DEF AdoptFor, TypeInv, Pointed
    <2>2. Held' = Held
      <3>1. CASE game # None
        <4>1. sitting = s /\ game = gameOf[s]
          BY <1>a, <2>1, <3>1 DEF TypeInv, Pointed, NoteInv
        <4>2. QED BY <2>1, <4>1 DEF Adopt, memory, Held
      <3>2. CASE game = None
        <4>1. entries = {} /\ pending = {} /\ foreign = {}
          BY <3>2 DEF TypeInv, Pointed
        <4>2. CASE UNCHANGED memory
          BY <4>2 DEF memory, Held
        <4>3. CASE ~UNCHANGED memory
          BY <2>1, <4>1, <4>3 DEF Adopt, Candidates, Held
        <4>4. QED BY <4>2, <4>3
      <3>3. QED BY <3>1, <3>2
    <2>3. QED
      BY <1>5, <1>b, <2>2 DEF AdoptFor, play, ghosts, NoteInv
  <1> DEFINE Written == disk' \in {disk, [kind |-> "current", entries |-> Held']}
  <1>6. ASSUME Written, UNCHANGED <<newest, first, running>>, running,
               owed' \subseteq IdsOf(Held'), owed' \subseteq owed
        PROVE  NoteInv'
    <2>1. \/ disk' = disk /\ owed' \subseteq IdsOf(disk.entries)
          \/ disk'.kind = "current" /\ disk'.entries = Held'
      BY <1>6 DEF NoteInv
    <2>2. QED BY <1>6, <1>b, <2>1 DEF NoteInv
  <1> HIDE DEF Written
  <1>7. ASSUME Save, loaded' = {} PROVE Written
    BY <1>7 DEF Save, Written, Held
  <1>8. ASSUME NEW r \in Requests, NEW subject \in Subjects, RecordFor(r, subject)
        PROVE  NoteInv'
    <2>1. loaded' = {} /\ running
      BY <1>8 DEF RecordFor, Record, TypeInv, Pointed
    <2>2. PICK e : /\ entries' = Put(entries, e)
                   /\ owed' = IF Saved THEN owed \cup {Id(e)} ELSE owed
      BY <1>8 DEF RecordFor, Record
    <2>3. UNCHANGED <<loaded, pending, foreign, newest, first, running>> /\ Save
      BY <1>8 DEF RecordFor, Record, play
    <2>4. IdsOf(Held) \cup {Id(e)} \subseteq IdsOf(Held')
      BY <2>2, <2>3 DEF IdsOf, Held, Put
    <2>5. owed' \subseteq IdsOf(Held')
      BY <2>1, <2>2, <2>4 DEF NoteInv
    <2>6. CASE Saved
      <3>1. disk'.kind = "current" /\ disk'.entries = Held'
        BY <2>1, <2>6 DEF Saved, Held
      <3>2. QED BY <1>b, <2>1, <2>3, <2>5, <3>1 DEF NoteInv
    <2>7. CASE ~Saved
      <3>1. owed' = owed
        BY <2>2, <2>7
      <3>2. QED BY <1>6, <1>7, <2>1, <2>3, <2>5, <3>1
    <2>8. QED BY <2>6, <2>7
  <1>9. ASSUME NEW s \in Sittings, Associate(s) PROVE NoteInv'
    <2> DEFINE group == {e \in pending : e.sitting = s}
               moved == {[e EXCEPT !.sitting = sitting, !.game = game] : e \in group}
    <2>1. /\ entries' = {e \in entries : Id(e) \notin IdsOf(moved)} \cup moved
          /\ pending' = pending \ group
          /\ UNCHANGED <<loaded, foreign, newest, first, running, owed>> /\ Save
          /\ running /\ sitting # None
      BY <1>9 DEF Associate, play
    <2>2. loaded' = {} /\ sitting \in Sittings /\ game \in Games /\ pending \subseteq Entries
      BY <2>1 DEF TypeInv, TypeOK, Pointed
    <2>3. IdsOf(group) \subseteq IdsOf(moved)
      <3>1. SUFFICES ASSUME NEW e \in group PROVE Id(e) \in IdsOf(moved)
        BY DEF IdsOf
      <3>2. Id([e EXCEPT !.sitting = sitting, !.game = game]) \in IdsOf(moved)
        BY DEF IdsOf
      <3>3. QED BY <2>2, <3>2, Refiled
    <2> HIDE DEF group, moved
    <2>4. IdsOf(Held) \subseteq IdsOf(Held')
      BY <2>1, <2>3 DEF IdsOf, Held
    <2>5. QED BY <1>6, <1>7, <2>1, <2>2, <2>4 DEF NoteInv
  <1>10. ASSUME NEW s \in Sittings, Discard(s) PROVE NoteInv'
    <2> DEFINE group == {e \in pending : e.sitting = s}
    <2>1. /\ pending' = pending \ group
          /\ owed' = owed \ IdsOf(group)
          /\ UNCHANGED <<loaded, entries, foreign, newest, first, running>> /\ Save
          /\ running /\ pending # {}
      BY <1>10 DEF Discard, play
    <2>2. loaded' = {}
      BY <2>1 DEF TypeInv, Pointed
    <2> HIDE DEF group
    <2>3. owed' \subseteq IdsOf(Held')
      BY <2>1 DEF IdsOf, Held, NoteInv
    <2>4. QED BY <1>6, <1>7, <2>1, <2>2, <2>3
  <1>11. ASSUME NEW id \in Ids, Forget(id) PROVE NoteInv'
    <2>1. /\ entries' = {e \in entries : Id(e) # id}
          /\ owed' = owed \ {id}
          /\ UNCHANGED <<loaded, pending, foreign, newest, first, running>> /\ Save
          /\ running /\ entries # {}
      BY <1>11 DEF Forget, play, IdsOf
    <2>2. loaded' = {}
      BY <2>1 DEF TypeInv, Pointed
    <2>3. owed' \subseteq IdsOf(Held')
      BY <2>1 DEF IdsOf, Held, NoteInv
    <2>4. QED BY <1>6, <1>7, <2>1, <2>2, <2>3
  <1>12. CASE UNCHANGED vars
    BY <1>12, <1>b DEF vars, NoteInv, Held
  <1>13. QED
    BY <1>1, <1>2, <1>3, <1>4, <1>5, <1>8, <1>9, <1>10, <1>11, <1>12 DEF Next

(* Any number of crashes, restarts and failed writes lose nothing the      *)
(* player was told is saved, as long as no process sees a second sitting,  *)
(* the file is of this schema and the system lets us read it.  (A second   *)
(* sitting does lose notes: the run PlayerRecord_pending_lost.)            *)
THEOREM NotesSurviveRestarts == OneSittingEach => (Spec => []NoNoteLost)
  <1>1. OneSittingEach /\ Init => NoteInv
    <2> SUFFICES ASSUME OneSittingEach, Init PROVE NoteInv
      OBVIOUS
    <2>1. /\ disk.kind \in FirstFiles /\ (disk.kind = "absent" => disk.entries = {})
          /\ owed = IdsOf(disk.entries) /\ newest = 0 /\ first = 1 /\ running = FALSE
      BY DEF Init
    <2>2. disk.kind \in {"absent", "current"}
      BY <2>1 DEF OneSittingEach
    <2>3. newest <= first
      BY <2>1
    <2>4. ~running
      BY <2>1, Zenon
    <2>5. QED BY <2>1, <2>2, <2>3, <2>4 DEF NoteInv
  <1>2. NoteInv => NoNoteLost
    BY DEF NoteInv, NoNoteLost, IdsOf
  <1>3. QED
    BY <1>1, <1>2, StepNotes, TypeInvariant, PTL DEF Spec
=============================================================================
