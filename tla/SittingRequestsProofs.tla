------------------------ MODULE SittingRequestsProofs ------------------------
(***************************************************************************)
(* Proofs about what requests share in the server (SittingRequests), for   *)
(* any requests, forms, sittings and bounds: the player's reports and the  *)
(* history of turns; and about what a page shows of the replies (Page).    *)
(***************************************************************************)
EXTENDS SittingRequests, Page, SequenceTheorems, FiniteSetTheorems, WellFoundedInduction, TLAPS

Reports == [label : Labels, value : Values, sitting : Nat]

(* The report store between two of its methods.                            *)
ContextInv ==
    /\ context \in [sitting : Nat, revision : Nat, held : SUBSET Reports]
    /\ ReportsOfThisSitting

(* What rebuilds publish and requests capture.                             *)
Taken == [sitting : Nat, turn : (1 .. MaxTurn) \cup {1}, revision : Nat]
Calls == [at : {"idle"} \cup Stages, snapshot : Taken \cup {None}]

CapturedInv ==
    /\ latest \in Nat /\ snapshot \in Taken \cup {None}
    /\ request \in [Requests -> Calls]
    /\ \A r \in Requests : request[r].at \in Stages => request[r].snapshot \in Taken

Inv == ContextInv /\ CapturedInv

-----------------------------------------------------------------------------
(* adopt(): another sitting's reports go, and the revision tells.          *)
LEMMA AdoptKeeps ==
    ASSUME ContextInv, NEW s \in Nat, Adopt(s)
    PROVE  /\ ContextInv'
           /\ context'.held # context.held => context'.revision > context.revision
  BY DEF Adopt, ContextInv, ReportsOfThisSitting

(* submit(): only a form of the sitting the store is at gets in.           *)
LEMMA SubmitKeeps ==
    ASSUME ContextInv, NEW label \in Labels, NEW value \in Values, NEW s \in Nat,
           NEW base, NEW changed \in BOOLEAN, Submit(label, value, s, base, changed)
    PROVE  /\ ContextInv'
           /\ context'.held # context.held => context'.revision > context.revision
  <1> DEFINE report == [label |-> label, value |-> value, sitting |-> s]
             kept   == {p \in context.held : p.label # label} \cup {report}
  <1>1. report \in Reports
    BY DEF Reports
  <1>2. \/ context' = context
        \/ /\ s = context.sitting
           /\ context' = [context EXCEPT !.revision = @ + 1, !.held = kept]
    BY DEF Submit, Refused
  <1>3. CASE context' = context
    BY <1>3 DEF ContextInv, ReportsOfThisSitting
  <1>4. CASE /\ s = context.sitting
             /\ context' = [context EXCEPT !.revision = @ + 1, !.held = kept]
    <2>1. context' = [sitting |-> context.sitting, revision |-> context.revision + 1, held |-> kept]
      BY <1>4 DEF ContextInv
    <2>2. kept \in SUBSET Reports /\ \A p \in kept : p.sitting = context.sitting
      BY <1>1, <1>4 DEF ContextInv, ReportsOfThisSitting
    <2>3. QED
      BY <2>1, <2>2 DEF ContextInv, ReportsOfThisSitting
  <1>5. QED
    BY <1>2, <1>3, <1>4

(* clear(): what is removed is told by the revision.                       *)
LEMMA ClearKeeps ==
    ASSUME ContextInv, NEW label \in Labels, Clear(label)
    PROVE  /\ ContextInv'
           /\ context'.held # context.held => context'.revision > context.revision
  <1>1. context' = [sitting  |-> context.sitting, revision |-> context.revision + 1,
                    held |-> {p \in context.held : p.label # label}]
    BY DEF Clear, ContextInv
  <1>2. QED
    BY <1>1 DEF ContextInv, ReportsOfThisSitting

-----------------------------------------------------------------------------
LEMMA InitInv == RequestsInit => Inv
  BY DEF RequestsInit, Inv, ContextInv, CapturedInv, ReportsOfThisSitting, Reports, Calls, Stages, NoRequest

(* A rebuild publishes a snapshot of an opened sitting.                    *)
LEMMA PublishKeeps == ASSUME CapturedInv, Rebuild PROVE CapturedInv'
  <1> DEFINE revision == IF snapshot = None THEN 1 ELSE snapshot.revision + 1
  <1>1. revision \in Nat
    BY DEF CapturedInv, Taken
  <1>2. \E s \in Nat, t \in (1 .. MaxTurn) \cup {1} :
            snapshot' = [sitting |-> s, turn |-> t, revision |-> revision]
    <2>1. CASE snapshot # None /\ \E t \in {snapshot.turn, snapshot.turn + 1} \cap 1 .. MaxTurn :
                   snapshot' = [sitting |-> snapshot.sitting, turn |-> t, revision |-> revision]
      BY <2>1 DEF CapturedInv, Taken
    <2>2. CASE snapshot' = [sitting |-> latest + 1, turn |-> 1, revision |-> revision]
      BY <2>2 DEF CapturedInv
    <2>3. QED
      BY <2>1, <2>2 DEF Rebuild
  <1>3. snapshot' \in Taken
    BY <1>1, <1>2 DEF Taken
  <1>4. QED
    BY <1>3 DEF Rebuild, CapturedInv

(* A request captures what is published, goes through its stages with it,  *)
(* and ends.                                                               *)
LEMMA RequestKeeps ==
    ASSUME CapturedInv, NEW r \in Requests, UNCHANGED <<snapshot, latest>>,
           \/ snapshot # None
                 /\ request' = [request EXCEPT ![r] = [at |-> "captured", snapshot |-> snapshot]]
           \/ request[r].at \in Stages /\ \E stage \in Stages : At(r, stage)
           \/ Done(r)
    PROVE  CapturedInv'
  <1>1. CASE snapshot # None
                 /\ request' = [request EXCEPT ![r] = [at |-> "captured", snapshot |-> snapshot]]
    BY <1>1 DEF CapturedInv, Calls, Stages
  <1>2. CASE request[r].at \in Stages /\ \E stage \in Stages : At(r, stage)
    BY <1>2 DEF CapturedInv, Calls, At
  <1>3. CASE Done(r)
    <2>1. NoRequest \in Calls /\ NoRequest.at \notin Stages
      BY DEF NoRequest, Calls, Stages
    <2>2. QED
      BY <1>3, <2>1 DEF CapturedInv, Done
  <1>4. QED
    BY <1>1, <1>2, <1>3

(* Every step keeps the invariant, and moves the revision with the         *)
(* reports.                                                                *)
LEMMA StepInv ==
    ASSUME Inv, [RequestsNext]_requestVars
    PROVE  /\ Inv'
           /\ context'.held # context.held => context'.revision > context.revision
  <1> USE DEF Inv
  <1>1. CASE UNCHANGED requestVars
    BY <1>1 DEF requestVars, ContextInv, CapturedInv, ReportsOfThisSitting
  <1>2. CASE Rebuild
    <2>1. CapturedInv'
      BY <1>2, PublishKeeps
    <2>2. QED
      BY <1>2, <2>1 DEF Rebuild, shared, ContextInv, ReportsOfThisSitting
  <1>3. CASE Forget \/ SwitchTo
    BY <1>3 DEF Forget, SwitchTo, shared, ContextInv, CapturedInv, ReportsOfThisSitting
  <1>4. ASSUME NEW r \in Requests, Capture(r) \/ Compare(r) \/ Add(r) \/ Respond(r)
        PROVE  /\ Inv'
               /\ context'.held # context.held => context'.revision > context.revision
    <2>1. UNCHANGED <<snapshot, latest, context>>
      BY <1>4 DEF Capture, Compare, Add, Respond, shared
    <2>2. \/ snapshot # None
                /\ request' = [request EXCEPT ![r] = [at |-> "captured", snapshot |-> snapshot]]
          \/ request[r].at \in Stages /\ \E stage \in Stages : At(r, stage)
          \/ Done(r)
      BY <1>4 DEF Capture, Compare, Add, Respond, Stages
    <2>3. CapturedInv'
      BY <2>1, <2>2, RequestKeeps
    <2>4. QED
      BY <2>1, <2>3 DEF ContextInv, ReportsOfThisSitting
  <1>5. ASSUME NEW r \in Requests, AdoptFor(r)
        PROVE  /\ Inv'
               /\ context'.held # context.held => context'.revision > context.revision
    <2>1. request[r].at \in Stages /\ At(r, "adopted") /\ "adopted" \in Stages
      BY <1>5 DEF AdoptFor, Stages
    <2>2. CapturedInv'
      BY <1>5, <2>1, RequestKeeps DEF AdoptFor
    <2>3. request[r].snapshot.sitting \in Nat
      BY <2>1 DEF CapturedInv, Taken
    <2>4. QED
      BY <1>5, <2>2, <2>3, AdoptKeeps DEF AdoptFor
  <1>6. ASSUME NEW r \in Requests, NEW label \in Labels, NEW value \in Values, NEW s \in Sittings,
               NEW base \in 0 .. MaxContextRevision, NEW changed \in BOOLEAN,
               SubmitFor(r, label, value, s, base, changed)
        PROVE  /\ Inv'
               /\ context'.held # context.held => context'.revision > context.revision
    <2>1. CapturedInv'
      BY <1>6, RequestKeeps DEF SubmitFor
    <2>2. s \in Nat
      BY <1>6 DEF SubmitFor, CapturedInv
    <2>3. QED
      BY <1>6, <2>1, <2>2, SubmitKeeps DEF SubmitFor
  <1>7. ASSUME NEW label \in Labels, ClearReport(label)
        PROVE  /\ Inv'
               /\ context'.held # context.held => context'.revision > context.revision
    <2>1. CapturedInv'
      BY <1>7 DEF ClearReport, CapturedInv
    <2>2. QED
      BY <1>7, <2>1, ClearKeeps DEF ClearReport
  <1>8. QED
    BY <1>1, <1>2, <1>3, <1>4, <1>5, <1>6, <1>7 DEF RequestsNext

THEOREM InvHolds == RequestsSpec => []Inv
  <1>1. Inv /\ [RequestsNext]_requestVars => Inv'
    BY StepInv
  <1>2. QED
    BY InitInv, <1>1, PTL DEF RequestsSpec

(* decisions/context.py: "A form opened before a reload must never attach  *)
(* its values to the new session", whatever sittings requests adopt.       *)
THEOREM ReportsStayInTheirSitting == RequestsSpec => []ReportsOfThisSitting
  BY InvHolds, PTL DEF Inv, ContextInv

(* decisions/context.py: while the context revision stands still, so does  *)
(* what the player reported, across sittings too.                          *)
THEOREM RevisionIdentifiesReports == RequestsSpec => RevisionTellsReports
  <1>1. Inv /\ [RequestsNext]_requestVars => [context.held' # context.held => context.revision' > context.revision]_requestVars
    BY StepInv
  <1>2. QED
    BY InvHolds, <1>1, PTL DEF RequestsSpec, RevisionTellsReports

-----------------------------------------------------------------------------
(* A history in order, and its turns.                                      *)
Ascending(h) == \A i, j \in DOMAIN h : i < j => Before(h[i], h[j])
KeysOf(h) == {Key(h[i]) : i \in DOMAIN h}

(* No rebuild of the turn gave a newer one.                                *)
NewestReading(e, S) == \A s \in S : Key(s) = Key(e) => s.revision <= e.revision

(* What is not in the history any more is earlier than all that is, and    *)
(* there is no room for it.                                                *)
Newest(h, S) ==
    /\ h \in Seq(Taken) /\ S \subseteq Taken /\ Len(h) <= Limit
    /\ Ascending(h)
    /\ \A i \in DOMAIN h : h[i] \in S /\ NewestReading(h[i], S)
    /\ \A s \in S : \/ Key(s) \in KeysOf(h)
                    \/ Len(h) = Limit /\ \A i \in DOMAIN h : Before(s, h[i])

(* The history between two steps, and what the request inside record() has *)
(* not found in it.                                                        *)
NewestInv ==
    ~overlapped =>
        /\ Newest(history, seen)
        /\ \A q, r \in Inside : q = r
        /\ \A r \in Inside : Key(request[r].snapshot) \notin KeysOf(history)

(* The turns are ordered by their keys.                                    *)
LEMMA BeforeOrders ==
    ASSUME NEW e \in Taken, NEW f \in Taken, NEW g \in Taken
    PROVE  /\ ~Before(e, e)
           /\ Before(e, f) => ~Before(f, e) /\ Key(e) # Key(f)
           /\ Before(e, f) /\ Before(f, g) => Before(e, g)
           /\ Before(e, f) \/ Before(f, e) \/ Key(e) = Key(f)
  BY DEF Before, Earlier, Key, Taken

(* A set of numbers that is not empty has a least one.                     *)
LEMMA LeastOf ==
    ASSUME NEW S \in SUBSET Nat, S # {}
    PROVE  \E n \in S : \A m \in S : n <= m
  <1> DEFINE R == {ss \in Nat \X Nat : ss[1] < ss[2]}
  <1>1. IsWellFoundedOn(R, Nat)
    BY NatLessThanWellFounded DEF OpToRel
  <1>2. \E x \in S : \A y \in S : ~(<<y, x>> \in R)
    <2> HIDE DEF R
    <2> QED BY <1>1, WFMin
  <1>3. PICK x \in S : \A y \in S : ~(<<y, x>> \in R)
    BY <1>2
  <1>4. \A y \in S : ~(y < x)
    BY <1>3
  <1> QED BY <1>4

(* A sequence without elements.                                            *)
LEMMA LenZero ==
    ASSUME NEW S, NEW s \in Seq(S), Len(s) = 0
    PROVE  s = <<>>
  BY EmptySeq

(* In a history in order, the turns after a new one are a tail of it.      *)
LEMMA PlaceIs ==
    ASSUME history \in Seq(Taken), Ascending(history), NEW e \in Taken
    PROVE  /\ Place(e) \in 0 .. Len(history)
           /\ \A i \in DOMAIN history : Before(e, history[i]) <=> i > Place(e)
  <1> DEFINE later == {i \in DOMAIN history : Before(e, history[i])}
  <1>1. DOMAIN history = 1 .. Len(history) /\ Len(history) \in Nat
    BY LenProperties
  <1>2. \A i \in DOMAIN history : history[i] \in Taken
    BY ElementOfSeq, <1>1
  <1>3. \A i, j \in DOMAIN history : i \in later /\ i < j => j \in later
    BY <1>2, BeforeOrders DEF Ascending
  <1>4. \E n \in 0 .. Len(history) : \A i \in DOMAIN history : i \in later <=> i > n
    <2>1. CASE later = {}
      BY ONLY <1>1, <2>1
    <2>2. CASE later # {}
      <3>1. later \in SUBSET Nat
        BY <1>1
      <3>2. PICK n \in later : \A m \in later : n <= m
        BY <2>2, <3>1, LeastOf
      <3>3. n \in DOMAIN history
        BY <3>2
      <3> HIDE DEF later
      <3>4. \A i \in DOMAIN history : i \in later <=> i > n - 1
        BY ONLY <1>1, <1>3, <3>2, <3>3
      <3> QED BY ONLY <1>1, <3>3, <3>4
    <2> QED BY <2>1, <2>2
  <1> QED BY <1>4 DEF Place

(* What InsertAt of SequencesExt returns.                                  *)
LEMMA InsertAtIs ==
    ASSUME NEW S, NEW s \in Seq(S), NEW k \in 1 .. Len(s) + 1, NEW e \in S
    PROVE  /\ InsertAt(s, k, e) \in Seq(S) /\ Len(InsertAt(s, k, e)) = Len(s) + 1
           /\ InsertAt(s, k, e)[k] = e
           /\ \A i \in 1 .. Len(s) + 1 : i < k => InsertAt(s, k, e)[i] = s[i]
           /\ \A i \in 1 .. Len(s) + 1 : i > k => InsertAt(s, k, e)[i] = s[i - 1]
  <1> DEFINE n == k - 1
             a == SubSeq(s, 1, n)
             b == SubSeq(s, n + 1, Len(s))
             ae == a \o <<e>>
             new == ae \o b
  <1>0. Len(s) \in Nat /\ n \in Nat /\ n <= Len(s) /\ DOMAIN s = 1 .. Len(s) /\ n + 1 = k
    <2>1. Len(s) \in Nat /\ DOMAIN s = 1 .. Len(s)
      BY LenProperties
    <2> QED BY ONLY <2>1, k \in 1 .. Len(s) + 1
  <1> HIDE DEF n
  <1>1. \A i \in 1 .. Len(s) : s[i] \in S
    BY <1>0, ElementOfSeq
  <1>2. a \in Seq(S) /\ Len(a) = n /\ \A i \in 1 .. n : a[i] = s[i]
    <2>1. \A i \in 1 .. n : s[i] \in S
      BY <1>0, <1>1
    <2>2. /\ a \in Seq(S) /\ Len(a) = IF 1 <= n THEN n - 1 + 1 ELSE 0
          /\ \A i \in 1 .. n - 1 + 1 : a[i] = s[1 + i - 1]
      BY <1>0, <2>1, SubSeqProperties, 1 \in Int, n \in Int
    <2> HIDE DEF a
    <2> QED BY ONLY <1>0, <2>2
  <1>3. b \in Seq(S) /\ Len(b) = Len(s) - n /\ \A i \in 1 .. Len(s) - n : b[i] = s[n + i]
    <2>1. \A i \in n + 1 .. Len(s) : s[i] \in S
      BY <1>0, <1>1
    <2>2. /\ b \in Seq(S)
          /\ Len(b) = IF n + 1 <= Len(s) THEN Len(s) - (n + 1) + 1 ELSE 0
          /\ \A i \in 1 .. Len(s) - (n + 1) + 1 : b[i] = s[(n + 1) + i - 1]
      BY <1>0, <2>1, SubSeqProperties, n + 1 \in Int, Len(s) \in Int
    <2> HIDE DEF b
    <2>3. Len(b) = Len(s) - n
      <3>1. CASE n < Len(s)
        <4>1. n + 1 <= Len(s)
          BY ONLY <1>0, <3>1
        <4>2. Len(b) = Len(s) - (n + 1) + 1
          BY ONLY <2>2, <4>1
        <4> QED BY ONLY <1>0, <4>2
      <3>2. CASE n = Len(s)
        <4>1. ~(n + 1 <= Len(s))
          BY ONLY <1>0, <3>2
        <4>2. Len(b) = 0
          BY ONLY <2>2, <4>1
        <4> QED BY ONLY <1>0, <3>2, <4>2
      <3>3. n < Len(s) \/ n = Len(s)
        <4>1. \A x, y \in Nat : x <= y => x < y \/ x = y
          OBVIOUS
        <4> QED BY ONLY <1>0, <4>1, Zenon
      <3> QED BY ONLY <3>1, <3>2, <3>3
    <2>4. ASSUME NEW i \in 1 .. Len(s) - n PROVE b[i] = s[n + i]
      <3>1. i \in 1 .. Len(s) - (n + 1) + 1 /\ (n + 1) + i - 1 = n + i
        BY ONLY <1>0, i \in 1 .. Len(s) - n
      <3> QED BY ONLY <2>2, <3>1
    <2> QED BY ONLY <2>2, <2>3, <2>4
  <1> HIDE DEF a, b
  <1>4. <<e>> \in Seq(S) /\ Len(<<e>>) = 1 /\ <<e>>[1] = e
    OBVIOUS
  <1>5. /\ ae \in Seq(S) /\ Len(ae) = n + 1
        /\ \A i \in 1 .. n : ae[i] = s[i]
        /\ ae[n + 1] = e
    <2>1. /\ ae \in Seq(S) /\ Len(ae) = Len(a) + Len(<<e>>)
          /\ \A i \in 1 .. Len(a) + Len(<<e>>) :
                ae[i] = IF i <= Len(a) THEN a[i] ELSE <<e>>[i - Len(a)]
      BY <1>2, <1>4, ConcatProperties
    <2> HIDE DEF ae
    <2>2. /\ \A i \in 1 .. n : ae[i] = a[i]
          /\ ae[n + 1] = <<e>>[(n + 1) - n]
      BY ONLY <1>0, <1>2, <1>4, <2>1
    <2> QED BY ONLY <1>0, <1>2, <1>4, <2>1, <2>2
  <1> HIDE DEF ae
  <1>6. /\ new \in Seq(S) /\ Len(new) = Len(ae) + Len(b)
        /\ \A i \in 1 .. Len(ae) + Len(b) :
              new[i] = IF i <= Len(ae) THEN ae[i] ELSE b[i - Len(ae)]
    BY <1>3, <1>5, ConcatProperties
  <1>7. InsertAt(s, k, e) = new
    BY <1>0 DEF InsertAt, a, b, ae, n
  <1> HIDE DEF new
  <1>8. Len(new) = Len(s) + 1
    <2>1. Len(ae) = n + 1 /\ Len(b) = Len(s) - n /\ Len(new) = Len(ae) + Len(b)
      BY <1>3, <1>5, <1>6
    <2> QED BY ONLY <1>0, <2>1
  <1>9. /\ \A i \in 1 .. n : new[i] = s[i]
        /\ new[n + 1] = e
        /\ \A i \in n + 2 .. Len(s) + 1 : new[i] = s[i - 1]
    <2>1. ASSUME NEW i \in 1 .. n + 1 PROVE new[i] = ae[i]
      <3>1. i \in 1 .. Len(ae) + Len(b) /\ i <= Len(ae)
        <4>1. Len(ae) = n + 1 /\ Len(b) = Len(s) - n
          BY <1>3, <1>5
        <4> QED BY ONLY <1>0, <4>1, i \in 1 .. n + 1
      <3> QED BY ONLY <1>6, <3>1
    <2>2. ASSUME NEW i \in n + 2 .. Len(s) + 1 PROVE new[i] = s[i - 1]
      <3>1. new[i] = b[i - (n + 1)]
        <4>1. Len(ae) = n + 1 /\ Len(b) = Len(s) - n
          BY <1>3, <1>5
        <4>2. i \in 1 .. Len(ae) + Len(b) /\ ~(i <= Len(ae))
          BY ONLY <1>0, <4>1, i \in n + 2 .. Len(s) + 1
        <4> QED BY ONLY <1>6, <4>1, <4>2
      <3>2. i - (n + 1) \in 1 .. Len(s) - n /\ n + (i - (n + 1)) = i - 1
        BY ONLY <1>0, i \in n + 2 .. Len(s) + 1
      <3> QED BY ONLY <1>3, <3>1, <3>2
    <2>3. n + 1 \in 1 .. n + 1 /\ 1 .. n \subseteq 1 .. n + 1
      BY ONLY <1>0
    <2> QED BY ONLY <1>5, <2>1, <2>2, <2>3
  <1>10. ASSUME NEW i \in 1 .. Len(s) + 1
         PROVE  (i < k => i \in 1 .. n) /\ (i > k => i \in n + 2 .. Len(s) + 1)
    BY ONLY <1>0, i \in 1 .. Len(s) + 1
  <1> QED BY ONLY <1>0, <1>6, <1>7, <1>8, <1>9, <1>10

(* The list between the insertion and the trim.                            *)
Inserted(e) == InsertAt(history, Place(e) + 1, e)

(* A turn the history does not hold goes to its place in the order.        *)
LEMMA InsertedIs ==
    ASSUME history \in Seq(Taken), Ascending(history), NEW e \in Taken,
           Key(e) \notin KeysOf(history)
    PROVE  /\ Inserted(e) \in Seq(Taken) /\ Len(Inserted(e)) = Len(history) + 1
           /\ Ascending(Inserted(e))
           /\ \A i \in DOMAIN Inserted(e) :
                 Inserted(e)[i] = e \/ \E j \in DOMAIN history : Inserted(e)[i] = history[j]
           /\ \E i \in DOMAIN Inserted(e) : Inserted(e)[i] = e
           /\ \A j \in DOMAIN history : \E i \in DOMAIN Inserted(e) : Inserted(e)[i] = history[j]
           /\ Inserted(e)[1] = e \/ (history # <<>> /\ Before(history[1], e))
  <1> DEFINE new == Inserted(e)
             n == Place(e)
             L == Len(history)
  <1>1. DOMAIN history = 1 .. L /\ L \in Nat
    BY LenProperties
  <1>2. \A i \in DOMAIN history : history[i] \in Taken
    BY ElementOfSeq, <1>1
  <1>3. n \in 0 .. L /\ \A i \in DOMAIN history : Before(e, history[i]) <=> i > n
    BY PlaceIs
  <1>4. \A i \in DOMAIN history : i <= n => Before(history[i], e)
    <2> SUFFICES ASSUME NEW i \in DOMAIN history, i <= n PROVE Before(history[i], e)
      OBVIOUS
    <2>1. Key(history[i]) # Key(e)
      BY DEF KeysOf
    <2>2. ~Before(e, history[i])
      BY <1>1, <1>3
    <2> QED BY <1>2, <2>1, <2>2, BeforeOrders
  <1>5. /\ new \in Seq(Taken) /\ Len(new) = L + 1
        /\ \A i \in 1 .. n : new[i] = history[i]
        /\ new[n + 1] = e
        /\ \A i \in n + 2 .. L + 1 : new[i] = history[i - 1]
    <2> DEFINE k == n + 1
    <2>1. k \in 1 .. Len(history) + 1 /\ n \in Nat /\ L \in Nat /\ n <= L
      BY <1>1, <1>3
    <2>2. new = InsertAt(history, k, e)
      BY DEF Inserted
    <2> HIDE DEF new, k, n
    <2>3. /\ new \in Seq(Taken) /\ Len(new) = Len(history) + 1
          /\ new[k] = e
          /\ \A i \in 1 .. Len(history) + 1 : i < k => new[i] = history[i]
          /\ \A i \in 1 .. Len(history) + 1 : i > k => new[i] = history[i - 1]
      <3>1. k \in 1 .. Len(history) + 1
        BY <2>1
      <3> QED BY ONLY <2>2, <3>1, history \in Seq(Taken), e \in Taken, InsertAtIs, SMTT(60)
    <2>4. k = n + 1
      BY DEF k
    <2>5. ASSUME NEW i \in 1 .. n PROVE i \in 1 .. L + 1 /\ i < k
      BY ONLY <2>1, <2>4, i \in 1 .. n
    <2>6. ASSUME NEW i \in n + 2 .. L + 1 PROVE i \in 1 .. L + 1 /\ i > k
      BY ONLY <2>1, <2>4, i \in n + 2 .. L + 1
    <2> QED BY <2>3, <2>4, <2>5, <2>6
  <1> HIDE DEF new, n
  <1>6. DOMAIN new = 1 .. L + 1
    BY <1>5, LenProperties
  <1>7. ASSUME NEW i \in 1 .. L + 1, i <= n
        PROVE  i \in DOMAIN history /\ new[i] = history[i]
    <2>1. i \in 1 .. n /\ i \in 1 .. L
      BY ONLY <1>1, <1>3, i \in 1 .. L + 1, i <= n
    <2> QED BY ONLY <1>1, <1>5, <2>1
  <1>8. n + 1 \in 1 .. L + 1 /\ new[n + 1] = e
    <2>1. n + 1 \in 1 .. L + 1
      BY ONLY <1>1, <1>3
    <2> QED BY ONLY <1>5, <2>1
  <1>9. ASSUME NEW i \in 1 .. L + 1, i > n + 1
        PROVE  i - 1 \in DOMAIN history /\ i - 1 > n /\ new[i] = history[i - 1]
    <2>1. i \in n + 2 .. L + 1 /\ i - 1 \in 1 .. L /\ i - 1 > n
      BY ONLY <1>1, <1>3, i \in 1 .. L + 1, i > n + 1
    <2> QED BY ONLY <1>1, <1>5, <2>1
  <1>10. \A i \in 1 .. L + 1 : i <= n \/ i = n + 1 \/ i > n + 1
    BY <1>1, <1>3
  <1>11. \A i \in 1 .. L + 1 : new[i] = e \/ \E j \in DOMAIN history : new[i] = history[j]
    BY <1>7, <1>8, <1>9, <1>10
  <1>12. Ascending(new)
    <2> SUFFICES ASSUME NEW i \in 1 .. L + 1, NEW j \in 1 .. L + 1, i < j
                 PROVE  Before(new[i], new[j])
      BY <1>6 DEF Ascending
    <2>1. CASE j <= n
      <3>1. i <= n
        BY <1>1, <1>3, <2>1
      <3> QED BY <1>7, <2>1, <3>1 DEF Ascending
    <2>2. CASE j = n + 1
      <3>1. i <= n
        BY <1>1, <1>3, <2>2
      <3> QED BY <1>4, <1>7, <1>8, <2>2, <3>1
    <2>3. CASE j > n + 1
      <3>1. CASE i <= n
        <4>1. i < j - 1
          BY <1>1, <1>3, <2>3, <3>1
        <4> QED BY <1>7, <1>9, <2>3, <3>1, <4>1 DEF Ascending
      <3>2. CASE i = n + 1
        BY <1>3, <1>8, <1>9, <2>3, <3>2
      <3>3. CASE i > n + 1
        <4>1. i - 1 < j - 1
          BY <1>1, <1>3, <2>3, <3>3
        <4> QED BY <1>9, <2>3, <3>3, <4>1 DEF Ascending
      <3> QED BY <1>10, <3>1, <3>2, <3>3
    <2> QED BY <1>10, <2>1, <2>2, <2>3
  <1>13. \A j \in DOMAIN history : \E i \in 1 .. L + 1 : new[i] = history[j]
    <2> SUFFICES ASSUME NEW j \in DOMAIN history PROVE \E i \in 1 .. L + 1 : new[i] = history[j]
      OBVIOUS
    <2>1. CASE j <= n
      BY <1>1, <1>7, <2>1
    <2>2. CASE j > n
      <3>1. j + 1 \in 1 .. L + 1 /\ j + 1 > n + 1 /\ (j + 1) - 1 = j
        BY <1>1, <1>3, <2>2
      <3> QED BY <1>9, <3>1
    <2> QED BY <1>1, <1>3, <2>1, <2>2
  <1>14. new[1] = e \/ (history # <<>> /\ Before(history[1], e))
    <2>1. CASE n = 0
      BY <1>8, <2>1
    <2>2. CASE n # 0
      <3>1. 1 \in DOMAIN history /\ 1 <= n
        BY <1>1, <1>3, <2>2
      <3> QED BY <1>1, <1>4, <3>1
    <2> QED BY <2>1, <2>2
  <1> QED BY <1>6, <1>8, <1>11, <1>5, <1>12, <1>13, <1>14 DEF new

(* One entry too many: the first goes, and the order stays.                *)
LEMMA TrimIs ==
    ASSUME Limit \in Nat, NEW list \in Seq(Taken), Ascending(list), Len(list) <= Limit + 1
    PROVE  \/ Len(list) <= Limit /\ Trim(list) = list
           \/ /\ Len(list) = Limit + 1
              /\ Trim(list) \in Seq(Taken) /\ Len(Trim(list)) = Limit
              /\ \A i \in 1 .. Limit : Trim(list)[i] = list[i + 1]
              /\ \A i \in 1 .. Limit : Before(list[1], Trim(list)[i])
              /\ Ascending(Trim(list))
  <1> DEFINE new == Trim(list)
  <1>1. DOMAIN list = 1 .. Len(list) /\ Len(list) \in Nat
    BY LenProperties
  <1>2. CASE Len(list) <= Limit
    BY <1>2 DEF Trim
  <1>3. CASE ~(Len(list) <= Limit)
    <2>1. Len(list) = Limit + 1 /\ new = SubSeq(list, 2, Limit + 1)
      <3>1. Len(list) = Limit + 1
        <4>1. Len(list) \in Nat
          BY <1>1
        <4> QED BY ONLY <1>3, <4>1, Limit \in Nat, Len(list) <= Limit + 1
      <3>2. Len(list) - Limit + 1 = 2
        BY ONLY <3>1, Limit \in Nat
      <3> QED BY <1>3, <3>1, <3>2 DEF Trim
    <2>2. \A i \in 2 .. Limit + 1 : list[i] \in Taken
      BY <1>1, <2>1, ElementOfSeq
    <2>3. new \in Seq(Taken) /\ \A i \in 1 .. Limit : new[i] = list[i + 1]
      <3>1. /\ SubSeq(list, 2, Limit + 1) \in Seq(Taken)
            /\ \A i \in 1 .. (Limit + 1) - 2 + 1 :
                  SubSeq(list, 2, Limit + 1)[i] = list[2 + i - 1]
        BY <2>2, SubSeqProperties, Limit + 1 \in Int
      <3> QED BY <2>1, <3>1
    <2>4. Len(new) = Limit
      <3>1. Len(SubSeq(list, 2, Limit + 1)) =
               IF 2 <= Limit + 1 THEN (Limit + 1) - 2 + 1 ELSE 0
        BY <2>2, SubSeqProperties, Limit + 1 \in Int
      <3> QED BY <2>1, <3>1
    <2> HIDE DEF new
    <2>5. DOMAIN new = 1 .. Limit
      BY <2>3, <2>4, LenProperties
    <2>6. \A i \in 1 .. Limit : Before(list[1], new[i])
      <3> SUFFICES ASSUME NEW i \in 1 .. Limit PROVE Before(list[1], new[i])
        OBVIOUS
      <3>1. 1 \in DOMAIN list /\ i + 1 \in DOMAIN list /\ 1 < i + 1
        BY <1>1, <2>1
      <3> QED BY <2>3, <3>1 DEF Ascending
    <2>7. Ascending(new)
      <3> SUFFICES ASSUME NEW i \in 1 .. Limit, NEW j \in 1 .. Limit, i < j
                   PROVE Before(new[i], new[j])
        BY <2>5 DEF Ascending
      <3>1. i + 1 \in DOMAIN list /\ j + 1 \in DOMAIN list /\ i + 1 < j + 1
        BY <1>1, <2>1
      <3> QED BY <2>3, <3>1 DEF Ascending
    <2> QED BY <2>1, <2>3, <2>4, <2>6, <2>7 DEF new
  <1> QED BY <1>2, <1>3

(* After the insertion and the trim the newest turns are there, whichever  *)
(* went: the first of the list, which is the new one when it is the        *)
(* oldest.                                                                 *)
LEMMA InsertKeeps ==
    ASSUME Limit \in Nat, Newest(history, seen), NEW e \in Taken, Key(e) \notin KeysOf(history)
    PROVE  Newest(Insert(e), seen \cup {e})
  <1> DEFINE list == Inserted(e)
             new == Trim(list)
  <1>1. Insert(e) = new
    BY DEF Insert, Inserted
  <1>2. /\ list \in Seq(Taken) /\ Len(list) = Len(history) + 1
        /\ Ascending(list)
        /\ \A i \in DOMAIN list :
              list[i] = e \/ \E j \in DOMAIN history : list[i] = history[j]
        /\ \E i \in DOMAIN list : list[i] = e
        /\ \A j \in DOMAIN history : \E i \in DOMAIN list : list[i] = history[j]
        /\ list[1] = e \/ (history # <<>> /\ Before(history[1], e))
    BY InsertedIs DEF Newest
  <1>3. /\ history \in Seq(Taken) /\ seen \subseteq Taken /\ Len(history) <= Limit
        /\ Ascending(history)
        /\ \A i \in DOMAIN history : history[i] \in seen /\ NewestReading(history[i], seen)
        /\ \A s \in seen : \/ Key(s) \in KeysOf(history)
                           \/ Len(history) = Limit /\ \A i \in DOMAIN history : Before(s, history[i])
    BY DEF Newest
  <1>4. /\ Len(history) \in Nat /\ Len(list) <= Limit + 1
        /\ DOMAIN history = 1 .. Len(history) /\ DOMAIN list = 1 .. Len(list)
    BY <1>2, <1>3, LenProperties
  <1>5. \A i \in DOMAIN history : history[i] \in Taken
    BY <1>3, ElementOfSeq, <1>4
  <1> HIDE DEF list, new
  <1>6. \A i \in DOMAIN list : list[i] \in seen \cup {e}
    BY <1>2, <1>3
  (* A turn that has gone and comes back is the first of the list: it goes *)
  (* again, so that no older reading takes the place of a newer one.       *)
  <1>7. \A i \in DOMAIN list : list[i] # e => NewestReading(list[i], seen \cup {e})
    BY <1>2, <1>3 DEF NewestReading, KeysOf
  <1>8. \/ NewestReading(e, seen \cup {e})
        \/ Len(history) = Limit /\ list[1] = e
    <2> SUFFICES ASSUME NEW s \in seen, Key(s) = Key(e)
                 PROVE  Len(history) = Limit /\ list[1] = e
      <3>1. e.revision <= e.revision
        BY DEF Taken
      <3> QED BY <3>1 DEF NewestReading
    <2>1. s \in Taken /\ Len(history) = Limit /\ \A i \in DOMAIN history : Before(s, history[i])
      BY <1>3
    <2>2. CASE history # <<>> /\ Before(history[1], e)
      <3>1. 1 \in DOMAIN history
        <4>1. Len(history) # 0
          BY <1>3, <2>2, LenZero
        <4> QED BY ONLY <1>4, <4>1
      <3>2. Before(e, history[1])
        BY <2>1, <3>1 DEF Before
      <3> QED BY <1>5, <2>2, <3>1, <3>2, BeforeOrders
    <2> QED BY <1>2, <2>1, <2>2
  (* What is in the list, and what has gone already.                       *)
  <1>9. \A s \in seen \cup {e} :
           \/ \E i \in DOMAIN list : Key(s) = Key(list[i])
           \/ Len(history) = Limit /\ \A i \in DOMAIN history : Before(s, history[i])
    BY <1>2, <1>3 DEF KeysOf
  <1>10. CASE Len(list) <= Limit /\ new = list
    <2>1. Len(history) # Limit
      <3>1. Len(list) = Len(history) + 1 /\ Len(history) \in Nat
        BY <1>2, <1>4
      <3> QED BY ONLY <1>10, <3>1
    <2>2. \A s \in seen \cup {e} : Key(s) \in KeysOf(list)
      BY <1>9, <2>1 DEF KeysOf
    <2>3. seen \cup {e} \subseteq Taken
      BY <1>3
    <2>4. \A i \in DOMAIN list : NewestReading(list[i], seen \cup {e})
      BY <1>7, <1>8, <2>1
    <2> QED BY <1>1, <1>2, <1>6, <1>10, <2>2, <2>3, <2>4 DEF Newest
  <1>11. CASE /\ Len(list) = Limit + 1
              /\ new \in Seq(Taken) /\ Len(new) = Limit
              /\ \A i \in 1 .. Limit : new[i] = list[i + 1]
              /\ \A i \in 1 .. Limit : Before(list[1], new[i])
              /\ Ascending(new)
    <2>1. DOMAIN new = 1 .. Limit /\ DOMAIN list = 1 .. Limit + 1
      BY <1>4, <1>11, LenProperties
    <2>2. \A i \in 1 .. Limit : i + 1 \in DOMAIN list
      BY <2>1
    <2>3. \A i \in DOMAIN new : new[i] \in seen \cup {e}
      BY <1>6, <1>11, <2>1, <2>2
    <2>4. ASSUME NEW i \in DOMAIN new PROVE NewestReading(new[i], seen \cup {e})
      <3>1. new[i] = list[i + 1] /\ Before(list[1], new[i]) /\ i + 1 \in DOMAIN list
        BY <1>11, <2>1, <2>2
      <3>2. CASE list[1] = e
        <4>1. new[i] # e
          BY <3>1, <3>2, BeforeOrders
        <4> QED BY <1>7, <3>1, <4>1
      <3>3. CASE list[1] # e
        BY <1>7, <1>8, <3>1, <3>3
      <3> QED BY <3>2, <3>3
    <2>5. ASSUME NEW s \in seen \cup {e}
          PROVE  Key(s) \in KeysOf(new) \/ \A i \in DOMAIN new : Before(s, new[i])
      <3>1. CASE \E i \in DOMAIN list : Key(s) = Key(list[i])
        <4>1. PICK i \in DOMAIN list : Key(s) = Key(list[i])
          BY <3>1
        <4>2. CASE i = 1
          BY <1>11, <2>1, <4>1, <4>2 DEF Before
        <4>3. CASE i # 1
          <5>1. i - 1 \in 1 .. Limit /\ (i - 1) + 1 = i
            BY <2>1, <4>3
          <5>2. new[i - 1] = list[i]
            BY <1>11, <5>1
          <5> QED BY <2>1, <4>1, <5>1, <5>2 DEF KeysOf
        <4> QED BY <4>2, <4>3
      <3>2. CASE \A i \in DOMAIN history : Before(s, history[i])
        <4>1. s \in Taken
          BY <1>3
        <4>2. CASE list[1] = e
          <5>1. \A i \in 1 .. Limit : \E j \in DOMAIN history : new[i] = history[j]
            <6> SUFFICES ASSUME NEW i \in 1 .. Limit
                         PROVE  \E j \in DOMAIN history : new[i] = history[j]
              OBVIOUS
            <6>1. new[i] = list[i + 1] /\ Before(e, new[i])
              BY <1>11, <4>2
            <6>2. new[i] # e
              BY <6>1, BeforeOrders
            <6> QED BY <1>2, <2>2, <6>1, <6>2
          <5> QED BY <2>1, <3>2, <5>1
        <4>3. CASE history # <<>> /\ Before(history[1], e)
          <5>1. 1 \in DOMAIN history
            <6>1. Len(history) # 0
              BY <1>3, <4>3, LenZero
            <6> QED BY ONLY <1>4, <6>1
          <5>2. Before(s, e)
            BY <1>5, <3>2, <4>1, <4>3, <5>1, BeforeOrders
          <5>3. \A i \in DOMAIN list : Before(s, list[i])
            BY <1>2, <3>2, <5>2
          <5> QED BY <1>11, <2>1, <2>2, <5>3
        <4> QED BY <1>2, <4>2, <4>3
      <3> QED BY <1>9, <3>1, <3>2
    <2>6. seen \cup {e} \subseteq Taken
      BY <1>3
    <2>7. Newest(new, seen \cup {e})
      <3>1. new \in Seq(Taken) /\ Len(new) = Limit /\ Len(new) <= Limit /\ Ascending(new)
        BY <1>11
      <3>2. \A i \in DOMAIN new : new[i] \in seen \cup {e} /\ NewestReading(new[i], seen \cup {e})
        BY ONLY <2>3, <2>4
      <3>3. \A s \in seen \cup {e} :
               \/ Key(s) \in KeysOf(new)
               \/ Len(new) = Limit /\ \A i \in DOMAIN new : Before(s, new[i])
        BY ONLY <2>5, <3>1
      <3> QED BY ONLY <2>6, <3>1, <3>2, <3>3 DEF Newest
    <2> QED BY <1>1, <2>7
  <1> QED BY <1>2, <1>4, <1>10, <1>11, TrimIs DEF new

(* Another reading of a turn changes no key.                               *)
LEMMA ReplaceKeeps ==
    ASSUME Limit \in Nat, Newest(history, seen), NEW e \in Taken
    PROVE  Newest(Replace(e), seen \cup {e}) \/ Key(e) \notin KeysOf(history)
  <1> SUFFICES ASSUME Key(e) \in KeysOf(history) PROVE Newest(Replace(e), seen \cup {e})
    OBVIOUS
  <1> DEFINE new == Replace(e)
  <1>1. /\ history \in Seq(Taken) /\ seen \subseteq Taken /\ Len(history) <= Limit
        /\ Ascending(history)
        /\ \A i \in DOMAIN history : history[i] \in seen /\ NewestReading(history[i], seen)
        /\ \A s \in seen : \/ Key(s) \in KeysOf(history)
                           \/ Len(history) = Limit /\ \A i \in DOMAIN history : Before(s, history[i])
    BY DEF Newest
  <1>2. DOMAIN history = 1 .. Len(history) /\ Len(history) \in Nat
    BY <1>1, LenProperties
  <1>3. DOMAIN new = DOMAIN history
    BY DEF Replace
  <1>4. \A i \in DOMAIN history :
           Key(new[i]) = Key(history[i]) /\ new[i] \in {e, history[i]}
    BY DEF Replace
  <1> HIDE DEF new
  <1>5. new \in Seq(Taken) /\ Len(new) = Len(history)
    <2>1. \A i \in 1 .. Len(history) : new[i] \in Taken
      BY <1>1, <1>2, <1>4, ElementOfSeq
    <2>2. new = [i \in 1 .. Len(history) |-> new[i]]
      BY <1>2 DEF new, Replace
    <2>3. new \in [1 .. Len(history) -> Taken]
      BY ONLY <2>1, <2>2
    <2> QED BY <1>2, <1>3, <2>3, SeqDef, LenProperties
  <1>6. \A f, g : Before(f, g) <=> Earlier(Key(f), Key(g))
    BY DEF Before
  <1>7. Ascending(new)
    BY <1>1, <1>3, <1>4, <1>6 DEF Ascending
  <1>8. KeysOf(new) = KeysOf(history)
    BY <1>3, <1>4 DEF KeysOf
  <1>9. ASSUME NEW i \in DOMAIN new
        PROVE  new[i] \in seen \cup {e} /\ NewestReading(new[i], seen \cup {e})
    <2>1. history[i] \in Taken
      BY <1>1, <1>2, <1>3, ElementOfSeq
    <2>2. new[i] = IF Key(history[i]) = Key(e) /\ e.revision >= history[i].revision
                   THEN e ELSE history[i]
      BY <1>3 DEF new, Replace
    <2>3. history[i] \in seen /\ NewestReading(history[i], seen)
      BY <1>1, <1>3
    <2>4. \A s \in seen : s.revision \in Nat
      BY <1>1 DEF Taken
    <2> QED BY <2>1, <2>2, <2>3, <2>4 DEF NewestReading, Taken
  <1>10. \A s \in seen \cup {e} :
           \/ Key(s) \in KeysOf(new)
           \/ Len(new) = Limit /\ \A i \in DOMAIN new : Before(s, new[i])
    BY <1>1, <1>3, <1>4, <1>5, <1>6, <1>8
  <1> QED BY <1>1, <1>5, <1>7, <1>9, <1>10 DEF Newest, new

-----------------------------------------------------------------------------
(* The keys record() scans.                                                *)
LEMMA KeysScanned == {Key(f) : f \in Entries} = KeysOf(history)
  BY DEF Entries, KeysOf

(* A step that leaves the history and enters nobody into record().         *)
LEMMA QuietKeeps ==
    ASSUME NewestInv, UNCHANGED <<history, seen, overlapped>>,
           \A r \in Requests : request'[r].at = "append" => request'[r] = request[r]
    PROVE  NewestInv'
  <1>1. Inside' \subseteq Inside
    BY DEF Inside
  <1>2. \A r \in Inside' : request'[r] = request[r]
    BY DEF Inside
  <1> QED BY <1>1, <1>2 DEF NewestInv, Newest, NewestReading, Ascending, KeysOf, Key, Before

(* Every step keeps it: as long as no two requests are inside record(),    *)
(* what one of them did not find is still not there when it inserts it.    *)
LEMMA NewestStep ==
    ASSUME Inv, NewestInv, [RequestsNext]_requestVars
    PROVE  NewestInv'
  <1> DEFINE Quiet == \A r \in Requests : request'[r].at = "append" => request'[r] = request[r]
  <1>0. /\ request \in [Requests -> Calls]
        /\ \A r \in Requests : request[r].at \in Stages => request[r].snapshot \in Taken
    BY DEF Inv, CapturedInv
  <1>1. CASE UNCHANGED requestVars
    BY <1>1, QuietKeeps DEF requestVars
  <1>2. CASE Rebuild \/ SwitchTo
    BY <1>2, QuietKeeps DEF Rebuild, SwitchTo, shared
  <1>3. ASSUME NEW r \in Requests, Capture(r) \/ AdoptFor(r) \/ Respond(r)
        PROVE  NewestInv'
    <2>1. UNCHANGED <<history, seen, overlapped>>
      BY <1>3 DEF Capture, AdoptFor, Respond, shared
    <2>2. Quiet
      BY <1>0, <1>3 DEF Capture, AdoptFor, Respond, At, Done, NoRequest, Calls
    <2> QED BY <2>1, <2>2, QuietKeeps
  <1>4. ASSUME NEW r \in Requests, NEW label, NEW value, NEW s, NEW base, NEW changed,
               SubmitFor(r, label, value, s, base, changed)
        PROVE  NewestInv'
    <2>1. UNCHANGED <<history, seen, overlapped>> /\ Done(r)
      BY <1>4 DEF SubmitFor
    <2>2. Quiet
      BY <1>0, <2>1 DEF Done, NoRequest
    <2> QED BY <2>1, <2>2, QuietKeeps
  <1>5. ASSUME NEW label, ClearReport(label) PROVE NewestInv'
    BY <1>5, QuietKeeps DEF ClearReport
  <1>6. CASE Forget
    <2>1. /\ history' = <<>> /\ seen' = {} /\ request' = request
          /\ overlapped' = (overlapped \/ Inside # {})
      BY <1>6 DEF Forget
    <2>2. ~overlapped' => Inside' = {}
      BY <2>1 DEF Inside
    <2>3. Newest(<<>>, {}) <=> 0 <= Limit
      BY DEF Newest, Ascending
    <2> QED BY <2>1, <2>2, <2>3, HistoryLimit DEF NewestInv
  <1>7. ASSUME NEW r \in Requests, Compare(r) PROVE NewestInv'
    <2> DEFINE e == request[r].snapshot
    <2>1. request[r].at = "adopted" /\ e \in Taken
      BY <1>0, <1>7 DEF Compare, Stages
    <2>2. overlapped' = (overlapped \/ Inside # {})
      BY <1>7 DEF Compare, Saw
    <2>3. CASE overlapped'
      BY <2>3 DEF NewestInv
    <2>4. CASE /\ ~overlapped' /\ Key(e) \in KeysOf(history)
               /\ history' = Replace(e) /\ Saw(e, Inside # {}) /\ Done(r)
      <3>1. ~overlapped /\ Inside = {} /\ seen' = seen \cup {e}
        BY <2>2, <2>4 DEF Saw
      <3>2. Newest(history', seen')
        BY <2>1, <2>4, <3>1, ReplaceKeeps, HistoryLimit DEF NewestInv
      <3>3. Inside' = {}
        BY <1>0, <2>4, <3>1 DEF Inside, Done, NoRequest
      <3> QED BY <3>2, <3>3 DEF NewestInv
    <2>5. CASE /\ ~overlapped' /\ Key(e) \notin KeysOf(history)
               /\ At(r, "append") /\ seen' = seen /\ history' = history
      <3>1. ~overlapped /\ Inside = {}
        BY <2>2, <2>5
      <3>2. Inside' \subseteq {r} /\ request'[r].snapshot = e
        BY <1>0, <2>5, <3>1 DEF Inside, At, Calls
      <3>3. Newest(history', seen')
        BY <2>5, <3>1 DEF NewestInv
      <3> QED BY <2>5, <3>2, <3>3 DEF NewestInv
    <2>6. ~overlapped' => 
             \/ /\ Key(e) \in KeysOf(history)
                /\ history' = Replace(e) /\ Saw(e, Inside # {}) /\ Done(r)
             \/ /\ Key(e) \notin KeysOf(history)
                /\ At(r, "append") /\ seen' = seen /\ history' = history
      BY <1>7, KeysScanned DEF Compare
    <2> QED BY <2>3, <2>4, <2>5, <2>6
  <1>8. ASSUME NEW r \in Requests, Add(r) PROVE NewestInv'
    <2> DEFINE e == request[r].snapshot
    <2>1. request[r].at = "append" /\ e \in Taken /\ r \in Inside
      BY <1>0, <1>8 DEF Add, Stages, Inside
    <2>2. /\ (overlapped' <=> overlapped) /\ history' = Insert(e) /\ Done(r)
          /\ seen' = IF overlapped' THEN {} ELSE seen \cup {e}
      BY <1>8 DEF Add, Saw
    <2>3. CASE overlapped
      BY <2>2, <2>3 DEF NewestInv
    <2>4. CASE ~overlapped
      <3>1. Newest(history, seen) /\ Inside = {r} /\ Key(e) \notin KeysOf(history)
        BY <2>1, <2>4 DEF NewestInv
      <3>2. Newest(history', seen')
        BY <2>1, <2>2, <2>4, <3>1, InsertKeeps, HistoryLimit DEF NewestInv
      <3>3. Inside' = {}
        BY <1>0, <2>2, <3>1 DEF Inside, Done, NoRequest
      <3> QED BY <3>2, <3>3 DEF NewestInv
    <2> QED BY <2>3, <2>4
  <1> QED BY <1>1, <1>2, <1>3, <1>4, <1>5, <1>6, <1>7, <1>8 DEF RequestsNext

(* As many of the turns seen are later than an entry as entries are.       *)
LEMMA LaterCounted ==
    ASSUME Newest(history, seen), NEW i \in DOMAIN history
    PROVE  Cardinality({k \in {Key(e) : e \in seen} : Earlier(Key(history[i]), k)})
              = Len(history) - i
  <1> DEFINE later == {k \in {Key(e) : e \in seen} : Earlier(Key(history[i]), k)}
             L == Len(history)
             f == [j \in i + 1 .. L |-> Key(history[j])]
  <1>1. DOMAIN history = 1 .. L /\ L \in Nat /\ i \in 1 .. L
    BY LenProperties DEF Newest
  <1>2. \A j \in DOMAIN history : history[j] \in Taken
    BY <1>1, ElementOfSeq DEF Newest
  <1>3. \A j \in i + 1 .. L : j \in DOMAIN history /\ i < j
    BY <1>1
  <1>4. \A j \in DOMAIN history : Before(history[i], history[j]) => j \in i + 1 .. L
    <2> SUFFICES ASSUME NEW j \in DOMAIN history, Before(history[i], history[j])
                 PROVE  j \in i + 1 .. L
      OBVIOUS
    <2>1. j # i /\ ~(j < i)
      BY <1>2, BeforeOrders DEF Newest, Ascending
    <2> QED BY ONLY <1>1, <2>1, j \in DOMAIN history
  <1>5. f \in [i + 1 .. L -> later]
    BY <1>3 DEF Newest, Ascending, Before
  <1>6. \A j, k \in i + 1 .. L : f[j] = f[k] => j = k
    <2> SUFFICES ASSUME NEW j \in i + 1 .. L, NEW k \in i + 1 .. L, j # k
                 PROVE  Key(history[j]) # Key(history[k])
      OBVIOUS
    <2>1. j < k \/ k < j
      BY <1>1
    <2> QED BY <1>2, <1>3, <2>1, BeforeOrders DEF Newest, Ascending
  <1>7. \A k \in later : \E j \in i + 1 .. L : f[j] = k
    <2> SUFFICES ASSUME NEW k \in later PROVE \E j \in i + 1 .. L : f[j] = k
      OBVIOUS
    <2>1. PICK s \in seen : k = Key(s) /\ Before(history[i], s)
      BY DEF Before
    <2>2. ~Before(s, history[i])
      BY <1>2, <2>1, BeforeOrders DEF Newest
    <2>3. PICK j \in DOMAIN history : Key(s) = Key(history[j])
      BY <2>1, <2>2 DEF Newest, KeysOf
    <2>4. j \in i + 1 .. L
      BY <1>4, <2>1, <2>3 DEF Before
    <2> QED BY <2>1, <2>3, <2>4
  <1> HIDE DEF later, f
  <1>8. ExistsBijection(i + 1 .. L, later)
    BY <1>5, <1>6, <1>7 DEF ExistsBijection, Bijection, Injection, Surjection, IsInjective
  <1>9. IsFiniteSet(i + 1 .. L) /\ Cardinality(i + 1 .. L) = L - i
    <2>1. i + 1 \in Int /\ L \in Int
      BY <1>1
    <2>2. /\ IsFiniteSet(i + 1 .. L)
          /\ Cardinality(i + 1 .. L) = IF i + 1 > L THEN 0 ELSE L - (i + 1) + 1
      BY ONLY <2>1, FS_Interval
    <2>3. CASE i + 1 > L
      <3>1. L - i = 0
        BY ONLY <1>1, <2>3
      <3> QED BY ONLY <2>2, <2>3, <3>1
    <2>4. CASE ~(i + 1 > L)
      <3>1. L - (i + 1) + 1 = L - i
        BY ONLY <1>1
      <3> QED BY ONLY <2>2, <2>4, <3>1
    <2> QED BY ONLY <2>3, <2>4
  <1> QED BY <1>8, <1>9, FS_Bijection DEF later

(* What the property says follows.                                         *)
LEMMA NewestMeans == NewestInv => HistoryIsNewestTurns
  <1> SUFFICES ASSUME NewestInv, ~overlapped PROVE HistoryIsNewestTurns
    BY DEF HistoryIsNewestTurns
  <1>1. Newest(history, seen)
    BY DEF NewestInv
  <1>2. DOMAIN history = 1 .. Len(history) /\ Len(history) \in Nat
    BY <1>1, LenProperties DEF Newest
  <1>3. ASSUME NEW i \in DOMAIN history, i > 1 PROVE Before(history[i - 1], history[i])
    <2>1. i - 1 \in DOMAIN history /\ i - 1 < i
      BY <1>2, <1>3
    <2> QED BY <1>1, <2>1 DEF Newest, Ascending
  <1>4. Len(history) < Limit => \A e \in seen : Key(e) \in {Key(f) : f \in Entries}
    BY <1>1, <1>2, KeysScanned DEF Newest, NewestInv
  <1> QED BY <1>1, <1>3, <1>4, LaterCounted DEF HistoryIsNewestTurns, Newest, NewestReading

(* decisions/changes.py, History.record(): as long as no two requests are  *)
(* inside it at once, the history is the newest HISTORY_LIMIT turns of all *)
(* recorded since the last switch, each once, in order, though requests    *)
(* with old snapshots record old sittings' turns late.                     *)
THEOREM HistoryHolds == RequestsSpec => []HistoryIsNewestTurns
  <1>1. RequestsInit => NewestInv
    BY HistoryLimit DEF RequestsInit, NewestInv, Newest, Ascending, Inside, NoRequest
  <1>2. Inv /\ NewestInv /\ [RequestsNext]_requestVars => NewestInv'
    BY NewestStep
  <1> QED BY InvHolds, <1>1, <1>2, NewestMeans, PTL DEF RequestsSpec

-----------------------------------------------------------------------------
(* The page.                                                               *)

Versions == [session : Nat, revision : Nat]

(* A reply under way is of a snapshot there was, and so is what the page   *)
(* remembers of the newest reply it painted, when the screen is blank too. *)
Fetches ==
    {f \in [at : {"none", "sent", "answered", "failed"}, mode : Modes \cup {None},
        reply : Versions \cup {None}] :
        /\ f.at \in {"sent", "failed"} => f.reply = None
        /\ f.at # "none" => f.mode \in Modes
        /\ f.reply # None => f.reply.revision <= counter.revision}

ScreenInv ==
    /\ counter \in Versions /\ server \in {None, counter}
    /\ unsaid \subseteq Events /\ inbox \in Seq(Events)
    /\ showOracle \in BOOLEAN /\ subscribed \in BOOLEAN /\ gap \in BOOLEAN
    /\ fetch \in Fetches
    /\ late # None => late \in Fetches /\ late.mode \in Modes
    /\ revisionShown \in Nat /\ revisionShown <= counter.revision
    /\ screen # None =>
          screen = [session |-> sessionShown, revision |-> revisionShown, mode |-> dataMode]
    /\ inbox # <<>> => subscribed

(* What a step may do to the screen.                                       *)
Forward == screen # None /\ screen' # None /\ screen'.session = screen.session
              => screen'.revision >= screen.revision

(* Only a reply no older than what was painted last of its session paints. *)
LEMMA PaintKeeps ==
    ASSUME ScreenInv, NEW f \in Fetches, f.mode \in Modes, Paint(f), UNCHANGED counter
    PROVE  /\ revisionShown' \in Nat /\ revisionShown' <= counter'.revision
           /\ screen' # None =>
                 screen' = [session |-> sessionShown', revision |-> revisionShown', mode |-> dataMode']
           /\ Forward
  <1>1. CASE AcceptResponse(f)
    <2>1. /\ screen' = [session |-> f.reply.session, revision |-> f.reply.revision, mode |-> f.mode]
          /\ dataMode' = f.mode
          /\ sessionShown' = f.reply.session /\ revisionShown' = f.reply.revision
      BY <1>1 DEF Paint
    <2>2. f.reply \in Versions /\ f.reply.revision <= counter.revision
      BY <1>1 DEF AcceptResponse, Fetches
    <2>3. f.reply.session = sessionShown => f.reply.revision >= revisionShown
      BY <1>1, <2>2 DEF AcceptResponse, ScreenInv, Versions
    <2>4. Forward
      BY <2>1, <2>3 DEF Forward, ScreenInv
    <2> QED BY <2>1, <2>2, <2>4 DEF Versions
  <1>2. CASE ~AcceptResponse(f)
    BY <1>2 DEF Paint, painted, ScreenInv, Forward, Versions
  <1> QED BY <1>1, <1>2

(* A new fetch supersedes the one before, whose reply may still come.      *)
LEMMA RefreshKeeps ==
    ASSUME ScreenInv, NEW oracle \in BOOLEAN, Refresh(oracle), UNCHANGED counter
    PROVE  fetch' \in Fetches' /\ (late' # None => late' \in Fetches' /\ late'.mode \in Modes)
           /\ gap' \in BOOLEAN
  BY DEF Refresh, ScreenInv, Fetches, Mode, Modes

LEMMA PageStep == ScreenInv /\ [PageNext]_pageVars => ScreenInv' /\ Forward
  <1> SUFFICES ASSUME ScreenInv, [PageNext]_pageVars PROVE ScreenInv' /\ Forward
    OBVIOUS
  <1>0. revisionShown >= revisionShown /\ (UNCHANGED counter => Fetches' = Fetches)
    BY DEF ScreenInv, Fetches
  <1>1. CASE UNCHANGED pageVars
    BY <1>0, <1>1 DEF pageVars, serverVars, painted, ScreenInv, Forward
  <1>2. CASE NewSnapshot
    <2>1. counter' \in Versions /\ counter.revision <= counter'.revision /\ server' = counter'
      BY <1>2 DEF NewSnapshot, ScreenInv, Versions
    <2>2. Fetches \subseteq Fetches' /\ revisionShown <= counter'.revision
      BY <2>1 DEF ScreenInv, Fetches, Versions
    <2>3. unsaid' \subseteq Events
      BY <1>2 DEF NewSnapshot, ScreenInv, Events
    <2> QED BY <1>0, <1>2, <2>1, <2>2, <2>3 DEF NewSnapshot, painted, ScreenInv, Forward
  <1>3. CASE Switch
    BY <1>0, <1>3 DEF Switch, painted, ScreenInv, Forward
  <1>4. ASSUME NEW e \in Events, Send(e) PROVE ScreenInv' /\ Forward
    <2>1. inbox' \in Seq(Events) /\ (inbox' # <<>> => subscribed') /\ gap' \in BOOLEAN
      BY <1>4 DEF Send, ScreenInv
    <2> QED BY <1>0, <1>4, <2>1 DEF Send, painted, ScreenInv, Forward
  <1>5. CASE Serve
    <2>1. fetch' \in Fetches /\ UNCHANGED counter
      <3>1. /\ fetch \in [at : {"none", "sent", "answered", "failed"}, mode : Modes \cup {None},
                           reply : Versions \cup {None}]
            /\ fetch.mode \in Modes
        BY <1>5 DEF Serve, ScreenInv, Fetches
      <3>2. fetch' = [at |-> "answered", mode |-> fetch.mode, reply |-> server]
        BY <1>5, <3>1 DEF Serve
      <3>3. /\ server \in Versions \cup {None}
            /\ server # None => server.revision <= counter.revision
        BY DEF ScreenInv, Versions
      <3>4. fetch'.at = "answered" /\ fetch'.mode = fetch.mode /\ fetch'.reply = server
        BY <3>2
      <3>5. fetch' \in [at : {"none", "sent", "answered", "failed"}, mode : Modes \cup {None},
                         reply : Versions \cup {None}]
        BY <3>1, <3>2, <3>3
      <3> QED BY <1>5, <3>1, <3>3, <3>4, <3>5 DEF Serve, serverVars, Fetches
    <2> QED BY <1>0, <1>5, <2>1 DEF Serve, serverVars, painted, ScreenInv, Forward
  <1>6. CASE Receive
    <2>1. fetch.mode \in Modes /\ UNCHANGED counter
      BY <1>6 DEF Receive, serverVars, ScreenInv, Fetches
    <2>2. NoFetch \in Fetches
      BY DEF NoFetch, Fetches
    <2>3. /\ revisionShown' \in Nat /\ revisionShown' <= counter'.revision
          /\ screen' # None =>
                screen' = [session |-> sessionShown', revision |-> revisionShown', mode |-> dataMode']
          /\ Forward
      BY <1>6, <2>1, PaintKeeps DEF Receive, ScreenInv
    <2> QED BY <1>0, <1>6, <2>1, <2>2, <2>3 DEF Receive, serverVars, ScreenInv
  <1>7. CASE ReceiveLate
    <2>1. late.mode \in Modes /\ late \in Fetches /\ UNCHANGED counter
      BY <1>7 DEF ReceiveLate, serverVars, ScreenInv
    <2>2. /\ revisionShown' \in Nat /\ revisionShown' <= counter'.revision
          /\ screen' # None =>
                screen' = [session |-> sessionShown', revision |-> revisionShown', mode |-> dataMode']
          /\ Forward
      BY <1>7, <2>1, PaintKeeps DEF ReceiveLate
    <2> QED BY <1>0, <1>7, <2>1, <2>2 DEF ReceiveLate, serverVars, ScreenInv
  <1>8. CASE OnMessage
    <2>1. /\ UNCHANGED counter
          /\ fetch' \in Fetches' /\ (late' # None => late' \in Fetches' /\ late'.mode \in Modes)
          /\ gap' \in BOOLEAN
      BY <1>8, RefreshKeeps DEF OnMessage, serverVars, ScreenInv
    <2>2. inbox' \in Seq(Events) /\ subscribed
      BY <1>8 DEF OnMessage, ScreenInv
    <2>3. screen' = None \/ screen' = screen
      BY <1>8 DEF OnMessage
    <2> QED BY <1>0, <1>8, <2>1, <2>2, <2>3 DEF OnMessage, serverVars, ScreenInv, Forward
  <1>9. CASE Toggle
    <2>1. /\ UNCHANGED counter /\ showOracle' \in BOOLEAN
          /\ fetch' \in Fetches' /\ (late' # None => late' \in Fetches' /\ late'.mode \in Modes)
          /\ gap' \in BOOLEAN
      <3>1. UNCHANGED counter /\ showOracle' \in BOOLEAN /\ Refresh(showOracle')
        BY <1>9 DEF Toggle, serverVars, ScreenInv
      <3> QED BY <3>1, RefreshKeeps
    <2> QED BY <1>0, <1>9, <2>1 DEF Toggle, serverVars, painted, ScreenInv, Forward
  <1>10. CASE ChooseGame
    <2>1. /\ UNCHANGED counter
          /\ fetch' \in Fetches' /\ (late' # None => late' \in Fetches' /\ late'.mode \in Modes)
          /\ gap' \in BOOLEAN
      BY <1>10, RefreshKeeps DEF ChooseGame, serverVars, ScreenInv
    <2> QED BY <1>0, <1>10, <2>1 DEF ChooseGame, serverVars, ScreenInv, Forward
  <1>11. CASE Connect
    BY <1>0, <1>11 DEF Connect, serverVars, painted, ScreenInv, Forward
  <1>12. CASE Lose
    <2>1. <<>> \in Seq(Events) /\ gap' \in BOOLEAN
      BY <1>12 DEF Lose, ScreenInv
    <2>2. /\ UNCHANGED <<server, counter, unsaid, showOracle, fetch, late>>
          /\ UNCHANGED <<screen, dataMode, sessionShown, revisionShown>>
          /\ inbox' = <<>> /\ subscribed' = FALSE
      BY <1>12 DEF Lose, serverVars, painted
    <2>3. ScreenInv'
      BY <1>0, <2>1, <2>2 DEF ScreenInv
    <2> QED BY <1>0, <2>2, <2>3 DEF ScreenInv, Forward
  <1>13. CASE FetchFails
    <2>1. fetch' = [at |-> "failed", mode |-> fetch.mode, reply |-> None] /\ fetch.mode \in Modes
      BY <1>13 DEF FetchFails, ScreenInv, Fetches
    <2>2. fetch' \in Fetches
      BY <2>1 DEF Fetches
    <2> QED BY <1>0, <1>13, <2>2 DEF FetchFails, serverVars, painted, ScreenInv, Forward
  <1> QED
    BY <1>1, <1>2, <1>3, <1>4, <1>5, <1>6, <1>7, <1>8, <1>9, <1>10, <1>11, <1>12, <1>13 DEF PageNext

LEMMA ScreenInvariant == PageSpec => []ScreenInv
  <1>1. PageInit => ScreenInv
    <2> SUFFICES ASSUME PageInit PROVE ScreenInv
      OBVIOUS
    <2>1. counter \in Versions /\ server = counter /\ revisionShown = 0 /\ counter.revision = 1
      BY DEF PageInit, Versions
    <2>2. fetch \in Fetches
      BY DEF PageInit, Fetches, Mode, Modes
    <2>3. <<>> \in Seq(Events) /\ {} \subseteq Events
      OBVIOUS
    <2>4. /\ unsaid = {} /\ inbox = <<>> /\ subscribed = FALSE /\ gap = FALSE
          /\ showOracle \in BOOLEAN /\ late = None /\ screen = None
      BY DEF PageInit
    <2>5. unsaid \subseteq Events /\ inbox \in Seq(Events)
      BY ONLY <2>3, <2>4
    <2>6. revisionShown \in Nat /\ revisionShown <= counter.revision
      BY ONLY <2>1
    <2>7. (screen # None => FALSE) /\ (late # None => FALSE) /\ (inbox # <<>> => FALSE)
      BY ONLY <2>4
    <2>8. subscribed \in BOOLEAN /\ gap \in BOOLEAN
      BY ONLY <2>4
    <2> QED BY ONLY <2>1, <2>2, <2>4, <2>5, <2>6, <2>7, <2>8 DEF ScreenInv
  <1>2. ScreenInv /\ [PageNext]_pageVars => ScreenInv'
    BY PageStep
  <1> QED BY <1>1, <1>2, PTL DEF PageSpec

(* web/briefing.js, acceptResponse(): "A reply that overtook a newer one   *)
(* on the wire is dropped": within a session the page never goes back to   *)
(* an older snapshot, though it may be blank in between.                   *)
THEOREM ScreenAdvances == PageSpec => ScreenNeverGoesBack
  <1>1. ScreenInv /\ [PageNext]_pageVars
           => [screen # None /\ screen' # None /\ screen'.session = screen.session
                  => screen'.revision >= screen.revision]_pageVars
    BY PageStep DEF Forward
  <1> QED BY ScreenInvariant, <1>1, PTL DEF PageSpec, ScreenNeverGoesBack

(* What the page keeps, and that what it shows is a snapshot there was.    *)
THEOREM PageTypesHold == PageSpec => []PageTypeOK
  <1>1. ScreenInv => PageTypeOK
    BY DEF ScreenInv, PageTypeOK, Fetches
  <1> QED BY ScreenInvariant, <1>1, PTL
=============================================================================
