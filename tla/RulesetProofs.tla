----------------------------- MODULE RulesetProofs -----------------------------
(***************************************************************************)
(* Proofs about the figures of the ruleset, for any database, any versions *)
(* of it, any requests and lookups, whatever the stamps fail to tell apart.*)
(***************************************************************************)
EXTENDS Ruleset, SequenceTheorems, TLAPS

-----------------------------------------------------------------------------
(* The shape of a request and of a provider.                               *)

Fields == {"pc", "owner", "stamp", "fresh", "before", "row", "found", "attempts", "began", "answers"}

RowIn(v) ==
    IF Database[v][subject.row] \in {Missing, NoRow} THEN None ELSE Database[v][subject.row]

Parts == {"identity", "closed", "facts"}

(* A request that looks up, or may, and a request whose own provider it    *)
(* uses: from then on others may use it too.                               *)
AskingNow == {"ask", "identify", "refresh", "recall", "read", "beside", "verify", "settle"}

Owns(o) == request[o].pc \in AskingNow /\ request[o].owner = o

Opened(o) ==
    /\ o \in Requests
    /\ Owns(o)
    /\ DOMAIN provider[o] = Parts
    /\ provider[o].identity \in Nat
    /\ provider[o].identity <= Digest

Unpublished(o) ==
    /\ DOMAIN provider[o] = Parts
    /\ provider[o].identity \in Nat
    /\ provider[o].identity <= Digest
    /\ provider[o].facts = None

AnyFigure == [stated : {SaidBy(v, lookup) : v \in Nat, lookup \in Subjects}, cites : Nat]

Shaped(r) ==
    /\ DOMAIN request[r] = Fields
    /\ request[r].answers \in Seq(AnyFigure \cup {None, Raised})
    /\ request[r].pc = "publish" => Unpublished(r)
    /\ request[r].pc \in AskingNow => Opened(request[r].owner)

ShapeInv ==
    /\ version \in Nat \ {0} /\ writing \in BOOLEAN /\ subject \in Subjects
    /\ DOMAIN request = Requests /\ DOMAIN provider = Requests
    /\ cached # None => Opened(cached.owner)
    /\ \A r \in Requests : Shaped(r)

-----------------------------------------------------------------------------
(* What a request or a provider holds is what one version says: what was   *)
(* read since the file was identified is of one version as long as the     *)
(* file is still that one, and Verify hands out nothing otherwise.         *)

Whole(f) == f \notin {None, Raised} => \E v \in 1..version : f.stated = SaidBy(v, subject)

Underway(r) ==
    /\ request[r].pc \in {"refresh", "settle"} =>
        request[r].fresh \in Nat /\ request[r].fresh <= Digest
    /\ request[r].pc \in {"beside", "verify", "settle"} =>
        request[r].before \in Nat /\ request[r].before <= Digest
    /\ (request[r].pc = "beside" /\ request[r].before = Digest) =>
        ~writing /\ request[r].row = RowIn(version)
    /\ (request[r].pc \in {"verify", "settle"} /\ request[r].found # None) =>
        /\ request[r].found = [stated |-> request[r].found.stated, cites |-> request[r].found.cites]
        /\ request[r].found.cites \in Nat
    /\ (request[r].pc = "verify" /\ request[r].found # None /\ request[r].before = Digest) =>
        ~writing /\ request[r].found.stated = SaidBy(version, subject)
    /\ (request[r].pc = "settle" /\ request[r].found # None
            /\ request[r].before = request[r].fresh) =>
        \E v \in 1..version :
            request[r].fresh = 2 * v /\ request[r].found.stated = SaidBy(v, subject)

AnswersWhole(r) == \A i \in DOMAIN request[r].answers : Whole(request[r].answers[i])

FactsWhole(o) ==
    (Opened(o) /\ provider[o].facts # None) =>
        provider[o].facts \in AnyFigure /\ Whole(provider[o].facts)

WholeInv == \A r \in Requests : AnswersWhole(r) /\ FactsWhole(r) /\ Underway(r)

-----------------------------------------------------------------------------
(* As long as no lookup has put an older identity back, the provider's     *)
(* identity only grows, so that the figures of a lookup cite something     *)
(* between what it began with and what it verifies: the same, when it      *)
(* holds.                                                                  *)

Identity(r) == provider[request[r].owner].identity

Cited(f) ==
    f \notin {None, Raised} => \E v \in 1..version : f.cites = 2 * v /\ f.stated = SaidBy(v, subject)

CitedUnderway(r) ==
    /\ request[r].pc \in {"start", "open", "publish"} => request[r].answers = <<>>
    /\ request[r].pc \in AskingNow \ {"ask"} =>
        request[r].began \in Nat /\ request[r].began <= version
    /\ request[r].pc \in {"refresh", "settle"} => request[r].fresh >= 2 * request[r].began
    /\ request[r].pc \in {"recall", "read"} => Identity(r) >= 2 * request[r].began
    /\ request[r].pc \in {"beside", "verify", "settle"} =>
        request[r].before >= 2 * request[r].began /\ request[r].before <= Identity(r)
    /\ (request[r].pc \in {"verify", "settle"} /\ request[r].found # None) =>
        request[r].found.cites >= request[r].before /\ request[r].found.cites <= Identity(r)
    /\ (request[r].pc = "ask" /\ request[r].answers # <<>>) =>
        LET last == request[r].answers[Len(request[r].answers)]
        IN  last \notin {None, Raised} => last.cites >= 2 * request[r].began

AnswersCited(r) == \A i \in DOMAIN request[r].answers : Cited(request[r].answers[i])

FactsCited(o) ==
    (Opened(o) /\ provider[o].facts # None) =>
        Cited(provider[o].facts) /\ provider[o].facts.cites = provider[o].identity

CiteInv == \A r \in Requests : AnswersCited(r) /\ FactsCited(r) /\ CitedUnderway(r)

-----------------------------------------------------------------------------
(* What each step does.                                                    *)

Moves(r) ==
    /\ DOMAIN request' = Requests /\ DOMAIN request'[r] = Fields
    /\ \A s \in Requests \ {r} : request'[s] = request[s]
    /\ version' = version /\ writing' = writing /\ subject' = subject

Kept(o) ==
    /\ DOMAIN provider'[o] = DOMAIN provider[o]
    /\ DOMAIN provider[o] = Parts =>
        provider'[o].identity = provider[o].identity /\ provider'[o].facts = provider[o].facts

Looks(r) ==
    /\ Moves(r)
    /\ cached' = cached
    /\ request'[r].owner = request[r].owner
    /\ DOMAIN provider' = Requests

LEMMA CloseKeeps ==
    ASSUME ShapeInv, NEW owners, provider' = CloseOf(owners)
    PROVE  DOMAIN provider' = Requests /\ \A o \in Requests : Kept(o)
  BY DEF CloseOf, ShapeInv, Shaped, Kept, Parts

LEMMA FindDoes ==
    ASSUME ShapeInv, NEW r \in Requests, Find(r)
    PROVE  /\ Moves(r) /\ cached' = cached /\ provider' = provider
           /\ request[r].pc = "start" /\ request'[r].answers = request[r].answers
           /\ \/ request'[r].pc = "open"
              \/ request'[r].pc = "ask" /\ cached # None /\ request'[r].owner = cached.owner
  BY DEF Find, ShapeInv, Shaped, Fields, Moves

LEMMA OpenDoes ==
    ASSUME ShapeInv, NEW r \in Requests, OpenFile(r)
    PROVE  /\ Moves(r) /\ cached' = cached /\ DOMAIN provider' = Requests
           /\ request[r].pc = "open" /\ request'[r].answers = request[r].answers
           /\ \A o \in Requests \ {r} : provider'[o] = provider[o]
           /\ \/ request'[r].pc = "done"
              \/ request'[r].pc = "publish" /\ provider'[r] = NewProvider(Digest)
  BY DEF OpenFile, ShapeInv, Shaped, Fields, Moves, Step

LEMMA PublishDoes ==
    ASSUME ShapeInv, NEW r \in Requests, Publish(r)
    PROVE  /\ Moves(r) /\ DOMAIN provider' = Requests
           /\ request[r].pc = "publish" /\ request'[r].answers = request[r].answers
           /\ \A o \in Requests : Kept(o)
           /\ request'[r].pc = "ask"
           /\ \/ cached # None /\ cached' = cached /\ request'[r].owner = cached.owner
              \/ cached'.owner = r /\ request'[r].owner = r
  <1>1. /\ Moves(r)
        /\ request[r].pc = "publish" /\ request'[r].answers = request[r].answers
        /\ request'[r].pc = "ask"
        /\ \/ cached # None /\ cached' = cached /\ request'[r].owner = cached.owner
           \/ cached'.owner = r /\ request'[r].owner = r
    BY DEF Publish, ShapeInv, Shaped, Fields, Moves
  <1>2. DOMAIN provider' = Requests /\ \A o \in Requests : Kept(o)
    <2>1. CASE \E owners : provider' = CloseOf(owners)
      BY <2>1, CloseKeeps
    <2>2. CASE provider' = provider
      BY <2>2 DEF Kept, ShapeInv
    <2> QED BY <2>1, <2>2 DEF Publish
  <1> QED BY <1>1, <1>2

LEMMA AskDoes ==
    ASSUME ShapeInv, NEW r \in Requests, ReadVerified(r)
    PROVE  /\ Looks(r) /\ provider' = provider
           /\ request[r].pc = "ask" /\ putBack' = putBack
           /\ \/ /\ request'[r].pc = "ask"
                 /\ request'[r].answers = Append(request[r].answers, None)
              \/ /\ request'[r].pc = "identify" /\ request'[r].answers = request[r].answers
                 /\ request'[r].began = version
  BY DEF ReadVerified, Return, ShapeInv, Shaped, Fields, Looks, Moves

LEMMA IdentifyDoes ==
    ASSUME ShapeInv, NEW r \in Requests, Identify(r)
    PROVE  /\ Looks(r) /\ provider' = provider
           /\ request[r].pc = "identify" /\ request'[r].pc = "refresh"
           /\ request'[r].answers = request[r].answers /\ request'[r].began = request[r].began
           /\ request'[r].fresh = Digest /\ putBack' = putBack
  BY DEF Identify, ShapeInv, Shaped, Fields, Looks, Moves

LEMMA RefreshDoes ==
    ASSUME ShapeInv, NEW r \in Requests, Refresh(r)
    PROVE  LET o == request[r].owner
           IN  /\ Looks(r)
               /\ request[r].pc = "refresh" /\ request'[r].pc = "recall"
               /\ request'[r].began = request[r].began /\ request'[r].answers = request[r].answers
               /\ Opened(o) /\ DOMAIN provider'[o] = Parts
               /\ provider'[o].identity = request[r].fresh
               /\ provider'[o].facts =
                     IF provider[o].identity = request[r].fresh THEN provider[o].facts ELSE None
               /\ \A p \in Requests \ {o} : provider'[p] = provider[p]
               /\ putBack' = (putBack \/ request[r].fresh < provider[o].identity)
  <1>1. Opened(request[r].owner) /\ request[r].owner \in Requests
    BY DEF Refresh, ShapeInv, Shaped, AskingNow, Opened
  <1> QED
    BY <1>1 DEF Refresh, SetIdentity, FactsAfter, Provider, ShapeInv, Shaped, Opened, Fields, Parts,
                Looks, Moves

LEMMA RecallDoes ==
    ASSUME ShapeInv, NEW r \in Requests, Recall(r)
    PROVE  LET facts == provider[request[r].owner].facts
           IN  /\ Looks(r) /\ provider' = provider /\ putBack' = putBack
               /\ request[r].pc = "recall" /\ request'[r].began = request[r].began
               /\ \/ /\ request'[r].pc = "ask" /\ facts # None
                     /\ request'[r].answers = Append(request[r].answers, facts)
                  \/ request'[r].pc = "read" /\ request'[r].answers = request[r].answers
  BY DEF Recall, Provider, Return, Step, ShapeInv, Shaped, Fields, Looks, Moves

LEMMA ReturnDoes ==
    ASSUME ShapeInv, NEW r \in Requests, NEW answer, Return(r, answer),
           UNCHANGED <<version, writing, cached, provider, subject, putBack>>
    PROVE  /\ Looks(r) /\ provider' = provider /\ putBack' = putBack
           /\ request'[r].began = request[r].began /\ request'[r].pc = "ask"
           /\ request'[r].answers = Append(request[r].answers, answer)
  <1>1. /\ DOMAIN request = Requests /\ DOMAIN provider = Requests /\ DOMAIN request[r] = Fields
    BY DEF ShapeInv, Shaped
  <1>2. /\ version' = version /\ writing' = writing /\ cached' = cached /\ provider' = provider
        /\ subject' = subject /\ putBack' = putBack
    OBVIOUS
  <1>3. /\ DOMAIN request' = Requests /\ DOMAIN request'[r] = Fields
        /\ \A s \in Requests \ {r} : request'[s] = request[s]
        /\ request'[r].began = request[r].began /\ request'[r].pc = "ask"
        /\ request'[r].owner = request[r].owner
        /\ request'[r].answers = Append(request[r].answers, answer)
    BY <1>1 DEF Return, Fields
  <1> QED BY <1>1, <1>2, <1>3 DEF Looks, Moves

LEMMA ReadRowDoes ==
    ASSUME ShapeInv, NEW r \in Requests, ReadRow(r)
    PROVE  /\ Looks(r) /\ provider' = provider /\ putBack' = putBack
           /\ request[r].pc = "read" /\ request'[r].began = request[r].began
           /\ \/ /\ request'[r].pc = "ask"
                 /\ request'[r].answers = Append(request[r].answers, Raised)
              \/ /\ request'[r].answers = request[r].answers
                 /\ request'[r].before = provider[request[r].owner].identity
                 /\ request'[r].found = None
                 /\ \/ request'[r].pc = "verify"
                    \/ request'[r].pc = "beside" /\ ~writing /\ request'[r].row = RowIn(version)
  <1>1. CASE Return(r, Raised) /\ UNCHANGED <<version, writing, cached, provider, subject, putBack>>
    BY <1>1, ReturnDoes DEF ReadRow
  <1>2. ASSUME NEW row \in {None} \cup (IF writing THEN {} ELSE {RowOf(subject)}),
               request' = [request EXCEPT ![r].before = Provider(r).identity, ![r].row = row,
                     ![r].found = None, ![r].pc = IF row = None THEN "verify" ELSE "beside"],
               UNCHANGED <<version, writing, cached, provider, subject, putBack>>
        PROVE  /\ Looks(r) /\ putBack' = putBack
               /\ request'[r].began = request[r].began
               /\ request'[r].answers = request[r].answers
               /\ request'[r].before = provider[request[r].owner].identity
               /\ request'[r].found = None
               /\ \/ request'[r].pc = "verify"
                  \/ request'[r].pc = "beside" /\ ~writing /\ request'[r].row = RowIn(version)
    <2>1. row # None => ~writing /\ row = RowIn(version)
      BY <1>2 DEF RowOf, Select, RowIn
    <2> QED BY <1>2, <2>1 DEF Provider, ShapeInv, Shaped, Fields, Looks, Moves
  <1> QED BY <1>1, <1>2 DEF ReadRow

LEMMA ReadBesideDoes ==
    ASSUME ShapeInv, NEW r \in Requests, ReadBeside(r)
    PROVE  /\ Looks(r) /\ provider' = provider /\ putBack' = putBack
           /\ request[r].pc = "beside" /\ request'[r].began = request[r].began
           /\ \/ /\ request'[r].pc = "ask"
                 /\ request'[r].answers = Append(request[r].answers, Raised)
              \/ /\ request'[r].pc = "verify"
                 /\ request'[r].answers = request[r].answers
                 /\ request'[r].before = request[r].before
                 /\ \/ request'[r].found = None
                    \/ \E stated :
                        /\ request'[r].found =
                              [stated |-> stated, cites |-> provider[request[r].owner].identity]
                        /\ (~writing /\ request[r].row = RowIn(version)) =>
                              stated = SaidBy(version, subject)
  <1> DEFINE beside == [t \in Beside(subject) |-> IF writing THEN Missing ELSE Select(t)]
             stated == Stated(subject, request[r].row, beside)
  <1>1. CASE Return(r, Raised) /\ UNCHANGED <<version, writing, cached, provider, subject, putBack>>
    <2>1. request[r].pc = "beside"
      BY DEF ReadBeside
    <2> QED BY ONLY <1>1, <2>1, ShapeInv, r \in Requests, ReturnDoes
  <1>2. (~writing /\ request[r].row = RowIn(version)) => stated = SaidBy(version, subject)
    <2> SUFFICES ASSUME ~writing, request[r].row = RowIn(version)
                 PROVE  stated = SaidBy(version, subject)
      OBVIOUS
    <2>1. beside = [t \in Beside(subject) |-> Database[version][t]]
      BY DEF Select
    <2> HIDE DEF beside
    <2> QED BY <2>1 DEF SaidBy, RowIn
  <1>3. CASE /\ request' = [request EXCEPT ![r].pc = "verify", ![r].row = None,
                    ![r].found = IF stated = None THEN None
                                 ELSE [stated |-> stated, cites |-> Provider(r).identity]]
             /\ UNCHANGED <<version, writing, cached, provider, subject, putBack>>
    <2> HIDE DEF stated
    <2>1. /\ Looks(r) /\ request'[r].began = request[r].began /\ request'[r].pc = "verify"
          /\ putBack' = putBack
          /\ request'[r].answers = request[r].answers
          /\ request'[r].before = request[r].before
          /\ request'[r].found = IF stated = None THEN None
                                 ELSE [stated |-> stated, cites |-> Provider(r).identity]
      BY <1>3 DEF ShapeInv, Shaped, Fields, Looks, Moves
    <2> QED BY <1>2, <1>3, <2>1 DEF Provider, ReadBeside
  <1> QED BY <1>1, <1>3 DEF ReadBeside

LEMMA VerifyDoes ==
    ASSUME ShapeInv, NEW r \in Requests, Verify(r)
    PROVE  /\ Looks(r) /\ provider' = provider /\ putBack' = putBack
           /\ request[r].pc = "verify" /\ request'[r].pc = "settle"
           /\ request'[r].began = request[r].began /\ request'[r].answers = request[r].answers
           /\ request'[r].before = request[r].before /\ request'[r].found = request[r].found
           /\ request'[r].fresh = Digest
  BY DEF Verify, ShapeInv, Shaped, Fields, Looks, Moves

LEMMA SettleDoes ==
    ASSUME ShapeInv, NEW r \in Requests, Settle(r)
    PROVE  LET o == request[r].owner
               held == request[r].before = request[r].fresh
               found == request[r].found
           IN  /\ Looks(r)
               /\ request[r].pc = "settle" /\ request'[r].began = request[r].began
               /\ Opened(o) /\ DOMAIN provider'[o] = Parts
               /\ provider'[o].identity = request[r].fresh
               /\ provider'[o].facts =
                     IF ~held THEN None ELSE IF found # None THEN found ELSE provider[o].facts
               /\ \A p \in Requests \ {o} : provider'[p] = provider[p]
               /\ putBack' = (putBack \/ request[r].fresh < provider[o].identity)
               /\ \/ /\ request'[r].pc = "ask" /\ held
                     /\ request'[r].answers = Append(request[r].answers, found)
                  \/ /\ request'[r].pc = "ask"
                     /\ request'[r].answers = Append(request[r].answers, None)
                  \/ /\ request'[r].pc = "read"
                     /\ request'[r].answers = request[r].answers
  <1>1. Opened(request[r].owner) /\ request[r].owner \in Requests
    BY DEF Settle, ShapeInv, Shaped, AskingNow, Opened
  <1> QED
    BY <1>1 DEF Settle, SetIdentity, SameFile, Provider, Return, ShapeInv, Shaped, Opened, Fields,
                Parts, Looks, Moves

-----------------------------------------------------------------------------
(* The steps of a lookup keep what is held whole.                          *)

LEMMA DigestIs == ShapeInv => Digest \in Nat
  BY DEF ShapeInv, Shaped, Digest

LEMMA FileStays ==
    ASSUME NEW r, Moves(r)
    PROVE  /\ Digest' = Digest
           /\ \A f : Whole(f) <=> Whole(f)'
           /\ \A f : Cited(f) <=> Cited(f)'
  BY DEF Moves, Digest, Whole, Cited

LEMMA OpenedStays ==
    ASSUME ShapeInv, NEW r \in Requests, Moves(r),
           NEW o \in Requests, Opened(o),
           o = r => Owns(r)',
           DOMAIN provider'[o] = Parts, provider'[o].identity \in Nat,
           provider'[o].identity <= Digest
    PROVE  Opened(o)'
  <1>1. Digest' = Digest
    BY FileStays
  <1>2. Owns(o)'
    BY DEF Opened, Owns, Moves
  <1> QED BY <1>1, <1>2 DEF Opened

LEMMA OthersStay ==
    ASSUME ShapeInv, WholeInv, NEW r \in Requests, Moves(r), NEW s \in Requests \ {r}
    PROVE  AnswersWhole(s)' /\ Underway(s)'
  <1>1. request'[s] = request[s] /\ s \in Requests
    BY DEF Moves
  <1>2. AnswersWhole(s)'
    BY <1>1 DEF Moves, WholeInv, AnswersWhole, Whole
  <1>3. Underway(s)'
    BY <1>1, FileStays DEF Moves, WholeInv, Underway, RowIn
  <1> QED BY <1>2, <1>3

LEMMA AnswersGrow ==
    ASSUME ShapeInv, NEW r \in Requests, NEW a \in AnyFigure \cup {None, Raised},
           request'[r].answers = Append(request[r].answers, a)
    PROVE  /\ request'[r].answers \in Seq(AnyFigure \cup {None, Raised})
           /\ Len(request'[r].answers) = Len(request[r].answers) + 1
           /\ \A i \in DOMAIN request'[r].answers :
                \/ i \in DOMAIN request[r].answers /\ request'[r].answers[i] = request[r].answers[i]
                \/ i = Len(request'[r].answers) /\ request'[r].answers[i] = a
           /\ request'[r].answers[Len(request'[r].answers)] = a
  <1> DEFINE S == AnyFigure \cup {None, Raised}
             old == request[r].answers
             new == request'[r].answers
  <1>1. old \in Seq(S) /\ new = Append(old, a) /\ a \in S
    BY DEF ShapeInv, Shaped
  <1> HIDE DEF S, old, new
  <1>2. /\ new \in Seq(S) /\ Len(new) = Len(old) + 1
        /\ \A i \in 1..Len(old) : new[i] = old[i]
        /\ new[Len(old) + 1] = a
    BY <1>1, AppendProperties
  <1>3. DOMAIN new = 1..Len(new) /\ DOMAIN old = 1..Len(old) /\ Len(old) \in Nat
    BY <1>1, <1>2, LenProperties
  <1>4. \A i \in DOMAIN new : i \in DOMAIN old \/ i = Len(new)
    BY <1>2, <1>3
  <1> QED BY <1>2, <1>3, <1>4 DEF S, old, new

LEMMA LookKeeps ==
    ASSUME ShapeInv, WholeInv, NEW r \in Requests, Looks(r),
           request[r].pc \in AskingNow, request'[r].pc \in AskingNow,
           \A p \in Requests :
               \/ provider'[p] = provider[p]
               \/ /\ Opened(p) /\ DOMAIN provider'[p] = Parts
                  /\ provider'[p].identity \in Nat /\ provider'[p].identity <= Digest
                  /\ provider'[p].facts # None =>
                        provider'[p].facts \in AnyFigure /\ Whole(provider'[p].facts),
           \/ request'[r].answers = request[r].answers
           \/ \E a \in AnyFigure \cup {None, Raised} :
                 Whole(a) /\ request'[r].answers = Append(request[r].answers, a),
           Underway(r)'
    PROVE  ShapeInv' /\ WholeInv'
  <1>0. Moves(r) /\ Digest' = Digest
    BY FileStays DEF Looks
  <1>1. \A p \in Requests : Opened(p) => Opened(p)'
    <2> SUFFICES ASSUME NEW p \in Requests, Opened(p) PROVE Opened(p)'
      OBVIOUS
    <2>1. DOMAIN provider'[p] = Parts /\ provider'[p].identity \in Nat
            /\ provider'[p].identity <= Digest
      BY DEF Opened
    <2>2. p = r => Owns(r)'
      BY DEF Opened, Owns, Looks, AskingNow
    <2> QED BY <1>0, <2>1, <2>2, OpenedStays
  <1>2. \A p \in Requests : Owns(p) <=> Owns(p)'
    BY <1>0 DEF Moves, AskingNow, Owns, Looks
  <1>3. request'[r].answers \in Seq(AnyFigure \cup {None, Raised}) /\ AnswersWhole(r)'
    <2>1. CASE request'[r].answers = request[r].answers
      BY <1>0, <2>1 DEF ShapeInv, Shaped, WholeInv, AnswersWhole, Whole, Moves
    <2>2. ASSUME NEW a \in AnyFigure \cup {None, Raised}, Whole(a),
                 request'[r].answers = Append(request[r].answers, a)
          PROVE  request'[r].answers \in Seq(AnyFigure \cup {None, Raised}) /\ AnswersWhole(r)'
      <3>1. /\ request'[r].answers \in Seq(AnyFigure \cup {None, Raised})
            /\ \A i \in DOMAIN request'[r].answers :
                 \/ i \in DOMAIN request[r].answers
                      /\ request'[r].answers[i] = request[r].answers[i]
                 \/ request'[r].answers[i] = a
        BY <2>2, AnswersGrow
      <3>2. AnswersWhole(r)
        BY DEF WholeInv
      <3> QED BY <1>0, <2>2, <3>1, <3>2 DEF AnswersWhole, Whole, Moves
    <2> QED BY <2>1, <2>2
  <1>4. ShapeInv'
    <2>1. (cached # None => Opened(cached.owner))'
      <3>1. cached # None => cached.owner \in Requests /\ Opened(cached.owner)
        BY DEF ShapeInv, Opened
      <3> QED BY <1>1, <3>1 DEF Looks, Opened
    <2>2. ASSUME NEW s \in Requests PROVE Shaped(s)'
      <3>1. CASE s = r
        <4>1. Opened(request[r].owner) /\ request[r].owner \in Requests
          BY DEF ShapeInv, Shaped, Opened
        <4>2. Opened(request[r].owner)'
          BY <1>1, <4>1 DEF Looks, Opened
        <4> QED BY <1>0, <1>3, <3>1, <4>2 DEF Moves, AskingNow, Shaped
      <3>2. CASE s # r
        <4>1. request'[s] = request[s]
          BY <1>0, <3>2 DEF Moves
        <4>2. request[s].pc \in AskingNow =>
                 request[s].owner \in Requests /\ Opened(request[s].owner)
          BY DEF ShapeInv, Shaped, Opened
        <4>3. request[s].pc \in AskingNow => Opened(request[s].owner)'
          BY <1>1, <4>1, <4>2 DEF Opened
        <4>4. request[s].pc = "publish" => Unpublished(s)'
          <5>1. request[s].pc = "publish" => provider'[s] = provider[s]
            BY DEF Opened, Owns, AskingNow
          <5> QED BY <1>0, <5>1 DEF ShapeInv, Shaped, Unpublished
        <4> QED BY <4>1, <4>3, <4>4 DEF ShapeInv, Shaped
      <3> QED BY <3>1, <3>2
    <2> QED BY <1>0, <2>1, <2>2 DEF ShapeInv, Looks, Moves
  <1>5. WholeInv'
    <2>1. ASSUME NEW s \in Requests PROVE FactsWhole(s)'
      <3> SUFFICES ASSUME Opened(s)', provider'[s].facts # None
                   PROVE  provider'[s].facts \in AnyFigure /\ Whole(provider'[s].facts)
        BY <1>0 DEF FactsWhole, Whole, Moves, AnyFigure
      <3>1. CASE provider'[s] = provider[s]
        <4>1. Opened(s)
          BY <1>0, <1>2, <3>1 DEF Opened
        <4> QED BY <3>1, <4>1 DEF WholeInv, FactsWhole
      <3> QED BY <3>1
    <2>2. ASSUME NEW s \in Requests PROVE AnswersWhole(s)' /\ Underway(s)'
      <3>1. CASE s = r
        BY <1>3, <3>1
      <3>2. CASE s # r
        BY <1>0, <3>2, OthersStay
      <3> QED BY <3>1, <3>2
    <2> QED BY <2>1, <2>2 DEF WholeInv
  <1> QED BY <1>4, <1>5

LEMMA AskKeeps ==
    ASSUME ShapeInv, WholeInv, NEW r \in Requests, ReadVerified(r)
    PROVE  ShapeInv' /\ WholeInv'
  <1>1. Underway(r)'
    BY AskDoes DEF Underway
  <1>2. Whole(None) /\ request'[r].pc \in AskingNow /\ request[r].pc \in AskingNow
    BY AskDoes DEF Whole, AskingNow
  <1> QED BY <1>1, <1>2, AskDoes, LookKeeps

LEMMA IdentifyKeeps ==
    ASSUME ShapeInv, WholeInv, NEW r \in Requests, Identify(r)
    PROVE  ShapeInv' /\ WholeInv'
  <1>1. Underway(r)'
    BY IdentifyDoes, FileStays, DigestIs DEF Underway, Looks
  <1>2. request'[r].pc \in AskingNow /\ request[r].pc \in AskingNow
    BY IdentifyDoes DEF AskingNow
  <1> QED BY <1>1, <1>2, IdentifyDoes, LookKeeps

LEMMA RefreshKeeps ==
    ASSUME ShapeInv, WholeInv, NEW r \in Requests, Refresh(r)
    PROVE  ShapeInv' /\ WholeInv'
  <1> DEFINE o == request[r].owner
  <1>1. /\ Looks(r) /\ request[r].pc = "refresh" /\ request'[r].pc = "recall"
        /\ request'[r].answers = request[r].answers
        /\ Opened(o) /\ DOMAIN provider'[o] = Parts
        /\ provider'[o].identity = request[r].fresh
        /\ provider'[o].facts \in {provider[o].facts, None}
        /\ \A p \in Requests \ {o} : provider'[p] = provider[p]
    BY RefreshDoes
  <1>2. request[r].fresh \in Nat /\ request[r].fresh <= Digest
    BY <1>1 DEF WholeInv, Underway
  <1>3. provider[o].facts # None => provider[o].facts \in AnyFigure /\ Whole(provider[o].facts)
    <2>1. o \in Requests
      BY <1>1 DEF Opened
    <2> QED BY <1>1, <2>1 DEF WholeInv, FactsWhole
  <1>4. Underway(r)'
    BY <1>1 DEF Underway
  <1>5. request'[r].pc \in AskingNow /\ request[r].pc \in AskingNow
    BY <1>1 DEF AskingNow
  <1>6. \A p \in Requests :
               \/ provider'[p] = provider[p]
               \/ /\ Opened(p) /\ DOMAIN provider'[p] = Parts
                  /\ provider'[p].identity \in Nat /\ provider'[p].identity <= Digest
                  /\ provider'[p].facts # None =>
                        provider'[p].facts \in AnyFigure /\ Whole(provider'[p].facts)
    BY <1>1, <1>2, <1>3
  <1> QED BY <1>1, <1>4, <1>5, <1>6, LookKeeps

LEMMA RecallKeeps ==
    ASSUME ShapeInv, WholeInv, NEW r \in Requests, Recall(r)
    PROVE  ShapeInv' /\ WholeInv'
  <1> DEFINE o == request[r].owner
  <1>1. /\ Looks(r) /\ provider' = provider /\ request[r].pc = "recall"
        /\ \/ /\ request'[r].pc = "ask" /\ provider[o].facts # None
              /\ request'[r].answers = Append(request[r].answers, provider[o].facts)
           \/ request'[r].pc = "read" /\ request'[r].answers = request[r].answers
    BY RecallDoes
  <1>2. request'[r].pc \in AskingNow /\ request[r].pc \in AskingNow
    BY <1>1 DEF AskingNow
  <1>3. Opened(o) /\ o \in Requests
    BY <1>2 DEF ShapeInv, Shaped, Opened
  <1>4. provider[o].facts # None => provider[o].facts \in AnyFigure /\ Whole(provider[o].facts)
    BY <1>3 DEF WholeInv, FactsWhole
  <1>5. Underway(r)'
    BY <1>1 DEF Underway
  <1>6. \/ request'[r].answers = request[r].answers
        \/ \E a \in AnyFigure \cup {None, Raised} :
              Whole(a) /\ request'[r].answers = Append(request[r].answers, a)
    BY <1>1, <1>4
  <1> QED BY <1>1, <1>2, <1>5, <1>6, LookKeeps

LEMMA ReadRowKeeps ==
    ASSUME ShapeInv, WholeInv, NEW r \in Requests, ReadRow(r)
    PROVE  ShapeInv' /\ WholeInv'
  <1>1. Looks(r) /\ request[r].pc = "read" /\ provider' = provider
    BY ReadRowDoes
  <1>2. provider[request[r].owner].identity \in Nat /\ provider[request[r].owner].identity <= Digest
    BY <1>1 DEF ShapeInv, Shaped, AskingNow, Opened
  <1>3. Underway(r)'
    BY <1>1, <1>2, ReadRowDoes, FileStays DEF Underway, Looks, Moves, RowIn
  <1>4. request'[r].pc \in AskingNow /\ request[r].pc \in AskingNow
    BY ReadRowDoes DEF AskingNow
  <1>5. Whole(Raised)
    BY DEF Whole
  <1> QED BY <1>1, <1>3, <1>4, <1>5, ReadRowDoes, LookKeeps

LEMMA ReadBesideKeeps ==
    ASSUME ShapeInv, WholeInv, NEW r \in Requests, ReadBeside(r)
    PROVE  ShapeInv' /\ WholeInv'
  <1>1. Looks(r) /\ request[r].pc = "beside" /\ provider' = provider
    BY ReadBesideDoes
  <1>2. provider[request[r].owner].identity \in Nat
    BY <1>1 DEF ShapeInv, Shaped, AskingNow, Opened
  <1>3. /\ request[r].before \in Nat /\ request[r].before <= Digest
        /\ request[r].before = Digest => ~writing /\ request[r].row = RowIn(version)
    BY <1>1 DEF WholeInv, Underway
  <1>4. Underway(r)'
    <2>1. Digest' = Digest /\ version' = version /\ writing' = writing /\ subject' = subject
      BY <1>1, FileStays DEF Looks, Moves
    <2>2. CASE request'[r].pc = "ask" \/ (request'[r].pc = "verify" /\ request'[r].found = None
                                           /\ request'[r].before = request[r].before)
      BY <1>3, <2>1, <2>2 DEF Underway
    <2>3. ASSUME request'[r].pc = "verify", request'[r].before = request[r].before,
                 NEW stated, request'[r].found =
                    [stated |-> stated, cites |-> provider[request[r].owner].identity],
                 (~writing /\ request[r].row = RowIn(version)) => stated = SaidBy(version, subject)
          PROVE  Underway(r)'
      BY <1>2, <1>3, <2>1, <2>3 DEF Underway
    <2> QED BY <2>2, <2>3, ReadBesideDoes
  <1>5. request'[r].pc \in AskingNow /\ request[r].pc \in AskingNow
    BY ReadBesideDoes DEF AskingNow
  <1>6. Whole(Raised)
    BY DEF Whole
  <1> QED BY <1>1, <1>4, <1>5, <1>6, ReadBesideDoes, LookKeeps

LEMMA VerifyKeeps ==
    ASSUME ShapeInv, WholeInv, NEW r \in Requests, Verify(r)
    PROVE  ShapeInv' /\ WholeInv'
  <1>1. /\ Looks(r) /\ provider' = provider
        /\ request[r].pc = "verify" /\ request'[r].pc = "settle"
        /\ request'[r].answers = request[r].answers
        /\ request'[r].before = request[r].before /\ request'[r].found = request[r].found
        /\ request'[r].fresh = Digest
    BY VerifyDoes
  <1>2. Digest \in Nat /\ Digest' = Digest /\ version' = version /\ subject' = subject
    BY <1>1, DigestIs, FileStays DEF Looks, Moves
  <1>3. ~writing => version \in 1..version /\ Digest = 2 * version
    BY DEF ShapeInv, Digest
  <1>4. Underway(r)'
    BY <1>1, <1>2, <1>3 DEF WholeInv, Underway
  <1>5. request'[r].pc \in AskingNow /\ request[r].pc \in AskingNow
    BY <1>1 DEF AskingNow
  <1> QED BY <1>1, <1>4, <1>5, LookKeeps

LEMMA SettleKeeps ==
    ASSUME ShapeInv, WholeInv, NEW r \in Requests, Settle(r)
    PROVE  ShapeInv' /\ WholeInv'
  <1> DEFINE o == request[r].owner
             held == request[r].before = request[r].fresh
             found == request[r].found
  <1>1. /\ Looks(r) /\ request[r].pc = "settle"
        /\ Opened(o) /\ DOMAIN provider'[o] = Parts
        /\ provider'[o].identity = request[r].fresh
        /\ provider'[o].facts =
              IF ~held THEN None ELSE IF found # None THEN found ELSE provider[o].facts
        /\ \A p \in Requests \ {o} : provider'[p] = provider[p]
        /\ \/ /\ request'[r].pc = "ask" /\ held
              /\ request'[r].answers = Append(request[r].answers, found)
           \/ /\ request'[r].pc = "ask"
              /\ request'[r].answers = Append(request[r].answers, None)
           \/ /\ request'[r].pc = "read"
              /\ request'[r].answers = request[r].answers
    BY SettleDoes
  <1>2. held /\ found # None => found \in AnyFigure /\ Whole(found)
    <2> SUFFICES ASSUME held, found # None PROVE found \in AnyFigure /\ Whole(found)
      OBVIOUS
    <2>1. /\ found = [stated |-> found.stated, cites |-> found.cites] /\ found.cites \in Nat
      BY <1>1 DEF WholeInv, Underway
    <2>2. version \in Nat /\ subject \in Subjects
            /\ \E v \in 1..version : found.stated = SaidBy(v, subject)
      BY <1>1 DEF ShapeInv, WholeInv, Underway
    <2>3. found \in AnyFigure
      BY <2>1, <2>2 DEF AnyFigure
    <2> QED BY <2>1, <2>2, <2>3 DEF Whole
  <1>3. provider[o].facts # None => provider[o].facts \in AnyFigure /\ Whole(provider[o].facts)
    <2>1. o \in Requests
      BY <1>1 DEF Opened
    <2> QED BY <1>1, <2>1 DEF WholeInv, FactsWhole
  <1>4. Underway(r)'
    BY <1>1 DEF Underway
  <1>5. request'[r].pc \in AskingNow /\ request[r].pc \in AskingNow
    BY <1>1 DEF AskingNow
  <1>6. \A p \in Requests :
               \/ provider'[p] = provider[p]
               \/ /\ Opened(p) /\ DOMAIN provider'[p] = Parts
                  /\ provider'[p].identity \in Nat /\ provider'[p].identity <= Digest
                  /\ provider'[p].facts # None =>
                        provider'[p].facts \in AnyFigure /\ Whole(provider'[p].facts)
    <2>1. request[r].fresh \in Nat /\ request[r].fresh <= Digest
      BY <1>1 DEF WholeInv, Underway
    <2>2. provider'[o].facts # None =>
             provider'[o].facts \in AnyFigure /\ Whole(provider'[o].facts)
      BY <1>1, <1>2, <1>3
    <2>3. provider'[o].identity \in Nat /\ provider'[o].identity <= Digest
      BY <1>1, <2>1
    <2> QED BY <1>1, <2>2, <2>3
  <1>7. \/ request'[r].answers = request[r].answers
        \/ \E a \in AnyFigure \cup {None, Raised} :
              Whole(a) /\ request'[r].answers = Append(request[r].answers, a)
    <2>1. Whole(None)
      BY DEF Whole
    <2>2. CASE held /\ request'[r].answers = Append(request[r].answers, found)
      <3>1. found \in AnyFigure \cup {None, Raised} /\ Whole(found)
        BY <1>2, <2>1, <2>2
      <3> QED BY <2>2, <3>1
    <2> QED BY <1>1, <2>1, <2>2
  <1> QED BY <1>1, <1>4, <1>5, <1>6, <1>7, LookKeeps

-----------------------------------------------------------------------------
(* The other steps; those of a request that opens a provider keep the      *)
(* citations as well, whoever looks up.                                    *)

LEMMA MoveKeeps ==
    ASSUME ShapeInv, WholeInv, NEW r \in Requests, Moves(r), DOMAIN provider' = Requests,
           \A p \in Requests : Opened(p) => Opened(p)',
           (cached # None => Opened(cached.owner))',
           (request[r].pc = "publish" => Unpublished(r))',
           (request[r].pc = "ask" => Opened(request[r].owner))',
           \A s \in Requests \ {r} : request[s].pc = "publish" => Unpublished(s)',
           request'[r].pc \notin AskingNow \ {"ask"},
           request'[r].answers = request[r].answers,
           request[r].pc \in {"start", "open", "publish"},
           \A p \in Requests : Opened(p) => provider'[p].identity = provider[p].identity,
           \A p \in Requests : (Opened(p)' /\ provider'[p].facts # None) =>
               Opened(p) /\ provider'[p].facts = provider[p].facts
    PROVE  ShapeInv' /\ WholeInv' /\ (CiteInv => CiteInv')
  <1>1. ShapeInv'
    <2>1. ASSUME NEW s \in Requests PROVE Shaped(s)'
      <3>1. CASE s = r
        <4>1. (request[r].pc \in AskingNow => Opened(request[r].owner))'
          BY DEF AskingNow
        <4> QED BY <3>1, <4>1 DEF Shaped, ShapeInv, Moves, AnyFigure
      <3>2. CASE s # r
        <4>1. request'[s] = request[s] /\ Shaped(s)
          BY <3>2 DEF Moves, ShapeInv
        <4>2. (request[s].pc \in AskingNow => Opened(request[s].owner))'
          <5> SUFFICES ASSUME request[s].pc \in AskingNow PROVE Opened(request[s].owner)'
            BY <4>1 DEF AskingNow
          <5>1. Opened(request[s].owner) /\ request[s].owner \in Requests
            BY <4>1 DEF Shaped, Opened
          <5> QED BY <4>1, <5>1 DEF Opened
        <4> QED BY <4>1, <4>2 DEF Shaped, AnyFigure
      <3> QED BY <3>1, <3>2
    <2> QED BY <2>1 DEF ShapeInv, Moves
  <1>2. WholeInv'
    <2>1. ASSUME NEW s \in Requests PROVE AnswersWhole(s)' /\ Underway(s)'
      <3>1. CASE s = r
        <4>1. AnswersWhole(r)'
          BY DEF WholeInv, AnswersWhole, Moves, Whole
        <4>2. Underway(r)'
          BY DEF Underway, AskingNow
        <4> QED BY <3>1, <4>1, <4>2
      <3> QED BY <3>1, OthersStay
    <2>2. ASSUME NEW s \in Requests PROVE FactsWhole(s)'
      <3> SUFFICES ASSUME Opened(s)', provider'[s].facts # None
                   PROVE  provider'[s].facts \in AnyFigure /\ Whole(provider'[s].facts)
        BY DEF FactsWhole, AnyFigure, Whole, Moves
      <3>1. Opened(s) /\ provider'[s].facts = provider[s].facts
        OBVIOUS
      <3>2. provider[s].facts \in AnyFigure /\ Whole(provider[s].facts)
        BY <3>1 DEF WholeInv, FactsWhole
      <3> QED BY <3>1, <3>2 DEF Whole, Moves
    <2> QED BY <2>1, <2>2 DEF WholeInv
  <1>3. CiteInv => CiteInv'
    <2> SUFFICES ASSUME CiteInv, NEW s \in Requests
                 PROVE  AnswersCited(s)' /\ FactsCited(s)' /\ CitedUnderway(s)'
      BY DEF CiteInv
    <2>1. AnswersCited(s) /\ FactsCited(s) /\ CitedUnderway(s)
      BY DEF CiteInv
    <2>2. request'[s].answers = request[s].answers
      BY DEF Moves
    <2>3. AnswersCited(s)'
      BY <2>1, <2>2 DEF AnswersCited, Cited, Moves
    <2>4. FactsCited(s)'
      <3> SUFFICES ASSUME Opened(s)', provider'[s].facts # None
                   PROVE  Cited(provider'[s].facts)
                            /\ provider'[s].facts.cites = provider'[s].identity
        BY DEF FactsCited, Cited, Moves
      <3> QED BY <2>1 DEF FactsCited
    <2>5. CitedUnderway(s)'
      <3>1. CASE s = r
        <4>1. request[r].answers = <<>>
          BY <2>1, <3>1 DEF CitedUnderway
        <4> QED BY <3>1, <4>1 DEF CitedUnderway, AskingNow
      <3>2. CASE s # r
        <4>1. request'[s] = request[s] /\ version' = version
          BY <3>2 DEF Moves
        <4>2. request[s].pc \in AskingNow => Identity(s)' = Identity(s)
          BY <4>1 DEF ShapeInv, Shaped, Opened, Identity
        <4> QED BY <2>1, <4>1, <4>2 DEF CitedUnderway, AskingNow
      <3> QED BY <3>1, <3>2
    <2> QED BY <2>3, <2>4, <2>5
  <1> QED BY <1>1, <1>2, <1>3

LEMMA FindKeeps ==
    ASSUME ShapeInv, WholeInv, NEW r \in Requests, Find(r)
    PROVE  ShapeInv' /\ WholeInv' /\ (CiteInv => CiteInv')
  <1>1. /\ Moves(r) /\ cached' = cached /\ provider' = provider
        /\ request[r].pc = "start" /\ request'[r].answers = request[r].answers
        /\ \/ request'[r].pc = "open"
           \/ request'[r].pc = "ask" /\ cached # None /\ request'[r].owner = cached.owner
    BY FindDoes
  <1>2. \A p \in Requests : Opened(p) => Opened(p)'
    <2> SUFFICES ASSUME NEW p \in Requests, Opened(p) PROVE Opened(p)'
      OBVIOUS
    <2>1. p # r
      BY <1>1 DEF Opened, Owns, AskingNow
    <2> QED BY <1>1, <2>1, OpenedStays DEF Opened
  <1>3. cached # None => cached.owner \in Requests /\ Opened(cached.owner) /\ cached.owner # r
    BY <1>1 DEF ShapeInv, Opened, Owns, AskingNow
  <1>4. (cached # None => Opened(cached.owner))'
    BY <1>1, <1>2, <1>3 DEF Opened
  <1>5. (request[r].pc = "ask" => Opened(request[r].owner))'
    BY <1>1, <1>2, <1>3 DEF Opened
  <1>6. \A p \in Requests : (Opened(p)' /\ provider'[p].facts # None) =>
               Opened(p) /\ provider'[p].facts = provider[p].facts
    <2> SUFFICES ASSUME NEW p \in Requests, Opened(p)' PROVE Opened(p)
      BY <1>1
    <2>1. p # r
      BY <1>1, <1>3 DEF Opened, Owns, AskingNow
    <2> QED BY <1>1, <2>1, FileStays DEF Opened, Owns, Moves
  <1>7. request'[r].pc \notin AskingNow \ {"ask"} /\ request'[r].pc # "publish"
    BY <1>1 DEF AskingNow
  <1>8. DOMAIN provider' = Requests /\ (request[r].pc = "publish" => Unpublished(r))'
    BY <1>1, <1>7 DEF ShapeInv
  <1>9. \A s \in Requests \ {r} : request[s].pc = "publish" => Unpublished(s)'
    BY <1>1, FileStays DEF ShapeInv, Shaped, Unpublished
  <1> QED BY <1>1, <1>2, <1>4, <1>5, <1>6, <1>7, <1>8, <1>9, MoveKeeps

LEMMA OpenKeeps ==
    ASSUME ShapeInv, WholeInv, NEW r \in Requests, OpenFile(r)
    PROVE  ShapeInv' /\ WholeInv' /\ (CiteInv => CiteInv')
  <1>1. /\ Moves(r) /\ cached' = cached /\ DOMAIN provider' = Requests
        /\ request[r].pc = "open" /\ request'[r].answers = request[r].answers
        /\ \A o \in Requests \ {r} : provider'[o] = provider[o]
        /\ \/ request'[r].pc = "done"
           \/ request'[r].pc = "publish" /\ provider'[r] = NewProvider(Digest)
    BY OpenDoes
  <1>2. \A p \in Requests : Opened(p) => Opened(p)'
    <2> SUFFICES ASSUME NEW p \in Requests, Opened(p) PROVE Opened(p)'
      OBVIOUS
    <2>1. p # r
      BY <1>1 DEF Opened, Owns, AskingNow
    <2> QED BY <1>1, <2>1, OpenedStays DEF Opened
  <1>4. (cached # None => Opened(cached.owner))'
    <2>1. cached # None => cached.owner \in Requests /\ Opened(cached.owner)
      BY DEF ShapeInv, Opened
    <2> QED BY <1>1, <1>2, <2>1 DEF Opened
  <1>5. (request[r].pc = "publish" => Unpublished(r))'
    <2>1. Digest \in Nat /\ Digest' = Digest
      BY <1>1, DigestIs, FileStays
    <2> QED BY <1>1, <2>1 DEF Unpublished, NewProvider, Parts
  <1>6. \A p \in Requests : (Opened(p)' /\ provider'[p].facts # None) =>
               Opened(p) /\ provider'[p].facts = provider[p].facts
    <2> SUFFICES ASSUME NEW p \in Requests, Opened(p)', provider'[p].facts # None
                 PROVE Opened(p) /\ provider'[p].facts = provider[p].facts
      OBVIOUS
    <2>1. p # r
      <3>1. CASE request'[r].pc = "done"
        BY <3>1 DEF Opened, Owns, AskingNow
      <3>2. CASE provider'[r] = NewProvider(Digest)
        BY <3>2 DEF NewProvider
      <3> QED BY <1>1, <3>1, <3>2
    <2> QED BY <1>1, <2>1, FileStays DEF Opened, Owns, Moves
  <1>7. request'[r].pc \notin AskingNow
    BY <1>1 DEF AskingNow
  <1>8. (request[r].pc = "ask" => Opened(request[r].owner))'
    BY <1>7 DEF AskingNow
  <1>9. \A s \in Requests \ {r} : request[s].pc = "publish" => Unpublished(s)'
    BY <1>1, FileStays DEF ShapeInv, Shaped, Unpublished
  <1>10. \A p \in Requests : Opened(p) => provider'[p].identity = provider[p].identity
    BY <1>1 DEF Opened, Owns, AskingNow
  <1> QED BY <1>1, <1>2, <1>4, <1>5, <1>6, <1>7, <1>8, <1>9, <1>10, MoveKeeps

LEMMA PublishKeeps ==
    ASSUME ShapeInv, WholeInv, NEW r \in Requests, Publish(r)
    PROVE  ShapeInv' /\ WholeInv' /\ (CiteInv => CiteInv')
  <1>1. /\ Moves(r) /\ DOMAIN provider' = Requests
        /\ request[r].pc = "publish" /\ request'[r].answers = request[r].answers
        /\ \A o \in Requests : Kept(o)
        /\ request'[r].pc = "ask"
        /\ \/ cached # None /\ cached' = cached /\ request'[r].owner = cached.owner
           \/ cached'.owner = r /\ request'[r].owner = r
    BY PublishDoes
  <1>2. Digest' = Digest
    BY <1>1, FileStays
  <1>3. \A p \in Requests \ {r} : Opened(p) <=> Opened(p)'
    <2> SUFFICES ASSUME NEW p \in Requests \ {r} PROVE Opened(p) <=> Opened(p)'
      OBVIOUS
    <2>1. Owns(p) <=> Owns(p)'
      BY <1>1 DEF Owns, Moves
    <2>2. DOMAIN provider'[p] = DOMAIN provider[p]
          /\ (DOMAIN provider[p] = Parts => provider'[p].identity = provider[p].identity)
      BY <1>1 DEF Kept
    <2> QED BY <1>2, <2>1, <2>2 DEF Opened
  <1>4. ~Opened(r)
    BY <1>1 DEF Opened, Owns, AskingNow
  <1>5. Unpublished(r)
    BY <1>1 DEF ShapeInv, Shaped
  <1>6. /\ DOMAIN provider'[r] = Parts /\ provider'[r].identity \in Nat
        /\ provider'[r].identity <= Digest /\ provider'[r].facts = None
    BY <1>1, <1>5 DEF Kept, Unpublished
  <1>7. request'[r].owner = r => Opened(r)'
    BY <1>1, <1>2, <1>6 DEF Opened, Owns, AskingNow
  <1>8. cached # None => cached.owner \in Requests \ {r} /\ Opened(cached.owner)
    BY <1>4 DEF ShapeInv, Opened
  <1>9. (cached # None => Opened(cached.owner))'
    BY <1>1, <1>3, <1>7, <1>8 DEF Opened
  <1>10. (request[r].pc = "ask" => Opened(request[r].owner))'
    BY <1>1, <1>3, <1>7, <1>8 DEF Opened
  <1>11. \A p \in Requests : (Opened(p)' /\ provider'[p].facts # None) =>
               Opened(p) /\ provider'[p].facts = provider[p].facts
    BY <1>1, <1>3, <1>6 DEF Opened, Kept
  <1>12. \A s \in Requests \ {r} : request[s].pc = "publish" => Unpublished(s)'
    <2> SUFFICES ASSUME NEW s \in Requests \ {r}, request[s].pc = "publish"
                 PROVE  Unpublished(s)'
      OBVIOUS
    <2>1. Unpublished(s)
      BY DEF ShapeInv, Shaped
    <2> QED BY <1>1, <1>2, <2>1 DEF Unpublished, Kept
  <1>13. request'[r].pc \notin AskingNow \ {"ask"} /\ request'[r].pc # "publish"
    BY <1>1 DEF AskingNow
  <1>14. (request[r].pc = "publish" => Unpublished(r))'
    BY <1>13
  <1>15. \A p \in Requests : Opened(p) => provider'[p].identity = provider[p].identity
    BY <1>1 DEF Opened, Kept
  <1> QED
    BY <1>1, <1>3, <1>4, <1>9, <1>10, <1>11, <1>12, <1>13, <1>14, <1>15, MoveKeeps

LEMMA ClearKeeps ==
    ASSUME ShapeInv, WholeInv, ClearCache
    PROVE  ShapeInv' /\ WholeInv'
  <1>1. /\ cached' = None /\ version' = version /\ writing' = writing
        /\ request' = request /\ subject' = subject
        /\ DOMAIN provider' = Requests /\ \A o \in Requests : Kept(o)
    BY CloseKeeps DEF ClearCache
  <1>2. Digest' = Digest
    BY <1>1 DEF Digest
  <1>3. \A p \in Requests : Opened(p) <=> Opened(p)'
    <2> SUFFICES ASSUME NEW p \in Requests PROVE Opened(p) <=> Opened(p)'
      OBVIOUS
    <2>1. Owns(p) <=> Owns(p)'
      BY <1>1 DEF Owns
    <2>2. DOMAIN provider'[p] = DOMAIN provider[p]
          /\ (DOMAIN provider[p] = Parts => provider'[p].identity = provider[p].identity)
      BY <1>1 DEF Kept
    <2> QED BY <1>2, <2>1, <2>2 DEF Opened
  <1>4. ASSUME NEW s \in Requests PROVE Shaped(s)'
    <2>1. Shaped(s)
      BY DEF ShapeInv
    <2>2. Unpublished(s) => Unpublished(s)'
      BY <1>1, <1>2 DEF Unpublished, Kept
    <2>3. request[s].pc \in AskingNow => Opened(request[s].owner)'
      <3>1. request[s].pc \in AskingNow =>
               request[s].owner \in Requests /\ Opened(request[s].owner)
        BY <2>1 DEF Shaped, Opened
      <3> QED BY <1>1, <1>3, <3>1 DEF Opened
    <2> QED BY <1>1, <2>1, <2>2, <2>3 DEF Shaped, AnyFigure
  <1>5. ASSUME NEW s \in Requests PROVE AnswersWhole(s)' /\ FactsWhole(s)' /\ Underway(s)'
    <2>1. AnswersWhole(s) /\ FactsWhole(s) /\ Underway(s)
      BY DEF WholeInv
    <2>2. AnswersWhole(s)'
      BY <1>1, <2>1 DEF AnswersWhole, Whole
    <2>3. Underway(s)'
      BY <1>1, <1>2, <2>1 DEF Underway, RowIn
    <2>4. FactsWhole(s)'
      <3> SUFFICES ASSUME Opened(s)', provider'[s].facts # None
                   PROVE  provider'[s].facts \in AnyFigure /\ Whole(provider'[s].facts)
        BY <1>1 DEF FactsWhole, AnyFigure, Whole
      <3>1. Opened(s) /\ provider'[s].facts = provider[s].facts
        BY <1>1, <1>3 DEF Opened, Kept
      <3> QED BY <2>1, <3>1 DEF FactsWhole
    <2> QED BY <2>2, <2>3, <2>4
  <1>6. ShapeInv'
    BY <1>1, <1>4 DEF ShapeInv
  <1>7. WholeInv'
    BY <1>5 DEF WholeInv
  <1> QED BY <1>6, <1>7

LEMMA WriteKeeps ==
    ASSUME ShapeInv, WholeInv, BeginWrite \/ EndWrite
    PROVE  ShapeInv' /\ WholeInv' /\ Digest' = Digest + 1
  <1>1. /\ cached' = cached /\ provider' = provider /\ request' = request /\ subject' = subject
        /\ version' \in Nat \ {0} /\ writing' \in BOOLEAN /\ version' >= version
    <2>1. version \in Nat \ {0}
      BY DEF ShapeInv
    <2>2. CASE BeginWrite
      <3>1. writing' \in BOOLEAN
        BY ONLY <2>2, Zenon DEF BeginWrite
      <3> QED BY <2>1, <2>2, <3>1 DEF BeginWrite
    <2>3. CASE EndWrite
      <3>1. writing' \in BOOLEAN
        BY ONLY <2>3, Zenon DEF EndWrite
      <3> QED BY <2>1, <2>3, <3>1 DEF EndWrite
    <2> QED BY <2>2, <2>3
  <1>2. Digest \in Nat /\ Digest' = Digest + 1
    BY DEF BeginWrite, EndWrite, ShapeInv, Digest
  <1>3. \A p \in Requests : Opened(p) => Opened(p)'
    BY <1>1, <1>2 DEF Opened, Owns
  <1>4. \A f : Whole(f) => Whole(f)'
    <2>1. version \in Nat /\ 1..version \subseteq 1..version'
      BY <1>1 DEF ShapeInv
    <2> QED BY <1>1, <2>1 DEF Whole
  <1>5. ASSUME NEW s \in Requests PROVE Shaped(s)'
    <2>1. Shaped(s)
      BY DEF ShapeInv
    <2>2. Unpublished(s) => Unpublished(s)'
      BY <1>1, <1>2 DEF Unpublished
    <2>3. request[s].pc \in AskingNow => Opened(request[s].owner)'
      <3>1. request[s].pc \in AskingNow =>
               request[s].owner \in Requests /\ Opened(request[s].owner)
        BY <2>1 DEF Shaped, Opened
      <3> QED BY <1>1, <1>3, <3>1 DEF Opened
    <2> QED BY <1>1, <2>1, <2>2, <2>3 DEF Shaped, AnyFigure
  <1>6. ASSUME NEW s \in Requests PROVE AnswersWhole(s)' /\ FactsWhole(s)' /\ Underway(s)'
    <2>1. AnswersWhole(s) /\ FactsWhole(s) /\ Underway(s)
      BY DEF WholeInv
    <2>2. AnswersWhole(s)'
      BY <1>1, <1>4, <2>1 DEF AnswersWhole, Whole
    <2>3. Underway(s)'
      <3>1. version \in Nat /\ 1..version \subseteq 1..version'
        BY <1>1 DEF ShapeInv
      <3>2. request'[s] = request[s] /\ subject' = subject
        BY <1>1
      <3>3. request[s].pc \in {"refresh", "settle"} =>
               request[s].fresh \in Nat /\ request[s].fresh <= Digest'
        BY <1>2, <2>1 DEF Underway
      <3>4. request[s].pc \in {"beside", "verify", "settle"} =>
               request[s].before \in Nat /\ request[s].before <= Digest' /\
                 (request[s].pc \in {"beside", "verify"} => request[s].before # Digest')
        BY <1>2, <2>1 DEF Underway
      <3>5. (request[s].pc = "settle" /\ request[s].found # None
               /\ request[s].before = request[s].fresh) =>
               \E v \in 1..version' :
                  request[s].fresh = 2 * v /\ request[s].found.stated = SaidBy(v, subject)
        BY <2>1, <3>1 DEF Underway
      <3> QED BY <2>1, <3>2, <3>3, <3>4, <3>5 DEF Underway
    <2>4. FactsWhole(s)'
      <3> SUFFICES ASSUME Opened(s)', provider[s].facts # None
                   PROVE  provider[s].facts \in AnyFigure /\ Whole(provider[s].facts)'
        BY <1>1 DEF FactsWhole, AnyFigure, Whole
      <3>1. Opened(s)
        <4>1. DOMAIN provider[s] = Parts /\ Owns(s)
          BY <1>1 DEF Opened, Owns
        <4>2. request[s].pc \in AskingNow /\ request[s].owner = s
          BY <4>1 DEF Owns
        <4> QED BY <4>2 DEF ShapeInv, Shaped
      <3>2. provider[s].facts \in AnyFigure /\ Whole(provider[s].facts)
        BY <2>1, <3>1 DEF FactsWhole
      <3> QED BY <1>1, <1>4, <3>2 DEF Whole
    <2> QED BY <2>2, <2>3, <2>4
  <1>7. (cached # None => Opened(cached.owner))'
    <2>1. cached # None => cached.owner \in Requests /\ Opened(cached.owner)
      BY DEF ShapeInv, Opened
    <2> QED BY <1>1, <1>3, <2>1 DEF Opened
  <1>8. ShapeInv'
    BY <1>1, <1>5, <1>7 DEF ShapeInv
  <1>9. WholeInv'
    BY <1>6 DEF WholeInv
  <1> QED BY <1>2, <1>8, <1>9

LEMMA InitWhole == RulesetInit => ShapeInv /\ WholeInv
  <1> SUFFICES ASSUME RulesetInit PROVE ShapeInv /\ WholeInv
    OBVIOUS
  <1>1. \A r \in Requests : request[r] = Waiting
    BY DEF RulesetInit
  <1>2. ASSUME NEW r \in Requests PROVE Shaped(r)
    <2>1. <<>> \in Seq(AnyFigure \cup {None, Raised})
      BY EmptySeq
    <2>2. request[r].pc = "start" /\ DOMAIN request[r] = Fields /\ request[r].answers = <<>>
      BY <1>1 DEF Waiting, Fields
    <2> QED BY <2>1, <2>2 DEF Shaped, AskingNow
  <1>3. ASSUME NEW r \in Requests PROVE AnswersWhole(r) /\ FactsWhole(r) /\ Underway(r)
    <2>1. request[r].pc = "start" /\ DOMAIN request[r].answers = {}
      BY <1>1 DEF Waiting
    <2>2. ~Opened(r)
      BY <2>1 DEF Opened, Owns, AskingNow
    <2> QED BY <2>1, <2>2 DEF AnswersWhole, FactsWhole, Underway
  <1>4. ShapeInv
    <2>1. /\ version = 1 /\ writing = FALSE /\ cached = None /\ subject \in Subjects
          /\ DOMAIN request = Requests /\ DOMAIN provider = Requests
      BY DEF RulesetInit
    <2>2. writing \in BOOLEAN
      BY ONLY <2>1, Zenon
    <2>3. version \in Nat \ {0}
      BY <2>1
    <2> QED BY ONLY <1>2, <2>1, <2>2, <2>3, Zenon DEF ShapeInv
  <1>5. WholeInv
    BY <1>3 DEF WholeInv
  <1> QED BY <1>4, <1>5

LEMMA StutterKeeps ==
    ASSUME ShapeInv, WholeInv, UNCHANGED rlvars
    PROVE  ShapeInv' /\ WholeInv'
  <1>1. Digest' = Digest
    BY DEF rlvars, Digest
  <1>2. ShapeInv'
    <2>1. /\ version' = version /\ writing' = writing /\ cached' = cached
          /\ provider' = provider /\ request' = request /\ subject' = subject
      BY DEF rlvars
    <2>2. \A o : Opened(o) <=> Opened(o)'
      BY <1>1, <2>1 DEF Opened, Owns
    <2>3. \A r \in Requests : Shaped(r)'
      <3> SUFFICES ASSUME NEW r \in Requests PROVE Shaped(r)'
        OBVIOUS
      <3>1. Shaped(r)
        BY DEF ShapeInv
      <3>2. Unpublished(r) <=> Unpublished(r)'
        BY <1>1, <2>1 DEF Unpublished
      <3> QED BY <2>1, <2>2, <3>1, <3>2 DEF Shaped, AnyFigure
    <2> QED BY <2>1, <2>2, <2>3 DEF ShapeInv
  <1>3. WholeInv'
    BY <1>1 DEF rlvars, WholeInv, AnswersWhole, FactsWhole, Underway, Whole, Opened, Owns,
                AnyFigure, RowIn
  <1> QED BY <1>2, <1>3

LEMMA StepsKeep ==
    ASSUME ShapeInv, WholeInv, [RulesetNext]_rlvars
    PROVE  ShapeInv' /\ WholeInv'
  BY FindKeeps, OpenKeeps, PublishKeeps, AskKeeps, IdentifyKeeps, RefreshKeeps, RecallKeeps,
     ReadRowKeeps, ReadBesideKeeps, VerifyKeeps, SettleKeeps, ClearKeeps, WriteKeeps, StutterKeeps
  DEF RulesetNext

(* A figure is what one state of the file says, never a row of one and the *)
(* yields of another, however many lookups share the provider.             *)
FiguresAreWhole ==
    \A r \in Requests : \A f \in Served(r) :
        \E v \in 1..version : f.stated = SaidBy(v, subject)

(* _read_verified, for any number of lookups that interleave, writes that  *)
(* do not change size or time, and providers closed under their readers.   *)
THEOREM FiguresOfOneVersion == RulesetSpec => []FiguresAreWhole
  <1>1. ShapeInv /\ WholeInv => FiguresAreWhole
    <2> SUFFICES ASSUME ShapeInv, WholeInv, NEW r \in Requests, NEW f \in Served(r)
                 PROVE  \E v \in 1..version : f.stated = SaidBy(v, subject)
      BY DEF FiguresAreWhole
    <2>1. PICK i \in DOMAIN request[r].answers : f = request[r].answers[i]
      BY DEF Served, Range
    <2> QED BY <2>1 DEF WholeInv, AnswersWhole, Whole, Served
  <1>2. ShapeInv /\ WholeInv /\ [RulesetNext]_rlvars => (ShapeInv /\ WholeInv)'
    BY StepsKeep
  <1> QED BY <1>1, <1>2, InitWhole, PTL DEF RulesetSpec

-----------------------------------------------------------------------------
(* The citations, as long as no older identity has been put back.          *)

LEMMA LookCites ==
    ASSUME ShapeInv, WholeInv, CiteInv, NEW r \in Requests, Looks(r),
           request[r].pc \in AskingNow, request'[r].pc \in AskingNow,
           \A p \in Requests :
               \/ provider'[p] = provider[p]
               \/ /\ provider'[p].identity \in Nat
                  /\ provider'[p].identity >= provider[p].identity
                  /\ provider'[p].facts # None =>
                        Cited(provider'[p].facts)
                          /\ provider'[p].facts.cites = provider'[p].identity,
           \/ request'[r].answers = request[r].answers
           \/ \E a \in AnyFigure \cup {None, Raised} :
                 Cited(a) /\ request'[r].answers = Append(request[r].answers, a),
           CitedUnderway(r)'
    PROVE  CiteInv'
  <1>0. /\ Moves(r) /\ Digest' = Digest /\ version' = version /\ subject' = subject
    BY FileStays DEF Looks, Moves
  <1>1. ASSUME NEW s \in Requests PROVE AnswersCited(s)'
    <2>0. AnswersCited(s) /\ AnswersCited(r)
      BY <1>0 DEF CiteInv
    <2>1. CASE request'[s].answers = request[s].answers
      BY <1>0, <2>0, <2>1 DEF AnswersCited, Cited
    <2>2. ASSUME NEW a \in AnyFigure \cup {None, Raised}, Cited(a),
                 request'[r].answers = Append(request[r].answers, a)
          PROVE  AnswersCited(r)'
      <3>1. \A i \in DOMAIN request'[r].answers :
               \/ i \in DOMAIN request[r].answers
                    /\ request'[r].answers[i] = request[r].answers[i]
               \/ request'[r].answers[i] = a
        BY <1>0, <2>2, AnswersGrow
      <3>2. ASSUME NEW i \in DOMAIN request'[r].answers PROVE Cited(request[r].answers[i])'
        <4>1. CASE i \in DOMAIN request[r].answers /\ request'[r].answers[i] = request[r].answers[i]
          <5>1. Cited(request[r].answers[i])
            BY <2>0, <4>1 DEF AnswersCited
          <5> QED BY <1>0, <4>1, <5>1 DEF Cited
        <4>2. CASE request'[r].answers[i] = a
          BY <1>0, <2>2, <4>2 DEF Cited
        <4> QED BY <3>1, <4>1, <4>2
      <3> QED BY <3>2 DEF AnswersCited
    <2> QED BY <1>0, <2>1, <2>2 DEF Moves
  <1>2. ASSUME NEW s \in Requests PROVE FactsCited(s)'
    <2> SUFFICES ASSUME Opened(s)', provider'[s].facts # None
                 PROVE  Cited(provider'[s].facts)
                          /\ provider'[s].facts.cites = provider'[s].identity
      BY <1>0 DEF FactsCited, Cited
    <2>1. CASE provider'[s] = provider[s]
      <3>1. Owns(s) <=> Owns(s)'
        BY <1>0 DEF Owns, Looks, Moves
      <3>2. Opened(s)
        BY <1>0, <2>1, <3>1 DEF Opened
      <3> QED BY <2>1, <3>2 DEF CiteInv, FactsCited
    <2> QED BY <2>1
  <1>3. ASSUME NEW s \in Requests PROVE CitedUnderway(s)'
    <2>1. CASE s # r
      <3>1. request'[s] = request[s] /\ CitedUnderway(s)
        BY <1>0, <2>1 DEF Moves, CiteInv
      <3>2. request[s].pc \in AskingNow =>
               Identity(s) \in Nat /\ Identity(s)' \in Nat /\ Identity(s)' >= Identity(s)
        <4> SUFFICES ASSUME request[s].pc \in AskingNow
                     PROVE  Identity(s) \in Nat /\ Identity(s)' \in Nat /\ Identity(s)' >= Identity(s)
          OBVIOUS
        <4>1. request[s].owner \in Requests /\ Identity(s) \in Nat
          BY DEF ShapeInv, Shaped, Opened, Identity
        <4> QED BY <3>1, <4>1 DEF Identity
      <3>3. Underway(s)
        BY DEF WholeInv
      <3>4. request'[s].pc \in {"beside", "verify", "settle"} =>
               request'[s].before >= 2 * request'[s].began /\ request'[s].before <= Identity(s)'
        BY <3>1, <3>2, <3>3 DEF CitedUnderway, Underway, AskingNow
      <3>5. (request'[s].pc \in {"verify", "settle"} /\ request'[s].found # None) =>
               request'[s].found.cites >= request'[s].before
                 /\ request'[s].found.cites <= Identity(s)'
        BY <3>1, <3>2, <3>3 DEF CitedUnderway, Underway, AskingNow
      <3>6. request'[s].pc \in {"recall", "read"} => Identity(s)' >= 2 * request'[s].began
        BY <3>1, <3>2 DEF CitedUnderway, AskingNow
      <3> QED BY <1>0, <3>1, <3>4, <3>5, <3>6 DEF CitedUnderway
    <2> QED BY <2>1
  <1> QED BY <1>1, <1>2, <1>3 DEF CiteInv

LEMMA AskCites ==
    ASSUME ShapeInv, WholeInv, CiteInv, NEW r \in Requests, ReadVerified(r)
    PROVE  CiteInv'
  <1>1. /\ Looks(r) /\ provider' = provider
        /\ request[r].pc = "ask"
        /\ \/ /\ request'[r].pc = "ask"
              /\ request'[r].answers = Append(request[r].answers, None)
           \/ /\ request'[r].pc = "identify" /\ request'[r].answers = request[r].answers
              /\ request'[r].began = version
    BY AskDoes
  <1>2. CitedUnderway(r)'
    <2>1. CASE request'[r].pc = "ask" /\ request'[r].answers = Append(request[r].answers, None)
      <3>1. request'[r].answers[Len(request'[r].answers)] = None
        BY <2>1, AnswersGrow
      <3> QED BY <2>1, <3>1 DEF CitedUnderway
    <2>2. CASE request'[r].pc = "identify" /\ request'[r].began = version
      <3>1. version' = version /\ version \in Nat
        BY <1>1 DEF ShapeInv, Looks, Moves
      <3> QED BY <1>1, <2>2, <3>1 DEF CitedUnderway
    <2> QED BY <1>1, <2>1, <2>2
  <1>3. Cited(None) /\ request'[r].pc \in AskingNow /\ request[r].pc \in AskingNow
    BY <1>1 DEF Cited, AskingNow
  <1> QED BY <1>1, <1>2, <1>3, LookCites

LEMMA IdentifyCites ==
    ASSUME ShapeInv, WholeInv, CiteInv, NEW r \in Requests, Identify(r)
    PROVE  CiteInv'
  <1>1. /\ Looks(r) /\ provider' = provider
        /\ request[r].pc = "identify" /\ request'[r].pc = "refresh"
        /\ request'[r].answers = request[r].answers /\ request'[r].began = request[r].began
        /\ request'[r].fresh = Digest
    BY IdentifyDoes
  <1>2. request'[r].pc \in AskingNow /\ request[r].pc \in AskingNow \ {"ask"}
    BY <1>1 DEF AskingNow
  <1>3. request[r].began \in Nat /\ request[r].began <= version
    BY <1>2 DEF CiteInv, CitedUnderway
  <1>4. version' = version /\ version \in Nat /\ Digest \in Nat /\ Digest >= 2 * version
    BY <1>1 DEF ShapeInv, Looks, Moves, Digest
  <1>5. CitedUnderway(r)'
    BY <1>1, <1>3, <1>4 DEF CitedUnderway
  <1> QED BY <1>1, <1>2, <1>3, <1>5, LookCites

LEMMA RefreshCites ==
    ASSUME ShapeInv, WholeInv, CiteInv, NEW r \in Requests, Refresh(r), ~putBack'
    PROVE  CiteInv'
  <1> DEFINE o == request[r].owner
  <1>1. /\ Looks(r) /\ request[r].pc = "refresh" /\ request'[r].pc = "recall"
        /\ request'[r].began = request[r].began /\ request'[r].answers = request[r].answers
        /\ Opened(o) /\ provider'[o].identity = request[r].fresh
        /\ provider'[o].facts =
              IF provider[o].identity = request[r].fresh THEN provider[o].facts ELSE None
        /\ \A p \in Requests \ {o} : provider'[p] = provider[p]
        /\ ~(request[r].fresh < provider[o].identity)
    BY RefreshDoes
  <1>2. request'[r].pc \in AskingNow /\ request[r].pc \in AskingNow \ {"ask"}
    BY <1>1 DEF AskingNow
  <1>3. /\ request[r].began \in Nat /\ request[r].began <= version
        /\ request[r].fresh >= 2 * request[r].began
    BY <1>1, <1>2 DEF CiteInv, CitedUnderway
  <1>4. o \in Requests /\ provider[o].identity \in Nat /\ request[r].fresh \in Nat
    BY <1>1 DEF Opened, WholeInv, Underway
  <1>5. provider'[o].facts # None =>
           Cited(provider'[o].facts) /\ provider'[o].facts.cites = provider'[o].identity
    BY <1>1, <1>4 DEF CiteInv, FactsCited
  <1>6. CitedUnderway(r)'
    <2>1. version' = version /\ Identity(r)' = request[r].fresh
      BY <1>1 DEF Looks, Moves, Identity
    <2> QED BY <1>1, <1>3, <2>1 DEF CitedUnderway
  <1>7. provider'[o].identity \in Nat /\ provider'[o].identity >= provider[o].identity
    BY <1>1, <1>4
  <1>8. \A p \in Requests :
               \/ provider'[p] = provider[p]
               \/ /\ provider'[p].identity \in Nat
                  /\ provider'[p].identity >= provider[p].identity
                  /\ provider'[p].facts # None =>
                        Cited(provider'[p].facts)
                          /\ provider'[p].facts.cites = provider'[p].identity
    BY <1>1, <1>5, <1>7
  <1> QED BY <1>1, <1>2, <1>6, <1>8, LookCites

LEMMA RecallCites ==
    ASSUME ShapeInv, WholeInv, CiteInv, NEW r \in Requests, Recall(r)
    PROVE  CiteInv'
  <1> DEFINE o == request[r].owner
             facts == provider[o].facts
  <1>1. /\ Looks(r) /\ provider' = provider
        /\ request[r].pc = "recall" /\ request'[r].began = request[r].began
        /\ \/ /\ request'[r].pc = "ask" /\ facts # None
              /\ request'[r].answers = Append(request[r].answers, facts)
           \/ request'[r].pc = "read" /\ request'[r].answers = request[r].answers
    BY RecallDoes
  <1>2. request'[r].pc \in AskingNow /\ request[r].pc \in AskingNow \ {"ask"}
    BY <1>1 DEF AskingNow
  <1>3. /\ request[r].began \in Nat /\ request[r].began <= version
        /\ provider[o].identity >= 2 * request[r].began
    BY <1>1, <1>2 DEF CiteInv, CitedUnderway, Identity
  <1>4. Opened(o) /\ o \in Requests
    BY <1>2 DEF ShapeInv, Shaped, Opened
  <1>5. facts # None => /\ facts \in AnyFigure /\ Cited(facts)
                        /\ facts.cites = provider[o].identity
    BY <1>4 DEF CiteInv, FactsCited, WholeInv, FactsWhole
  <1>6. version' = version /\ request'[r].owner = o
    BY <1>1 DEF Looks, Moves
  <1> HIDE DEF facts
  <1>7. CitedUnderway(r)'
    <2>1. CASE request'[r].pc = "ask" /\ facts # None
                 /\ request'[r].answers = Append(request[r].answers, facts)
      <3>1. request'[r].answers[Len(request'[r].answers)] = facts
        BY <1>5, <2>1, AnswersGrow
      <3>2. facts.cites >= 2 * request'[r].began
        BY <1>1, <1>3, <1>5, <2>1
      <3> QED BY <2>1, <3>1, <3>2 DEF CitedUnderway
    <2>2. CASE request'[r].pc = "read"
      BY <1>1, <1>3, <1>6, <2>2 DEF CitedUnderway, Identity
    <2> QED BY <1>1, <2>1, <2>2
  <1>8. \/ request'[r].answers = request[r].answers
        \/ \E a \in AnyFigure \cup {None, Raised} :
              Cited(a) /\ request'[r].answers = Append(request[r].answers, a)
    BY <1>1, <1>5
  <1> QED BY <1>1, <1>2, <1>7, <1>8, LookCites

LEMMA ReadRowCites ==
    ASSUME ShapeInv, WholeInv, CiteInv, NEW r \in Requests, ReadRow(r)
    PROVE  CiteInv'
  <1>1. /\ Looks(r) /\ provider' = provider
        /\ request[r].pc = "read" /\ request'[r].began = request[r].began
        /\ \/ /\ request'[r].pc = "ask"
              /\ request'[r].answers = Append(request[r].answers, Raised)
           \/ /\ request'[r].answers = request[r].answers
              /\ request'[r].before = provider[request[r].owner].identity
              /\ request'[r].found = None
              /\ request'[r].pc \in {"verify", "beside"}
    BY ReadRowDoes
  <1>2. request'[r].pc \in AskingNow /\ request[r].pc \in AskingNow \ {"ask"}
    BY <1>1 DEF AskingNow
  <1>3. /\ request[r].began \in Nat /\ request[r].began <= version
        /\ Identity(r) \in Nat /\ Identity(r) >= 2 * request[r].began
    <2>1. Identity(r) \in Nat
      BY <1>2 DEF ShapeInv, Shaped, Opened, Identity
    <2> QED BY <1>1, <1>2, <2>1 DEF CiteInv, CitedUnderway
  <1>4. /\ version' = version /\ request'[r].owner = request[r].owner
        /\ Identity(r)' = Identity(r)
    BY <1>1 DEF Looks, Moves, Identity
  <1>5. CitedUnderway(r)'
    <2>1. CASE request'[r].pc = "ask" /\ request'[r].answers = Append(request[r].answers, Raised)
      <3>1. request'[r].answers[Len(request'[r].answers)] = Raised
        BY <2>1, AnswersGrow
      <3> QED BY <2>1, <3>1 DEF CitedUnderway
    <2>2. CASE request'[r].pc \in {"verify", "beside"} /\ request'[r].found = None
                 /\ request'[r].before = provider[request[r].owner].identity
      <3>1. request'[r].before = Identity(r)
        BY <2>2 DEF Identity
      <3> QED BY <1>1, <1>3, <1>4, <2>2, <3>1 DEF CitedUnderway
    <2> QED BY <1>1, <2>1, <2>2
  <1>6. Cited(Raised)
    BY DEF Cited
  <1> QED BY <1>1, <1>2, <1>3, <1>5, <1>6, LookCites

LEMMA ReadBesideCites ==
    ASSUME ShapeInv, WholeInv, CiteInv, NEW r \in Requests, ReadBeside(r)
    PROVE  CiteInv'
  <1>1. /\ Looks(r) /\ provider' = provider
        /\ request[r].pc = "beside" /\ request'[r].began = request[r].began
        /\ \/ /\ request'[r].pc = "ask"
              /\ request'[r].answers = Append(request[r].answers, Raised)
           \/ /\ request'[r].pc = "verify"
              /\ request'[r].answers = request[r].answers
              /\ request'[r].before = request[r].before
              /\ \/ request'[r].found = None
                 \/ request'[r].found.cites = provider[request[r].owner].identity
    <2>1. \A stated : request'[r].found =
                         [stated |-> stated, cites |-> provider[request[r].owner].identity] =>
                    request'[r].found.cites = provider[request[r].owner].identity
      OBVIOUS
    <2> QED BY <2>1, ReadBesideDoes
  <1>2. request'[r].pc \in AskingNow /\ request[r].pc \in AskingNow \ {"ask"}
    BY <1>1 DEF AskingNow
  <1>3. /\ request[r].began \in Nat /\ request[r].began <= version
        /\ request[r].before >= 2 * request[r].began /\ request[r].before <= Identity(r)
        /\ request[r].before \in Nat /\ Identity(r) \in Nat
    <2>1. Identity(r) \in Nat
      BY <1>2 DEF ShapeInv, Shaped, Opened, Identity
    <2> QED BY <1>1, <1>2, <2>1 DEF CiteInv, CitedUnderway, WholeInv, Underway
  <1>4. /\ version' = version /\ request'[r].owner = request[r].owner
        /\ Identity(r)' = Identity(r)
    BY <1>1 DEF Looks, Moves, Identity
  <1>5. CitedUnderway(r)'
    <2>1. CASE request'[r].pc = "ask" /\ request'[r].answers = Append(request[r].answers, Raised)
      <3>1. request'[r].answers[Len(request'[r].answers)] = Raised
        BY <2>1, AnswersGrow
      <3> QED BY <2>1, <3>1 DEF CitedUnderway
    <2>2. CASE /\ request'[r].pc = "verify" /\ request'[r].before = request[r].before
               /\ \/ request'[r].found = None
                  \/ request'[r].found.cites = provider[request[r].owner].identity
      <3>1. request'[r].found # None => request'[r].found.cites = Identity(r)
        BY <2>2 DEF Identity
      <3> QED BY <1>1, <1>3, <1>4, <2>2, <3>1 DEF CitedUnderway
    <2> QED BY <1>1, <2>1, <2>2
  <1>6. Cited(Raised)
    BY DEF Cited
  <1> QED BY <1>1, <1>2, <1>3, <1>5, <1>6, LookCites

LEMMA VerifyCites ==
    ASSUME ShapeInv, WholeInv, CiteInv, NEW r \in Requests, Verify(r)
    PROVE  CiteInv'
  <1>1. /\ Looks(r) /\ provider' = provider
        /\ request[r].pc = "verify" /\ request'[r].pc = "settle"
        /\ request'[r].began = request[r].began /\ request'[r].answers = request[r].answers
        /\ request'[r].before = request[r].before /\ request'[r].found = request[r].found
        /\ request'[r].fresh = Digest
    BY VerifyDoes
  <1>2. request'[r].pc \in AskingNow /\ request[r].pc \in AskingNow \ {"ask"}
    BY <1>1 DEF AskingNow
  <1>3. request[r].began \in Nat /\ request[r].began <= version
    BY <1>2 DEF CiteInv, CitedUnderway
  <1>4. /\ version' = version /\ version \in Nat /\ Digest \in Nat /\ Digest >= 2 * version
        /\ Identity(r)' = Identity(r)
    BY <1>1 DEF ShapeInv, Looks, Moves, Digest, Identity
  <1>5. CitedUnderway(r)'
    BY <1>1, <1>3, <1>4 DEF CiteInv, CitedUnderway
  <1> QED BY <1>1, <1>2, <1>5, LookCites

LEMMA SettleCites ==
    ASSUME ShapeInv, WholeInv, CiteInv, NEW r \in Requests, Settle(r), ~putBack'
    PROVE  CiteInv'
  <1> DEFINE o == request[r].owner
             held == request[r].before = request[r].fresh
             found == request[r].found
  <1>1. /\ Looks(r) /\ request[r].pc = "settle" /\ request'[r].began = request[r].began
        /\ Opened(o) /\ DOMAIN provider'[o] = Parts
        /\ provider'[o].identity = request[r].fresh
        /\ ~(request[r].fresh < provider[o].identity)
        /\ provider'[o].facts =
              IF ~held THEN None ELSE IF found # None THEN found ELSE provider[o].facts
        /\ \A p \in Requests \ {o} : provider'[p] = provider[p]
        /\ \/ /\ request'[r].pc = "ask" /\ held
              /\ request'[r].answers = Append(request[r].answers, found)
           \/ /\ request'[r].pc = "ask"
              /\ request'[r].answers = Append(request[r].answers, None)
           \/ /\ request'[r].pc = "read"
              /\ request'[r].answers = request[r].answers
    BY SettleDoes
  <1>2. request'[r].pc \in AskingNow /\ request[r].pc \in AskingNow \ {"ask"}
    BY <1>1 DEF AskingNow
  <1>3. /\ request[r].began \in Nat /\ request[r].began <= version
        /\ request[r].fresh >= 2 * request[r].began
        /\ request[r].before <= provider[o].identity
        /\ found # None =>
              found.cites >= request[r].before /\ found.cites <= provider[o].identity
    BY <1>1, <1>2 DEF CiteInv, CitedUnderway, Identity
  <1>4. /\ o \in Requests /\ version' = version /\ version \in Nat
        /\ request[r].fresh \in Nat /\ request[r].before \in Nat /\ provider[o].identity \in Nat
    BY <1>1 DEF Opened, Looks, Moves, ShapeInv, WholeInv, Underway
  <1>5. held => provider[o].identity = request[r].fresh
    BY <1>1, <1>3, <1>4
  <1>6. held /\ found # None =>
           found \in AnyFigure /\ Cited(found) /\ found.cites = request[r].fresh
    <2> SUFFICES ASSUME held, found # None
                 PROVE  found \in AnyFigure /\ Cited(found) /\ found.cites = request[r].fresh
      OBVIOUS
    <2>1. /\ found = [stated |-> found.stated, cites |-> found.cites] /\ found.cites \in Nat
          /\ subject \in Subjects
          /\ \E v \in 1..version : request[r].fresh = 2 * v /\ found.stated = SaidBy(v, subject)
      BY <1>1 DEF WholeInv, Underway, ShapeInv
    <2>2. found.cites = request[r].fresh
      BY <1>3, <1>4, <1>5, <2>1
    <2>3. found \in AnyFigure
      BY <1>4, <2>1 DEF AnyFigure
    <2> QED BY <2>1, <2>2, <2>3 DEF Cited
  <1>7. CitedUnderway(r)'
    <2>1. CASE request'[r].pc = "ask" /\ held
                 /\ request'[r].answers = Append(request[r].answers, found)
      <3>1. found \in AnyFigure \cup {None, Raised}
        BY <1>6, <2>1
      <3>2. request'[r].answers[Len(request'[r].answers)] = found
        BY <2>1, <3>1, AnswersGrow
      <3>3. found # None => found.cites >= 2 * request'[r].began
        BY <1>1, <1>3, <1>6, <2>1
      <3> QED BY <2>1, <3>2, <3>3 DEF CitedUnderway
    <2>2. CASE request'[r].pc = "ask" /\ request'[r].answers = Append(request[r].answers, None)
      <3>1. request'[r].answers[Len(request'[r].answers)] = None
        BY <2>2, AnswersGrow
      <3> QED BY <2>2, <3>1 DEF CitedUnderway
    <2>3. CASE request'[r].pc = "read"
      <3>1. Identity(r)' = request[r].fresh
        BY <1>1 DEF Identity, Looks
      <3> QED BY <1>1, <1>3, <1>4, <2>3, <3>1 DEF CitedUnderway
    <2> QED BY <1>1, <2>1, <2>2, <2>3
  <1>8. \A p \in Requests :
               \/ provider'[p] = provider[p]
               \/ /\ provider'[p].identity \in Nat
                  /\ provider'[p].identity >= provider[p].identity
                  /\ provider'[p].facts # None =>
                        Cited(provider'[p].facts)
                          /\ provider'[p].facts.cites = provider'[p].identity
    <2>1. held /\ provider[o].facts # None =>
             Cited(provider[o].facts) /\ provider[o].facts.cites = request[r].fresh
      BY <1>1, <1>4, <1>5 DEF CiteInv, FactsCited
    <2>2. provider'[o].facts # None =>
             Cited(provider'[o].facts) /\ provider'[o].facts.cites = provider'[o].identity
      BY <1>1, <1>6, <2>1
    <2>3. provider'[o].identity \in Nat /\ provider'[o].identity >= provider[o].identity
      BY <1>1, <1>4
    <2> QED BY <1>1, <2>2, <2>3
  <1>9. \/ request'[r].answers = request[r].answers
        \/ \E a \in AnyFigure \cup {None, Raised} :
              Cited(a) /\ request'[r].answers = Append(request[r].answers, a)
    <2>1. Cited(None)
      BY DEF Cited
    <2> QED BY <1>1, <1>6, <2>1
  <1> QED BY <1>1, <1>2, <1>7, <1>8, <1>9, LookCites

LEMMA ClearCites ==
    ASSUME ShapeInv, WholeInv, CiteInv, ClearCache
    PROVE  CiteInv'
  <1>1. /\ version' = version /\ request' = request /\ subject' = subject
        /\ \A o \in Requests : Kept(o)
    BY CloseKeeps DEF ClearCache
  <1>2. ASSUME NEW s \in Requests
        PROVE  AnswersCited(s)' /\ FactsCited(s)' /\ CitedUnderway(s)'
    <2>1. AnswersCited(s) /\ FactsCited(s) /\ CitedUnderway(s)
      BY DEF CiteInv
    <2>2. AnswersCited(s)'
      BY <1>1, <2>1 DEF AnswersCited, Cited
    <2>3. FactsCited(s)'
      <3> SUFFICES ASSUME Opened(s)', provider'[s].facts # None
                   PROVE  Cited(provider'[s].facts)
                            /\ provider'[s].facts.cites = provider'[s].identity
        BY <1>1 DEF FactsCited, Cited
      <3>1. Owns(s)
        BY <1>1 DEF Opened, Owns
      <3>2. Opened(s)
        BY <3>1 DEF Owns, ShapeInv, Shaped
      <3> QED BY <1>1, <2>1, <3>2 DEF FactsCited, Kept, Opened
    <2>4. CitedUnderway(s)'
      <3>1. request[s].pc \in AskingNow => Identity(s)' = Identity(s)
        BY <1>1 DEF ShapeInv, Shaped, Opened, Kept, Identity
      <3> QED BY <1>1, <2>1, <3>1 DEF CitedUnderway, AskingNow
    <2> QED BY <2>2, <2>3, <2>4
  <1> QED BY <1>2 DEF CiteInv

LEMMA WriteCites ==
    ASSUME ShapeInv, WholeInv, CiteInv, BeginWrite \/ EndWrite
    PROVE  CiteInv'
  <1>1. /\ provider' = provider /\ request' = request /\ subject' = subject
        /\ version \in Nat /\ version' \in Nat /\ version' >= version
    <2>1. version \in Nat
      BY DEF ShapeInv
    <2>2. CASE BeginWrite
      BY <2>1, <2>2 DEF BeginWrite
    <2>3. CASE EndWrite
      BY <2>1, <2>3 DEF EndWrite
    <2> QED BY <2>2, <2>3
  <1>2. \A f : Cited(f) => Cited(f)'
    <2>1. 1..version \subseteq 1..version'
      BY <1>1
    <2> QED BY <1>1, <2>1 DEF Cited
  <1>3. ASSUME NEW s \in Requests
        PROVE  AnswersCited(s)' /\ FactsCited(s)' /\ CitedUnderway(s)'
    <2>1. AnswersCited(s) /\ FactsCited(s) /\ CitedUnderway(s)
      BY DEF CiteInv
    <2>2. AnswersCited(s)'
      BY <1>1, <1>2, <2>1 DEF AnswersCited, Cited
    <2>3. FactsCited(s)'
      <3> SUFFICES ASSUME Opened(s)', provider[s].facts # None
                   PROVE  Cited(provider[s].facts)' /\ provider[s].facts.cites = provider[s].identity
        BY <1>1 DEF FactsCited, Cited
      <3>1. Owns(s)
        BY <1>1 DEF Opened, Owns
      <3>2. Opened(s)
        BY <3>1 DEF Owns, ShapeInv, Shaped
      <3>3. Cited(provider[s].facts) /\ provider[s].facts.cites = provider[s].identity
        BY <2>1, <3>2 DEF FactsCited
      <3> QED BY <1>1, <1>2, <3>3 DEF Cited
    <2>4. CitedUnderway(s)'
      <3>1. request[s].pc \in AskingNow \ {"ask"} =>
               /\ request[s].began \in Nat
               /\ request[s].began <= version /\ request[s].began <= version'
        BY <1>1, <2>1 DEF CitedUnderway
      <3>2. Identity(s)' = Identity(s)
        BY <1>1 DEF Identity
      <3> QED BY <1>1, <2>1, <3>1, <3>2 DEF CitedUnderway
    <2> QED BY <2>2, <2>3, <2>4
  <1> QED BY <1>3 DEF CiteInv

LEMMA StutterCites ==
    ASSUME CiteInv, UNCHANGED rlvars
    PROVE  CiteInv'
  <1>1. /\ version' = version /\ writing' = writing /\ provider' = provider
        /\ request' = request /\ subject' = subject
    BY DEF rlvars
  <1>2. ASSUME NEW s \in Requests
        PROVE  AnswersCited(s)' /\ FactsCited(s)' /\ CitedUnderway(s)'
    <2>1. AnswersCited(s) /\ FactsCited(s) /\ CitedUnderway(s)
      BY DEF CiteInv
    <2> QED BY <1>1, <2>1 DEF AnswersCited, FactsCited, CitedUnderway, Cited, Opened, Owns, Digest,
                            Identity
  <1> QED BY <1>2 DEF CiteInv

LEMMA InitCites == RulesetInit => CiteInv
  <1> SUFFICES ASSUME RulesetInit, NEW r \in Requests
               PROVE  AnswersCited(r) /\ FactsCited(r) /\ CitedUnderway(r)
    BY DEF CiteInv
  <1>1. request[r].pc = "start" /\ request[r].answers = <<>>
    BY DEF RulesetInit, Waiting
  <1>2. ~Opened(r)
    BY <1>1 DEF Opened, Owns, AskingNow
  <1> QED BY <1>1, <1>2 DEF AnswersCited, FactsCited, CitedUnderway, AskingNow

LEMMA StepsCite ==
    ASSUME ShapeInv, WholeInv, CiteInv, [RulesetNext]_rlvars, ~putBack'
    PROVE  CiteInv'
  BY FindKeeps, OpenKeeps, PublishKeeps, AskCites, IdentifyCites, RefreshCites, RecallCites,
     ReadRowCites, ReadBesideCites, VerifyCites, SettleCites, ClearCites, WriteCites, StutterCites
  DEF RulesetNext

LEMMA PutBackStays ==
    ASSUME putBack, [RulesetNext]_rlvars
    PROVE  putBack'
  BY DEF RulesetNext, rlvars, BeginWrite, EndWrite, ClearCache, Find, OpenFile, Publish, ReadVerified,
         Identify, Refresh, Recall, ReadRow, ReadBeside, Verify, Settle, SetIdentity

(* A figure is what one state of the file says, and is cited to those      *)
(* bytes, no older than the lookup that got it, for any number of lookups  *)
(* at once, until one puts an identity back that another had replaced.     *)
THEOREM FiguresInstalled == RulesetSpec => []ServedWasInstalled
  <1> DEFINE Inv == ShapeInv /\ WholeInv /\ (putBack \/ CiteInv)
  <1>1. RulesetInit => Inv
    BY InitWhole, InitCites
  <1>2. Inv /\ [RulesetNext]_rlvars => Inv'
    BY StepsKeep, StepsCite, PutBackStays
  <1>3. Inv => ServedWasInstalled
    <2> SUFFICES ASSUME Inv, NEW r \in Requests, NEW f \in Served(r)
                 PROVE  /\ \E v \in 1..version :
                             f.stated = SaidBy(v, subject) /\ (putBack \/ f.cites = 2 * v)
                        /\ (request[r].pc = "ask" /\ f = Last(request[r].answers))
                              => putBack \/ f.cites >= 2 * request[r].began
      BY DEF ServedWasInstalled
    <2>1. PICK i \in DOMAIN request[r].answers : f = request[r].answers[i]
      BY DEF Served, Range
    <2>2. f \notin {None, Raised} /\ Whole(f) /\ (putBack \/ Cited(f))
      BY <2>1 DEF WholeInv, AnswersWhole, CiteInv, AnswersCited, Served
    <2>3. request[r].answers # <<>>
      BY <2>1
    <2> QED BY <2>2, <2>3 DEF CiteInv, CitedUnderway, Cited, Whole, Last
  <1> QED BY <1>1, <1>2, <1>3, PTL DEF RulesetSpec
================================================================================
