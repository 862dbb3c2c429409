------------------------------ MODULE Ruleset ------------------------------
(* The installed ruleset (ruleset/civ6.py, identity.py): a database the    *)
(* game rewrites while the advisor reads it.  A provider is shared by all  *)
(* requests, closed under them by a game switch or a reopening, and cites  *)
(* for each figure the digest of the file it was read from.                *)
EXTENDS Integers, Sequences, SequencesExt, Absence

CONSTANTS Requests,      \* threads, each serving one request
          Subjects,      \* what is looked up, by kind
          Database,      \* the versions of the file: table -> Missing | NoRow | value
          StampOf,       \* size and modification time of each version
          MaxAttempts,   \* _MAX_READ_ATTEMPTS
          MaxLookups,    \* bound on the lookups of one request
          Missing, NoRow, Raised

VARIABLES version, writing,   \* the file: its last commit, and whether one is under way
          cached,             \* _OPEN: [stamp, owner], or None
          provider,           \* request that opened it -> [identity, closed, facts], or None
          request,            \* request -> where it stands
          subject,            \* what this behaviour looks up
          putBack             \* has a lookup put an older identity back?  (history)

rlvars == <<version, writing, cached, provider, request, subject, putBack>>

-----------------------------------------------------------------------------
(* The lookups: the table that has the row, those without which there is   *)
(* no answer, and those whose absence only leaves figures out.             *)
Lookup(row, required, optional) == [row |-> row, required |-> required, optional |-> optional]

Building == Lookup("Buildings", {}, {"Building_YieldChanges", "BuildingModifiers"})
District == Lookup("Districts", {}, {})
Technology == Lookup("Technologies", {}, {"TechnologyPrereqs", "Boosts"})
Civic == Lookup("Civics", {}, {"CivicPrereqs", "Boosts"})
Unit == Lookup("Units", {}, {"UnitUpgrades"})
Improvement == Lookup("Improvements", {}, {"Improvement_YieldChanges"})
Resource == Lookup("Resources", {}, {"Resource_YieldChanges"})
Policy == Lookup("Policies", {}, {})
Government == Lookup("Governments", {"Government_SlotCounts"}, {})
Parameter == Lookup("GlobalParameters", {}, {})

Beside(lookup) == lookup.required \cup lookup.optional

(* A table that is not as expected fails the query: OperationalError. *)
Select(table) == Database[version][table]

RowOf(lookup) == IF Select(lookup.row) \in {Missing, NoRow} THEN None ELSE Select(lookup.row)

(* The answer: a figure for each table that states something. *)
Stated(lookup, row, beside) ==
    IF row = None \/ \E table \in lookup.required : beside[table] = Missing THEN None
    ELSE [row |-> row,
          beside |-> [table \in {b \in Beside(lookup) : beside[b] \notin {Missing, NoRow}}
                        |-> beside[table]]]

(* _schema_complaint, at the opening: every table must be there. *)
Misshapen == \E table \in DOMAIN Database[version] : Select(table) = Missing

-----------------------------------------------------------------------------
(* identity.py.  The digest is of every byte, those of a write under way   *)
(* included; the stamp may be that of another version.                     *)
Digest == 2 * version + (IF writing THEN 1 ELSE 0)
Stamp == StampOf[version]

Provider(r) == provider[request[r].owner]
NewProvider(digest) == [identity |-> digest, closed |-> FALSE, facts |-> None]

CloseOf(owners) ==
    [r \in Requests |-> IF r \in owners /\ provider[r] # None
                        THEN [provider[r] EXCEPT !.closed = TRUE] ELSE provider[r]]

Step(r, pc) == request' = [request EXCEPT ![r].pc = pc]

Waiting == [pc |-> "start", owner |-> None, stamp |-> None, fresh |-> None, before |-> None,
            row |-> None, found |-> None, attempts |-> 0, began |-> None, answers |-> <<>>]

RulesetInit ==
    /\ version = 1 /\ writing = FALSE
    /\ cached = None
    /\ provider = [r \in Requests |-> None]
    /\ request = [r \in Requests |-> Waiting]
    /\ subject \in Subjects
    /\ putBack = FALSE

-----------------------------------------------------------------------------
(* The game: while it commits, readers wait or fail. *)
BeginWrite ==
    /\ ~writing /\ version < Len(Database)
    /\ writing' = TRUE
    /\ UNCHANGED <<version, cached, provider, request, subject, putBack>>

EndWrite ==
    /\ writing
    /\ writing' = FALSE /\ version' = version + 1
    /\ UNCHANGED <<cached, provider, request, subject, putBack>>

(* A game switch: clear_cache. *)
ClearCache ==
    /\ cached # None
    /\ provider' = CloseOf({cached.owner})
    /\ cached' = None
    /\ UNCHANGED <<version, writing, request, subject, putBack>>

-----------------------------------------------------------------------------
(* open_ruleset.  The file is read between two visits to the lock.         *)
Find(r) ==
    /\ request[r].pc = "start"
    /\ request' = IF cached # None /\ cached.stamp = Stamp
                  THEN [request EXCEPT ![r].owner = cached.owner, ![r].pc = "ask"]
                  ELSE [request EXCEPT ![r].stamp = Stamp, ![r].pc = "open"]
    /\ UNCHANGED <<version, writing, cached, provider, subject, putBack>>

(* Another shape than expected: there is no provider for this request. *)
OpenFile(r) ==
    /\ request[r].pc = "open" /\ ~writing
    /\ IF Misshapen
       THEN Step(r, "done") /\ UNCHANGED provider
       ELSE Step(r, "publish") /\ provider' = [provider EXCEPT ![r] = NewProvider(Digest)]
    /\ UNCHANGED <<version, writing, cached, subject, putBack>>

(* The second to publish the same stamp gives its own provider up; one of  *)
(* another stamp replaces, and closes, what is there.                      *)
Publish(r) ==
    /\ request[r].pc = "publish"
    /\ IF cached # None /\ cached.stamp = request[r].stamp
       THEN /\ provider' = CloseOf({r})
            /\ request' = [request EXCEPT ![r].owner = cached.owner, ![r].stamp = None,
                                            ![r].pc = "ask"]
            /\ UNCHANGED cached
       ELSE /\ provider' = IF cached = None THEN provider ELSE CloseOf({cached.owner})
            /\ cached' = [stamp |-> request[r].stamp, owner |-> r]
            /\ request' = [request EXCEPT ![r].owner = r, ![r].stamp = None, ![r].pc = "ask"]
    /\ UNCHANGED <<version, writing, subject, putBack>>

-----------------------------------------------------------------------------
(* _read_verified, step by step: its provider is shared and has no lock.   *)
(* What a lookup held ends with it.                                        *)
Return(r, answer) ==
    request' = [request EXCEPT ![r].answers = Append(@, answer), ![r].pc = "ask",
                    ![r].fresh = None, ![r].before = None, ![r].row = None, ![r].found = None,
                    ![r].attempts = 0]

ReadVerified(r) ==
    /\ request[r].pc = "ask"
    /\ Len(request[r].answers) < MaxLookups
    /\ IF Provider(r).closed THEN Return(r, None)
       ELSE request' = [request EXCEPT ![r].pc = "identify", ![r].began = version]
    /\ UNCHANGED <<version, writing, cached, provider, subject, putBack>>

Identify(r) ==
    /\ request[r].pc = "identify"
    /\ request' = [request EXCEPT ![r].fresh = Digest, ![r].pc = "refresh"]
    /\ UNCHANGED <<version, writing, cached, provider, subject, putBack>>

(* _refresh_if_changed: what was read from other bytes is dropped.  The    *)
(* identity another lookup took meanwhile is overwritten, newer or not.    *)
FactsKept(facts, old, new) == facts
FactsAfter(facts, old, new) == IF old = new THEN facts ELSE None

SetIdentity(r, identity, facts) ==
    /\ provider' = [provider EXCEPT ![request[r].owner].identity = identity,
                                    ![request[r].owner].facts = facts]
    /\ putBack' = (putBack \/ identity < Provider(r).identity)

Refresh(r) ==
    /\ request[r].pc = "refresh"
    /\ SetIdentity(r, request[r].fresh,
                   FactsAfter(Provider(r).facts, Provider(r).identity, request[r].fresh))
    /\ request' = [request EXCEPT ![r].fresh = None, ![r].pc = "recall"]
    /\ UNCHANGED <<version, writing, cached, subject>>

(* What a lookup read before is answered again. *)
Recall(r) ==
    LET facts == Provider(r).facts
    IN  /\ request[r].pc = "recall"
        /\ IF facts # None THEN Return(r, facts) ELSE Step(r, "read")
        /\ UNCHANGED <<version, writing, cached, provider, subject, putBack>>

(* A connection closed meanwhile raises what nobody catches. *)
ReadRow(r) ==
    /\ request[r].pc = "read"
    /\ \/ /\ Provider(r).closed
          /\ Return(r, Raised)
       \/ /\ ~Provider(r).closed
          /\ \E row \in {None} \cup (IF writing THEN {} ELSE {RowOf(subject)}) :
              /\ row = None => writing \/ RowOf(subject) = None
              /\ request' = [request EXCEPT ![r].before = Provider(r).identity, ![r].row = row,
                     ![r].found = None, ![r].pc = IF row = None THEN "verify" ELSE "beside"]
    /\ UNCHANGED <<version, writing, cached, provider, subject, putBack>>

(* The other tables, and the figures, which cite what the provider then    *)
(* takes for the file's identity.                                          *)
ReadBeside(r) ==
    /\ request[r].pc = "beside"
    /\ \/ /\ Provider(r).closed
          /\ Return(r, Raised)
       \/ /\ ~Provider(r).closed
          /\ LET beside == [t \in Beside(subject) |-> IF writing THEN Missing ELSE Select(t)]
                 stated == Stated(subject, request[r].row, beside)
             IN request' = [request EXCEPT ![r].pc = "verify", ![r].row = None,
                    ![r].found = IF stated = None THEN None
                                 ELSE [stated |-> stated, cites |-> Provider(r).identity]]
    /\ UNCHANGED <<version, writing, cached, provider, subject, putBack>>

(* Whether the file the lookup began with is still the one there is: it is *)
(* identified once more, and then the provider takes what was found.       *)
TakenForTheSame(before, after) == TRUE
SameFile(before, after) == before = after

Verify(r) ==
    /\ request[r].pc = "verify"
    /\ request' = [request EXCEPT ![r].fresh = Digest, ![r].pc = "settle"]
    /\ UNCHANGED <<version, writing, cached, provider, subject, putBack>>

Settle(r) ==
    LET held == SameFile(request[r].before, request[r].fresh)
        found == request[r].found
    IN  /\ request[r].pc = "settle"
        /\ SetIdentity(r, request[r].fresh,
                       IF ~held THEN None ELSE IF found # None THEN found ELSE Provider(r).facts)
        /\ IF held THEN Return(r, found)
           ELSE IF request[r].attempts + 1 = MaxAttempts THEN Return(r, None)
           ELSE request' = [request EXCEPT ![r].attempts = @ + 1, ![r].pc = "read",
                        ![r].fresh = None, ![r].before = None, ![r].found = None]
        /\ UNCHANGED <<version, writing, cached, subject>>

RulesetNext ==
    \/ BeginWrite \/ EndWrite \/ ClearCache
    \/ \E r \in Requests :
        \/ Find(r) \/ OpenFile(r) \/ Publish(r) \/ ReadVerified(r) \/ Identify(r) \/ Refresh(r)
        \/ Recall(r) \/ ReadRow(r) \/ ReadBeside(r) \/ Verify(r) \/ Settle(r)

RulesetSpec == RulesetInit /\ [][RulesetNext]_rlvars

-----------------------------------------------------------------------------
(* What a version of the file says of a subject. *)
SaidBy(v, lookup) ==
    LET row == IF Database[v][lookup.row] \in {Missing, NoRow} THEN None ELSE Database[v][lookup.row]
    IN  Stated(lookup, row, [t \in Beside(lookup) |-> Database[v][t]])

Served(r) == {f \in Range(request[r].answers) : f \notin {None, Raised}}

(* ruleset/civ6.py: a figure is what one state of the file says, however   *)
(* many lookups share the provider; and it is cited to those bytes, no     *)
(* older than the lookup, unless a lookup has put an identity back that    *)
(* another one had already replaced by a newer.                            *)
ServedWasInstalled ==
    \A r \in Requests : \A f \in Served(r) :
        /\ \E v \in 1..version :
            f.stated = SaidBy(v, subject) /\ (putBack \/ f.cites = 2 * v)
        /\ (request[r].pc = "ask" /\ f = Last(request[r].answers))
              => putBack \/ f.cites >= 2 * request[r].began
=============================================================================
