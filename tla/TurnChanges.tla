---------------------------- MODULE TurnChanges ----------------------------
(* What changed since the last turn (decisions/changes.py, with the        *)
(* warnings of advisors/economy.py and the cards of the brief it tracks).  *)
(* The game goes on, logs are read or not, the player asks in one mode or  *)
(* the other, and may reload.  What one request leaves in the history is   *)
(* what the next one compares with; overlapping requests are in            *)
(* SittingRequests, how a brief is made of its facts in Decisions.         *)
EXTENDS Integers, FiniteSets, Levels, Absence

CONSTANTS Stats,
          Truths,        \* of a turn: each yield in percent of the rival
                         \* median, a loss of gold, a plan against you
          Readings,      \* which of the logs that may be missing are read
          LastTurn, MaxSessions, MaxRewrites, MaxRecorded, MaxCatalogs   \* bounds

(* The logs that may be missing, the treasury's and the tactical one each  *)
(* standing for others that may be, the build queues for themselves; the   *)
(* statistics never are: without them there is no turn to analyse.         *)
Logs == {"treasury", "tactical", "production"}

ASSUME TurnChangesAssumption ==
    /\ Truths \subseteq [ratio : [Stats -> Nat], losing : BOOLEAN, goal : BOOLEAN]
    /\ Logs \in Readings /\ Readings \subseteq SUBSET Logs
    /\ {LastTurn, MaxSessions, MaxCatalogs} \subseteq Nat \ {0}

VARIABLES world,     \* what is so in the game, and which logs can be read
          now,       \* session, turn and revision of the snapshot, and
                     \* the revision of the guide catalog beside it
          history,   \* the turns recorded, each with the request's mode
          served     \* the last answer: its mode and the two turns compared

tcvars == <<world, now, history, served>>

World(truth, read) ==
    [ratio |-> truth.ratio, losing |-> truth.losing, goal |-> truth.goal, read |-> read]

-----------------------------------------------------------------------------
(* What is trackable in one turn.                                          *)
BehindIn(w) == {s \in Stats : w.ratio[s] < BehindRatio}

(* economy.advise: only the worst gap is graded by how large it is.        *)
IsWorst(w, s) == \A t \in BehindIn(w) : w.ratio[s] <= w.ratio[t]

GapSeverity(w, s) ==
    IF ~IsWorst(w, s) THEN Info
    ELSE IF w.ratio[s] < FarBehindRatio THEN Warn ELSE Advise

Planned(w) == w.goal /\ "tactical" \in w.read

Signal(id, severity, value, satisfied, domains, provenance) ==
    [id |-> id, severity |-> severity, value |-> value, satisfied |-> satisfied,
     domains |-> domains, provenance |-> provenance]

Warnings(w) ==
    {Signal(<<"behind", s>>, GapSeverity(w, s), w.ratio[s], FALSE, {"treasury"}, "fair")
        : s \in BehindIn(w)}
    \cup (IF w.losing /\ "treasury" \in w.read
          THEN {Signal(<<"losing">>, Warn, None, FALSE, {"treasury"}, "fair")} ELSE {})
    \cup (IF Planned(w)
          THEN {Signal(<<"plan">>, Critical, None, FALSE, {"tactical"}, "oracle")} ELSE {})

(* What has to do with a yield, a card or evidence that a warning lifted,  *)
(* rests on the build queues besides the statistics.                       *)
YieldDomains == {"production"}

(* signals_from: a yield that is level is the evidence a warning lifted.   *)
Satisfied(w) ==
    {Signal(<<"behind", s>>, Info, w.ratio[s], TRUE, YieldDomains, "fair")
        : s \in {t \in Stats : w.ratio[t] >= OnPace}}

(* The brief: one card for the gaps, led by the worst, and in oracle mode  *)
(* one for the plan, each named after the settlement it is about if there  *)
(* is a queue to know one by.  Their signals say nothing of where they     *)
(* came from.  A card's domains are looked up by its family; a defence     *)
(* card, which has none, gets those of a yield.                            *)
CardId(w, about) ==
    <<"card", about, IF "production" \in w.read THEN "settlement" ELSE "unobserved">>

Cards(w, oracle) ==
    LET gaps == {s \in Stats : w.ratio[s] < OnPace}
        severity == IF (oracle /\ Planned(w)) \/ "production" \notin w.read THEN Info ELSE Advise
    IN  {Signal(CardId(w, s), severity, None, FALSE, YieldDomains, "fair")
            : s \in {t \in gaps : \A u \in gaps : w.ratio[t] <= w.ratio[u]}}
        \cup (IF oracle /\ Planned(w)
              THEN {Signal(CardId(w, "defense"), Critical, None, FALSE, YieldDomains, "fair")}
              ELSE {})

CatalogDependent(signal) == signal.id[1] = "card"

Signals(e) == Warnings(e.world) \cup Satisfied(e.world) \cup Cards(e.world, e.oracle)

-----------------------------------------------------------------------------
(* compare: two turns of one sitting.                                      *)
NeverMoved(signal, previous, current) == FALSE

CoverageMoved(signal, previous, current) ==
    \E d \in signal.domains : (d \in previous.world.read) # (d \in current.world.read)

Change(signal, state) ==
    [id |-> signal.id, state |-> state, provenance |-> signal.provenance]

(* The two figures of one signal, where both turns have one.               *)
Trend(before, signal) ==
    IF signal.satisfied /\ ~before.satisfied THEN "resolved"
    ELSE IF signal.severity > before.severity THEN "worsening"
    ELSE IF signal.severity < before.severity THEN "improving"
    ELSE IF None \in {signal.value, before.value} \/ signal.value = before.value THEN "unchanged"
    ELSE IF signal.value > before.value THEN "improving" ELSE "worsening"

Seen(signal, previous, current) ==
    LET before == {b \in Signals(previous) : b.id = signal.id} IN
    IF CoverageMoved(signal, previous, current) THEN {Change(signal, "not_comparable")}
    ELSE IF before = {}
    THEN IF signal.satisfied THEN {} ELSE {Change(signal, "newly_observed")}
    ELSE IF CatalogDependent(signal) /\ previous.catalog # current.catalog
    THEN {Change(signal, "not_comparable")}
    ELSE {Change(signal, Trend(b, signal)) : b \in before}

Gone(previous, current) ==
    {b \in Signals(previous) :
        ~b.satisfied /\ \A signal \in Signals(current) : signal.id # b.id}

Compare(previous, current) ==
    IF previous = None THEN {}
    ELSE (UNION {Seen(signal, previous, current) : signal \in Signals(current)})
         \cup {Change(b, "no_longer_observed") : b \in Gone(previous, current)}

(* base.visible: a mode without the intercepts is not served them.         *)
Serve(answer) ==
    {c \in Compare(answer.previous, answer.current) : answer.oracle \/ c.provenance = "fair"}

-----------------------------------------------------------------------------
(* The game, the logs, and the requests.                                   *)
TCInit ==
    /\ world \in {World(t, Logs) : t \in Truths}
    /\ now = [session |-> 1, turn |-> 1, revision |-> 1, catalog |-> 1]
    /\ history = {}
    /\ served = None

(* The next turn is complete. *)
PlayTurn ==
    /\ now.turn < LastTurn
    /\ now' = [now EXCEPT !.turn = @ + 1, !.revision = 1]
    /\ \E t \in Truths, read \in Readings : world' = World(t, read)
    /\ UNCHANGED <<history, served>>

(* A log is written or lost within the turn: the same game, read anew.     *)
RewriteLogs ==
    /\ now.revision <= MaxRewrites
    /\ now' = [now EXCEPT !.revision = @ + 1]
    /\ \E read \in Readings \ {world.read} : world' = [world EXCEPT !.read = read]
    /\ UNCHANGED <<history, served>>

(* A save is loaded: another sitting, at that turn or an earlier one.      *)
Reload ==
    /\ now.session < MaxSessions
    /\ \E t \in 1..now.turn :
        now' = [now EXCEPT !.session = @ + 1, !.turn = t, !.revision = 1]
    /\ world' \in {World(t, Logs) : t \in Truths}
    /\ UNCHANGED <<history, served>>

(* The guide catalog, read anew for every brief, is replaced by another.   *)
ReplaceCatalog ==
    /\ now.catalog < MaxCatalogs
    /\ now' = [now EXCEPT !.catalog = @ + 1]
    /\ UNCHANGED <<world, history, served>>

(* History.previous: the newest earlier turn of the sitting.               *)
PreviousOfAny(e) ==
    LET earlier == {h \in history : h.turn < e.turn}
    IN  IF earlier = {} THEN None
        ELSE CHOOSE h \in earlier : \A g \in earlier : g.turn <= h.turn

Previous(e) ==
    LET earlier == {h \in history : h.session = e.session /\ h.turn < e.turn}
    IN  IF earlier = {} THEN None
        ELSE CHOOSE h \in earlier : \A g \in earlier : g.turn <= h.turn

Key(e) == <<e.session, e.turn>>

(* History.record: a turn recorded again is replaced. *)
Recorded(e) == {h \in history : Key(h) # Key(e)} \cup {e}

(* GET /api/changes or /api/briefing. *)
Request(oracle) ==
    LET e == [session |-> now.session, turn |-> now.turn, revision |-> now.revision,
              catalog |-> now.catalog, world |-> world, oracle |-> oracle]
    IN  /\ Cardinality(Recorded(e)) <= MaxRecorded
        /\ served' = [oracle |-> oracle, previous |-> Previous(e), current |-> e]
        /\ history' = Recorded(e)
        /\ UNCHANGED <<world, now>>

TCNext ==
    \/ PlayTurn \/ RewriteLogs \/ Reload \/ ReplaceCatalog
    \/ \E oracle \in BOOLEAN : Request(oracle)

TCSpec == TCInit /\ [][TCNext]_tcvars

-----------------------------------------------------------------------------
(* decisions/changes.py: a warning is called new only if it did not hold   *)
(* in the turn compared with, whether or not it could be read then; it is  *)
(* called resolved exactly when it held then and the yield is level now,   *)
(* unless the queue log came or went, which the evidence is taken to rest  *)
(* on; losing sight of it is neither.  Of a card two catalogs say nothing. *)
ChangesAreTrue ==
    (served # None /\ served.previous # None) =>
        LET before == served.previous.world
            present == served.current.world
            told == Serve(served)
            said(id, state) == \E c \in told : c.id = id /\ c.state = state
        IN  /\ served.previous.session = served.current.session
            /\ said(<<"losing">>, "newly_observed") => ~before.losing
            /\ said(<<"plan">>, "newly_observed") => ~before.goal
            /\ ~said(<<"losing">>, "resolved")
            /\ \A s \in Stats :
                /\ said(<<"behind", s>>, "newly_observed") => before.ratio[s] >= BehindRatio
                /\ said(<<"behind", s>>, "resolved") <=>
                       /\ before.ratio[s] < BehindRatio /\ present.ratio[s] >= OnPace
                       /\ "production" \in before.read <=> "production" \in present.read
            /\ \A c \in told :
                (c.id[1] = "card" /\ served.previous.catalog # served.current.catalog) =>
                    c.state \in {"newly_observed", "not_comparable", "no_longer_observed"}

(* decisions/changes.py and api/app.py: what is served in fair mode tells  *)
(* nothing that rests on the AI's own plans.  The code serves the signal   *)
(* of a defence card recorded in oracle mode as fair: gone from the brief  *)
(* of the next turn's fair request, it is told as no longer observed.      *)
AboutPlans(id) == id = <<"plan">> \/ (id[1] = "card" /\ id[2] = "defense")

FairSeesNoPlans ==
    (served # None /\ ~served.oracle) => \A c \in Serve(served) : ~AboutPlans(c.id)
=============================================================================
