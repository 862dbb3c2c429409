----------------------------- MODULE Decisions -----------------------------
(* From observations to the cards of the brief (decisions/: evidence.py,   *)
(* context.py, candidates.py, yields.py and decide_all).  A card rests on  *)
(* facts of a ledger that is filled before anything cites it; five yields  *)
(* compete for one settlement, and the intercepted plans (Frontier) for    *)
(* the player's attention with them.                                       *)
EXTENDS Frontier, Sequences, SequencesExt

CONSTANTS Families, Cities, Items,
          YieldsOf,      \* catalog: item -> the yields it is documented for
          ItemGuides,    \* items a reviewed guide explains how to build
          StatedYield,   \* installed ruleset: item -> yield it states, or None
          Ratios, Figures,
          MaxFacts       \* bound: what is learnt besides the comparisons

ASSUME CardsAssumption ==
    /\ Families \cap {"defense", "specialists"} = {}
    /\ Ratios \subseteq Nat /\ Figures \subseteq Nat /\ IsFiniteSet(Items)
    /\ StatedYield \in [Items -> Nat \cup {None}]

VARIABLES ratio,       \* your yield in percent of the rival median, or None
          queues,      \* logged queues: city -> [item, left, turn], or None
          paid,        \* the treasury log has the turn
          liveGold,    \* turn of a live reading of the upkeep, or None
          liveOffers,  \* a live reading of the build options, or None
          offered,     \* the player: city -> options offered there, or None
          objective,   \* the player: city -> "soonest" or "largest", or None
          typed        \* the player: city, item -> [turns, delta], each or None

dvars == <<ratio, queues, paid, liveGold, liveOffers, offered, objective, typed>>

Settlements == {c \in Cities : queues[c] # None}

-----------------------------------------------------------------------------
(* build_context and evidence.py: the ids of the facts there are.          *)

Report(c, item, label) == <<"report", c, item, label>>

Reports ==
    {Report(c, None, "options") : c \in {d \in Cities : offered[d] # None}}
        \cup {Report(c, None, "objective") : c \in {d \in Cities : objective[d] # None}}
        \cup UNION {{Report(c, i, m) : m \in {n \in {"turns", "delta"} : typed[<<c, i>>][n] # None}}
                       : c \in Cities, i \in Items}

ComparisonFact(s) == <<"comparison", s, through>>
QueueFact(c) == <<"queue", c, queues[c].turn>>
CoverageFact == <<"coverage", through>>
NetGoldFact == <<"net gold", through>>
LiveGoldFact == <<"live gold", liveGold>>
OptionFact(c, i) == <<"build option", c, i, liveOffers.turn>>
RulesetFact(i) == <<"ruleset", i>>

(* The intercepted plans are in the ledger in both modes: what keeps them  *)
(* out of a fair brief is that nothing there cites them.                   *)
DefenceFacts ==
    {GoalFact(g) : g \in AttackGoals} \cup {<<"frontier", through>>}

Ledger ==
    {ComparisonFact(s) : s \in {t \in Families : ratio[t] # None}}
        \cup {QueueFact(c) : c \in Settlements}
        \cup {CoverageFact}
        \cup (IF paid THEN {NetGoldFact} ELSE {})
        \cup (IF liveGold # None THEN {LiveGoldFact} ELSE {})
        \cup (IF liveOffers # None
              THEN {OptionFact(liveOffers.city, i) : i \in DOMAIN liveOffers.turns} ELSE {})
        \cup {RulesetFact(i) : i \in {j \in Items : StatedYield[j] # None}}
        \cup DefenceFacts
        \cup Reports

(* The logged figure wins over the live one. *)
NetGold ==
    IF paid THEN {NetGoldFact}
    ELSE IF liveGold # None THEN {LiveGoldFact} ELSE {}

(* candidates.evidence_for: what a candidate about a settlement, or about  *)
(* none, rests on.  A defensive one rests on the plans, any other on the   *)
(* treasury.                                                               *)
EvidenceFor(c, s) ==
    (IF s \in Families /\ ratio[s] # None THEN {ComparisonFact(s)} ELSE {})
        \cup (IF c \in Settlements THEN {QueueFact(c)} ELSE {})
        \cup {CoverageFact}
        \cup (IF s = "defense" THEN DefenceFacts ELSE NetGold)

-----------------------------------------------------------------------------
(* DecisionContext.previews: the player's figure wins; the ruleset fills   *)
(* the yield, and only a live reading of this settlement the turns.        *)
LiveTurnsOfAny(c, i) ==
    IF liveOffers # None /\ i \in DOMAIN liveOffers.turns THEN liveOffers.turns[i] ELSE None

LiveTurns(c, i) ==
    IF liveOffers # None /\ i \in DOMAIN liveOffers.turns /\ c = liveOffers.city
    THEN liveOffers.turns[i] ELSE None

Preview(c, i) ==
    [turns |-> IF typed[<<c, i>>].turns # None THEN typed[<<c, i>>].turns ELSE LiveTurns(c, i),
     delta |-> IF typed[<<c, i>>].delta # None THEN typed[<<c, i>>].delta ELSE StatedYield[i],
     cites |-> {Report(c, i, m) : m \in {n \in {"turns", "delta"} : typed[<<c, i>>][n] # None}}
                   \cup (IF typed[<<c, i>>].turns = None /\ LiveTurns(c, i) # None
                         THEN {OptionFact(c, i)} ELSE {})]

Usable(c, i) == Preview(c, i).turns # None /\ Preview(c, i).delta # None

FamilyOptions(c, s) ==
    IF offered[c] = None THEN {} ELSE {i \in offered[c] : s \in YieldsOf[i]}

(* yields.compare: the better of two for the stated objective; what is     *)
(* equal in it is decided by the other figure.                             *)
Better(c, i, j) ==
    LET a == Preview(c, i)
        b == Preview(c, j)
    IN  IF objective[c] = "soonest"
        THEN a.turns < b.turns \/ (a.turns = b.turns /\ a.delta > b.delta)
        ELSE a.delta > b.delta \/ (a.delta = b.delta /\ a.turns < b.turns)

Winner(c, s) ==
    LET usable == {i \in FamilyOptions(c, s) : Usable(c, i)}
    IN  IF Cardinality(usable) < 2 \/ objective[c] = None THEN None
        ELSE CHOOSE i \in usable : \A j \in usable : ~Better(c, j, i)

-----------------------------------------------------------------------------
(* candidates.py.  Nothing is proposed that no reviewed guide explains.    *)
Candidate(kind, item, cites) == [kind |-> kind, item |-> item, cites |-> cites]

NamedBuilds(c, s, items) ==
    {Candidate("build", i, EvidenceFor(c, s) \cup Preview(c, i).cites
                   \cup (IF StatedYield[i] # None THEN {RulesetFact(i)} ELSE {}))
        : i \in items \cap ItemGuides}

GuidedBy(kind, c, s) ==
    IF s \in Guides THEN {Candidate(kind, None, EvidenceFor(c, s))} ELSE {}

Specialist(c) ==
    IF {"specialists", "workflow"} \cap Guides # {}
    THEN {Candidate("specialist", None, EvidenceFor(c, "specialists"))} ELSE {}

(* yields._rank: the candidates in order, in four cases. *)
Ranked(c, s) ==
    LET options == FamilyOptions(c, s)
        winner == Winner(c, s)
        InOrder(S) == SetToSeq(S)
    IN  (IF winner # None
         THEN InOrder(NamedBuilds(c, s, {winner})) \o InOrder(NamedBuilds(c, s, options \ {winner}))
         ELSE IF options # {}
         THEN InOrder(NamedBuilds(c, s, options)) \o InOrder(GuidedBy("inspect", c, s))
         ELSE IF offered[c] = {} THEN InOrder(GuidedBy("requirement", c, s))
         ELSE InOrder(GuidedBy("inspect", c, s)))
        \o InOrder(Specialist(c))

-----------------------------------------------------------------------------
(* yields._target_settlement: an idle queue, the one logged last; else the *)
(* one that finishes soonest; else any.                                    *)
Target ==
    LET idle == {c \in Settlements : queues[c].item = None}
        dated == {c \in Settlements : queues[c].left # None}
    IN  IF Settlements = {} THEN None
        ELSE IF idle # {} THEN CHOOSE c \in idle : \A d \in idle : queues[d].turn <= queues[c].turn
        ELSE IF dated # {} THEN CHOOSE c \in dated : \A d \in dated : queues[c].left <= queues[d].left
        ELSE CHOOSE c \in Settlements : TRUE

Queued(s) ==
    /\ Target # None
    /\ queues[Target].item # None
    /\ s \in YieldsOf[queues[Target].item]

Behind(s) == ratio[s] # None /\ ratio[s] < OnPace

SeverityIgnoringDefense(s, oracle) ==
    IF Queued(s) \/ ~Behind(s) THEN Info ELSE Advise

(* yields._severity: never beside a defensive alert, nor for a gap that is *)
(* being addressed.                                                        *)
Severity(s, oracle) ==
    IF Urgent(oracle) \/ Queued(s) \/ ~Behind(s) THEN Info ELSE Advise

Card(s, target, severity, ranked, cites) ==
    [family |-> s, target |-> target, severity |-> severity, candidates |-> ranked,
     cites |-> cites, alsoBehind |-> {}]

(* yields.decide: a card of one family, or None: nothing to propose about  *)
(* a settlement makes no card.                                             *)
CardOn(s, oracle, ranked) ==
    IF ranked = <<>> THEN None
    ELSE Card(s, Target, Severity(s, oracle), ranked, UNION {k.cites : k \in Range(ranked)})

Decide(s, oracle) ==
    IF ratio[s] = None THEN None
    ELSE IF Target = None
    THEN IF Behind(s)
         THEN Card(s, "unobserved", Info, <<>>, {ComparisonFact(s), CoverageFact})
         ELSE None
    ELSE IF ~Behind(s) /\ ~Queued(s) THEN None
    ELSE CardOn(s, oracle, Ranked(Target, s))

FoldFirst(group, oracle) ==
    LET first == CHOOSE s \in group : TRUE
    IN  [Decide(first, oracle) EXCEPT !.alsoBehind = group \ {first}]

(* yields.decide_all: the gaps nothing addresses become one card, the      *)
(* worst first and naming the others.                                      *)
Fold(group, oracle) ==
    LET worst == CHOOSE s \in group : \A t \in group : ratio[s] <= ratio[t]
    IN  [Decide(worst, oracle) EXCEPT !.alsoBehind = group \ {worst}]

YieldCards(oracle) ==
    LET cards == {Decide(s, oracle) : s \in Families} \ {None}
        group == {c.family : c \in {d \in cards : Behind(d.family) /\ ~Queued(d.family)}}
    IN  {c \in cards : c.family \notin group}
            \cup (IF group = {} THEN {} ELSE {Fold(group, oracle)})

(* The evidence of the defensive candidates: of the one settlement that    *)
(* can be named, and of the units, whichever settlement they are near.     *)
DefenceEvidence ==
    [k \in {"reinforce", "withdraw"} |->
        EvidenceFor(IF k = "reinforce" /\ Settlements # {}
                    THEN CHOOSE c \in Settlements : TRUE ELSE None, "defense")]

(* decide_all, less the order the cards are shown in. *)
Brief(oracle) ==
    YieldCards(oracle) \cup ({DefenseCard(Settlements, oracle, DefenceEvidence)} \ {None})

-----------------------------------------------------------------------------
NoFigures == [turns |-> None, delta |-> None]

DecisionsInit ==
    /\ ratio \in [Families -> Ratios \cup {None}]
    /\ queues = [c \in Cities |-> None]
    /\ paid = FALSE /\ liveGold = None /\ liveOffers = None
    /\ offered = [c \in Cities |-> None]
    /\ objective = [c \in Cities |-> None]
    /\ typed = [p \in Cities \X Items |-> NoFigures]

Learnt ==
    Cardinality(Settlements) + Cardinality(Reports)
        + Cardinality({x \in {1} : paid}) + Cardinality({x \in {1} : liveGold # None})
        + Cardinality({x \in {1} : liveOffers # None})

(* A rebuild finds a city's queue logged, at this turn or the next. *)
LearnQueue ==
    /\ Learnt < MaxFacts
    /\ \E c \in Cities, item \in Items \cup {None}, left \in Figures \cup {None},
          turn \in {through, through + 1} :
        /\ IF item = None THEN left = None ELSE turn = through
        /\ queues' = [queues EXCEPT ![c] = [item |-> item, left |-> left, turn |-> turn]]
    /\ UNCHANGED <<ratio, paid, liveGold, liveOffers, offered, objective, typed>>

(* Its treasury log, or the running game, has the upkeep. *)
LearnGold ==
    /\ Learnt < MaxFacts
    /\ \/ paid' = TRUE /\ UNCHANGED liveGold
       \/ \E turn \in {through, through + 1} : liveGold' = turn /\ UNCHANGED paid
    /\ UNCHANGED <<ratio, queues, liveOffers, offered, objective, typed>>

(* The running game says what it offers in one city. *)
LearnOffers ==
    /\ Learnt < MaxFacts
    /\ \E c \in Cities, f \in Figures :
        liveOffers' = [city |-> c, turn |-> through + 1, turns |-> [i \in Items |-> f]]
    /\ UNCHANGED <<ratio, queues, paid, liveGold, offered, objective, typed>>

(* The player reports what the screen shows of the settlement the cards    *)
(* are about.                                                              *)
ReportOptions ==
    /\ Learnt < MaxFacts
    /\ Target # None
    /\ \E items \in SUBSET Items : offered' = [offered EXCEPT ![Target] = items]
    /\ UNCHANGED <<ratio, queues, paid, liveGold, liveOffers, objective, typed>>

ReportObjective ==
    /\ Learnt < MaxFacts
    /\ Target # None
    /\ \E o \in {"soonest", "largest"} : objective' = [objective EXCEPT ![Target] = o]
    /\ UNCHANGED <<ratio, queues, paid, liveGold, liveOffers, offered, typed>>

ReportFigure ==
    /\ Learnt < MaxFacts
    /\ Target # None
    /\ \E i \in Items, f \in Figures :
        \/ typed' = [typed EXCEPT ![<<Target, i>>].turns = f]
        \/ typed' = [typed EXCEPT ![<<Target, i>>].delta = f]
    /\ UNCHANGED <<ratio, queues, paid, liveGold, liveOffers, offered, objective>>

DecisionsNext ==
    LearnQueue \/ LearnGold \/ LearnOffers \/ ReportOptions \/ ReportObjective \/ ReportFigure

(* The whole of a game: plans are logged and facts are learnt in any order, *)
(* and with the next turn's statistics the yields are compared afresh.     *)
BriefInit == FrontierInit /\ DecisionsInit

BriefNext ==
    \/ DecisionsNext /\ UNCHANGED frvars
    \/ LogPlan /\ UNCHANGED dvars
    \/ /\ CompleteTurn
       /\ ratio' \in [Families -> Ratios \cup {None}] /\ paid' \in BOOLEAN
       /\ UNCHANGED <<queues, liveGold, liveOffers, offered, objective, typed>>

BriefSpec == BriefInit /\ [][BriefNext]_<<frvars, dvars>>

-----------------------------------------------------------------------------
(* decisions/yields.py: however the gaps are folded, each one there is     *)
(* anything to say about is in exactly one card, and where several share   *)
(* one, the worst leads it.                                                *)
EachGapOnce ==
    \A oracle \in BOOLEAN :
        LET cards == YieldCards(oracle) IN
        \A s \in Families : (Behind(s) /\ Decide(s, oracle) # None) =>
            LET about == {c \in cards : s = c.family \/ s \in c.alsoBehind}
            IN  Cardinality(about) = 1 /\ \A c \in about : ratio[c.family] <= ratio[s]

(* decisions/evidence.py: whatever a card cites is in the ledger, so that  *)
(* serving it cannot fail, and nothing a fair card cites is intercepted.   *)
(* No two objectives share an id, however the AI plans and orders the same *)
(* attack, so that filling the ledger cannot fail either.                  *)
CitationsResolve ==
    /\ \A g, h \in AttackGoals : GoalFact(g) = GoalFact(h) => g = h
    /\ LET known == Ledger IN
       \A oracle \in BOOLEAN : \A c \in Brief(oracle) :
           /\ c.cites \subseteq known
           /\ ~oracle => \A id \in c.cites : id[1] \notin {"goal", "frontier"}

(* decisions/yields.py and defense.py: a freshly recorded objective leads  *)
(* the brief, every yield stepping back, in the mode that may see it.  An  *)
(* aged objective, or one that mode hides, leaves the gaps their urgency.  *)
DefenceLeads ==
    \A oracle \in BOOLEAN :
        \A c \in YieldCards(oracle) :
            IF oracle /\ \E g \in AttackGoals : Fresh(g) THEN c.severity = Info
            ELSE (c.target # "unobserved" /\ Behind(c.family) /\ ~Queued(c.family))
                    => c.severity = Advise
=============================================================================
