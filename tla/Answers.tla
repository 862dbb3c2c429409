------------------------------ MODULE Answers ------------------------------
(* What the copilot shows of one exchange (copilot/conversation.py): the   *)
(* model selects questions of a catalog, the advisor resolves them from    *)
(* the snapshot, the model writes prose, and the number rule of            *)
(* copilot/grounding.py decides whether the prose or the deterministic     *)
(* answer is shown.  The model is free to write anything.  When the calls  *)
(* happen, and how often, is CopilotWorker.                                *)
EXTENDS Integers, Levels, Absence

CONSTANTS Contexts,     \* what a snapshot may hold
          Messages,     \* what a player may write: sets of typed numerals
          Numerals,     \* what a model may write
          Selectable    \* what a model may select: [question, valid]

VARIABLES context,      \* the request's own snapshot
          mode, message,
          resolved,     \* the facts and absences of what was selected
          answer        \* what is shown

answervars == <<context, mode, message, resolved, answer>>

-----------------------------------------------------------------------------
(* Figures are in hundredths.  A numeral has a value, the decimals written *)
(* and whether it is a percentage; a typed one, whether it names a turn.   *)
(* A fact may have no number (a name, an empty note): its sets are empty.  *)
Numeral(value, places, percent) == [value |-> value, places |-> places, percent |-> percent]
Typed(value, ofTurn) == [value |-> value, ofTurn |-> ofTurn]

Fact(id, kind, value, turn, note) ==
    [id |-> id, kind |-> kind, ratio |-> FALSE, value |-> value, turn |-> turn, note |-> note]
RatioFact(id, kind, value, turn, note) ==
    [Fact(id, kind, value, turn, note) EXCEPT !.ratio = TRUE]

Answered(facts) == [facts |-> facts, absences |-> {}]
Absent(question, kind) == [facts |-> {}, absences |-> {[question |-> question, kind |-> kind]}]

(* The resolvers.  Other questions of the logs have the form of            *)
(* ResolveYields, and other live ones that of ResolveUpkeep; one rival is  *)
(* the median of them.                                                     *)
ResolveTurn == Answered({Fact("turn", "log", {context.turn}, {context.turn}, {})})

ResolveYields ==
    IF context.yields = {} THEN Absent("empire.yields", "not_logged")
    ELSE Answered({Fact("yield", "log", context.yields, {context.turn}, {})})

ResolveComparison ==
    IF context.ratio = {} THEN Absent("empire.comparison", "not_logged")
    ELSE Answered({RatioFact("comparison", "derived", context.ratio, {context.turn},
                             context.yields \cup context.median),
                   RatioFact("threshold", "rule", {BehindRatio}, {}, {}),
                   Fact("yield", "log", context.yields, {context.turn}, {}),
                   Fact("rival yield", "log", context.median, {context.turn}, {})})

(* A log that has nothing is the tuner's fault only where the game's       *)
(* profile has a tuner behind the figure, and nothing was read of it.      *)
NotLogged(question) ==
    Absent(question, IF context.backed /\ context.tuner = "absent" THEN "tuner_absent"
                     ELSE "not_logged")

ResolveNetGold ==
    IF context.gold = {} THEN NotLogged("empire.net_gold")
    ELSE Answered({Fact("gold", "derived", context.gold, {context.turn}, context.reserve),
                   Fact("its parts", "log", context.parts, {context.turn}, {})})

(* What is recorded is a kind of plan and its turn, no figure. *)
ResolveObjectives ==
    IF context.goal = {} THEN Absent("defense.objectives", "answered_empty")
    ELSE Answered({Fact("objective", "log", {}, context.goal, {})})

ResolveReports ==
    IF context.reports = {} THEN Absent("player.reports", "answered_empty")
    ELSE Answered({Fact("report", "player_report", context.reports, {context.turn}, {})})

(* _tuner_silence and _upkeep: never read, this query failed, no figure.   *)
TunerSilent == context.tuner \in {"absent", "failed"}

ResolveUpkeep ==
    CASE TunerSilent -> Absent("empire.upkeep", "tuner_absent")
      [] ~TunerSilent /\ context.upkeep = {} -> Absent("empire.upkeep", "answered_empty")
      [] OTHER -> Answered({Fact("upkeep", "live_reading", context.upkeep, {context.readAt}, {})})

ResolveBuilding ==
    CASE context.ruleset = "unavailable" -> Absent("ruleset.building", "ruleset_unavailable")
      [] context.ruleset = "reshaped" -> Absent("ruleset.building", "ruleset_schema")
      [] context.ruleset = "read" /\ context.cost = {} -> Absent("ruleset.building", "no_such_row")
      [] OTHER -> Answered({Fact("cost", "installed_ruleset", context.cost, {}, {})})

CATALOG == {"turn.analysis", "empire.yields", "empire.comparison", "empire.net_gold",
            "defense.objectives", "player.reports", "empire.upkeep", "ruleset.building"}
OracleQuestions == {"defense.objectives"}

Resolve(question) ==
    CASE question = "turn.analysis" -> ResolveTurn
      [] question = "empire.yields" -> ResolveYields
      [] question = "empire.comparison" -> ResolveComparison
      [] question = "empire.net_gold" -> ResolveNetGold
      [] question = "defense.objectives" -> ResolveObjectives
      [] question = "player.reports" -> ResolveReports
      [] question = "empire.upkeep" -> ResolveUpkeep
      [] question = "ruleset.building" -> ResolveBuilding

AskCatalog(selected) ==
    CASE selected.question \notin CATALOG -> Absent(selected.question, "not_in_catalog")
      [] selected.question \in CATALOG /\ ~selected.valid ->
            Absent(selected.question, "bad_parameter")
      [] selected.question \in OracleQuestions /\ selected.valid /\ mode # "oracle" ->
            Absent(selected.question, "oracle_hidden")
      [] OTHER -> Resolve(selected.question)

-----------------------------------------------------------------------------
(* The number rule.  Rounding is to the even neighbour, as Decimal's is.   *)
Rounded(value, places) ==
    LET unit == CASE places = 0 -> 100 [] places = 1 -> 10 [] OTHER -> 1
        below == value \div unit
        rest == 2 * (value % unit)
    IN  unit * (below + IF rest > unit \/ (rest = unit /\ below % 2 = 1) THEN 1 ELSE 0)

Matches(numeral, candidate) ==
    IF numeral.percent
    THEN candidate.ratio /\ numeral.value = Rounded(100 * candidate.value, numeral.places)
    ELSE numeral.value = Rounded(candidate.value, numeral.places)

AdmittedValue(v, ratio, fact) ==
    [value |-> v, ratio |-> ratio, player |-> fact.kind = "player_report"]

AdmittedOf(fact) ==
    {AdmittedValue(v, fact.ratio, fact) : v \in fact.value}
        \cup {AdmittedValue(v, FALSE, fact) : v \in fact.turn \cup fact.note}

Admitted(facts) == UNION {AdmittedOf(fact) : fact \in facts}

TypedValues == {t.value : t \in message}
QuantityClaims == {t.value : t \in {t \in message : ~t.ofTurn}}

(* A text is a set of sentences, each with its numerals and whether it has *)
(* a phrase of ATTRIBUTION ("report") or CLAIM ("claim"): the rule looks   *)
(* at a sentence or at all of them, never at their order.                  *)
PhraseAnywhere(text, sentence, phrase) == \E s \in text : phrase \in s.says

PhraseBy(text, sentence, phrase) == phrase \in sentence.says

Check(text, pool) ==
    LET own == {c \in pool : ~c.player}
        Carrying(n) == {c \in pool : Matches(n, c)}
        Repeats(s, n) == n.value \in TypedValues /\ PhraseBy(text, s, "claim")
        statesACitedValue == \E s \in text : \E n \in s.numerals : Carrying(n) \cap own # {}
        repeatsAClaim == \E s \in text : \E n \in s.numerals : Repeats(s, n)
        Attributed(s, n) == Carrying(n) \cap own # {} \/ PhraseBy(text, s, "report")
        Reconciled(n) == n.value \in QuantityClaims /\ own # {} => statesACitedValue
    IN  /\ QuantityClaims # {} /\ statesACitedValue => repeatsAClaim
        /\ \A s \in text : \A n \in s.numerals :
              IF Carrying(n) # {} THEN Attributed(s, n) ELSE Repeats(s, n) /\ Reconciled(n)

-----------------------------------------------------------------------------
(* validate_answer: its shape, the citations, the numbers.                 *)
Valid(draft) ==
    /\ draft.wellFormed
    /\ draft.cited \subseteq {f.id : f \in resolved.facts}
    /\ Check(draft.text, Admitted({f \in resolved.facts : f.id \in draft.cited}))

Shown(generated, text, cited) == [generated |-> generated, text |-> text, cited |-> cited]

(* fallback: every fact that was resolved, and the numbers of the player's *)
(* message as the player's statement.                                      *)
Fallback == Shown(FALSE, {}, {f.id : f \in resolved.facts})

-----------------------------------------------------------------------------
AnswersInit ==
    /\ context \in Contexts
    /\ mode \in {"oracle", "fair"}
    /\ message \in Messages
    /\ answer = None
    /\ resolved = [facts |-> {}, absences |-> {}]

(* parse_selection and resolve: what the model selects, wrong ids and      *)
(* parameters included.  A question chosen in the panel comes the same way *)
(* (api_copilot_question).                                                 *)
SelectAndResolve(selection) ==
    /\ answer = None
    /\ resolved' = [facts |-> UNION {AskCatalog(s).facts : s \in selection},
                    absences |-> UNION {AskCatalog(s).absences : s \in selection}]
    /\ answer' = Fallback'
    /\ UNCHANGED <<context, mode, message>>

(* compose: the prose is shown in the place of the fallback when it is     *)
(* valid; otherwise the fallback stays.  Bounds: two sentences, with one   *)
(* numeral or none, about two questions.                                   *)
Sentences == [numerals : {{}} \cup {{n} : n \in Numerals}, says : SUBSET {"report", "claim"}]

Texts == {{s, t} : s \in Sentences, t \in Sentences}

Compose ==
    /\ answer # None /\ answer = Fallback
    /\ \E draft \in [wellFormed : BOOLEAN, text : Texts,
                     cited : SUBSET ({f.id : f \in resolved.facts} \cup {"invented"})] :
          /\ Valid(draft)
          /\ answer' = Shown(TRUE, draft.text, draft.cited)
    /\ UNCHANGED <<context, mode, message, resolved>>

Selections == {{s, t} : s \in Selectable, t \in Selectable}

AnswersNext ==
    \/ \E selection \in Selections : SelectAndResolve(selection)
    \/ Compose

AnswersSpec == AnswersInit /\ [][AnswersNext]_answervars

-----------------------------------------------------------------------------
(* Every number of generated prose is, at the sentence it stands in, one   *)
(* of three things: a figure of a fact the answer cites and its mode may   *)
(* show; a figure the player reported, and said there to be reported; a    *)
(* number the player typed, and said there to be what the player says.     *)
(* And prose that states the game's figure to a player who claimed one     *)
(* says something of what the player wrote (grounding.py, rules 1 to 7 of  *)
(* the design).  Only the text is checked by the code, not what the model  *)
(* lists as unknown.                                                       *)
Cited == {f \in resolved.facts : f.id \in answer.cited}
MayShow(fact) == fact.id = "objective" => mode = "oracle"
States(fact, n) ==
    \/ ~n.percent /\ \E v \in fact.value \cup fact.turn \cup fact.note :
                        n.value = Rounded(v, n.places)
    \/ n.percent /\ fact.ratio /\ \E v \in fact.value : n.value = Rounded(100 * v, n.places)
OfTheGame(fact) == fact.kind # "player_report"

VouchedFor(sentence, n) ==
    \/ \E f \in Cited : OfTheGame(f) /\ MayShow(f) /\ States(f, n)
    \/ "report" \in sentence.says /\ \E f \in Cited : ~OfTheGame(f) /\ States(f, n)
    \/ "claim" \in sentence.says /\ \E t \in message : t.value = n.value

Acknowledged ==
    \E s \in answer.text : "claim" \in s.says /\ \E n \in s.numerals : n.value \in TypedValues
StatesTheGame ==
    \E s \in answer.text : \E n \in s.numerals : \E f \in Cited : OfTheGame(f) /\ States(f, n)

AnswerIsVouchedFor ==
    answer # None /\ answer.generated =>
        /\ \A s \in answer.text : \A n \in s.numerals : VouchedFor(s, n)
        /\ QuantityClaims # {} /\ StatesTheGame => Acknowledged
=============================================================================
