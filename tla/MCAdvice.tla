------------------------------ MODULE MCAdvice ------------------------------
(* What advice is made of, on small instances: figures asked of the        *)
(* running game (Tuner), read from its logs (LogFiles) and its installed   *)
(* rules (Ruleset), the AI's plans (Frontier), the cards made of them      *)
(* (Decisions), what changed since last turn (TurnChanges), and what the   *)
(* copilot says of it (Answers).  Each is a scene of its own, and the      *)
(* others rest in their first state.                                       *)
EXTENDS Tuner, LogFiles, Decisions, Ruleset, TurnChanges, Answers, TLC

VARIABLE scene

-----------------------------------------------------------------------------
(* The tuner: a file that cannot be read, one that enables it, one that    *)
(* enables something else, one that does so in another section.            *)
SmallQueries == <<"amenities", "maintenance", "build_options", "build_options_ids">>
SmallFiles == {Unreadable, <<"[Debug]", "EnableTuner 1">>,
               <<"[Other]", "EnableTuner 1", "[Debug]", "EnableTuner 0">>,
               <<"[Debug]", "[Other]", "EnableTuner 1">>}

(* The logs: Rome against Kush, the same the other way round, and with a   *)
(* second Rome.                                                            *)
Seat(civ, level) == [civ |-> civ, level |-> level]
SmallSeatings == {0 :> Seat("rome", "full") @@ 1 :> Seat("kush", "full"),
                  0 :> Seat("kush", "full") @@ 1 :> Seat("rome", "tribe"),
                  0 :> Seat("rome", "full") @@ 1 :> Seat("rome", "full")}

(* The plans: two city plots six steps apart, one further away.            *)
SmallTiles == {<<0, 0>>, <<3, 1>>, <<14, 0>>}

(* The catalog: a museum is documented for both yields, a library for one. *)
SmallYieldsOf == [i \in Items |-> IF i = "library" THEN {"science"} ELSE {"science", "culture"}]
SmallStatedYield == [i \in Items |-> IF i = "library" THEN 3 ELSE 4]
SmallRatios == {60, 90, 120}

(* The ruleset: a row that goes missing, a table that does, and two files  *)
(* that look alike.                                                        *)
SmallTables == {"Buildings", "Building_YieldChanges", "BuildingModifiers", "Governments",
                "Government_SlotCounts"}
SmallDatabase == <<[t \in SmallTables |-> 1],
                   [t \in SmallTables |-> IF t = "BuildingModifiers" THEN NoRow ELSE 2],
                   [t \in SmallTables |-> IF t = "Governments" THEN Missing ELSE 3]>>
SmallStampOf == <<1, 1, 2>>
SmallSubjects == {[row |-> "Buildings", required |-> {},
                   optional |-> {"Building_YieldChanges", "BuildingModifiers"}],
                  [row |-> "Governments", required |-> {"Government_SlotCounts"}, optional |-> {}]}

(* The turns: on pace, behind, far behind, losing gold, planned against.   *)
Truth(science, culture, losing, goal) ==
    [ratio |-> [s \in Stats |-> IF s = "science" THEN science ELSE culture],
     losing |-> losing, goal |-> goal]
SmallTruths == {Truth(60, 40, FALSE, TRUE), Truth(60, 90, TRUE, FALSE), Truth(120, 60, FALSE, FALSE)}
SmallReadings == {Logs} \cup {Logs \ {log} : log \in Logs}

(* The exchanges, in hundredths: a figure of the game that rounds to what  *)
(* the player reported or claims, one that is half of the rivals' median,  *)
(* and a turn; a game that logs all, one that does not, readings that fail *)
(* and a game whose profile has no tuner.                                  *)
Held(turn, yields, compared, goal, gold, reports) ==
    [turn |-> turn, yields |-> yields, ratio |-> compared, median |-> {900}, goal |-> goal,
     gold |-> gold, parts |-> {600, 200}, reserve |-> {2000},
     reports |-> reports]
Read(tuner, upkeep, readAt, ruleset, cost) ==
    [tuner |-> tuner, upkeep |-> upkeep, readAt |-> readAt, ruleset |-> ruleset, cost |-> cost,
     backed |-> TRUE]
WithoutTuner(held) ==
    held @@ [Read("absent", {}, 0, "unavailable", {}) EXCEPT !.backed = FALSE]
SmallContexts == {Held(2000, {440}, {50}, {1900}, {}, {400}) @@ Read("read", {440}, 2100, "read", {}),
                  Held(1900, {200}, {50}, {2000}, {400}, {}) @@ Read("failed", {}, 0, "reshaped", {}),
                  Held(2000, {}, {}, {}, {}, {2000}) @@ Read("read", {}, 2000, "read", {400}),
                  Held(1900, {440}, {}, {}, {}, {400}) @@ Read("absent", {}, 0, "unavailable", {}),
                  WithoutTuner(Held(1900, {440}, {}, {}, {}, {400}))}
SmallMessages == {{}, {[value |-> 400, ofTurn |-> FALSE], [value |-> 2000, ofTurn |-> TRUE]},
                  {[value |-> 5000, ofTurn |-> FALSE]}}
SmallNumerals == [value : {2000, 400}, places : {0}, percent : {FALSE}]
                 \cup [value : {5000}, places : {0}, percent : {TRUE}]
SmallSelectable == [question : {"turn.analysis", "empire.yields", "empire.comparison",
                                "empire.net_gold", "defense.objectives", "player.reports",
                                "empire.upkeep", "ruleset.building", "no.such.question"},
                    valid : {TRUE}]
                   \cup [question : {"empire.comparison"}, valid : {FALSE}]

(* Lookups are alike; the other scenes have none. *)
Symmetry == Permutations(Requests)

-----------------------------------------------------------------------------
adviceVars == <<scene, tvars, tcvars, fvars, frvars, dvars, rlvars, answervars>>

(* A turn of the decisions: the yields against the rivals, and whether an  *)
(* objective against the one city was recorded now or some turns ago.      *)
Turn(turn, science, culture, planned) ==
    /\ ratio = [s \in Families |-> IF s = "science" THEN science ELSE culture]
    /\ through = turn
    /\ targets = {[of |-> "city", turn |-> 1, tile |-> <<0, 0>>]}
    /\ operations = {[player |-> 1, turn |-> t, tile |-> <<0, 0>>, attack |-> TRUE] : t \in planned}
    /\ sightings = {} /\ ownMoves = {} /\ orders = {}

(* Over a game, besides what it starts with, one row is logged or one fact *)
(* is learnt, before the next turn's yields or after them.                 *)
InAGame == 4

NothingLearnt ==
    /\ queues = [c \in Cities |-> IF c = "rome"
                                  THEN [item |-> None, left |-> None, turn |-> through] ELSE None]
    /\ paid = FALSE /\ liveGold = None /\ liveOffers = None
    /\ offered = [c \in Cities |-> None]
    /\ objective = [c \in Cities |-> None]
    /\ typed = [p \in Cities \X Items |-> NoFigures]

AdviceInit ==
    /\ scene \in {"tuner", "logs", "plans", "decisions", "game", "rules", "changes", "answers"}
    /\ Init /\ LogsInit /\ RulesetInit /\ TCInit /\ AnswersInit
    /\ CASE scene = "decisions" -> Turn(4, 60, 90, {4})
         [] scene = "game" -> Turn(3, 60, 90, {1})
         [] OTHER -> FrontierInit /\ ratio = [s \in Families |-> None]
    /\ NothingLearnt
    /\ scene # "logs" => seating = CHOOSE s \in Seatings : TRUE
    /\ scene # "logs" => captor = 0
    /\ scene # "rules" => subject = CHOOSE s \in Subjects : TRUE
    /\ world = World(CHOOSE t \in SmallTruths : TRUE, Logs)
    /\ scene # "answers" => /\ context = CHOOSE c \in Contexts : TRUE
                            /\ mode = "fair" /\ message = {}

(* Plans are dated by how long ago they were logged, so that the first is  *)
(* logged in the first turn.  The file is replaced a second time only      *)
(* while one of the requests has yet to look it up.                        *)
SoonPlanned == through' > through => Logged > 0

SecondCommit ==
    (version = 2 /\ ~writing /\ writing') =>
        \E r \in Requests : request[r].pc \in {"start", "open", "publish"}

AdviceNext ==
    /\ UNCHANGED scene
    /\ \/ scene = "tuner" /\ Next
          /\ UNCHANGED <<tcvars, fvars, frvars, dvars, rlvars, answervars>>
       \/ scene = "logs" /\ LogsNext
          /\ UNCHANGED <<tvars, tcvars, frvars, dvars, rlvars, answervars>>
       \/ scene = "plans" /\ FrontierNext /\ SoonPlanned
          /\ UNCHANGED <<tvars, tcvars, fvars, dvars, rlvars, answervars>>
       \/ scene = "decisions" /\ DecisionsNext
          /\ UNCHANGED <<tvars, tcvars, fvars, frvars, rlvars, answervars>>
       \/ scene = "game" /\ BriefNext /\ Learnt' + Logged' <= InAGame
          /\ UNCHANGED <<tvars, tcvars, fvars, rlvars, answervars>>
       \/ scene = "rules" /\ RulesetNext /\ SecondCommit
          /\ UNCHANGED <<tvars, tcvars, fvars, frvars, dvars, answervars>>
       \/ scene = "changes" /\ TCNext
          /\ UNCHANGED <<tvars, fvars, frvars, dvars, rlvars, answervars>>
       \/ scene = "answers" /\ AnswersNext
          /\ UNCHANGED <<tvars, tcvars, fvars, frvars, dvars, rlvars>>
=============================================================================
