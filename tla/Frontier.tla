------------------------------ MODULE Frontier ------------------------------
(* What the AI's own plans say about the player's frontier, and the        *)
(* defensive decision made of it (advisors/tactical.py, advisors/base.py,  *)
(* decisions/defense.py, state/geo.py).  The logs grow row by row; a plan  *)
(* the AI drops is never logged as dropped, its rows only stop.            *)
EXTENDS Integers, FiniteSets, FiniteSetsExt, Levels, Absence

CONSTANTS Rivals, Raider,       \* the rivals, and a player who is none
          Units, OwnUnits,      \* their units, and the player's
          Tiles,                \* plots: <<column, row>>
          Guides,               \* the reviewed guides there are
          PlanTurns, MaxLogged   \* bounds: the game's turns, the rows in all

ASSUME PlansAssumption ==
    None \notin Nat /\ Tiles \subseteq Int \X Int /\ IsFiniteSet(Tiles)

FreshTurns == 3
GoalFreshTurns == 2
NearTiles == 4
MapNearTiles == 8
ClusterRadius == 6

VARIABLES through,      \* the last turn the logs are complete for
          targets, operations, orders, sightings, ownMoves   \* rows, by log

frvars == <<through, targets, operations, orders, sightings, ownMoves>>

-----------------------------------------------------------------------------
(* Geometry: odd rows are shifted right (state/geo.py). *)
Axial(plot) == <<plot[1] - (plot[2] - (plot[2] % 2)) \div 2, plot[2]>>

Abs(n) == IF n < 0 THEN -n ELSE n

HexDistance(a, b) ==
    LET dq == Axial(a)[1] - Axial(b)[1]
        dr == Axial(a)[2] - Axial(b)[2]
    IN  Max({Abs(dq), Abs(dr), Abs(dq + dr)})

-----------------------------------------------------------------------------
(* What the logs say, up to the last complete turn.                        *)
Known(rows) == {r \in rows : r.turn <= through}

Newest(rows) == {r \in rows : \A s \in rows : s.turn <= r.turn}

(* The plots the AI counts as the player's cities, when it last looked;    *)
(* and those it looked at of late.                                         *)
CityRowsOfLate == {r \in Known(targets) : r.of = "city" /\ r.turn >= through - FreshTurns + 1}
CityRows == Newest({r \in Known(targets) : r.of = "city"})
CityTiles == {r.tile : r \in CityRows}

(* The latest row of each unit, unless it is stale. *)
Latest(rows, p, u) == Newest({r \in Known(rows) : r.player = p /\ r.unit = u})

EnemyUnits ==
    {r \in Known(sightings) : /\ r.player \in Rivals
                              /\ r \in Latest(sightings, r.player, r.unit)
                              /\ r.turn >= through - FreshTurns}

(* A unit of the player's is seen where a recent targeting row puts it. *)
OwnPositions(u) == Newest({r \in Known(targets) : /\ r.of = u
                                                  /\ r.turn >= through - FreshTurns})
Placed == {u \in OwnUnits : (\E r \in Known(ownMoves) : r.unit = u) /\ OwnPositions(u) # {}}
PositionOf(u) == (CHOOSE r \in OwnPositions(u) : TRUE).tile

(* attack_goals: the objectives of the latest turn that logged operations, *)
(* then the attacks of the latest turn that logged orders, each player and *)
(* plot once.  Before the first operation is logged there are none.        *)
Operating == {r \in Newest(Known(operations)) :
                  r.player \in Rivals /\ r.attack /\ r.tile \in CityTiles}
Attacking == {r \in Newest(Known(orders)) :
                  r.player \in Rivals /\ r.attack /\ r.tile \in CityTiles}

Goal(r, kind) == [player |-> r.player, tile |-> r.tile, turn |-> r.turn, kind |-> kind]

AttackGoals ==
    IF Known(operations) = {} THEN {}
    ELSE {Goal(r, "planned") : r \in Operating}
         \cup {Goal(r, "ordered") : r \in {a \in Attacking :
                    \A o \in Operating : <<o.player, o.tile>> # <<a.player, a.tile>>}}

Age(goal) == through - goal.turn
FreshWithinWindow(goal) == Age(goal) < GoalFreshTurns
Fresh(goal) == Age(goal) <= GoalFreshTurns

-----------------------------------------------------------------------------
(* The map: city plots within ClusterRadius of each other, in steps, are   *)
(* one frontier.                                                           *)
Frontiers ==
    LET Grow(S) == S \cup {t \in CityTiles : \E s \in S : HexDistance(s, t) <= ClusterRadius}
        reach[n \in 0..Cardinality(CityTiles)] ==
            IF n = 0 THEN [t \in CityTiles |-> {t}]
            ELSE [t \in CityTiles |-> Grow(reach[n - 1][t])]
    IN  {reach[Cardinality(CityTiles)][t] : t \in CityTiles}

DistanceTo(plot, tiles) == Min({HexDistance(plot, t) : t \in tiles})

(* _nearest_cluster, and _assign, which leaves what is far away unassigned. *)
NearestFrontier(plot) ==
    CHOOSE f \in Frontiers : \A g \in Frontiers : DistanceTo(plot, f) <= DistanceTo(plot, g)

FrontierOf(plot) ==
    IF CityTiles # {} /\ DistanceTo(plot, CityTiles) <= MapNearTiles
    THEN NearestFrontier(plot) ELSE None

(* A unit away from every city with an enemy close by. *)
ExposedOnMap(u) ==
    /\ \E e \in EnemyUnits : HexDistance(PositionOf(u), e.tile) <= NearTiles
    /\ CityTiles = {} \/ DistanceTo(PositionOf(u), CityTiles) > MapNearTiles

-----------------------------------------------------------------------------
(* tactical.advise.  All of it is the AI's own planning: oracle.           *)
Insight(kind, p, severity) ==
    [kind |-> kind, player |-> p, severity |-> severity, provenance |-> "oracle"]

NearCity(p) == \E e \in EnemyUnits :
    e.player = p /\ CityTiles # {} /\ DistanceTo(e.tile, CityTiles) <= NearTiles

Exposed == {u \in Placed : \E e \in EnemyUnits : HexDistance(PositionOf(u), e.tile) <= NearTiles}

(* The goals of one rival are dated by the newest of them. *)
PlanInsight(p) ==
    LET theirs == {g \in AttackGoals : g.player = p}
        age == through - Max({g.turn : g \in theirs})
    IN  IF age <= GoalFreshTurns THEN Insight("ordered_attack", p, Critical)
        ELSE Insight("stale_attack_goal", p, Advise)

Insights ==
    {Insight("enemy_units_near", p, Warn) : p \in {q \in Rivals : NearCity(q)}}
        \cup {PlanInsight(p) : p \in {g.player : g \in AttackGoals}}
        \cup {Insight("own_exposed", None, Warn) : u \in Exposed}

(* base.visible: without the intercepts, nothing that rests on them. *)
Visible(items, oracle) == {i \in items : oracle \/ i.provenance = "fair"}

(* build_context: the severity of the tactical alerts; only a fresh goal   *)
(* may make it urgent.                                                     *)
DefenseSeverity(oracle) ==
    LET seen == Visible(Insights, oracle)
        severity == Max({i.severity : i \in seen})
    IN  IF ~oracle \/ seen = {} THEN None
        ELSE IF severity = Critical /\ ~\E g \in AttackGoals : Fresh(g) THEN Warn
        ELSE severity

Urgent(oracle) ==
    LET severity == DefenseSeverity(oracle) IN severity # None /\ severity >= Critical

(* defense.decide, for the settlements whose queue is logged.  It names a  *)
(* settlement only when there is one, and says nothing without a candidate *)
(* a reviewed guide backs.                                                 *)
DefenseCandidates(settlements, oracle) ==
    {c \in {"reinforce", "withdraw"} :
        \/ c = "reinforce" /\ Cardinality(settlements) = 1 /\ "workflow" \in Guides
        \/ c = "withdraw" /\ "naval" \in Guides
               /\ \E i \in Visible(Insights, oracle) : i.kind = "own_exposed"}

(* The id of the fact an objective is cited by says whose it is, where and *)
(* of which turn, and not of which kind.                                   *)
GoalFact(goal) == <<"goal", goal.player, goal.tile, goal.turn>>

(* What each candidate rests on is the context's to say. *)
DefenseCard(settlements, oracle, evidence) ==
    LET built == DefenseCandidates(settlements, oracle)
    IN  IF ~oracle \/ AttackGoals = {} \/ built = {} THEN None
        ELSE [family |-> "defense",
              target |-> IF Cardinality(settlements) = 1
                         THEN CHOOSE s \in settlements : TRUE ELSE None,
              severity |-> IF \E g \in AttackGoals : Fresh(g) THEN Critical ELSE Advise,
              candidates |-> built,
              cites |-> {GoalFact(g) : g \in AttackGoals} \cup UNION {evidence[k] : k \in built}]

-----------------------------------------------------------------------------
Logged == Cardinality(targets) + Cardinality(operations) + Cardinality(orders)
              + Cardinality(sightings) + Cardinality(ownMoves)

FrontierInit ==
    /\ through = 0
    /\ targets = {} /\ operations = {} /\ orders = {} /\ sightings = {} /\ ownMoves = {}

(* The game being played writes about its turn, which is not complete yet. *)
Live == through + 1
SeenAt(p, t) == [player |-> p, turn |-> Live, tile |-> t]

LogTarget ==
    /\ Logged < MaxLogged
    /\ \E t \in Tiles, of \in {"city"} \cup OwnUnits :
        targets' = {r \in targets : r.of = "city" \/ r.of # of \/ r.turn # Live}
                       \cup {[of |-> of, turn |-> Live, tile |-> t]}
    /\ UNCHANGED <<through, operations, orders, sightings, ownMoves>>

LogOperation ==
    /\ Logged < MaxLogged
    /\ \E p \in Rivals \cup {Raider}, t \in Tiles, attack \in BOOLEAN :
        operations' = operations \cup {[player |-> p, turn |-> Live, tile |-> t, attack |-> attack]}
    /\ UNCHANGED <<through, targets, orders, sightings, ownMoves>>

LogOrder ==
    /\ Logged < MaxLogged
    /\ \E p \in Rivals, t \in Tiles :
        orders' = orders \cup {[player |-> p, turn |-> Live, tile |-> t, attack |-> TRUE]}
    /\ UNCHANGED <<through, targets, operations, sightings, ownMoves>>

LogSighting ==
    /\ Logged < MaxLogged
    /\ \E p \in Rivals, u \in Units, t \in Tiles :
        sightings' = {r \in sightings : <<r.player, r.unit, r.turn>> # <<p, u, Live>>}
                         \cup {[player |-> p, unit |-> u, turn |-> Live, tile |-> t]}
    /\ UNCHANGED <<through, targets, operations, orders, ownMoves>>

LogOwnMove ==
    /\ Logged < MaxLogged
    /\ \E u \in OwnUnits : ownMoves' = ownMoves \cup {[unit |-> u, turn |-> Live]}
    /\ UNCHANGED <<through, targets, operations, orders, sightings>>

(* The next turn's statistics are logged: this one is complete. *)
CompleteTurn ==
    /\ through < PlanTurns
    /\ through' = through + 1
    /\ UNCHANGED <<targets, operations, orders, sightings, ownMoves>>

LogPlan == LogTarget \/ LogOperation \/ LogOrder \/ LogSighting \/ LogOwnMove

FrontierNext == LogPlan \/ CompleteTurn

FrontierSpec == FrontierInit /\ [][FrontierNext]_frvars

-----------------------------------------------------------------------------
(* tactical.advise, tactical.snapshot and defense.decide derive the same   *)
(* plans three times over.  The card is urgent exactly when some rival's   *)
(* alert is, the urgency of the context is that alert's, and every goal    *)
(* lies on the frontier it is drawn on.                                    *)
FrontierAgrees ==
    LET alert == \E i \in Insights : i.kind = "ordered_attack"
        card == DefenseCard({None}, TRUE, [k \in {"reinforce", "withdraw"} |-> {}])
    IN  /\ Urgent(TRUE) <=> alert
        /\ card # None => (card.severity = Critical <=> alert)
        /\ \A g \in AttackGoals : g.tile \in FrontierOf(g.tile)

(* advisors/tactical.py and defense.py: silence is not safety.  A turn     *)
(* about which nothing was logged ages the objectives and drops none, and  *)
(* makes nothing more urgent.                                              *)
SilenceOnlyAges ==
    [][(through' = through + 1 /\ \A rows \in {targets, operations, orders} :
            \A r \in rows : r.turn <= through)
       => /\ AttackGoals' = AttackGoals
          /\ Urgent(TRUE)' => Urgent(TRUE)]_frvars
=============================================================================
