------------------------------ MODULE LogFiles ------------------------------
(* What the log files hold and what a rebuild makes of them (ingest/,      *)
(* games/civ6/readers.py and state/build.py), for Civ VI, which appends to *)
(* the same files across games, restarts and reloads.  A row does not say  *)
(* which game wrote it: the readers take a turn that goes back for the     *)
(* border.  Statistics name a civilization, which GameCore.log gives a     *)
(* player, and a city's queue names no owner, which AI_CityBuild.csv       *)
(* supplies.                                                               *)
EXTENDS Integers, Sequences, SequencesExt, FiniteSetsExt

CONSTANTS Seatings,      \* who plays what: functions from players to [civ, level]
          MaxGame, MaxLogTurn,
          MaxRows,       \* bound on the rows of all files together
          MaxLoads       \* bound on the launches and reloads

(* A game has players, finitely many.                                      *)
ASSUME SeatingsAssumption == \A s \in Seatings : DOMAIN s # {} /\ IsFiniteSet(DOMAIN s)

Human == 0
LogNames == {"Player_Stats.csv", "City_BuildQueue.csv", "AI_CityBuild.csv", "GameCore.log"}

VARIABLES game, seating,    \* the game being played and its players
          logTurn,          \* its turn
          captor,           \* the player who owns the one city
          stats,            \* rows of each file, oldest first
          queue, ownership,
          blocks,           \* identity blocks of GameCore.log: player -> [civ, level]
          logged            \* this game's statistics have a row since it was loaded

fvars == <<game, seating, logTurn, captor, stats, queue, ownership, blocks, logged>>

-----------------------------------------------------------------------------
(* Reading.  A file in `broken` is missing or malformed at this reading.   *)

(* What a reader takes that does not look for the border. *)
WholeLog(rows) == rows

(* latest_game_segment: everything from the last row whose turn is lower   *)
(* than the one before it.                                                 *)
LatestGameSegment(rows) ==
    LET drops == {i \in 2..Len(rows) : rows[i].turn < rows[i - 1].turn}
    IN  SubSeq(rows, IF drops = {} THEN 1 ELSE Max(drops), Len(rows))

(* read_player_identities: the last block that resolved anyone. *)
Identities(broken) ==
    LET resolved == {i \in DOMAIN blocks : DOMAIN blocks[i] # {}}
    IN  IF "GameCore.log" \in broken \/ resolved = {} THEN <<>> ELSE blocks[Max(resolved)]

(* _player_by_civilization: a civilization two players field maps to none. *)
PlayersOf(civ, identities) == {p \in DOMAIN identities : identities[p].civ = civ}

AttributableToAny(civ, identities) == PlayersOf(civ, identities) # {}

Attributable(civ, identities) == Cardinality(PlayersOf(civ, identities)) = 1

(* read_player_stats_civ6: rows of nobody known are dropped. *)
Statistics(broken) ==
    LET identities == Identities(broken)
        own == {r \in Range(LatestGameSegment(stats)) : Attributable(r.civ, identities)}
    IN  IF "Player_Stats.csv" \in broken THEN {}
        ELSE {[turn |-> r.turn, game |-> r.game, truly |-> r.player,
               player |-> CHOOSE p \in PlayersOf(r.civ, identities) : TRUE] : r \in own}

(* _owner_at: the owner the latest entry at or before the turn names. *)
OwnerAt(turn, entries) ==
    LET before == {i \in DOMAIN entries : entries[i].turn <= turn}
    IN  IF before = {} THEN -1
        ELSE LET last == Max({entries[i].turn : i \in before})
             IN  Max({entries[i].player : i \in {j \in before : entries[j].turn = last}})

(* read_build_queue_civ6, joined with _ownership_by_turn. *)
Queue(broken) ==
    LET entries == IF "AI_CityBuild.csv" \in broken THEN <<>> ELSE LatestGameSegment(ownership)
        rows == LatestGameSegment(queue)
    IN  IF "City_BuildQueue.csv" \in broken THEN <<>>
        ELSE [i \in DOMAIN rows |-> [turn |-> rows[i].turn, game |-> rows[i].game,
                                     player |-> OwnerAt(rows[i].turn, entries)]]

-----------------------------------------------------------------------------
(* build_state: the turns, from the statistics; without them, nothing.     *)
LatestTurn(broken) == Max({0} \cup {r.turn : r \in Statistics(broken)})

CompleteThroughTurn(broken) == Max({LatestTurn(broken) - 1, 0})

(* Its players: whoever has statistics, except the barbarians' slot.  In   *)
(* Civ VI only the level tells a rival from an independent people.         *)
Kind(p, identities) ==
    CASE p = Human                              -> "human"
      [] p # Human /\ identities[p].level = "full"  -> "rival"
      [] OTHER                                  -> "independent"

LastSeen(p, broken) == Max({r.turn : r \in {s \in Statistics(broken) : s.player = p}})

Players(broken) ==
    LET identities == Identities(broken)
        seen == {r.player : r \in Statistics(broken)}
    IN  [p \in {q \in seen : identities[q].level # "tribe"} |->
            [kind |-> Kind(p, identities),
             alive |-> LastSeen(p, broken) >= CompleteThroughTurn(broken)]]

-----------------------------------------------------------------------------
Block(seats) == [p \in DOMAIN seats |-> seats[p]]

LogsInit ==
    /\ game = 1 /\ logTurn = 1
    /\ seating \in Seatings
    /\ captor \in DOMAIN seating
    /\ stats = <<>> /\ queue = <<>> /\ ownership = <<>>
    /\ blocks = <<Block(seating)>>
    /\ logged = FALSE

Rows == Len(stats) + Len(queue) + Len(ownership)

(* The game logs a row at its turn. *)
LogStats ==
    /\ Rows < MaxRows
    /\ \E p \in DOMAIN seating :
        stats' = Append(stats, [turn |-> logTurn, civ |-> seating[p].civ, player |-> p, game |-> game])
    /\ logged' = TRUE
    /\ UNCHANGED <<game, seating, logTurn, captor, queue, ownership, blocks>>

LogCityQueue ==
    /\ Rows < MaxRows
    /\ queue' = Append(queue, [turn |-> logTurn, game |-> game])
    /\ UNCHANGED <<game, seating, logTurn, captor, stats, ownership, blocks, logged>>

LogOwner ==
    /\ Rows < MaxRows
    /\ ownership' = Append(ownership, [turn |-> logTurn, player |-> captor, game |-> game])
    /\ UNCHANGED <<game, seating, logTurn, captor, stats, queue, blocks, logged>>

(* A turn ends, and the city may change hands. *)
EndLogTurn ==
    /\ logTurn < MaxLogTurn
    /\ logTurn' = logTurn + 1
    /\ captor' \in DOMAIN seating
    /\ UNCHANGED <<game, seating, stats, queue, ownership, blocks, logged>>

(* The player loads an earlier turn, or starts another game at turn 1; the *)
(* engine writes its players again, first as placeholders.                 *)
LoadGame ==
    /\ Len(blocks) < 2 * MaxLoads
    /\ \/ /\ game' = game /\ seating' = seating
          /\ logTurn' \in 1..logTurn
       \/ /\ game < MaxGame
          /\ game' = game + 1 /\ seating' \in Seatings
          /\ logTurn' = 1
    /\ captor' \in DOMAIN seating'
    /\ blocks' = blocks \o <<<<>>, Block(seating')>>
    /\ logged' = FALSE
    /\ UNCHANGED <<stats, queue, ownership>>

LogsNext == LogStats \/ LogCityQueue \/ LogOwner \/ EndLogTurn \/ LoadGame

LogsSpec == LogsInit /\ [][LogsNext]_fvars

-----------------------------------------------------------------------------
LogsTypeOK ==
    /\ game \in 1..MaxGame /\ logTurn \in 1..MaxLogTurn
    /\ seating \in Seatings /\ captor \in DOMAIN seating
    /\ \A broken \in {{}, {"GameCore.log"}, {"AI_CityBuild.csv"}} :
        /\ CompleteThroughTurn(broken) \in 0..MaxLogTurn
        /\ \A p \in DOMAIN Players(broken) : Players(broken)[p].kind \in {"human", "rival", "independent"}
        /\ \A i \in DOMAIN Queue(broken) : Queue(broken)[i].player \in DOMAIN seating \cup {-1}

(* state/build.py: once the loaded game has logged its statistics, the     *)
(* turn that advice is computed for is one it has finished - whatever was  *)
(* played before it went into the same files.                              *)
FinishedTurnsOnly ==
    logged => \A broken \in SUBSET {"Player_Stats.csv", "GameCore.log"} :
                  CompleteThroughTurn(broken) < logTurn

(* games/civ6/readers.py: as long as the statistics kept are this game's,  *)
(* no row is filed under a player who does not play that civilization.     *)
FiledUnderOwnPlayer ==
    \A broken \in SUBSET {"Player_Stats.csv", "GameCore.log"} :
        \A r \in Statistics(broken) : r.game = game => r.player = r.truly
=============================================================================
