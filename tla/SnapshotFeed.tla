---------------------------- MODULE SnapshotFeed -----------------------------
(***************************************************************************)
(* What the store promises its readers (the serializers, the player's      *)
(* record, the commentary worker), with no thread, lock or partial read in *)
(* sight: there is one active game, one sitting of it, and at most one     *)
(* snapshot shown.  A snapshot either continues the session of the one     *)
(* shown before it, which must be of the same sitting and may not go back  *)
(* in turns, or opens a session nobody has used.                           *)
(***************************************************************************)
EXTENDS Naturals

CONSTANTS Games, Turns, None

VARIABLES
    game,       \* the active game, or None while idle
    sitting,    \* counts game switches
    shown,      \* [game, sitting, session, revision, turn] on screen, or None
    revision,   \* the newest revision given out
    sessions,   \* how many sessions have been opened
    played      \* has the current session shown any rows?

vars == <<game, sitting, shown, revision, sessions, played>>

Init ==
    /\ game \in Games \cup {None}
    /\ sitting = 0 /\ shown = None /\ revision = 0 /\ sessions = 0 /\ played = FALSE

(* The screen is blanked: the old game's snapshot is not the new one's past. *)
Switch(g) ==
    /\ g # game
    /\ game' = g /\ sitting' = sitting + 1
    /\ shown' = None /\ played' = FALSE
    /\ UNCHANGED <<revision, sessions>>

Show(turn, session) ==
    /\ game # None
    /\ revision' = revision + 1
    /\ shown' = [game |-> game, sitting |-> sitting, session |-> session,
                 revision |-> revision', turn |-> turn]
    /\ UNCHANGED <<game, sitting>>

(* An empty read may continue any session; rows may continue one that has  *)
(* shown none yet, or that shows rows of no later turn right now.          *)
Continue(turn) ==
    /\ shown # None
    /\ \/ turn = 0
       \/ ~played
       \/ shown.turn > 0 /\ shown.turn <= turn
    /\ Show(turn, shown.session)
    /\ played' = (played \/ turn # 0)
    /\ UNCHANGED sessions

Open(turn) ==
    /\ sessions' = sessions + 1
    /\ Show(turn, sessions')
    /\ played' = (turn # 0)

Next ==
    \/ \E g \in Games : Switch(g)
    \/ \E turn \in Turns \cup {0} : Continue(turn) \/ Open(turn)

Spec == Init /\ [][Next]_vars
=============================================================================
