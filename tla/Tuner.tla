------------------------------- MODULE Tuner -------------------------------
(* What the advisor asks the running game over its tuner socket           *)
(* (tuner/client.py, protocol.py, queries.py, options.py and capture() of  *)
(* base.py).  One rebuild opens one connection, asks its queries one after *)
(* the other, and closes it.  The replies come back on one stream and the  *)
(* line that ends one does not say whose it is: what is left of a reply    *)
(* that came after its query gave up is read as the answer to the next.    *)
EXTENDS Naturals, Sequences, SequencesExt

CONSTANTS Queries,   \* the queries of a capture, in the order they are asked
          Files,     \* what AppOptions.txt may hold: a sequence of lines, or Unreadable
          MaxGameTurn,
          Nothing, Unreadable

Asked == {"amenities", "maintenance", "build_options", "build_options_ids"}

ASSUME TunerAssumption ==
    /\ Queries \in Seq(Asked)
    /\ \A i, j \in DOMAIN Queries : Queries[i] = Queries[j] => i = j
    /\ MaxGameTurn \in Nat \ {0}

VARIABLES gameTurn,   \* the turn the game is at
          commands,   \* commands sent and not yet run by the game
          wire,       \* messages sent by the game and not yet received
          link,       \* "closed", "open", or "cut" by the game
          asked,      \* how many queries of the capture have been asked
          waiting,    \* the last of them is being waited for
          lines,      \* its lines so far
          unavailable,\* why the provider has no reading, or Nothing
          captured    \* per query asked: [value, why, reading]

tvars == <<gameTurn, commands, wire, link, asked, waiting, lines, unavailable, captured>>

-----------------------------------------------------------------------------
(* What the game says.  A message is one line of output: the turn, a       *)
(* figure, an error, or the end marker appended to the command.            *)

Line(kind, q, t) == [kind |-> kind, of |-> q, turn |-> t]

(* The replies a query can draw.  Every body runs in its own pcall, so an  *)
(* error is a line before the marker; one that is not caught ends the      *)
(* reply without it.  A settlement may be offered nothing.                 *)
Replies(q, t) ==
    LET turn == Line("turn", q, t)
        figure == Line("figure", q, t)
        error == Line("error", q, t)
        end == Line("end", q, t)
    IN  {<<turn, figure, end>>, <<turn, error, end>>, <<error, figure, end>>, <<turn, error>>}
        \cup (IF q \in {"build_options", "build_options_ids"} THEN {<<turn, end>>} ELSE {})

(* The number of fields of a line: what the parsers tell replies by. *)
Width(l) ==
    IF l.kind # "figure" THEN 2
    ELSE CASE l.of = "maintenance" -> 2
           [] l.of = "amenities" -> 7
           [] l.of = "build_options_ids" -> 6
           [] l.of = "build_options" -> 3

(* The lines of a reply with at least the fields the parser unpacks. *)
ReadableOfAnyWidth(q, ls) ==
    {l \in Range(ls) : l.kind = "figure" /\ Width(l) >= Width(Line("figure", q, 0))}

(* The lines a query's parser reads figures from. *)
Readable(q, ls) ==
    {l \in Range(ls) : l.kind = "figure" /\ Width(l) = Width(Line("figure", q, 0))}

-----------------------------------------------------------------------------
(* open_tuner: the reason it gives when it has no connection. *)

(* The first EnableTuner line under [Debug] decides; comments are gone. *)
Flag(file) ==
    IF file = Unreadable THEN "unreadable"
    ELSE LET InDebug(i) ==
                 LET sections == {j \in 1..i : file[j] \in {"[Debug]", "[Other]"}}
                 IN  sections # {} /\ file[CHOOSE j \in sections :
                                            \A k \in sections : k <= j] = "[Debug]"
             set == {i \in DOMAIN file : file[i] \in {"EnableTuner 1", "EnableTuner 0"}
                                          /\ InDebug(i)}
         IN  IF \E i \in set : (\A j \in set : i <= j) /\ file[i] = "EnableTuner 1"
             THEN "on" ELSE "off"

Refused(file) ==
    CASE Flag(file) = "on"         -> "not_answering"
      [] Flag(file) = "off"        -> "not_enabled"
      [] Flag(file) = "unreadable" -> "unestablished"

-----------------------------------------------------------------------------
Init ==
    /\ gameTurn = 1
    /\ commands = <<>> /\ wire = <<>>
    /\ link = "closed"
    /\ asked = 0 /\ waiting = FALSE /\ lines = <<>>
    /\ unavailable = Nothing
    /\ captured = <<>>

(* The player ends a turn while the capture is going on. *)
EndTurn ==
    /\ gameTurn < MaxGameTurn
    /\ gameTurn' = gameTurn + 1
    /\ UNCHANGED <<commands, wire, link, asked, waiting, lines, unavailable, captured>>

(* open_tuner for a rebuild: every attempt is refused, and the file says   *)
(* why; the handshake names no states; or the connection stands.           *)
Open ==
    /\ link = "closed"
    /\ commands' = <<>> /\ wire' = <<>>
    /\ asked' = 0 /\ captured' = <<>>
    /\ \/ \E file \in Files : unavailable' = Refused(file) /\ link' = "closed"
       \/ unavailable' = "not_answering" /\ link' = "closed"
       \/ unavailable' = Nothing /\ link' = "open"
    /\ UNCHANGED <<gameTurn, waiting, lines>>

Asking == Queries[asked]

(* _ask of capture(): what one query left, before the next clears it. *)
Take(value, why, reading) ==
    /\ captured' = Append(captured, [value |-> value, why |-> why, reading |-> reading])
    /\ unavailable' = why
    /\ waiting' = FALSE
    /\ lines' = <<>>

(* _answer and _ask begin the next query: the earlier one's outcome is     *)
(* cleared, the command is sent.  What is left of an earlier reply stays   *)
(* on the stream.  The game may not have the state that knows build        *)
(* options.                                                                *)
Ask ==
    /\ link \in {"open", "cut"}
    /\ ~waiting
    /\ asked < Len(Queries)
    /\ asked' = asked + 1
    /\ \/ /\ link = "open"
          /\ commands' = Append(commands, Queries[asked + 1])
          /\ waiting' = TRUE /\ lines' = <<>> /\ unavailable' = Nothing
          /\ UNCHANGED captured
       \/ link = "cut" /\ Take({}, "not_answering", Nothing) /\ UNCHANGED commands
       \/ /\ Queries[asked + 1] \in {"build_options", "build_options_ids"}
          /\ Take({}, "unreachable", Nothing) /\ UNCHANGED commands
    /\ UNCHANGED <<gameTurn, wire, link>>

(* The game runs a command at the turn it is then at. *)
Run ==
    /\ link = "open"
    /\ commands # <<>>
    /\ \E reply \in Replies(Head(commands), gameTurn) : wire' = wire \o reply
    /\ commands' = Tail(commands)
    /\ UNCHANGED <<gameTurn, link, asked, waiting, lines, unavailable, captured>>

(* split_turn, TunerReading and the query's parser, on a complete reply.   *)
(* The turn is the first one named, and without one the figures are        *)
(* refused; maintenance and amenities must hold figures, the build options *)
(* may hold none.                                                          *)
Answer(q, ls) ==
    LET turns == {i \in DOMAIN ls : ls[i].kind = "turn"}
        first == CHOOSE i \in turns : \A j \in turns : i <= j
        figures == Readable(q, ls)
    IN  IF turns = {} THEN Take({}, "unreachable", Nothing)
        ELSE IF figures = {} /\ q \in {"amenities", "maintenance"}
        THEN Take({}, "unreachable", ls[first].turn)
        ELSE Take(figures, Nothing, ls[first].turn)

(* recv: a chunk of the stream.  The lines of an incomplete reply are      *)
(* kept.  The first marker answers the query and the first error refuses   *)
(* it; what the chunk holds behind it is dropped with it.                  *)
Receive ==
    /\ waiting
    /\ \E n \in 1..Len(wire) :
        LET chunk == SubSeq(wire, 1, n)
            decisive == {i \in 1..n : chunk[i].kind \in {"end", "error"}}
            first == CHOOSE i \in decisive : \A j \in decisive : i <= j
        IN  /\ wire' = SubSeq(wire, n + 1, Len(wire))
            /\ IF decisive = {}
               THEN lines' = lines \o chunk /\ UNCHANGED <<waiting, unavailable, captured>>
               ELSE IF chunk[first].kind = "error"
               THEN Take({}, "unreachable", Nothing)
               ELSE Answer(Asking, lines \o SubSeq(chunk, 1, first - 1))
    /\ UNCHANGED <<gameTurn, commands, link, asked>>

(* The deadline passes, or the game closed the socket. *)
GiveUp ==
    /\ waiting
    /\ Take({}, "not_answering", Nothing)
    /\ UNCHANGED <<gameTurn, commands, wire, link, asked>>

(* The game goes away: nothing more arrives, nothing more can be sent. *)
Cut ==
    /\ link = "open"
    /\ link' = "cut" /\ wire' = <<>> /\ commands' = <<>>
    /\ UNCHANGED <<gameTurn, asked, waiting, lines, unavailable, captured>>

(* The rebuild has its figures and is done with the connection. *)
Close ==
    /\ link \in {"open", "cut"}
    /\ ~waiting /\ asked = Len(Queries)
    /\ link' = "closed"
    /\ UNCHANGED <<gameTurn, commands, wire, asked, waiting, lines, unavailable, captured>>

Next == EndTurn \/ Open \/ Ask \/ Run \/ Receive \/ GiveUp \/ Cut \/ Close

TunerSpec == Init /\ [][Next]_tvars

-----------------------------------------------------------------------------
TypeOK ==
    /\ gameTurn \in 1..MaxGameTurn
    /\ link \in {"closed", "open", "cut"}
    /\ asked \in 0..Len(Queries)
    /\ waiting \in BOOLEAN
    /\ unavailable \in {Nothing, "not_enabled", "not_answering", "unreachable", "unestablished"}
    /\ Len(captured) = asked - (IF waiting THEN 1 ELSE 0)

(* tuner/base.py and client.py: every figure of a capture was read from    *)
(* the reply to its own query, and is dated by the turn that reply named - *)
(* although a query may be read the reply to an earlier one.               *)
FiguresOfOwnReply ==
    \A i \in DOMAIN captured :
        \A figure \in captured[i].value :
            /\ figure.of = Queries[i]
            /\ figure.turn = captured[i].reading
=============================================================================
