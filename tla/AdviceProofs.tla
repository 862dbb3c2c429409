----------------------------- MODULE AdviceProofs -----------------------------
(***************************************************************************)
(* Proofs about the figures advice and answers are made of: what is asked  *)
(* of the game (Tuner), for any list of queries; what changed since the    *)
(* last turn (TurnChanges), for any yields, turns and readings of the      *)
(* logs; what the logs are read as (LogFiles), for any games and seatings; *)
(* what prose the copilot may show of it (Answers), for any snapshots,     *)
(* messages, selections and texts; and what is advised: of the AI's plans  *)
(* (Frontier), for any map, rivals and units, and of the yields            *)
(* (Decisions), for any yields, cities and items.                          *)
(***************************************************************************)
EXTENDS Tuner, TurnChanges, LogFiles, Answers, Decisions, SequenceTheorems,
        FiniteSetTheorems, WellFoundedInduction, TLAPS

-----------------------------------------------------------------------------
(* The definitions choose a least or a greatest number: there is one.      *)

LEMMA Least ==
    ASSUME NEW S \in SUBSET Nat, S # {}
    PROVE  \E n \in S : \A m \in S : n <= m
  <1> DEFINE R == {ss \in Nat \X Nat : ss[1] < ss[2]}
  <1>1. IsWellFoundedOn(R, Nat)
    BY NatLessThanWellFounded DEF OpToRel
  <1>2. \E x \in S : \A y \in S : ~(<<y, x>> \in R)
    <2> HIDE DEF R
    <2> QED BY <1>1, WFMin
  <1>3. PICK x \in S : \A y \in S : ~(<<y, x>> \in R)
    BY <1>2
  <1>4. \A y \in S : ~(y < x)
    BY <1>3
  <1> QED BY <1>4

LEMMA FirstIs ==
    ASSUME NEW S \in SUBSET Nat, S # {}
    PROVE  LET f == CHOOSE i \in S : \A j \in S : i <= j
           IN  f \in S /\ \A j \in S : f <= j
  BY Least

LEMMA Greatest ==
    ASSUME NEW S \in SUBSET Nat, S # {}, NEW bound \in Nat, \A n \in S : n <= bound
    PROVE  \E n \in S : \A m \in S : m <= n
  <1> DEFINE T == {t \in Nat : \E n \in S : t = bound - n}
  <1>1. T \in SUBSET Nat
    OBVIOUS
  <1>2. PICK a \in S : TRUE
    OBVIOUS
  <1>3. bound - a \in T
    OBVIOUS
  <1>4. PICK x \in T : \A y \in T : x <= y
    <2> HIDE DEF T
    <2> QED BY <1>1, <1>3, Least
  <1>5. PICK n \in S : x = bound - n
    BY <1>4
  <1>6. ASSUME NEW m \in S PROVE m <= n
    <2>1. bound - m \in T
      OBVIOUS
    <2>2. x <= bound - m
      BY ONLY <1>4, <2>1
    <2> QED BY ONLY <2>2, <1>5, bound \in Nat, n \in S, m \in S, S \in SUBSET Nat
  <1> QED BY <1>6

-----------------------------------------------------------------------------
(* The tuner.                                                              *)

Lines == [kind : {"turn", "figure", "error", "end"}, of : Asked, turn : Nat]

Ends == {"end", "error"}

SameReply(l, m) == l.of = m.of /\ l.turn = m.turn

(* Between two lines that are not of one reply, one of them was ended.     *)
OneReplyAtATime(s) ==
    \A i, j \in DOMAIN s :
        (i <= j /\ \A k \in i..(j - 1) : s[k].kind \notin Ends) => SameReply(s[i], s[j])

(* What one query has read so far: lines of one reply, not ended.          *)
OneReply(s) == \A i, j \in DOMAIN s : s[i].kind \notin Ends /\ SameReply(s[i], s[j])

Attempts == [value : SUBSET Lines, why : {Nothing, "not_answering", "unreachable"},
             reading : Nat \cup {Nothing}]

(* The stream holds whole replies, but for the first, whose beginning may  *)
(* have been read already: what has been read of it is all of that reply.  *)
StreamInv ==
    /\ commands \in Seq(Asked)
    /\ wire \in Seq(Lines) /\ lines \in Seq(Lines)
    /\ OneReplyAtATime(wire)
    /\ wire # <<>> => wire[Len(wire)].kind \in Ends
    /\ OneReply(lines)
    /\ (link = "open" /\ lines # <<>>) => (wire # <<>> /\ SameReply(lines[1], wire[1]))
    /\ link = "cut" => wire = <<>>
    /\ ~waiting => lines = <<>>

(* One attempt per query answered, and each with figures of its own.       *)
CaptureInv ==
    /\ gameTurn \in 1..MaxGameTurn
    /\ link \in {"closed", "open", "cut"} /\ waiting \in BOOLEAN
    /\ asked \in 0..Len(Queries)
    /\ unavailable \in {Nothing, "not_enabled", "not_answering", "unreachable", "unestablished"}
    /\ captured \in Seq(Attempts)
    /\ waiting => asked = Len(captured) + 1
    /\ ~waiting => asked = Len(captured)
    /\ link = "closed" => ~waiting
    /\ FiguresOfOwnReply

TunerInv == StreamInv /\ CaptureInv

(* The parsers tell replies by the number of fields: no two have the same. *)
LEMMA WidthTells ==
    ASSUME NEW p \in Asked, NEW q \in Asked, NEW t, NEW u,
           Width(Line("figure", p, t)) = Width(Line("figure", q, u))
    PROVE  p = q
  BY DEF Asked, Width, Line

(* A reply is of one query and one turn, and its last line ends it.        *)
LEMMA ReplyShape ==
    ASSUME NEW q \in Asked, NEW t \in Nat, NEW reply \in Replies(q, t)
    PROVE  /\ reply \in Seq(Lines) /\ reply # <<>>
           /\ \A i \in DOMAIN reply : reply[i].of = q /\ reply[i].turn = t
           /\ reply[Len(reply)].kind \in Ends
  <1> DEFINE turn == Line("turn", q, t)
             figure == Line("figure", q, t)
             error == Line("error", q, t)
             end == Line("end", q, t)
  <1>1. {turn, figure, error, end} \subseteq Lines
    BY DEF Line, Lines
  <1>2. \A l \in {turn, figure, error, end} : l.of = q /\ l.turn = t
    BY DEF Line
  <1>3. end.kind \in Ends /\ error.kind \in Ends
    BY DEF Line, Ends
  <1>4. \/ reply \in {<<turn, figure, end>>, <<turn, error, end>>, <<error, figure, end>>}
        \/ reply \in {<<turn, error>>, <<turn, end>>}
    BY DEF Replies
  <1> HIDE DEF turn, figure, error, end
  <1>5. CASE \E a, b, c \in {turn, figure, error, end} : reply = <<a, b, c>> /\ c \in {end, error}
    BY <1>1, <1>2, <1>3, <1>5
  <1>6. CASE \E a, b \in {turn, figure, error, end} : reply = <<a, b>> /\ b \in {end, error}
    BY <1>1, <1>2, <1>3, <1>6
  <1> QED BY <1>4, <1>5, <1>6

(* So what a parser reads from one reply is the query's own, and of the    *)
(* turn any line of that reply names.                                      *)
LEMMA OwnFigures ==
    ASSUME NEW q \in Asked, NEW ls \in Seq(Lines), OneReply(ls),
           NEW i \in DOMAIN ls, NEW l \in Readable(q, ls)
    PROVE  l \in Lines /\ l.of = q /\ l.turn = ls[i].turn
  <1>1. PICK j \in DOMAIN ls : l = ls[j]
    BY DEF Readable, Range
  <1>2. l \in Lines
    BY <1>1, ElementOfSeq, LenProperties
  <1>3. l.turn = ls[i].turn
    BY <1>1 DEF OneReply, SameReply
  <1>4. l.kind = "figure" /\ Width(l) = Width(Line("figure", q, 0))
    BY DEF Readable
  <1>5. l = Line("figure", l.of, l.turn)
    BY <1>2, <1>4 DEF Lines, Line
  <1>6. l.of \in Asked
    BY <1>2 DEF Lines
  <1> QED BY <1>2, <1>3, <1>4, <1>5, <1>6, WidthTells

(* What _ask of capture() appends keeps every attempt's figures its own.   *)
LEMMA TakeAnswers ==
    ASSUME TunerInv, NEW value \in SUBSET Lines, NEW why, NEW reading \in Nat \cup {Nothing},
           why \in {Nothing, "not_answering", "unreachable"},
           Take(value, why, reading), Len(captured) + 1 \in 1..Len(Queries),
           \A f \in value : f.of = Queries[Len(captured) + 1] /\ f.turn = reading
    PROVE  /\ captured' \in Seq(Attempts) /\ Len(captured') = Len(captured) + 1
           /\ unavailable' \in {Nothing, "not_answering", "unreachable"}
           /\ ~waiting' /\ waiting' \in BOOLEAN /\ lines' = <<>>
           /\ FiguresOfOwnReply'
  <1> DEFINE attempt == [value |-> value, why |-> why, reading |-> reading]
  <1>1. attempt \in Attempts /\ captured' = Append(captured, attempt)
    BY DEF Take, Attempts
  <1>2. captured \in Seq(Attempts)
    BY DEF TunerInv, CaptureInv
  <1>3. attempt.value = value /\ attempt.reading = reading
    OBVIOUS
  <1> HIDE DEF attempt
  <1>4. captured' \in Seq(Attempts) /\ Len(captured') = Len(captured) + 1
    <2>1. captured' \in Seq(Attempts)
      BY <1>1, <1>2, AppendProperties
    <2>2. Len(captured') = Len(captured) + 1
      BY <1>1, <1>2, AppendProperties
    <2> QED BY <2>1, <2>2
  <1>5. \A i \in DOMAIN captured' :
            \/ i = Len(captured) + 1 /\ captured'[i] = attempt
            \/ i \in DOMAIN captured /\ captured'[i] = captured[i]
    <2>1. DOMAIN captured' = 1..Len(captured) + 1 /\ DOMAIN captured = 1..Len(captured)
            /\ Len(captured) \in Nat
      BY <1>2, <1>4, LenProperties
    <2>2. /\ \A i \in 1..Len(captured) : captured'[i] = captured[i]
          /\ captured'[Len(captured) + 1] = attempt
      BY <1>1, <1>2, AppendProperties
    <2>3. ASSUME NEW i \in 1..Len(captured) + 1 PROVE i = Len(captured) + 1 \/ i \in 1..Len(captured)
      BY <2>1
    <2> QED BY ONLY <2>1, <2>2, <2>3
  <1>6. FiguresOfOwnReply'
    <2> SUFFICES ASSUME NEW i \in DOMAIN captured', NEW f \in captured'[i].value
                 PROVE  f.of = Queries[i] /\ f.turn = captured'[i].reading
      BY DEF FiguresOfOwnReply
    <2>1. CASE i = Len(captured) + 1 /\ captured'[i] = attempt
      BY <2>1, <1>3
    <2>2. CASE i \in DOMAIN captured /\ captured'[i] = captured[i]
      BY <2>2 DEF TunerInv, CaptureInv, FiguresOfOwnReply
    <2> QED BY <1>5, <2>1, <2>2
  <1> QED BY <1>4, <1>6 DEF Take

LEMMA NothingTaken ==
    ASSUME TunerInv, NEW why \in {"not_answering", "unreachable"}, NEW reading \in Nat \cup {Nothing},
           Take({}, why, reading), Len(captured) + 1 \in 1..Len(Queries)
    PROVE  /\ captured' \in Seq(Attempts) /\ Len(captured') = Len(captured) + 1
           /\ unavailable' \in {Nothing, "not_answering", "unreachable"}
           /\ ~waiting' /\ waiting' \in BOOLEAN /\ lines' = <<>>
           /\ FiguresOfOwnReply'
  <1>1. {} \in SUBSET Lines /\ why \in {Nothing, "not_answering", "unreachable"}
    OBVIOUS
  <1>2. \A f \in {} : f.of = Queries[Len(captured) + 1] /\ f.turn = reading
    OBVIOUS
  <1> QED BY ONLY TunerInv, <1>1, <1>2, Take({}, why, reading), Len(captured) + 1 \in 1..Len(Queries),
                  reading \in Nat \cup {Nothing}, TakeAnswers

(* A complete reply, whosever it is, leaves figures of the query asked.    *)
LEMMA AnswerIsOwn ==
    ASSUME TunerInv, NEW q \in Asked, NEW ls \in Seq(Lines), OneReply(ls), Answer(q, ls),
           Len(captured) + 1 \in 1..Len(Queries), q = Queries[Len(captured) + 1]
    PROVE  /\ captured' \in Seq(Attempts) /\ Len(captured') = Len(captured) + 1
           /\ unavailable' \in {Nothing, "not_answering", "unreachable"}
           /\ ~waiting' /\ waiting' \in BOOLEAN /\ lines' = <<>>
           /\ FiguresOfOwnReply'
  <1> DEFINE turns == {i \in DOMAIN ls : ls[i].kind = "turn"}
             first == CHOOSE i \in turns : \A j \in turns : i <= j
             figures == Readable(q, ls)
  <1>1. CASE turns = {}
    <2>1. Take({}, "unreachable", Nothing)
      BY <1>1 DEF Answer
    <2> QED BY <2>1, NothingTaken
  <1>2. CASE turns # {}
    <2>1. turns \in SUBSET Nat
      BY LenProperties
    <2>2. first \in turns
      <3> HIDE DEF turns
      <3> QED BY <1>2, <2>1, FirstIs
    <2>3. first \in DOMAIN ls /\ ls[first] \in Lines /\ ls[first].turn \in Nat
      <3>1. first \in DOMAIN ls
        BY <2>2
      <3> HIDE DEF first, turns, figures
      <3>2. first \in 1..Len(ls)
        BY <3>1, LenProperties
      <3>3. ls[first] \in Lines
        BY <3>2, ElementOfSeq
      <3> QED BY <3>1, <3>3 DEF Lines
    <2> HIDE DEF first
    <2>4. figures \in SUBSET Lines /\ \A f \in figures : f.of = q /\ f.turn = ls[first].turn
      BY <2>3, OwnFigures
    <2>5. \/ Take({}, "unreachable", ls[first].turn)
          \/ Take(figures, Nothing, ls[first].turn)
      BY <1>2 DEF Answer, first
    <2> HIDE DEF figures, turns
    <2>6. CASE Take({}, "unreachable", ls[first].turn)
      BY <2>3, <2>6, NothingTaken
    <2>7. CASE Take(figures, Nothing, ls[first].turn)
      <3>1. ls[first].turn \in Nat \cup {Nothing} /\ Nothing \in {Nothing, "not_answering", "unreachable"}
        BY <2>3
      <3>2. \A f \in figures : f.of = Queries[Len(captured) + 1] /\ f.turn = ls[first].turn
        BY <2>4
      <3> QED BY ONLY <2>4, <2>7, <3>1, <3>2, TunerInv, Len(captured) + 1 \in 1..Len(Queries), TakeAnswers
    <2> QED BY <2>5, <2>6, <2>7
  <1> QED BY <1>1, <1>2

LEMMA EmptyStream ==
    /\ <<>> \in Seq(Asked) /\ <<>> \in Seq(Lines) /\ <<>> \in Seq(Attempts)
    /\ OneReplyAtATime(<<>>) /\ OneReply(<<>>)
  BY DEF OneReplyAtATime, OneReply

(* The game answers a command: a whole reply behind what is on the stream. *)
LEMMA StreamGrows ==
    ASSUME NEW s \in Seq(Lines), NEW reply \in Seq(Lines), OneReplyAtATime(s),
           s # <<>> => s[Len(s)].kind \in Ends,
           reply # <<>>, reply[Len(reply)].kind \in Ends,
           \A i, j \in DOMAIN reply : SameReply(reply[i], reply[j])
    PROVE  /\ s \o reply \in Seq(Lines) /\ s \o reply # <<>>
           /\ OneReplyAtATime(s \o reply)
           /\ (s \o reply)[Len(s \o reply)].kind \in Ends
           /\ s # <<>> => (s \o reply)[1] = s[1]
  <1> DEFINE w == s \o reply
  <1>1. /\ w \in Seq(Lines) /\ Len(w) = Len(s) + Len(reply)
        /\ \A i \in 1..Len(s) + Len(reply) :
              w[i] = IF i <= Len(s) THEN s[i] ELSE reply[i - Len(s)]
    BY ConcatProperties
  <1>2. /\ Len(s) \in Nat /\ DOMAIN s = 1..Len(s)
        /\ Len(reply) \in Nat \ {0} /\ DOMAIN reply = 1..Len(reply)
        /\ DOMAIN w = 1..Len(w)
    BY <1>1, LenProperties, EmptySeq
  <1> HIDE DEF w
  <1>3. ASSUME NEW i \in DOMAIN w, NEW j \in DOMAIN w, i <= j,
               \A k \in i..(j - 1) : w[k].kind \notin Ends
        PROVE  SameReply(w[i], w[j])
    <2>1. CASE j <= Len(s)
      <3>1. w[i] = s[i] /\ w[j] = s[j] /\ \A k \in i..(j - 1) : w[k] = s[k]
        BY <1>1, <1>2, <1>3, <2>1
      <3>2. i \in DOMAIN s /\ j \in DOMAIN s
        BY <1>1, <1>2, <1>3, <2>1
      <3>3. \A k \in i..(j - 1) : s[k].kind \notin Ends
        BY <1>3, <3>1
      <3> QED BY <1>3, <3>1, <3>2, <3>3 DEF OneReplyAtATime
    <2>2. CASE i > Len(s)
      <3>1. i - Len(s) \in DOMAIN reply /\ j - Len(s) \in DOMAIN reply
              /\ w[i] = reply[i - Len(s)] /\ w[j] = reply[j - Len(s)]
        BY <1>1, <1>2, <1>3, <2>2
      <3> QED BY <3>1
    <2>3. CASE i <= Len(s) /\ j > Len(s)
      <3>1. Len(s) \in i..(j - 1) /\ w[Len(s)] = s[Len(s)] /\ s # <<>>
        BY <1>1, <1>2, <1>3, <2>3
      <3> QED BY <1>3, <3>1
    <2> QED BY <1>1, <1>2, <2>1, <2>2, <2>3
  <1>4. w # <<>> /\ w[Len(w)] = reply[Len(reply)] /\ (s # <<>> => w[1] = s[1])
    BY <1>1, <1>2
  <1> QED BY <1>1, <1>3, <1>4 DEF w, OneReplyAtATime

(* A chunk is taken off the stream, wherever it is cut.                    *)
LEMMA StreamShrinks ==
    ASSUME NEW s \in Seq(Lines), OneReplyAtATime(s), s # <<>> => s[Len(s)].kind \in Ends,
           NEW n \in 1..Len(s)
    PROVE  LET rest == SubSeq(s, n + 1, Len(s))
           IN  /\ rest \in Seq(Lines)
               /\ OneReplyAtATime(rest)
               /\ rest # <<>> => rest[Len(rest)].kind \in Ends
               /\ n < Len(s) => rest # <<>> /\ rest[1] = s[n + 1]
  <1> DEFINE rest == SubSeq(s, n + 1, Len(s))
  <1>1. Len(s) \in Nat /\ DOMAIN s = 1..Len(s) /\ \A i \in 1..Len(s) : s[i] \in Lines
    BY LenProperties, ElementOfSeq
  <1>2. \A i \in (n + 1)..Len(s) : s[i] \in Lines
    BY <1>1
  <1>3. /\ rest \in Seq(Lines)
        /\ Len(rest) = IF n + 1 <= Len(s) THEN Len(s) - (n + 1) + 1 ELSE 0
        /\ \A i \in 1..(Len(s) - (n + 1) + 1) : rest[i] = s[(n + 1) + i - 1]
    BY <1>1, <1>2, SubSeqProperties, n + 1 \in Int, Len(s) \in Int
  <1> HIDE DEF rest
  <1>4. Len(rest) = Len(s) - n /\ DOMAIN rest = 1..Len(rest) /\ n \in Nat
    <2>1. DOMAIN rest = 1..Len(rest)
      BY <1>3, LenProperties
    <2>2. n \in Nat /\ n <= Len(s)
      BY <1>1
    <2>3. Len(rest) = Len(s) - n
      <3>1. CASE n + 1 <= Len(s)
        BY <1>1, <1>3, <2>2, <3>1
      <3>2. CASE n = Len(s)
        <4>1. Len(rest) = 0
          BY <1>1, <1>3, <2>2, <3>2
        <4> QED BY <1>1, <4>1, <3>2
      <3>3. n + 1 <= Len(s) \/ n = Len(s)
        <4>1. Len(s) \in Nat
          BY <1>1
        <4> QED BY ONLY <4>1, <2>2
      <3> QED BY <3>1, <3>2, <3>3
    <2> QED BY <2>1, <2>2, <2>3
  <1>5. \A i \in 1..Len(rest) : rest[i] = s[n + i] /\ n + i \in DOMAIN s
    <2> SUFFICES ASSUME NEW i \in 1..Len(rest) PROVE rest[i] = s[n + i] /\ n + i \in DOMAIN s
      OBVIOUS
    <2>1. i \in 1..(Len(s) - (n + 1) + 1) /\ (n + 1) + i - 1 = n + i /\ n + i \in 1..Len(s)
      BY <1>1, <1>4
    <2> QED BY ONLY <1>1, <1>3, <2>1
  <1>6. ASSUME NEW i \in DOMAIN rest, NEW j \in DOMAIN rest, i <= j,
               \A k \in i..(j - 1) : rest[k].kind \notin Ends
        PROVE  SameReply(rest[i], rest[j])
    <2>1. ASSUME NEW k \in (n + i)..((n + j) - 1) PROVE s[k].kind \notin Ends
      <3>1. k - n \in i..(j - 1) /\ k - n \in 1..Len(rest) /\ n + (k - n) = k
        BY <1>1, <1>4
      <3> QED BY <1>5, <1>6, <3>1
    <2>2. n + i <= n + j
      BY <1>1, <1>4, <1>6
    <2> QED BY <1>4, <1>5, <2>1, <2>2 DEF OneReplyAtATime
  <1>7. n < Len(s) => rest # <<>> /\ rest[1] = s[n + 1]
    BY <1>1, <1>4, <1>5
  <1>8. rest # <<>> => rest[Len(rest)].kind \in Ends
    <2> SUFFICES ASSUME rest # <<>> PROVE rest[Len(rest)].kind \in Ends
      OBVIOUS
    <2>0. Len(rest) \in Nat \ {0}
      BY <1>3, EmptySeq
    <2>1. Len(rest) \in 1..Len(rest)
      BY <2>0
    <2>a. n + Len(rest) = Len(s)
      BY <1>1, <1>4
    <2>2. s # <<>>
      BY <1>1
    <2> QED BY <1>5, <2>1, <2>a, <2>2
  <1> QED BY <1>3, <1>6, <1>7, <1>8 DEF rest, OneReplyAtATime

(* And joined to what the query has read.                                  *)
LEMMA Joined ==
    ASSUME NEW l \in Seq(Lines), NEW c \in Seq(Lines), NEW line, OneReply(l),
           l # <<>> => SameReply(l[1], line),
           \A k \in DOMAIN c : c[k].kind \notin Ends /\ SameReply(c[k], line)
    PROVE  /\ l \o c \in Seq(Lines)
           /\ OneReply(l \o c)
           /\ l \o c # <<>> => SameReply((l \o c)[1], line)
  <1> DEFINE w == l \o c
  <1>1. /\ w \in Seq(Lines) /\ Len(w) = Len(l) + Len(c)
        /\ \A i \in 1..Len(l) + Len(c) : w[i] = IF i <= Len(l) THEN l[i] ELSE c[i - Len(l)]
    BY ConcatProperties
  <1>2. /\ Len(l) \in Nat /\ DOMAIN l = 1..Len(l)
        /\ Len(c) \in Nat /\ DOMAIN c = 1..Len(c)
        /\ DOMAIN w = 1..Len(w)
    BY <1>1, LenProperties
  <1> HIDE DEF w
  <1>3. ASSUME NEW i \in DOMAIN w PROVE w[i].kind \notin Ends /\ SameReply(w[i], line)
    <2>1. CASE i <= Len(l)
      <3>1. w[i] = l[i] /\ i \in DOMAIN l /\ 1 \in DOMAIN l /\ l # <<>>
        BY <1>1, <1>2, <1>3, <2>1
      <3> QED BY <3>1 DEF OneReply, SameReply
    <2>2. CASE i > Len(l)
      <3>0. i \in 1..Len(l) + Len(c) /\ i \in Nat /\ ~(i <= Len(l))
        BY <1>1, <1>2, <1>3, <2>2
      <3>1. w[i] = c[i - Len(l)]
        BY <1>1, <3>0
      <3>2. i - Len(l) \in DOMAIN c
        BY <1>2, <3>0
      <3> QED BY <3>1, <3>2
    <2> QED BY <1>1, <1>2, <2>1, <2>2
  <1>4. OneReply(w)
    BY <1>3 DEF OneReply, SameReply
  <1>5. w # <<>> => 1 \in DOMAIN w
    BY <1>1, <1>2, EmptySeq
  <1> QED BY <1>1, <1>3, <1>4, <1>5 DEF w

(* recv: the lines of an incomplete reply are kept, the first end or error *)
(* decides the query.                                                      *)
LEMMA ReceiveKeeps ==
    ASSUME TunerInv, Receive
    PROVE  TunerInv'
  <1>1. PICK n \in 1..Len(wire) :
          LET chunk == SubSeq(wire, 1, n)
              decisive == {i \in 1..n : chunk[i].kind \in {"end", "error"}}
              first == CHOOSE i \in decisive : \A j \in decisive : i <= j
          IN  /\ wire' = SubSeq(wire, n + 1, Len(wire))
              /\ IF decisive = {}
                 THEN lines' = lines \o chunk /\ UNCHANGED <<waiting, unavailable, captured>>
                 ELSE IF chunk[first].kind = "error"
                 THEN Take({}, "unreachable", Nothing)
                 ELSE Answer(Asking, lines \o SubSeq(chunk, 1, first - 1))
    BY DEF Receive
  <1> DEFINE chunk == SubSeq(wire, 1, n)
             decisive == {i \in 1..n : chunk[i].kind \in {"end", "error"}}
             first == CHOOSE i \in decisive : \A j \in decisive : i <= j
  <1>2. /\ wire \in Seq(Lines) /\ wire # <<>> /\ Len(wire) \in Nat /\ DOMAIN wire = 1..Len(wire)
        /\ \A i \in 1..Len(wire) : wire[i] \in Lines
        /\ waiting /\ link = "open" /\ lines \in Seq(Lines) /\ OneReply(lines)
        /\ lines # <<>> => SameReply(lines[1], wire[1])
        /\ OneReplyAtATime(wire) /\ wire[Len(wire)].kind \in Ends
    BY <1>1, LenProperties, ElementOfSeq DEF Receive, TunerInv, StreamInv, CaptureInv
  <1>3. /\ Len(captured) + 1 = asked /\ asked \in 1..Len(Queries)
        /\ Asking \in Asked
        /\ gameTurn' = gameTurn /\ commands' = commands /\ link' = link /\ asked' = asked
    BY <1>2, TunerAssumption, ElementOfSeq DEF Receive, TunerInv, CaptureInv, Asking
  <1>4. /\ wire' \in Seq(Lines) /\ OneReplyAtATime(wire')
        /\ wire' # <<>> => wire'[Len(wire')].kind \in Ends
        /\ n < Len(wire) => wire' # <<>> /\ wire'[1] = wire[n + 1]
    BY <1>1, <1>2, StreamShrinks
  <1>5. chunk \in Seq(Lines) /\ Len(chunk) = n /\ DOMAIN chunk = 1..n
          /\ \A i \in 1..n : chunk[i] = wire[i]
    <2>1. \A i \in 1..n : wire[i] \in Lines
      BY <1>2
    <2>2. /\ chunk \in Seq(Lines)
          /\ Len(chunk) = IF 1 <= n THEN n - 1 + 1 ELSE 0
          /\ \A i \in 1..(n - 1 + 1) : chunk[i] = wire[1 + i - 1]
      BY <2>1, SubSeqProperties, 1 \in Int, n \in Int
    <2> QED BY <1>2, <2>2, LenProperties
  <1>6. ASSUME NEW k \in 1..Len(wire), \A i \in 1..(k - 1) : wire[i].kind \notin Ends
        PROVE  SameReply(wire[1], wire[k]) /\ SameReply(wire[k], wire[1])
    <2>1. 1 \in DOMAIN wire /\ k \in DOMAIN wire /\ 1 <= k
      BY <1>2
    <2> QED BY <1>2, <1>6, <2>1 DEF OneReplyAtATime, SameReply
  <1>7. CASE decisive = {}
    <2>1. lines' = lines \o chunk /\ UNCHANGED <<waiting, unavailable, captured>>
      BY <1>1, <1>7
    <2>2. \A i \in 1..n : wire[i].kind \notin Ends
      BY <1>5, <1>7 DEF Ends
    <2>3. ASSUME NEW i \in DOMAIN chunk
          PROVE  chunk[i].kind \notin Ends /\ SameReply(chunk[i], wire[1])
      <3>1. i \in 1..n /\ i \in 1..Len(wire) /\ \A k \in 1..(i - 1) : k \in 1..n
        BY <1>2, <1>5
      <3> QED BY <1>5, <1>6, <2>2, <3>1
    <2>4. n < Len(wire) /\ SameReply(wire[1], wire[n + 1])
      <3>1. n # Len(wire)
        BY <1>2, <2>2
      <3>2. n + 1 \in 1..Len(wire) /\ n < Len(wire) /\ (n + 1) - 1 = n
        <4>1. n \in Nat /\ n <= Len(wire) /\ Len(wire) \in Nat
          BY <1>2
        <4> QED BY ONLY <3>1, <4>1
      <3> QED BY <1>6, <2>2, <3>2
    <2>5. /\ lines' \in Seq(Lines) /\ OneReply(lines')
          /\ lines' # <<>> => SameReply(lines'[1], wire[1])
      <3> HIDE DEF chunk
      <3> QED BY <1>2, <1>5, <2>1, <2>3, Joined
    <2>6. wire' # <<>> /\ (lines' # <<>> => SameReply(lines'[1], wire'[1]))
      BY <1>4, <2>4, <2>5 DEF SameReply
    <2>7. StreamInv'
      BY <1>2, <1>3, <1>4, <2>1, <2>5, <2>6 DEF TunerInv, StreamInv
    <2>8. CaptureInv'
      BY <1>3, <2>1 DEF TunerInv, CaptureInv, FiguresOfOwnReply
    <2> QED BY <2>7, <2>8 DEF TunerInv
  <1>8. ASSUME /\ captured' \in Seq(Attempts) /\ Len(captured') = Len(captured) + 1
               /\ unavailable' \in {Nothing, "not_answering", "unreachable"}
               /\ ~waiting' /\ waiting' \in BOOLEAN /\ lines' = <<>>
               /\ FiguresOfOwnReply'
        PROVE  TunerInv'
    <2>1. StreamInv'
      BY <1>2, <1>3, <1>4, <1>8, EmptyStream DEF TunerInv, StreamInv
    <2>2. CaptureInv'
      BY <1>2, <1>3, <1>8 DEF TunerInv, CaptureInv
    <2> QED BY <2>1, <2>2 DEF TunerInv
  <1>9. CASE decisive # {} /\ chunk[first].kind = "error"
    <2>1. Take({}, "unreachable", Nothing)
      BY <1>1, <1>9
    <2> QED BY <1>3, <1>8, <2>1, NothingTaken
  <1>10. CASE decisive # {} /\ chunk[first].kind # "error"
    <2> DEFINE ls == lines \o SubSeq(chunk, 1, first - 1)
    <2>1. Answer(Asking, ls)
      BY <1>1, <1>10
    <2>2. first \in decisive /\ \A i \in decisive : first <= i
      <3> HIDE DEF chunk
      <3>1. decisive \in SUBSET Nat
        BY <1>2
      <3> HIDE DEF decisive
      <3> QED BY <1>10, <3>1, FirstIs
    <2> HIDE DEF first
    <2>3. first \in 1..n /\ \A i \in 1..(first - 1) : i \in 1..n /\ chunk[i].kind \notin Ends
      <3>1. first \in 1..n
        BY <2>2
      <3>2. ASSUME NEW i \in 1..(first - 1) PROVE i \in 1..n /\ ~(first <= i)
        BY <1>2, <3>1
      <3> QED BY <2>2, <3>1, <3>2 DEF Ends
    <2> HIDE DEF decisive, chunk
    <2>4. /\ ls \in Seq(Lines) /\ OneReply(ls)
      <3>1. /\ SubSeq(chunk, 1, first - 1) \in Seq(Lines)
            /\ Len(SubSeq(chunk, 1, first - 1)) = first - 1
            /\ \A i \in 1..(first - 1) : SubSeq(chunk, 1, first - 1)[i] = chunk[i]
        <4>1. \A i \in 1..(first - 1) : chunk[i] \in Lines
          BY <1>2, <1>5, <2>3
        <4>2. first \in Nat \ {0} /\ 1 \in Int /\ first - 1 \in Int
          BY <2>3
        <4>3. /\ SubSeq(chunk, 1, first - 1) \in Seq(Lines)
              /\ Len(SubSeq(chunk, 1, first - 1)) = 
                    IF 1 <= first - 1 THEN (first - 1) - 1 + 1 ELSE 0
              /\ \A i \in 1..((first - 1) - 1 + 1) :
                    SubSeq(chunk, 1, first - 1)[i] = chunk[1 + i - 1]
          BY ONLY <4>1, <4>2, SubSeqProperties
        <4> QED BY ONLY <4>2, <4>3
      <3> DEFINE c == SubSeq(chunk, 1, first - 1)
      <3>2. ASSUME NEW i \in DOMAIN c
            PROVE  c[i].kind \notin Ends /\ SameReply(c[i], wire[1])
        <4>1. i \in 1..(first - 1)
          BY <3>1, LenProperties
        <4>2. c[i] = wire[i] /\ c[i].kind \notin Ends
          BY <1>5, <2>3, <3>1, <4>1
        <4>3. i \in 1..Len(wire) /\ \A k \in 1..(i - 1) : k \in 1..(first - 1)
          BY <1>2, <2>3, <4>1
        <4> QED BY <1>5, <1>6, <2>3, <4>2, <4>3
      <3> HIDE DEF c
      <3>3. c \in Seq(Lines)
        BY <3>1 DEF c
      <3>4. lines \o c \in Seq(Lines) /\ OneReply(lines \o c)
        BY <1>2, <3>2, <3>3, Joined
      <3> QED BY <3>4 DEF c
    <2> HIDE DEF ls
    <2>5. Asking = Queries[Len(captured) + 1] /\ Len(captured) + 1 \in 1..Len(Queries)
      BY <1>3 DEF Asking
    <2> QED BY ONLY <1>3, <1>8, <2>1, <2>4, <2>5, TunerInv, AnswerIsOwn
  <1> QED BY <1>7, <1>9, <1>10

LEMMA StreamHolds == TunerSpec => []TunerInv
  <1>1. Init => TunerInv
    <2> SUFFICES ASSUME Init PROVE TunerInv
      OBVIOUS
    <2>1. StreamInv
      BY EmptyStream DEF Init, StreamInv
    <2>2. /\ gameTurn \in 1..MaxGameTurn /\ asked \in 0..Len(Queries)
      BY TunerAssumption DEF Init
    <2>3. Len(captured) = 0 /\ captured \in Seq(Attempts)
      BY EmptyStream DEF Init
    <2>4. FiguresOfOwnReply
      BY DEF Init, FiguresOfOwnReply
    <2>5. CaptureInv
      <3> QED BY <2>2, <2>3, <2>4 DEF Init, CaptureInv
    <2> QED BY <2>1, <2>5 DEF TunerInv
  <1>2. TunerInv /\ [Next]_tvars => TunerInv'
    <2> SUFFICES ASSUME TunerInv, [Next]_tvars PROVE TunerInv'
      OBVIOUS
    <2>1. CASE EndTurn
      <3>1. gameTurn' \in 1..MaxGameTurn
        BY <2>1, TunerAssumption DEF TunerInv, CaptureInv, EndTurn
      <3> QED BY <2>1, <3>1 DEF EndTurn, TunerInv, StreamInv, CaptureInv, FiguresOfOwnReply
    <2>2. CASE Open
      <3>1. Len(captured') = 0 /\ captured' = <<>> /\ asked' = 0 /\ wire' = <<>>
              /\ commands' = <<>> /\ lines' = <<>> /\ waiting' = FALSE
              /\ gameTurn' = gameTurn
        BY <2>2 DEF Open, TunerInv, StreamInv, CaptureInv
      <3>2. link' \in {"closed", "open"} /\ unavailable' \in
                {Nothing, "not_enabled", "not_answering", "unreachable", "unestablished"}
        <4>1. \A file : Refused(file) \in {"not_enabled", "not_answering", "unestablished"}
          BY DEF Refused, Flag
        <4> QED BY <2>2, <4>1 DEF Open
      <3>3. FiguresOfOwnReply'
        BY <3>1 DEF FiguresOfOwnReply
      <3>4. asked' \in 0..Len(Queries)
        BY <3>1, TunerAssumption
      <3>5. StreamInv'
        BY <3>1, <3>2, EmptyStream DEF StreamInv
      <3>6. CaptureInv'
        <4>2. captured' \in Seq(Attempts)
          BY <3>1, EmptyStream
        <4> QED BY <3>1, <3>2, <3>3, <3>4, <4>2 DEF TunerInv, CaptureInv
      <3> QED BY <3>5, <3>6 DEF TunerInv
    <2>3. CASE Ask
      <3>0. /\ ~waiting /\ lines = <<>> /\ asked \in Nat /\ Len(captured) = asked
            /\ asked' = asked + 1 /\ asked' \in 1..Len(Queries) /\ Queries[asked + 1] \in Asked
            /\ gameTurn' = gameTurn /\ wire' = wire /\ link' = link /\ link \in {"open", "cut"}
        BY <2>3, TunerAssumption, ElementOfSeq DEF Ask, TunerInv, StreamInv, CaptureInv
      <3>1. CASE /\ link = "open"
                 /\ commands' = Append(commands, Queries[asked + 1])
                 /\ waiting' = TRUE /\ lines' = <<>> /\ unavailable' = Nothing
                 /\ UNCHANGED captured
        <4>1. commands' \in Seq(Asked)
          BY <3>0, <3>1 DEF TunerInv, StreamInv
        <4>2. StreamInv'
          BY <3>0, <3>1, <4>1, EmptyStream DEF TunerInv, StreamInv
        <4>3. CaptureInv'
          BY <3>0, <3>1 DEF TunerInv, CaptureInv, FiguresOfOwnReply
        <4> QED BY <4>2, <4>3 DEF TunerInv
      <3>2. ASSUME NEW why \in {"not_answering", "unreachable"},
                   Take({}, why, Nothing), UNCHANGED commands
            PROVE  TunerInv'
        <4>1. /\ captured' \in Seq(Attempts) /\ Len(captured') = Len(captured) + 1
              /\ unavailable' \in {Nothing, "not_answering", "unreachable"}
              /\ ~waiting' /\ waiting' \in BOOLEAN /\ lines' = <<>>
              /\ FiguresOfOwnReply'
          BY <3>0, <3>2, NothingTaken
        <4>2. StreamInv'
          BY <3>0, <3>2, <4>1, EmptyStream DEF TunerInv, StreamInv
        <4>3. CaptureInv'
          BY <3>0, <4>1 DEF TunerInv, CaptureInv
        <4> QED BY <4>2, <4>3 DEF TunerInv
      <3> QED BY <2>3, <3>1, <3>2 DEF Ask
    <2>4. CASE Run
      <3>0. commands # <<>> /\ link = "open" /\ Head(commands) \in Asked /\ gameTurn \in Nat
              /\ Tail(commands) \in Seq(Asked)
        BY <2>4, TunerAssumption, HeadTailProperties
           DEF Run, TunerInv, StreamInv, CaptureInv
      <3>1. PICK reply \in Replies(Head(commands), gameTurn) : wire' = wire \o reply
        BY <2>4 DEF Run
      <3>2. /\ reply \in Seq(Lines) /\ reply # <<>>
            /\ \A i, j \in DOMAIN reply : SameReply(reply[i], reply[j])
            /\ reply[Len(reply)].kind \in Ends
        BY <3>0, <3>1, ReplyShape DEF SameReply
      <3>3. StreamInv'
        <4>0. commands' = Tail(commands) /\ lines' = lines /\ link' = link /\ waiting' = waiting
          BY <2>4 DEF Run
        <4>1. /\ OneReplyAtATime(wire') /\ wire' \in Seq(Lines) /\ wire' # <<>>
              /\ wire'[Len(wire')].kind \in Ends
              /\ wire # <<>> => wire'[1] = wire[1]
          BY <3>1, <3>2, StreamGrows DEF TunerInv, StreamInv
        <4> QED BY <3>0, <4>0, <4>1 DEF TunerInv, StreamInv
      <3>4. CaptureInv'
        BY <2>4 DEF Run, TunerInv, CaptureInv, FiguresOfOwnReply
      <3> QED BY <3>3, <3>4 DEF TunerInv
    <2>5. CASE Receive
      BY <2>5, ReceiveKeeps
    <2>6. CASE GiveUp
      <3>1. Len(captured) + 1 = asked /\ asked \in 1..Len(Queries) /\ waiting
        BY <2>6, TunerAssumption DEF GiveUp, TunerInv, CaptureInv
      <3>2. /\ captured' \in Seq(Attempts) /\ Len(captured') = Len(captured) + 1
            /\ unavailable' \in {Nothing, "not_answering", "unreachable"}
            /\ ~waiting' /\ waiting' \in BOOLEAN /\ lines' = <<>>
            /\ FiguresOfOwnReply'
        BY <2>6, <3>1, NothingTaken DEF GiveUp
      <3>3. StreamInv'
        BY <2>6, <3>2, EmptyStream DEF GiveUp, TunerInv, StreamInv
      <3>4. CaptureInv'
        BY <2>6, <3>1, <3>2 DEF GiveUp, TunerInv, CaptureInv
      <3> QED BY <3>3, <3>4 DEF TunerInv
    <2>7. CASE Cut
      <3>1. StreamInv'
        BY <2>7, EmptyStream DEF Cut, TunerInv, StreamInv
      <3>2. CaptureInv'
        BY <2>7 DEF Cut, TunerInv, CaptureInv, FiguresOfOwnReply
      <3> QED BY <3>1, <3>2 DEF TunerInv
    <2>8. CASE Close
      <3>1. StreamInv'
        BY <2>8 DEF Close, TunerInv, StreamInv
      <3>2. CaptureInv'
        BY <2>8 DEF Close, TunerInv, CaptureInv, FiguresOfOwnReply
      <3> QED BY <3>1, <3>2 DEF TunerInv
    <2>9. CASE UNCHANGED tvars
      BY <2>9 DEF tvars, TunerInv, StreamInv, CaptureInv, FiguresOfOwnReply
    <2> QED BY <2>1, <2>2, <2>3, <2>4, <2>5, <2>6, <2>7, <2>8, <2>9 DEF Next
  <1> QED BY <1>1, <1>2, PTL DEF TunerSpec

(* Every figure of a capture was read from the reply to its own query and  *)
(* is dated by the turn that reply named, whatever earlier queries left    *)
(* unread on the stream (tuner/client.py, base.py).                        *)
THEOREM FiguresHold == TunerSpec => []FiguresOfOwnReply
  <1>1. TunerInv => FiguresOfOwnReply
    BY DEF TunerInv, CaptureInv
  <1> QED BY <1>1, StreamHolds, PTL

-----------------------------------------------------------------------------
(* What changed since the last turn.                                       *)

Worlds == [ratio : [Stats -> Nat], losing : BOOLEAN, goal : BOOLEAN, read : SUBSET Logs]

Turns == [session : Nat, turn : 1..LastTurn, revision : Nat, catalog : Nat,
          world : Worlds, oracle : BOOLEAN]

Moments == [session : Nat, turn : 1..LastTurn, revision : Nat, catalog : Nat]

Comparisons == [oracle : BOOLEAN, previous : Turns \cup {None}, current : Turns]

(* What is compared: two turns of one sitting, the earlier one first.      *)
ComparedInv ==
    /\ world \in Worlds
    /\ now \in Moments
    /\ history \subseteq Turns
    /\ served # None =>
        /\ served \in Comparisons
        /\ served.previous # None =>
            /\ served.previous.session = served.current.session
            /\ served.previous.turn < served.current.turn

(* History.previous finds an earlier turn of the sitting, if there is one. *)
LEMMA PreviousIsEarlier ==
    ASSUME history \subseteq Turns, NEW e \in Turns, Previous(e) # None
    PROVE  /\ Previous(e) \in history
           /\ Previous(e).session = e.session
           /\ Previous(e).turn < e.turn
  <1> DEFINE earlier == {h \in history : h.session = e.session /\ h.turn < e.turn}
             turns == {h.turn : h \in earlier}
  <1>1. earlier # {}
    BY DEF Previous
  <1>2. \A h \in earlier : h.turn \in Nat /\ h.turn <= e.turn
    BY TurnChangesAssumption DEF Turns
  <1>3. turns \in SUBSET Nat /\ turns # {} /\ \A n \in turns : n <= e.turn
    BY <1>1, <1>2
  <1>4. e.turn \in Nat
    BY DEF Turns
  <1>5. PICK n \in turns : \A m \in turns : m <= n
    <2> HIDE DEF turns
    <2> QED BY <1>3, <1>4, Greatest
  <1>6. \E h \in earlier : \A g \in earlier : g.turn <= h.turn
    BY <1>5
  <1>7. Previous(e) = CHOOSE h \in earlier : \A g \in earlier : g.turn <= h.turn
    BY <1>1 DEF Previous
  <1>8. Previous(e) \in earlier
    <2> HIDE DEF earlier
    <2> QED BY <1>6, <1>7
  <1> QED BY <1>8

LEMMA ComparedHolds == TCSpec => []ComparedInv
  <1>0. Logs \in SUBSET Logs /\ \A t \in Truths, read \in SUBSET Logs : World(t, read) \in Worlds
    BY TurnChangesAssumption DEF World, Worlds
  <1>1. TCInit => ComparedInv
    BY <1>0, TurnChangesAssumption DEF TCInit, ComparedInv, Moments
  <1>2. ComparedInv /\ [TCNext]_tcvars => ComparedInv'
    <2> SUFFICES ASSUME ComparedInv, [TCNext]_tcvars PROVE ComparedInv'
      OBVIOUS
    <2> USE DEF ComparedInv
    <2>1. CASE PlayTurn
      <3>1. now' \in Moments
        <4>1. now.turn + 1 \in 1..LastTurn
          BY <2>1, TurnChangesAssumption DEF PlayTurn, Moments
        <4> QED BY <2>1, <4>1 DEF PlayTurn, Moments
      <3>2. world' \in Worlds
        BY <2>1, <1>0, TurnChangesAssumption DEF PlayTurn
      <3> QED BY <3>1, <3>2, <2>1 DEF PlayTurn
    <2>2. CASE RewriteLogs
      <3>1. now' \in Moments
        BY <2>2, TurnChangesAssumption DEF RewriteLogs, Moments
      <3>2. world' \in Worlds
        BY <2>2, <1>0, TurnChangesAssumption DEF RewriteLogs, Worlds
      <3> QED BY <3>1, <3>2, <2>2 DEF RewriteLogs
    <2>3. CASE Reload
      <3>1. now' \in Moments
        <4>1. PICK t \in 1..now.turn :
                  now' = [now EXCEPT !.session = @ + 1, !.turn = t, !.revision = 1]
          BY <2>3 DEF Reload
        <4>2. now \in Moments /\ t \in 1..LastTurn
          BY <4>1, TurnChangesAssumption DEF Moments
        <4>3. now.session + 1 \in Nat /\ 1 \in Nat
          BY <4>2 DEF Moments
        <4>4. [now EXCEPT !.session = now.session + 1] \in Moments
          BY ONLY <4>2, <4>3 DEF Moments
        <4>5. [now EXCEPT !.session = now.session + 1, !.turn = t] \in Moments
          BY ONLY <4>2, <4>4 DEF Moments
        <4> QED BY ONLY <4>1, <4>3, <4>5 DEF Moments
      <3>2. world' \in Worlds
        BY <2>3, <1>0, TurnChangesAssumption DEF Reload
      <3> QED BY <3>1, <3>2, <2>3 DEF Reload
    <2>4. ASSUME NEW oracle \in BOOLEAN, Request(oracle) PROVE ComparedInv'
      <3> DEFINE e == [session |-> now.session, turn |-> now.turn, revision |-> now.revision,
                       catalog |-> now.catalog, world |-> world, oracle |-> oracle]
      <3>1. e \in Turns
        <4>1. now \in Moments /\ world \in Worlds /\ oracle \in BOOLEAN
          OBVIOUS
        <4> QED BY ONLY <4>1 DEF Turns, Moments
      <3>2. history' \subseteq Turns
        BY <2>4, <3>1 DEF Request, Recorded
      <3>3. served' = [oracle |-> oracle, previous |-> Previous(e), current |-> e]
        BY <2>4 DEF Request
      <3>4. Previous(e) # None =>
              Previous(e) \in Turns /\ Previous(e).session = e.session /\ Previous(e).turn < e.turn
        <4> HIDE DEF e
        <4> QED BY <3>1, PreviousIsEarlier
      <3>5. served' \in Comparisons
        BY <3>1, <3>3, <3>4 DEF Comparisons
      <3>6. world' \in Worlds /\ now' \in Moments
        BY <2>4 DEF Request
      <3>7. served'.previous # None =>
              served'.previous.session = served'.current.session
                /\ served'.previous.turn < served'.current.turn
        BY <3>3, <3>4
      <3> QED BY <3>2, <3>5, <3>6, <3>7
    <2>5. CASE ReplaceCatalog
      <3>1. now' \in Moments
        BY <2>5 DEF ReplaceCatalog, Moments
      <3> QED BY <3>1, <2>5 DEF ReplaceCatalog
    <2>6. CASE UNCHANGED tcvars
      BY <2>6 DEF tcvars
    <2> QED BY <2>1, <2>2, <2>3, <2>4, <2>5, <2>6 DEF TCNext
  <1> QED BY <1>1, <1>2, PTL DEF TCSpec

(* What a signal says by its identity alone.                               *)
LEMMA LosingSignal ==
    ASSUME NEW e \in Turns, NEW x \in Signals(e), x.id = <<"losing">>
    PROVE  /\ x = Signal(<<"losing">>, Warn, None, FALSE, {"treasury"}, "fair")
           /\ e.world.losing /\ "treasury" \in e.world.read
  <1>1. \A s, p : <<"behind", s>> # <<"losing">> /\ <<"card", s, p>> # <<"losing">>
    OBVIOUS
  <1>2. <<"plan">> # <<"losing">>
    OBVIOUS
  <1>3. x \in Warnings(e.world)
    BY <1>1, <1>2 DEF Signals, Satisfied, Cards, CardId, Signal
  <1> QED BY <1>1, <1>2, <1>3 DEF Warnings, Signal

LEMMA PlanSignal ==
    ASSUME NEW e \in Turns, NEW x \in Signals(e), x.id = <<"plan">>
    PROVE  /\ x = Signal(<<"plan">>, Critical, None, FALSE, {"tactical"}, "oracle")
           /\ e.world.goal /\ "tactical" \in e.world.read
  <1>1. \A s, p : <<"behind", s>> # <<"plan">> /\ <<"card", s, p>> # <<"plan">>
    OBVIOUS
  <1>2. <<"losing">> # <<"plan">>
    OBVIOUS
  <1>3. x \in Warnings(e.world)
    BY <1>1, <1>2 DEF Signals, Satisfied, Cards, CardId, Signal
  <1> QED BY <1>1, <1>2, <1>3 DEF Warnings, Signal, Planned

Gap(w, s) == Signal(<<"behind", s>>, GapSeverity(w, s), w.ratio[s], FALSE, {"treasury"}, "fair")

Level(w, s) == Signal(<<"behind", s>>, Info, w.ratio[s], TRUE, {"production"}, "fair")

LEMMA BehindSignal ==
    ASSUME NEW e \in Turns, NEW s \in Stats, NEW x \in Signals(e), x.id = <<"behind", s>>
    PROVE  \/ x = Gap(e.world, s) /\ e.world.ratio[s] < BehindRatio
           \/ x = Level(e.world, s) /\ e.world.ratio[s] >= OnPace
  <1>1. \A t, p : <<"behind", s>> # <<"losing">> /\ <<"behind", s>> # <<"plan">>
                   /\ <<"behind", s>> # <<"card", t, p>>
    OBVIOUS
  <1>2. \A t : <<"behind", t>> = <<"behind", s>> => t = s
    OBVIOUS
  <1>3. CASE x \in Warnings(e.world)
    <2>1. PICK t \in BehindIn(e.world) : x = Gap(e.world, t)
      BY <1>1, <1>3 DEF Warnings, Signal, Gap
    <2>2. t = s
      BY <1>2, <2>1 DEF Gap, Signal
    <2> QED BY <2>1, <2>2 DEF BehindIn
  <1>4. CASE x \in Satisfied(e.world)
    <2>1. PICK t \in Stats : x = Level(e.world, t) /\ e.world.ratio[t] >= OnPace
      BY <1>4 DEF Satisfied, Level, YieldDomains
    <2>2. t = s
      BY <1>2, <2>1 DEF Level, Signal
    <2> QED BY <2>1, <2>2
  <1>5. CASE x \in Cards(e.world, e.oracle)
    BY <1>1, <1>5 DEF Cards, CardId, Signal
  <1> QED BY <1>3, <1>4, <1>5 DEF Signals

(* What a change rests on: a signal of the present turn or none, and what  *)
(* the earlier turn had of it.                                             *)
LEMMA Said ==
    ASSUME NEW p \in Turns, NEW e \in Turns, p # None, NEW c \in Compare(p, e)
    PROVE  \/ c.state = "no_longer_observed" /\ \A x \in Signals(e) : x.id # c.id
           \/ \E x \in Signals(e) :
                /\ c.id = x.id
                /\ \/ /\ c.state = "not_comparable"
                      /\ \/ CoverageMoved(x, p, e)
                         \/ CatalogDependent(x) /\ p.catalog # e.catalog
                   \/ /\ c.state = "newly_observed"
                      /\ ~x.satisfied
                      /\ ~CoverageMoved(x, p, e)
                      /\ \A b \in Signals(p) : b.id # x.id
                   \/ /\ \E b \in Signals(p) : b.id = x.id /\ c.state = Trend(b, x)
                      /\ ~CoverageMoved(x, p, e)
                      /\ CatalogDependent(x) => p.catalog = e.catalog
  <1>1. CASE \E b \in Gone(p, e) : c = Change(b, "no_longer_observed")
    BY <1>1 DEF Change, Gone
  <1>2. ASSUME NEW x \in Signals(e), c \in Seen(x, p, e)
        PROVE  /\ c.id = x.id
               /\ \/ /\ c.state = "not_comparable"
                     /\ \/ CoverageMoved(x, p, e)
                        \/ CatalogDependent(x) /\ p.catalog # e.catalog
                  \/ /\ c.state = "newly_observed"
                     /\ ~x.satisfied
                     /\ ~CoverageMoved(x, p, e)
                     /\ \A b \in Signals(p) : b.id # x.id
                  \/ /\ \E b \in Signals(p) : b.id = x.id /\ c.state = Trend(b, x)
                     /\ ~CoverageMoved(x, p, e)
                     /\ CatalogDependent(x) => p.catalog = e.catalog
    <2> DEFINE before == {b \in Signals(p) : b.id = x.id}
               replaced == CatalogDependent(x) /\ p.catalog # e.catalog
    <2>1. CASE CoverageMoved(x, p, e)
      BY <1>2, <2>1 DEF Seen, Change
    <2>2. CASE ~CoverageMoved(x, p, e) /\ before = {}
      <3>1. ~x.satisfied /\ c = Change(x, "newly_observed")
        BY <1>2, <2>2 DEF Seen
      <3> QED BY <2>2, <3>1 DEF Change
    <2>3. CASE ~CoverageMoved(x, p, e) /\ before # {} /\ replaced
      BY <1>2, <2>3 DEF Seen, Change
    <2>4. CASE ~CoverageMoved(x, p, e) /\ before # {} /\ ~replaced
      <3>1. PICK b \in before : c = Change(x, Trend(b, x))
        BY <1>2, <2>4 DEF Seen
      <3>2. c.id = x.id /\ c.state = Trend(b, x)
        BY <3>1 DEF Change
      <3> QED BY <2>4, <3>2
    <2> QED BY <2>1, <2>2, <2>3, <2>4
  <1> QED BY <1>1, <1>2 DEF Compare

(* Where a change has been said of a yield that was behind and is level    *)
(* now, and of which the earlier turn and the present one can be compared. *)
LEMMA ResolvedIsServed ==
    ASSUME NEW p \in Turns, NEW e \in Turns, p # None, NEW s \in Stats,
           p.world.ratio[s] < BehindRatio, e.world.ratio[s] >= OnPace,
           "production" \in p.world.read <=> "production" \in e.world.read
    PROVE  Change(Level(e.world, s), "resolved") \in Compare(p, e)
  <1> DEFINE x == Level(e.world, s)
             b == Gap(p.world, s)
  <1>1. x \in Signals(e) /\ x.id = <<"behind", s>> /\ x.satisfied /\ x.domains = {"production"}
    BY DEF Signals, Satisfied, Level, Signal, YieldDomains
  <1>2. b \in Signals(p) /\ b.id = <<"behind", s>> /\ ~b.satisfied
    BY DEF Signals, Warnings, BehindIn, Gap, Signal
  <1>3. ~CoverageMoved(x, p, e)
    BY <1>1 DEF CoverageMoved
  <1>4. ~CatalogDependent(x)
    BY <1>1 DEF CatalogDependent
  <1>5. Trend(b, x) = "resolved"
    BY <1>1, <1>2 DEF Trend
  <1>6. Change(x, Trend(b, x)) \in Seen(x, p, e)
    <2> HIDE DEF x, b
    <2> QED BY <1>1, <1>2, <1>3, <1>4 DEF Seen
  <1> QED BY <1>1, <1>5, <1>6 DEF Compare

(* A warning is called new only if it did not hold in the turn compared    *)
(* with, resolved exactly when it did and the yield is level now and the   *)
(* queue log was read in both turns or in neither; losing sight of it is   *)
(* neither; and cards made with two catalogs are not compared              *)
(* (decisions/changes.py).                                                 *)
THEOREM ChangesHold == TCSpec => []ChangesAreTrue
  <1>1. ComparedInv => ChangesAreTrue
    <2> SUFFICES ASSUME ComparedInv, served # None, served.previous # None
                 PROVE  ChangesAreTrue
      BY DEF ChangesAreTrue
    <2> DEFINE p == served.previous
               e == served.current
    <2>1. p \in Turns /\ e \in Turns /\ p # None /\ p.session = e.session
      BY DEF ComparedInv, Comparisons
    <2>2. Serve(served) \subseteq Compare(p, e)
      BY DEF Serve
    <2> HIDE DEF p, e
    <2>3. ASSUME NEW c \in Serve(served), c.id = <<"losing">>, c.state = "newly_observed"
          PROVE  ~p.world.losing
      <3>1. PICK x \in Signals(e) :
                x.id = <<"losing">> /\ ~CoverageMoved(x, p, e) /\ \A b \in Signals(p) : b.id # x.id
        BY <2>1, <2>2, <2>3, Said DEF Trend
      <3>2. x.domains = {"treasury"} /\ "treasury" \in e.world.read
        BY <2>1, <3>1, LosingSignal DEF Signal
      <3>3. "treasury" \in p.world.read
        BY <3>1, <3>2 DEF CoverageMoved
      <3>4. p.world.losing => Signal(<<"losing">>, Warn, None, FALSE, {"treasury"}, "fair")
                                  \in Signals(p)
        BY <3>3 DEF Signals, Warnings
      <3> QED BY <3>1, <3>4 DEF Signal
    <2>4. ASSUME NEW c \in Serve(served), c.id = <<"plan">>, c.state = "newly_observed"
          PROVE  ~p.world.goal
      <3>1. PICK x \in Signals(e) :
                x.id = <<"plan">> /\ ~CoverageMoved(x, p, e) /\ \A b \in Signals(p) : b.id # x.id
        BY <2>1, <2>2, <2>4, Said DEF Trend
      <3>2. x.domains = {"tactical"} /\ "tactical" \in e.world.read
        BY <2>1, <3>1, PlanSignal DEF Signal
      <3>3. "tactical" \in p.world.read
        BY <3>1, <3>2 DEF CoverageMoved
      <3>4. p.world.goal => Signal(<<"plan">>, Critical, None, FALSE, {"tactical"}, "oracle")
                                  \in Signals(p)
        BY <3>3 DEF Signals, Warnings, Planned
      <3> QED BY <3>1, <3>4 DEF Signal
    <2>5. ASSUME NEW c \in Serve(served), c.id = <<"losing">>, c.state = "resolved"
          PROVE  FALSE
      <3>1. PICK x \in Signals(e), b \in Signals(p) : x.id = <<"losing">> /\ Trend(b, x) = "resolved"
        BY <2>1, <2>2, <2>5, Said
      <3>2. ~x.satisfied
        BY <2>1, <3>1, LosingSignal DEF Signal
      <3> QED BY <3>1, <3>2 DEF Trend
    <2>6. ASSUME NEW s \in Stats, NEW c \in Serve(served),
                 c.id = <<"behind", s>>, c.state = "newly_observed"
          PROVE  p.world.ratio[s] >= BehindRatio
      <3>1. PICK x \in Signals(e) :
                x.id = <<"behind", s>> /\ \A b \in Signals(p) : b.id # x.id
        BY <2>1, <2>2, <2>6, Said DEF Trend
      <3>2. s \in BehindIn(p.world) => Gap(p.world, s) \in Signals(p)
        BY DEF Signals, Warnings, Gap
      <3>3. s \notin BehindIn(p.world)
        BY <3>1, <3>2 DEF Gap, Signal
      <3>4. p.world.ratio[s] \in Nat
        BY <2>1 DEF Turns, Worlds
      <3> QED BY <3>3, <3>4 DEF BehindIn, BehindRatio
    <2>7. ASSUME NEW s \in Stats, NEW c \in Serve(served),
                 c.id = <<"behind", s>>, c.state = "resolved"
          PROVE  /\ p.world.ratio[s] < BehindRatio /\ e.world.ratio[s] >= OnPace
                 /\ "production" \in p.world.read <=> "production" \in e.world.read
      <3>1. PICK x \in Signals(e), b \in Signals(p) :
                /\ x.id = <<"behind", s>> /\ b.id = x.id /\ Trend(b, x) = "resolved"
                /\ ~CoverageMoved(x, p, e)
        BY <2>1, <2>2, <2>7, Said
      <3>2. x.satisfied /\ ~b.satisfied
        BY <3>1 DEF Trend
      <3>3. x = Level(e.world, s) /\ e.world.ratio[s] >= OnPace
        BY <2>1, <3>1, <3>2, BehindSignal DEF Gap, Signal
      <3>4. p.world.ratio[s] < BehindRatio
        BY <2>1, <3>1, <3>2, BehindSignal DEF Level, Signal
      <3>5. x.domains = {"production"}
        BY <3>3 DEF Level, Signal
      <3>6. "production" \in p.world.read <=> "production" \in e.world.read
        BY <3>1, <3>5 DEF CoverageMoved
      <3> QED BY <3>3, <3>4, <3>6
    <2>8. ASSUME NEW s \in Stats, p.world.ratio[s] < BehindRatio, e.world.ratio[s] >= OnPace,
                 "production" \in p.world.read <=> "production" \in e.world.read
          PROVE  \E c \in Serve(served) : c.id = <<"behind", s>> /\ c.state = "resolved"
      <3> DEFINE c == Change(Level(e.world, s), "resolved")
      <3>1. c \in Compare(p, e)
        BY <2>1, <2>8, ResolvedIsServed
      <3>2. c.id = <<"behind", s>> /\ c.state = "resolved" /\ c.provenance = "fair"
        BY DEF Change, Level, Signal
      <3>3. c \in Serve(served)
        BY <3>1, <3>2 DEF Serve, p, e
      <3> QED BY <3>2, <3>3
    <2>9. ASSUME NEW s \in Stats
          PROVE  (\E c \in Serve(served) : c.id = <<"behind", s>> /\ c.state = "resolved") <=>
                     /\ p.world.ratio[s] < BehindRatio /\ e.world.ratio[s] >= OnPace
                     /\ "production" \in p.world.read <=> "production" \in e.world.read
      BY <2>7, <2>8
    <2>10. ASSUME NEW c \in Serve(served), c.id[1] = "card", p.catalog # e.catalog
           PROVE  c.state \in {"newly_observed", "not_comparable", "no_longer_observed"}
      BY <2>1, <2>2, <2>10, Said DEF CatalogDependent
    <2> QED BY ONLY <2>1, <2>3, <2>4, <2>5, <2>6, <2>9, <2>10 DEF ChangesAreTrue, p, e
  <1> QED BY <1>1, ComparedHolds, PTL

-----------------------------------------------------------------------------
(* The logs.                                                               *)

LEMMA MaxIs ==
    ASSUME NEW S \in SUBSET Nat, S # {}, NEW bound \in Nat, \A n \in S : n <= bound
    PROVE  Max(S) \in S /\ \A n \in S : n <= Max(S)
  <1>1. \E x \in S : \A y \in S : x >= y
    BY Greatest
  <1> QED BY <1>1 DEF Max

StatRows == [turn : Nat, civ : {s[p].civ : s \in Seatings, p \in UNION {DOMAIN t : t \in Seatings}},
             player : UNION {DOMAIN s : s \in Seatings}, game : Nat]

(* Where the latest segment starts.                                        *)
Drops(rows) == {i \in 2..Len(rows) : rows[i].turn < rows[i - 1].turn}
Start(rows) == IF Drops(rows) = {} THEN 1 ELSE Max(Drops(rows))

(* The last row of the statistics is the latest of its segment; those of   *)
(* this game name the player who plays them; and the engine's last map of  *)
(* the players is this game's.                                             *)
StatsInv ==
    /\ logTurn \in Nat \ {0} /\ game \in Nat /\ seating \in Seatings
    /\ stats \in Seq(StatRows)
    /\ stats # <<>> => \A i \in Start(stats) .. Len(stats) : stats[i].turn <= stats[Len(stats)].turn
    /\ logged => stats # <<>> /\ stats[Len(stats)].turn <= logTurn
    /\ \A i \in DOMAIN stats :
          /\ stats[i].game <= game
          /\ stats[i].game = game => /\ stats[i].player \in DOMAIN seating
                                     /\ stats[i].civ = seating[stats[i].player].civ
    /\ blocks \in Seq({Block(s) : s \in Seatings} \cup {<<>>})
    /\ blocks # <<>> /\ blocks[Len(blocks)] = Block(seating)

LEMMA StartIs ==
    ASSUME NEW rows \in Seq(StatRows), rows # <<>>
    PROVE  Start(rows) \in 1 .. Len(rows) /\ Len(rows) \in Nat \ {0}
  <1>1. Len(rows) \in Nat \ {0}
    BY EmptySeq
  <1>2. CASE Drops(rows) = {}
    BY <1>1, <1>2 DEF Start
  <1>3. CASE Drops(rows) # {}
    <2>1. Drops(rows) \in SUBSET Nat /\ \A n \in Drops(rows) : n <= Len(rows)
      BY <1>1 DEF Drops
    <2>2. Max(Drops(rows)) \in Drops(rows)
      BY <1>1, <1>3, <2>1, MaxIs
    <2> QED BY <1>1, <1>3, <2>2 DEF Start, Drops
  <1> QED BY <1>2, <1>3

LEMMA SegmentRows ==
    ASSUME NEW rows \in Seq(StatRows), NEW r \in Range(LatestGameSegment(rows))
    PROVE  rows # <<>> /\ \E i \in Start(rows) .. Len(rows) : r = rows[i]
  <1>1. Len(rows) \in Nat /\ DOMAIN rows = 1 .. Len(rows)
    BY LenProperties
  <1>2. LatestGameSegment(rows) = SubSeq(rows, Start(rows), Len(rows))
    BY DEF LatestGameSegment, Start, Drops
  <1>3. CASE rows = <<>>
    <2>1. Drops(rows) = {} /\ Len(rows) = 0
      BY <1>3, EmptySeq DEF Drops
    <2>2. SubSeq(rows, 1, 0) = <<>>
      BY SubSeqEmpty
    <2> QED BY <1>2, <2>1, <2>2 DEF Start, Range
  <1>4. CASE rows # <<>>
    <2>1. Start(rows) \in 1 .. Len(rows)
      BY <1>4, StartIs
    <2>2. \A i \in Start(rows) .. Len(rows) : rows[i] \in StatRows
      BY <1>1, <2>1, ElementOfSeq
    <2> DEFINE seg == SubSeq(rows, Start(rows), Len(rows))
               n == Len(rows) - Start(rows) + 1
    <2>3. /\ seg \in Seq(StatRows) /\ Len(seg) = n
          /\ \A i \in 1 .. n : seg[i] = rows[Start(rows) + i - 1]
      BY <1>1, <2>1, <2>2, SubSeqProperties
    <2>4. DOMAIN seg = 1 .. n
      BY <2>3, LenProperties
    <2>5. PICK i \in 1 .. n : r = seg[i]
      BY <1>2, <2>4 DEF Range
    <2>6. Start(rows) + i - 1 \in Start(rows) .. Len(rows)
      BY <1>1, <2>1
    <2> QED BY <1>4, <2>3, <2>5, <2>6
  <1> QED BY <1>3, <1>4

(* A row whose turn does not go back joins the segment; one whose turn     *)
(* does starts its own.                                                    *)
LEMMA AppendStarts ==
    ASSUME NEW rows \in Seq(StatRows), NEW r \in StatRows
    PROVE  LET more == Append(rows, r) IN
           /\ more \in Seq(StatRows) /\ more # <<>> /\ Len(more) = Len(rows) + 1
           /\ Len(rows) \in Nat
           /\ \A i \in 1 .. Len(rows) : more[i] = rows[i]
           /\ more[Len(more)] = r
           /\ rows = <<>> => Start(more) = 1 /\ Len(more) = 1
           /\ rows # <<>> =>
                 Start(more) = IF r.turn < rows[Len(rows)].turn THEN Len(more) ELSE Start(rows)
  <1> DEFINE more == Append(rows, r)
  <1>1. /\ more \in Seq(StatRows) /\ more # <<>> /\ Len(more) = Len(rows) + 1
        /\ Len(rows) \in Nat
        /\ \A i \in 1 .. Len(rows) : more[i] = rows[i]
        /\ more[Len(rows) + 1] = r
    BY AppendProperties, LenProperties
  <1> HIDE DEF more
  <1>2. CASE rows = <<>>
    <2>1. Len(rows) = 0
      BY <1>2, EmptySeq
    <2>2. Drops(more) = {}
      BY <1>1, <2>1 DEF Drops
    <2> QED BY <1>1, <1>2, <2>1, <2>2 DEF Start, more
  <1>3. CASE rows # <<>>
    <2>0. Len(rows) \in Nat \ {0}
      BY <1>3, EmptySeq
    <2>1. ASSUME NEW i \in 2 .. Len(rows) PROVE i \in Drops(more) <=> i \in Drops(rows)
      <3>1. i \in 1 .. Len(rows) /\ i - 1 \in 1 .. Len(rows) /\ i \in 2 .. Len(more)
        BY <1>1, <2>0
      <3> QED BY <1>1, <3>1 DEF Drops
    <2>2. Len(more) \in Drops(more) <=> r.turn < rows[Len(rows)].turn
      <3>1. /\ Len(more) \in 2 .. Len(more) /\ Len(more) - 1 = Len(rows)
            /\ Len(rows) \in 1 .. Len(rows)
        BY <1>1, <2>0
      <3> QED BY <1>1, <3>1 DEF Drops
    <2>3. Drops(rows) \subseteq 2 .. Len(rows) /\ Drops(more) \subseteq 2 .. Len(more)
      BY DEF Drops
    <2>4. 2 .. Len(more) = (2 .. Len(rows)) \cup {Len(more)}
      BY <1>1, <2>0
    <2>5. CASE r.turn < rows[Len(rows)].turn
      <3>1. /\ Drops(more) \in SUBSET Nat /\ Drops(more) # {}
            /\ Len(more) \in Nat /\ \A n \in Drops(more) : n <= Len(more)
        BY <1>1, <2>0, <2>2, <2>3, <2>5
      <3>2. Max(Drops(more)) \in Drops(more) /\ \A n \in Drops(more) : n <= Max(Drops(more))
        BY <3>1, MaxIs
      <3>3. Max(Drops(more)) = Len(more)
        BY <2>2, <2>5, <3>1, <3>2
      <3> QED BY <1>1, <1>3, <2>5, <3>1, <3>3 DEF Start, more
    <2>6. CASE ~(r.turn < rows[Len(rows)].turn)
      <3>1. Drops(more) = Drops(rows)
        BY <2>1, <2>2, <2>3, <2>4, <2>6
      <3> QED BY <1>1, <1>3, <2>6, <3>1 DEF Start, more
    <2> QED BY <2>5, <2>6
  <1> QED BY <1>2, <1>3

LEMMA LogStatsKeeps == ASSUME StatsInv, LogStats PROVE StatsInv'
  <1>1. PICK p \in DOMAIN seating :
            stats' = Append(stats, [turn |-> logTurn, civ |-> seating[p].civ, player |-> p, game |-> game])
    BY DEF LogStats
  <1> DEFINE r == [turn |-> logTurn, civ |-> seating[p].civ, player |-> p, game |-> game]
  <1>2. r \in StatRows
    BY DEF StatsInv, StatRows
  <1>3. r.turn = logTurn /\ r.civ = seating[p].civ /\ r.player = p /\ r.game = game
    OBVIOUS
  <1> HIDE DEF r
  <1>4. UNCHANGED <<game, seating, logTurn, blocks>> /\ stats' = Append(stats, r)
    BY <1>1 DEF LogStats, r
  <1>5. /\ stats' \in Seq(StatRows) /\ stats' # <<>> /\ Len(stats') = Len(stats) + 1
        /\ Len(stats) \in Nat
        /\ \A i \in 1 .. Len(stats) : stats'[i] = stats[i]
        /\ stats'[Len(stats')] = r
        /\ stats = <<>> => Start(stats') = 1 /\ Len(stats') = 1
        /\ stats # <<>> =>
              Start(stats') = IF r.turn < stats[Len(stats)].turn THEN Len(stats') ELSE Start(stats)
    BY <1>2, <1>4, AppendStarts DEF StatsInv
  <1>6. ASSUME NEW i \in Start(stats') .. Len(stats') PROVE stats'[i].turn <= logTurn
    <2>1. CASE i = Len(stats')
      BY <1>3, <1>5, <2>1 DEF StatsInv
    <2>2. CASE i # Len(stats')
      <3>1. stats # <<>> /\ ~(r.turn < stats[Len(stats)].turn) /\ Start(stats') = Start(stats)
        BY <1>5, <2>2
      <3>2. Start(stats) \in 1 .. Len(stats) /\ Len(stats) \in Nat \ {0}
        BY <3>1, StartIs DEF StatsInv
      <3>3. i \in Start(stats) .. Len(stats) /\ i \in 1 .. Len(stats) /\ Len(stats) \in 1 .. Len(stats)
        BY <1>5, <2>2, <3>1, <3>2
      <3>4. stats[i].turn <= stats[Len(stats)].turn
        BY <3>1, <3>3 DEF StatsInv
      <3>5. stats[i] \in StatRows /\ stats[Len(stats)] \in StatRows
        BY <3>3, ElementOfSeq DEF StatsInv
      <3>6. stats[i].turn \in Nat /\ stats[Len(stats)].turn \in Nat /\ logTurn \in Nat
        BY <3>5 DEF StatRows, StatsInv
      <3> QED BY <1>3, <1>5, <3>1, <3>3, <3>4, <3>6
    <2> QED BY <2>1, <2>2
  <1>7. ASSUME NEW i \in DOMAIN stats'
        PROVE  /\ stats'[i].game <= game
               /\ stats'[i].game = game => /\ stats'[i].player \in DOMAIN seating
                                           /\ stats'[i].civ = seating[stats'[i].player].civ
    <2>1. i \in 1 .. Len(stats) \/ i = Len(stats')
      BY <1>5, LenProperties
    <2>2. CASE i \in 1 .. Len(stats)
      <3>1. i \in DOMAIN stats
        BY <2>2, LenProperties DEF StatsInv
      <3> QED BY <1>5, <2>2, <3>1 DEF StatsInv
    <2>3. CASE i = Len(stats')
      BY <1>3, <1>5, <2>3 DEF StatsInv
    <2> QED BY <2>1, <2>2, <2>3
  <1>8. stats'[Len(stats')].turn = logTurn /\ logTurn <= logTurn
    BY <1>3, <1>5 DEF StatsInv
  <1> QED BY <1>4, <1>5, <1>6, <1>7, <1>8 DEF StatsInv

LEMMA LoadGameKeeps == ASSUME StatsInv, LoadGame PROVE StatsInv'
  <1>1. /\ seating' \in Seatings /\ logTurn' \in Nat \ {0} /\ game' \in Nat /\ game <= game'
        /\ game' = game => seating' = seating
    BY DEF LoadGame, StatsInv
  <1>2. stats' = stats /\ logged' = FALSE
    BY DEF LoadGame
  <1>3. ASSUME NEW i \in DOMAIN stats
        PROVE  /\ stats[i].game <= game'
               /\ stats[i].game = game' => /\ stats[i].player \in DOMAIN seating'
                                           /\ stats[i].civ = seating'[stats[i].player].civ
    <2>1. stats[i] \in StatRows
      BY LenProperties, ElementOfSeq DEF StatsInv
    <2>2. stats[i].game \in Nat /\ stats[i].game <= game
      BY <2>1 DEF StatRows, StatsInv
    <2>3. stats[i].game = game' => game' = game
      BY <1>1, <2>2 DEF StatsInv
    <2> QED BY <1>1, <2>2, <2>3 DEF StatsInv
  <1> DEFINE S == {Block(s) : s \in Seatings} \cup {<<>>}
             two == <<<<>>, Block(seating')>>
  <1>4. blocks' = blocks \o two
    BY DEF LoadGame
  <1>5. two \in Seq(S) /\ Len(two) = 2 /\ two[2] = Block(seating')
    BY <1>1
  <1>6. blocks \in Seq(S) /\ Len(blocks) \in Nat
    BY LenProperties DEF StatsInv
  <1> HIDE DEF two
  <1>7. /\ blocks' \in Seq(S) /\ Len(blocks') = Len(blocks) + 2
        /\ \A i \in 1 .. Len(blocks) + 2 : blocks'[i] =
                IF i <= Len(blocks) THEN blocks[i] ELSE two[i - Len(blocks)]
    <2> HIDE DEF S
    <2> QED BY <1>4, <1>5, <1>6, ConcatProperties
  <1>8. blocks' # <<>> /\ blocks'[Len(blocks')] = Block(seating')
    <2>1. Len(blocks') \in 1 .. Len(blocks) + 2 /\ ~(Len(blocks') <= Len(blocks))
          /\ Len(blocks') - Len(blocks) = 2
      BY <1>6, <1>7
    <2>2. blocks' # <<>>
      BY <1>6, <1>7, EmptySeq
    <2> QED BY <1>5, <1>7, <2>1, <2>2
  <1> QED BY <1>1, <1>2, <1>3, <1>7, <1>8 DEF StatsInv, Block

LEMMA LogsHold == LogsSpec => []StatsInv
  <1>1. LogsInit => StatsInv
    <2> SUFFICES ASSUME LogsInit PROVE StatsInv
      OBVIOUS
    <2>1. <<>> \in Seq(StatRows) /\ DOMAIN <<>> = {}
      BY EmptySeq
    <2>2. /\ blocks \in Seq({Block(s) : s \in Seatings} \cup {<<>>})
          /\ blocks # <<>> /\ blocks[Len(blocks)] = Block(seating)
      BY DEF LogsInit
    <2> QED BY <2>1, <2>2 DEF LogsInit, StatsInv
  <1>2. StatsInv /\ [LogsNext]_fvars => StatsInv'
    <2> SUFFICES ASSUME StatsInv, [LogsNext]_fvars PROVE StatsInv'
      OBVIOUS
    <2>1. CASE UNCHANGED <<game, seating, logTurn, stats, blocks, logged>>
      BY <2>1 DEF StatsInv
    <2>2. CASE LogStats
      BY <2>2, LogStatsKeeps
    <2>3. CASE LoadGame
      BY <2>3, LoadGameKeeps
    <2>4. CASE EndLogTurn
      <3>1. UNCHANGED <<game, seating, stats, blocks, logged>> /\ logTurn' = logTurn + 1
        BY <2>4 DEF EndLogTurn
      <3>2. logTurn' \in Nat \ {0} /\ logTurn <= logTurn'
        BY <3>1 DEF StatsInv
      <3>3. logged => stats[Len(stats)].turn <= logTurn'
        <4>1. SUFFICES ASSUME logged PROVE stats[Len(stats)].turn <= logTurn'
          OBVIOUS
        <4>2. stats # <<>> /\ stats \in Seq(StatRows) /\ stats[Len(stats)].turn <= logTurn
          BY <4>1 DEF StatsInv
        <4>3. stats[Len(stats)] \in StatRows
          BY <4>2, EmptySeq, ElementOfSeq
        <4>4. stats[Len(stats)].turn \in Nat /\ logTurn \in Nat
          BY <4>3 DEF StatRows, StatsInv
        <4> QED BY <3>1, <4>2, <4>4
      <3> QED BY <3>1, <3>2, <3>3 DEF StatsInv
    <2> QED BY <2>1, <2>2, <2>3, <2>4 DEF LogsNext, fvars, LogCityQueue, LogOwner
  <1> QED BY <1>1, <1>2, PTL DEF LogsSpec

(* A reading takes the statistics for the seating's, or has no identities  *)
(* and takes none.                                                         *)
LEMMA IdentitiesAre ==
    ASSUME StatsInv, NEW broken PROVE Identities(broken) \in {Block(seating), <<>>}
  <1> DEFINE S == {Block(s) : s \in Seatings} \cup {<<>>}
             withPlayers == {i \in DOMAIN blocks : DOMAIN blocks[i] # {}}
  <1>1. blocks \in Seq(S) /\ blocks # <<>>
    BY DEF StatsInv
  <1>2. Len(blocks) \in Nat \ {0} /\ DOMAIN blocks = 1 .. Len(blocks)
    <2> HIDE DEF S
    <2> QED BY <1>1, EmptySeq, LenProperties
  <1>3. Len(blocks) \in withPlayers
    BY <1>2, SeatingsAssumption DEF StatsInv, Block
  <1>4. Max(withPlayers) = Len(blocks)
    <2>1. withPlayers \in SUBSET Nat /\ withPlayers # {} /\ \A n \in withPlayers : n <= Len(blocks)
      BY <1>2, <1>3
    <2> HIDE DEF withPlayers
    <2>2. Max(withPlayers) \in withPlayers /\ \A n \in withPlayers : n <= Max(withPlayers)
      BY <1>2, <2>1, MaxIs
    <2>3. Max(withPlayers) <= Len(blocks) /\ Len(blocks) <= Max(withPlayers)
      BY <1>3, <2>1, <2>2
    <2>4. Max(withPlayers) \in Nat /\ Len(blocks) \in Nat
      BY <1>2, <2>1, <2>2
    <2> QED BY ONLY <2>3, <2>4
  <1> QED BY <1>4 DEF Identities, StatsInv

LEMMA StatisticsAre ==
    ASSUME StatsInv, NEW broken, NEW r \in Statistics(broken)
    PROVE  \E row \in Range(LatestGameSegment(stats)) :
              /\ r.turn = row.turn /\ r.game = row.game /\ r.truly = row.player
              /\ Attributable(row.civ, Identities(broken))
              /\ r.player = CHOOSE p \in PlayersOf(row.civ, Identities(broken)) : TRUE
  BY DEF Statistics

(* state/build.py: once the loaded game has logged its statistics, the     *)
(* turn that advice is computed for is one it has finished, whatever was   *)
(* played before it went into the same files.                              *)
THEOREM FinishedTurns == LogsSpec => []FinishedTurnsOnly
  <1>1. StatsInv => FinishedTurnsOnly
    <2> SUFFICES ASSUME StatsInv, logged, NEW broken PROVE CompleteThroughTurn(broken) < logTurn
      BY DEF FinishedTurnsOnly
    <2> DEFINE turns == {0} \cup {r.turn : r \in Statistics(broken)}
    <2>1. logTurn \in Nat \ {0} /\ stats \in Seq(StatRows)
      BY DEF StatsInv
    <2>2. ASSUME NEW r \in Statistics(broken) PROVE r.turn \in Nat /\ r.turn <= logTurn
      <3>1. PICK row \in Range(LatestGameSegment(stats)) : r.turn = row.turn
        BY StatisticsAre
      <3>2. PICK i \in Start(stats) .. Len(stats) : row = stats[i]
        BY <2>1, SegmentRows
      <3>3. stats # <<>> /\ Start(stats) \in 1 .. Len(stats) /\ Len(stats) \in Nat \ {0}
        BY <2>1, <3>1, SegmentRows, StartIs
      <3>4. i \in 1 .. Len(stats) /\ Len(stats) \in 1 .. Len(stats)
        BY <3>3
      <3>5. stats[i] \in StatRows /\ stats[Len(stats)] \in StatRows
        BY <2>1, <3>4, ElementOfSeq
      <3>6. stats[i].turn \in Nat /\ stats[Len(stats)].turn \in Nat
        BY <3>5 DEF StatRows
      <3>7. stats[i].turn <= stats[Len(stats)].turn /\ stats[Len(stats)].turn <= logTurn
        BY <3>3 DEF StatsInv
      <3> QED BY <2>1, <3>1, <3>2, <3>6, <3>7
    <2>3. turns \in SUBSET Nat /\ turns # {} /\ \A n \in turns : n <= logTurn
      BY <2>1, <2>2
    <2>4. LatestTurn(broken) = Max(turns)
      BY DEF LatestTurn
    <2> HIDE DEF turns
    <2>5. LatestTurn(broken) \in Nat /\ LatestTurn(broken) <= logTurn
      BY <2>1, <2>3, <2>4, MaxIs
    <2>6. \A n \in {LatestTurn(broken) - 1, 0} : n < logTurn
      BY <2>1, <2>5
    <2>7. CompleteThroughTurn(broken) \in {LatestTurn(broken) - 1, 0}
      <3>1. \E x \in {LatestTurn(broken) - 1, 0} : \A y \in {LatestTurn(broken) - 1, 0} : x >= y
        BY <2>5
      <3> QED BY <3>1 DEF CompleteThroughTurn, Max
    <2> QED BY <2>6, <2>7
  <1> QED BY LogsHold, <1>1, PTL

(* games/civ6/readers.py: as long as the statistics kept are this game's,  *)
(* no row is filed under a player who does not play that civilization,     *)
(* whoever plays what.                                                     *)
THEOREM FiledUnderTheirPlayer == LogsSpec => []FiledUnderOwnPlayer
  <1>1. StatsInv => FiledUnderOwnPlayer
    <2> SUFFICES ASSUME StatsInv, NEW broken, NEW r \in Statistics(broken), r.game = game
                 PROVE r.player = r.truly
      BY DEF FiledUnderOwnPlayer
    <2>1. PICK row \in Range(LatestGameSegment(stats)) :
              /\ r.game = row.game /\ r.truly = row.player
              /\ Attributable(row.civ, Identities(broken))
              /\ r.player = CHOOSE p \in PlayersOf(row.civ, Identities(broken)) : TRUE
      BY StatisticsAre
    <2>2. PICK i \in DOMAIN stats : row = stats[i]
      <3>1. stats # <<>> /\ \E i \in Start(stats) .. Len(stats) : row = stats[i]
        BY SegmentRows DEF StatsInv
      <3>2. Start(stats) \in 1 .. Len(stats) /\ Len(stats) \in Nat /\ DOMAIN stats = 1 .. Len(stats)
        BY <3>1, StartIs, LenProperties DEF StatsInv
      <3> QED BY <3>1, <3>2
    <2>3. row.player \in DOMAIN seating /\ row.civ = seating[row.player].civ
      BY <2>1, <2>2 DEF StatsInv
    <2> DEFINE theirs == PlayersOf(row.civ, Identities(broken))
    <2>4. PICK p : theirs = {p}
      <3>1. Cardinality(theirs) = 1
        BY <2>1 DEF Attributable
      <3>2. IsFiniteSet(DOMAIN Identities(broken))
        <4>1. IsFiniteSet(DOMAIN <<>>) /\ IsFiniteSet(DOMAIN seating)
          BY FS_EmptySet, SeatingsAssumption DEF StatsInv
        <4> QED BY <4>1, IdentitiesAre DEF Block
      <3>3. IsFiniteSet(theirs)
        BY <3>2, FS_Subset DEF PlayersOf
      <3> QED BY <3>1, <3>3, FS_Singleton
    <2>5. Identities(broken) = Block(seating)
      <3>1. theirs \subseteq DOMAIN Identities(broken) /\ theirs # {}
        BY <2>4 DEF PlayersOf
      <3>2. DOMAIN <<>> = {}
        OBVIOUS
      <3> QED BY <3>1, <3>2, IdentitiesAre
    <2>6. row.player \in theirs
      BY <2>3, <2>5 DEF PlayersOf, Block
    <2> QED BY <2>1, <2>4, <2>6
  <1> QED BY LogsHold, <1>1, PTL

-----------------------------------------------------------------------------
(* The answers.                                                            *)

(* What may be resolved may be shown in the request's mode, and prose that *)
(* is shown passed the number rule against what it cites of it.            *)
VouchInv ==
    /\ \A f \in resolved.facts : f.ratio \in BOOLEAN /\ MayShow(f)
    /\ answer # None /\ answer.generated => Check(answer.text, Admitted(Cited))

(* Every fact is made by Fact or RatioFact, and only a recorded objective   *)
(* is called one.                                                          *)
Made(f, ids) == f.ratio \in BOOLEAN /\ f.id \in ids

OtherIds == {"turn", "yield", "comparison", "threshold", "rival yield", "gold", "its parts",
             "report", "upkeep", "cost"}

LEMMA FactIs ==
    ASSUME NEW id \in OtherIds, NEW kind, NEW value, NEW turn, NEW note
    PROVE  Made(Fact(id, kind, value, turn, note), OtherIds)
  BY DEF Fact, Made

LEMMA RatioFactIs ==
    ASSUME NEW id \in OtherIds, NEW kind, NEW value, NEW turn, NEW note
    PROVE  Made(RatioFact(id, kind, value, turn, note), OtherIds)
  BY DEF Fact, RatioFact, Made

LEMMA ObjectiveIs ==
    ASSUME NEW kind, NEW value, NEW turn, NEW note
    PROVE  Made(Fact("objective", kind, value, turn, note), {"objective"})
  BY DEF Fact, Made

LEMMA NothingAbsent ==
    ASSUME NEW question, NEW kind, NEW f PROVE f \notin Absent(question, kind).facts
  BY DEF Absent

LEMMA AnsweredIs ==
    ASSUME NEW facts, NEW f PROVE f \in Answered(facts).facts <=> f \in facts
  BY DEF Answered

LEMMA ResolvedIs ==
    /\ \A f \in ResolveTurn.facts : Made(f, OtherIds)
    /\ \A f \in ResolveYields.facts : Made(f, OtherIds)
    /\ \A f \in ResolveComparison.facts : Made(f, OtherIds)
    /\ \A f \in ResolveNetGold.facts : Made(f, OtherIds)
    /\ \A f \in ResolveReports.facts : Made(f, OtherIds)
    /\ \A f \in ResolveUpkeep.facts : Made(f, OtherIds)
    /\ \A f \in ResolveBuilding.facts : Made(f, OtherIds)
    /\ \A f \in ResolveObjectives.facts : Made(f, {"objective"})
  <1>1. \A f \in ResolveTurn.facts : Made(f, OtherIds)
    <2>1. "turn" \in OtherIds
      BY DEF OtherIds
    <2> QED BY <2>1, FactIs, AnsweredIs, NothingAbsent DEF ResolveTurn
  <1>2. \A f \in ResolveYields.facts : Made(f, OtherIds)
    <2>1. "yield" \in OtherIds
      BY DEF OtherIds
    <2> QED BY <2>1, FactIs, AnsweredIs, NothingAbsent DEF ResolveYields
  <1>3. \A f \in ResolveComparison.facts : Made(f, OtherIds)
    <2>1. /\ "comparison" \in OtherIds /\ "threshold" \in OtherIds
          /\ "yield" \in OtherIds /\ "rival yield" \in OtherIds
      BY DEF OtherIds
    <2> DEFINE compared == RatioFact("comparison", "derived", context.ratio, {context.turn},
                                     context.yields \cup context.median)
               rule == RatioFact("threshold", "rule", {BehindRatio}, {}, {})
               own == Fact("yield", "log", context.yields, {context.turn}, {})
               rival == Fact("rival yield", "log", context.median, {context.turn}, {})
    <2>2. Made(compared, OtherIds) /\ Made(rule, OtherIds)
      BY <2>1, RatioFactIs
    <2>3. Made(own, OtherIds) /\ Made(rival, OtherIds)
      BY <2>1, FactIs
    <2>4. CASE context.ratio = {}
      BY <2>4, NothingAbsent DEF ResolveComparison
    <2>5. CASE context.ratio # {}
      <3>1. ResolveComparison = Answered({compared, rule, own, rival})
        BY <2>5 DEF ResolveComparison
      <3> HIDE DEF compared, rule, own, rival
      <3> QED BY <3>1, <2>2, <2>3, AnsweredIs
    <2> QED BY <2>4, <2>5
  <1>4. \A f \in ResolveNetGold.facts : Made(f, OtherIds)
    <2>1. "gold" \in OtherIds /\ "its parts" \in OtherIds
      BY DEF OtherIds
    <2> DEFINE net == Fact("gold", "derived", context.gold, {context.turn}, context.reserve)
               parts == Fact("its parts", "log", context.parts, {context.turn}, {})
    <2>2. Made(net, OtherIds) /\ Made(parts, OtherIds)
      BY <2>1, FactIs
    <2>3. CASE context.gold = {}
      BY <2>3, NothingAbsent DEF ResolveNetGold, NotLogged
    <2>4. CASE context.gold # {}
      <3>1. ResolveNetGold = Answered({net, parts})
        BY <2>4 DEF ResolveNetGold
      <3> HIDE DEF net, parts
      <3> QED BY <3>1, <2>2, AnsweredIs
    <2> QED BY <2>3, <2>4
  <1>5. \A f \in ResolveReports.facts : Made(f, OtherIds)
    <2>1. "report" \in OtherIds
      BY DEF OtherIds
    <2> QED BY <2>1, FactIs, AnsweredIs, NothingAbsent DEF ResolveReports
  <1>6. \A f \in ResolveUpkeep.facts : Made(f, OtherIds)
    <2>1. "upkeep" \in OtherIds
      BY DEF OtherIds
    <2> QED BY <2>1, FactIs, AnsweredIs, NothingAbsent DEF ResolveUpkeep
  <1>7. \A f \in ResolveBuilding.facts : Made(f, OtherIds)
    <2>1. "cost" \in OtherIds
      BY DEF OtherIds
    <2> QED BY <2>1, FactIs, AnsweredIs, NothingAbsent DEF ResolveBuilding
  <1>8. \A f \in ResolveObjectives.facts : Made(f, {"objective"})
    BY ObjectiveIs, AnsweredIs, NothingAbsent DEF ResolveObjectives
  <1> QED BY <1>1, <1>2, <1>3, <1>4, <1>5, <1>6, <1>7, <1>8

LEMMA AskedMayBeShown ==
    ASSUME NEW selected, NEW f \in AskCatalog(selected).facts
    PROVE  f.ratio \in BOOLEAN /\ MayShow(f)
  <1>1. CASE selected.question \in CATALOG \ OracleQuestions /\ selected.valid
    <2>1. f \in Resolve(selected.question).facts
      BY <1>1 DEF AskCatalog
    <2>2. Made(f, OtherIds)
      BY <1>1, <2>1, ResolvedIs DEF Resolve, CATALOG, OracleQuestions
    <2> QED BY <2>2 DEF Made, OtherIds, MayShow
  <1>2. CASE selected.question \in OracleQuestions /\ selected.valid /\ mode = "oracle"
    <2>1. f \in ResolveObjectives.facts
      BY <1>2 DEF AskCatalog, Resolve, CATALOG, OracleQuestions
    <2> QED BY <1>2, <2>1, ResolvedIs DEF Made, MayShow
  <1>3. CASE \/ selected.question \notin CATALOG \/ ~selected.valid
             \/ selected.question \in OracleQuestions /\ mode # "oracle"
    <2>1. AskCatalog(selected).facts = {}
      BY <1>3 DEF AskCatalog, Absent, CATALOG, OracleQuestions
    <2> QED BY <2>1
  <1> QED BY <1>1, <1>2, <1>3

LEMMA VouchHolds == AnswersSpec => []VouchInv
  <1>1. AnswersInit => VouchInv
    BY DEF AnswersInit, VouchInv
  <1>2. VouchInv /\ [AnswersNext]_answervars => VouchInv'
    <2> SUFFICES ASSUME VouchInv, [AnswersNext]_answervars PROVE VouchInv'
      OBVIOUS
    <2>1. CASE UNCHANGED answervars
      BY <2>1 DEF answervars, VouchInv, MayShow, Check, Cited, TypedValues, QuantityClaims,
                  PhraseBy
    <2>2. ASSUME NEW selection \in Selections, SelectAndResolve(selection) PROVE VouchInv'
      <3>1. ASSUME NEW f \in resolved'.facts PROVE f.ratio \in BOOLEAN /\ MayShow(f)'
        <4>1. PICK s \in selection : f \in AskCatalog(s).facts
          BY <2>2, <3>1 DEF SelectAndResolve
        <4>2. mode' = mode
          BY <2>2 DEF SelectAndResolve
        <4> QED BY <4>1, <4>2, AskedMayBeShown DEF MayShow
      <3>2. ~answer'.generated
        BY <2>2 DEF SelectAndResolve, Fallback, Shown
      <3> QED BY <3>1, <3>2 DEF VouchInv
    <2>3. CASE Compose
      <3>1. PICK text, cited :
               /\ Check(text, Admitted({f \in resolved.facts : f.id \in cited}))
               /\ answer' = Shown(TRUE, text, cited)
        BY <2>3 DEF Compose, Valid
      <3>2. UNCHANGED <<context, mode, message, resolved>>
        BY <2>3 DEF Compose
      <3>3. answer'.text = text /\ answer'.cited = cited
        BY <3>1 DEF Shown
      <3>4. Cited' = {f \in resolved.facts : f.id \in cited}
        BY <3>2, <3>3 DEF Cited
      <3>5. (\A f \in resolved.facts : f.ratio \in BOOLEAN /\ MayShow(f))'
        BY <3>2 DEF VouchInv, MayShow
      <3>6. Check(answer.text, Admitted(Cited))'
        BY <3>1, <3>2, <3>3, <3>4 DEF Check, TypedValues, QuantityClaims, PhraseBy
      <3> QED BY <3>5, <3>6 DEF VouchInv
    <2> QED BY <2>1, <2>2, <2>3 DEF AnswersNext
  <1> QED BY <1>1, <1>2, PTL DEF AnswersSpec

(* A candidate is a figure, a turn or a note of one fact, and only the     *)
(* player's are marked as such.                                            *)
LEMMA ValueOf ==
    ASSUME NEW v, NEW isRatio \in BOOLEAN, NEW f
    PROVE  /\ AdmittedValue(v, isRatio, f).value = v
           /\ AdmittedValue(v, isRatio, f).ratio <=> isRatio
           /\ AdmittedValue(v, isRatio, f).player <=> ~OfTheGame(f)
  BY DEF AdmittedValue, OfTheGame

LEMMA CandidateStates ==
    ASSUME NEW facts, \A f \in facts : f.ratio \in BOOLEAN,
           NEW n, NEW c \in Admitted(facts), Matches(n, c)
    PROVE  \E f \in facts : States(f, n) /\ (c.player <=> ~OfTheGame(f))
  <1>1. PICK f \in facts : c \in AdmittedOf(f)
    BY DEF Admitted
  <1>2. CASE \E v \in f.value : c = AdmittedValue(v, f.ratio, f)
    <2>1. PICK v \in f.value : c = AdmittedValue(v, f.ratio, f)
      BY <1>2
    <2>2. c.value = v /\ (c.ratio <=> f.ratio) /\ (c.player <=> ~OfTheGame(f))
      BY <2>1, ValueOf
    <2> QED BY <2>2 DEF States, Matches
  <1>3. CASE \E v \in f.turn \cup f.note : c = AdmittedValue(v, FALSE, f)
    <2>1. PICK v \in f.turn \cup f.note : c = AdmittedValue(v, FALSE, f)
      BY <1>3
    <2>2. c.value = v /\ (c.ratio <=> FALSE) /\ (c.player <=> ~OfTheGame(f))
      BY <2>1, ValueOf
    <2> QED BY <2>2 DEF States, Matches
  <1> QED BY <1>1, <1>2, <1>3 DEF AdmittedOf

LEMMA StatedIsCandidate ==
    ASSUME NEW facts, NEW f \in facts, f.ratio \in BOOLEAN, NEW n, States(f, n)
    PROVE  \E c \in Admitted(facts) : Matches(n, c) /\ (c.player <=> ~OfTheGame(f))
  <1>1. AdmittedOf(f) \subseteq Admitted(facts)
    BY DEF Admitted
  <1>2. CASE n.percent
    <2>1. PICK v \in f.value : n.value = Rounded(100 * v, n.places) /\ f.ratio
      BY <1>2 DEF States
    <2>2. AdmittedValue(v, f.ratio, f) \in AdmittedOf(f)
      BY <2>1 DEF AdmittedOf
    <2>4. /\ AdmittedValue(v, f.ratio, f).value = v
          /\ AdmittedValue(v, f.ratio, f).ratio <=> f.ratio
          /\ AdmittedValue(v, f.ratio, f).player <=> ~OfTheGame(f)
      BY ValueOf
    <2>3. Matches(n, AdmittedValue(v, f.ratio, f))
      BY <1>2, <2>1, <2>4 DEF Matches
    <2> QED BY <1>1, <2>2, <2>3, <2>4
  <1>3. CASE ~n.percent
    <2>1. PICK v \in f.value \cup f.turn \cup f.note : n.value = Rounded(v, n.places)
      BY <1>3 DEF States
    <2>2. PICK isRatio \in BOOLEAN : AdmittedValue(v, isRatio, f) \in AdmittedOf(f)
      BY <2>1 DEF AdmittedOf
    <2>3. Matches(n, AdmittedValue(v, isRatio, f))
      BY <1>3, <2>1, ValueOf DEF Matches
    <2> QED BY <1>1, <2>2, <2>3, ValueOf
  <1> QED BY <1>2, <1>3

(* copilot/grounding.py: whatever the model writes, and whatever the       *)
(* snapshot and the player's message hold, every number of prose shown is  *)
(* vouched for at the sentence it stands in, and prose that states the     *)
(* game's figure to a player who claimed one acknowledges the claim.       *)
THEOREM AnswersAreVouchedFor == AnswersSpec => []AnswerIsVouchedFor
  <1>1. VouchInv => AnswerIsVouchedFor
    <2> SUFFICES ASSUME VouchInv, answer # None, answer.generated
                 PROVE  /\ \A s \in answer.text : \A n \in s.numerals : VouchedFor(s, n)
                        /\ QuantityClaims # {} /\ StatesTheGame => Acknowledged
      BY DEF AnswerIsVouchedFor
    <2> DEFINE pool == Admitted(Cited)
               Says(n, player) == \E c \in pool : Matches(n, c) /\ (c.player <=> player)
    <2>1. Check(answer.text, pool) /\ \A f \in Cited : f.ratio \in BOOLEAN /\ MayShow(f)
      BY DEF VouchInv, Cited
    <2>2. ASSUME NEW s \in answer.text, NEW n \in s.numerals PROVE VouchedFor(s, n)
      <3>1. \/ Says(n, FALSE)
            \/ "report" \in s.says /\ Says(n, TRUE)
            \/ "claim" \in s.says /\ n.value \in TypedValues
        BY <2>1 DEF Check, PhraseBy
      <3>2. CASE Says(n, FALSE)
        BY <2>1, <3>2, CandidateStates DEF VouchedFor
      <3>3. CASE "report" \in s.says /\ Says(n, TRUE)
        BY <2>1, <3>3, CandidateStates DEF VouchedFor
      <3>4. CASE "claim" \in s.says /\ n.value \in TypedValues
        BY <3>4 DEF VouchedFor, TypedValues
      <3> QED BY <3>1, <3>2, <3>3, <3>4
    <2>3. ASSUME QuantityClaims # {}, StatesTheGame PROVE Acknowledged
      <3>1. PICK s \in answer.text : \E n \in s.numerals : \E f \in Cited :
                    OfTheGame(f) /\ States(f, n)
        BY <2>3 DEF StatesTheGame
      <3>0. PICK n \in s.numerals, f \in Cited : OfTheGame(f) /\ States(f, n)
        BY <3>1
      <3>2. PICK c \in pool : Matches(n, c) /\ ~c.player
        BY <2>1, <3>0, StatedIsCandidate
      <3>3. \E t \in answer.text : \E m \in t.numerals :
               m.value \in TypedValues /\ PhraseBy(answer.text, t, "claim")
        BY <2>1, <2>3, <3>0, <3>2 DEF Check
      <3> QED BY <3>3 DEF Acknowledged, PhraseBy
    <2> QED BY <2>2, <2>3
  <1> QED BY VouchHolds, <1>1, PTL

-----------------------------------------------------------------------------
(* The plans.                                                              *)

(* Rows are of turns, and plans are logged for the turn that is played.    *)
PlansInv ==
    /\ through \in Nat
    /\ \A rows \in {targets, operations, orders} : \A r \in rows : r.turn \in Nat

LEMMA PlansKept == ASSUME PlansInv, FrontierNext PROVE PlansInv'
  <1>1. CASE LogOperation
    <2>1. PICK row : row.turn = Live /\ operations' = operations \cup {row}
      BY <1>1 DEF LogOperation
    <2>2. Live \in Nat
      BY DEF Live, PlansInv
    <2> QED BY <1>1, <2>1, <2>2 DEF LogOperation, PlansInv
  <1>2. CASE LogOrder
    <2>1. PICK row : row.turn = Live /\ orders' = orders \cup {row}
      BY <1>2 DEF LogOrder
    <2>2. Live \in Nat
      BY DEF Live, PlansInv
    <2> QED BY <1>2, <2>1, <2>2 DEF LogOrder, PlansInv
  <1>3. CASE CompleteTurn
    BY <1>3 DEF CompleteTurn, PlansInv
  <1>5. CASE LogTarget
    <2>1. PICK row : row.turn = Live /\ targets' \subseteq targets \cup {row}
      BY <1>5 DEF LogTarget
    <2>2. Live \in Nat
      BY DEF Live, PlansInv
    <2> QED BY <1>5, <2>1, <2>2 DEF LogTarget, PlansInv
  <1>4. CASE LogSighting \/ LogOwnMove
    BY <1>4 DEF LogSighting, LogOwnMove, PlansInv
  <1> QED BY <1>1, <1>2, <1>3, <1>4, <1>5 DEF FrontierNext, LogPlan

LEMMA PlansHold == FrontierSpec => []PlansInv
  <1>1. FrontierInit => PlansInv
    BY DEF FrontierInit, PlansInv
  <1>2. PlansInv /\ [FrontierNext]_frvars => PlansInv'
    <2>1. PlansInv /\ UNCHANGED frvars => PlansInv'
      BY DEF PlansInv, frvars
    <2> QED BY <2>1, PlansKept
  <1> QED BY <1>1, <1>2, PTL DEF FrontierSpec

(* A goal is of a turn that is complete. *)
LEMMA GoalsAre ==
    ASSUME PlansInv, NEW g \in AttackGoals
    PROVE  g.turn \in Nat /\ g.turn <= through /\ Age(g) \in Nat
  <1>1. PICK r \in Known(operations) \cup Known(orders), kind \in {"planned", "ordered"} :
           g = Goal(r, kind)
    BY DEF AttackGoals, Operating, Attacking, Newest
  <1>2. r.turn \in Nat /\ r.turn <= through
    BY DEF Known, PlansInv
  <1>3. g.turn = r.turn
    BY <1>1 DEF Goal
  <1> QED BY <1>2, <1>3 DEF Age, PlansInv

(* The goals of one rival are dated by the newest of them, so that the     *)
(* alert of a rival is critical exactly when one of them is fresh.         *)
LEMMA PlanInsightIs ==
    ASSUME PlansInv, NEW g \in AttackGoals
    PROVE  LET i == PlanInsight(g.player)
               fresh == \E h \in AttackGoals : h.player = g.player /\ Fresh(h)
           IN  /\ fresh => i = Insight("ordered_attack", g.player, Critical)
               /\ ~fresh => i = Insight("stale_attack_goal", g.player, Advise)
  <1> DEFINE theirs == {h \in AttackGoals : h.player = g.player}
             turns == {h.turn : h \in theirs}
             fresh == \E h \in AttackGoals : h.player = g.player /\ Fresh(h)
  <1>1. turns \in SUBSET Nat /\ turns # {} /\ \A n \in turns : n <= through
    BY GoalsAre
  <1>2. Max(turns) \in turns /\ \A n \in turns : n <= Max(turns)
    <2> HIDE DEF turns
    <2> QED BY <1>1, MaxIs DEF PlansInv
  <1>3. fresh <=> through - Max(turns) <= GoalFreshTurns
    <2>1. ASSUME NEW h \in AttackGoals, h.player = g.player, Fresh(h)
          PROVE  through - Max(turns) <= GoalFreshTurns
      <3>1. h.turn \in turns
        BY <2>1
      <3>2. through - h.turn <= GoalFreshTurns
        BY <2>1 DEF Fresh, Age
      <3>3. h.turn <= Max(turns) /\ h.turn \in Nat /\ Max(turns) \in Nat /\ through \in Nat
        BY <1>1, <1>2, <3>1 DEF PlansInv
      <3> QED BY ONLY <3>2, <3>3 DEF GoalFreshTurns
    <2>2. ASSUME through - Max(turns) <= GoalFreshTurns PROVE fresh
      <3>1. PICK h \in theirs : h.turn = Max(turns)
        BY <1>2
      <3>2. Fresh(h)
        BY <2>2, <3>1 DEF Fresh, Age
      <3> QED BY <3>1, <3>2
    <2> QED BY <2>1, <2>2
  <1> QED BY <1>3 DEF PlanInsight

(* base.py and context.py: the context is urgent exactly when a goal is    *)
(* fresh, in the mode that may see it.                                     *)
LEMMA UrgentIs ==
    PlansInv => /\ Urgent(TRUE) <=> \E g \in AttackGoals : Fresh(g)
                /\ ~Urgent(FALSE)
  <1> SUFFICES ASSUME PlansInv
               PROVE  /\ Urgent(TRUE) <=> \E g \in AttackGoals : Fresh(g)
                      /\ ~Urgent(FALSE)
    OBVIOUS
  <1> DEFINE levels == {i.severity : i \in Visible(Insights, TRUE)}
  <1>1. levels = {i.severity : i \in Insights}
    <2>1. Visible(Insights, TRUE) = Insights
      BY DEF Visible
    <2> QED BY <2>1
  <1>2. \A i \in Insights : i.severity \in {Advise, Warn, Critical}
    <2>1. \A kind, p, severity : Insight(kind, p, severity).severity = severity
      BY DEF Insight
    <2>2. \A p : PlanInsight(p).severity \in {Advise, Critical}
      BY <2>1 DEF PlanInsight
    <2>3. ASSUME NEW i \in Insights
          PROVE  \/ \E kind, p : i = Insight(kind, p, Warn)
                 \/ \E p : i = PlanInsight(p)
      BY DEF Insights
    <2> QED BY <2>1, <2>2, <2>3
  <1>3. levels \in SUBSET Nat /\ \A n \in levels : n <= Critical
    <2>1. levels \subseteq {Advise, Warn, Critical}
      BY <1>1, <1>2
    <2> HIDE DEF levels
    <2> QED BY <2>1 DEF Advise, Warn, Critical
  <1>4. ASSUME NEW g \in AttackGoals, Fresh(g) PROVE Urgent(TRUE)
    <2>1. PlanInsight(g.player) \in Insights
      BY DEF Insights
    <2>2. PlanInsight(g.player).severity = Critical
      <3>1. PlanInsight(g.player) = Insight("ordered_attack", g.player, Critical)
        BY <1>4, PlanInsightIs
      <3> QED BY <3>1 DEF Insight
    <2>3. Critical \in levels
      BY <1>1, <2>1, <2>2
    <2>4. Max(levels) = Critical
      <3> HIDE DEF levels
      <3>1. Max(levels) \in levels /\ \A n \in levels : n <= Max(levels)
        BY <1>3, <2>3, MaxIs DEF Critical
      <3>2. Max(levels) \in Nat /\ Max(levels) <= 3 /\ 3 <= Max(levels)
        BY <1>3, <2>3, <3>1 DEF Critical
      <3> QED BY ONLY <3>2 DEF Critical
    <2>5. DefenseSeverity(TRUE) = Critical
      <3>1. Visible(Insights, TRUE) # {}
        BY <2>3
      <3> QED BY <1>4, <2>4, <3>1 DEF DefenseSeverity
    <2>6. Critical # None /\ Critical >= Critical
      BY PlansAssumption DEF Critical
    <2> QED BY <2>5, <2>6 DEF Urgent
  <1>5. ASSUME Urgent(TRUE), \A g \in AttackGoals : ~Fresh(g) PROVE FALSE
    <2>1. levels # {}
      BY <1>5 DEF Urgent, DefenseSeverity
    <2>2. Max(levels) \in {Advise, Warn, Critical}
      <3>1. Max(levels) \in levels
        <4> HIDE DEF levels
        <4> QED BY <1>3, <2>1, MaxIs DEF Critical
      <3> QED BY <1>1, <1>2, <3>1
    <2>3. DefenseSeverity(TRUE) \in {Advise, Warn}
      <3>1. DefenseSeverity(TRUE) = IF Max(levels) = Critical THEN Warn ELSE Max(levels)
        <4>1. Visible(Insights, TRUE) # {}
          BY <2>1
        <4> QED BY <1>5, <4>1 DEF DefenseSeverity
      <3> QED BY <2>2, <3>1
    <2>4. ~(Advise >= Critical) /\ ~(Warn >= Critical)
      BY DEF Advise, Warn, Critical
    <2> QED BY <1>5, <2>3, <2>4 DEF Urgent
  <1>6. ~Urgent(FALSE)
    BY DEF Urgent, DefenseSeverity
  <1> QED BY <1>4, <1>5, <1>6

(* advisors/tactical.py and defense.py: a turn about which nothing was     *)
(* logged drops no objective and makes nothing more urgent, for any map,   *)
(* rivals and units and however long the AI is silent.                     *)
THEOREM SilenceIsNotSafety == FrontierSpec => SilenceOnlyAges
  <1> DEFINE Quiet == \A rows \in {targets, operations, orders} : \A r \in rows : r.turn <= through
             Aged == /\ AttackGoals' = AttackGoals
                     /\ Urgent(TRUE)' => Urgent(TRUE)
  <1>0. (PlansInv => (Urgent(TRUE) <=> \E g \in AttackGoals : Fresh(g)))'
    <2>1. PlansInv => (Urgent(TRUE) <=> \E g \in AttackGoals : Fresh(g))
      BY UrgentIs
    <2> QED BY <2>1, PTL
  <1>1. ASSUME PlansInv, PlansInv', FrontierNext, through' = through + 1, Quiet PROVE Aged
    <2>1. UNCHANGED <<targets, operations, orders>>
      <3>1. through' # through
        BY <1>1 DEF PlansInv
      <3> QED BY <1>1, <3>1 DEF FrontierNext, LogPlan, LogTarget, LogOperation, LogOrder,
                                LogSighting, LogOwnMove, CompleteTurn
    <2>2. AttackGoals' = AttackGoals
      <3>1. \A rows \in {targets, operations, orders} : \A r \in rows :
               r.turn <= through /\ r.turn <= through'
        BY <1>1 DEF PlansInv
      <3>2. /\ Known(targets)' = Known(targets)
            /\ Known(operations)' = Known(operations)
            /\ Known(orders)' = Known(orders)
        BY <2>1, <3>1 DEF Known
      <3>3. CityTiles' = CityTiles
        BY <3>2 DEF CityTiles, CityRows, Newest
      <3>4. Operating' = Operating /\ Attacking' = Attacking
        BY <3>2, <3>3 DEF Operating, Attacking, Newest
      <3> QED BY <3>2, <3>4 DEF AttackGoals, Goal
    <2>3. ASSUME NEW g \in AttackGoals, Fresh(g)' PROVE Fresh(g)
      <3>1. g.turn \in Nat /\ through \in Nat
        BY <1>1, GoalsAre DEF PlansInv
      <3>2. (through + 1) - g.turn <= GoalFreshTurns
        BY <1>1, <2>3 DEF Fresh, Age
      <3> QED BY ONLY <3>1, <3>2 DEF Fresh, Age, GoalFreshTurns
    <2>5. Urgent(TRUE)' => Urgent(TRUE)
      BY <1>0, <1>1, <2>2, <2>3, UrgentIs
    <2> QED BY <2>2, <2>5
  <1>2. PlansInv /\ PlansInv' /\ [FrontierNext]_frvars
           => [(through' = through + 1 /\ Quiet) => Aged]_frvars
    BY <1>1
  <1> QED BY <1>2, PlansHold, PTL DEF FrontierSpec, SilenceOnlyAges

-----------------------------------------------------------------------------
(* The map.                                                                *)

(* What is targeted is a plot. *)
MapInv == \A r \in targets : r.tile \in Tiles

LEMMA AbsIs ==
    ASSUME NEW n \in Int PROVE Abs(n) \in Nat /\ (Abs(n) = 0 => n = 0) /\ (n = 0 => Abs(n) = 0)
  BY DEF Abs

LEMMA BoundedMax ==
    ASSUME NEW x \in Nat, NEW y \in Nat, NEW z \in Nat
    PROVE  /\ Max({x, y, z}) \in {x, y, z}
           /\ x <= Max({x, y, z}) /\ y <= Max({x, y, z}) /\ z <= Max({x, y, z})
  <1>1. \A n \in {x, y, z} : n <= x + y + z
    OBVIOUS
  <1>2. {x, y, z} \in SUBSET Nat /\ {x, y, z} # {} /\ x + y + z \in Nat
    OBVIOUS
  <1> QED BY <1>1, <1>2, MaxIs

(* The distance is one: never negative, and none only of a plot from itself. *)
LEMMA DistanceIs ==
    ASSUME NEW a \in Tiles, NEW b \in Tiles
    PROVE  /\ HexDistance(a, b) \in Nat
           /\ HexDistance(a, a) = 0
           /\ HexDistance(a, b) = 0 => a = b
  <1> DEFINE half(p) == (p[2] - (p[2] % 2)) \div 2
  <1>1. \A p \in Tiles : p = <<p[1], p[2]>> /\ p[1] \in Int /\ p[2] \in Int /\ half(p) \in Int
    BY PlansAssumption
  <1>2. \A p \in Tiles : Axial(p)[1] = p[1] - half(p) /\ Axial(p)[2] = p[2]
    BY DEF Axial
  <1>3. \A p, q \in Tiles : p[2] = q[2] => half(p) = half(q)
    OBVIOUS
  <1> HIDE DEF half
  <1> DEFINE dq(p, q) == Axial(p)[1] - Axial(q)[1]
             dr(p, q) == Axial(p)[2] - Axial(q)[2]
  <1>4. \A p, q \in Tiles : dq(p, q) \in Int /\ dr(p, q) \in Int /\ dq(p, q) + dr(p, q) \in Int
    BY <1>1, <1>2
  <1>5. \A p, q \in Tiles :
           HexDistance(p, q) = Max({Abs(dq(p, q)), Abs(dr(p, q)), Abs(dq(p, q) + dr(p, q))})
    BY DEF HexDistance
  <1>6. dq(a, a) = 0 /\ dr(a, a) = 0
    BY <1>1, <1>2
  <1>7. dr(a, b) = 0 /\ dq(a, b) = 0 => a = b
    <2> SUFFICES ASSUME dr(a, b) = 0, dq(a, b) = 0 PROVE a = b
      OBVIOUS
    <2>1. a[2] = b[2]
      BY <1>1, <1>2
    <2>2. half(a) = half(b)
      BY <1>3, <2>1
    <2>3. a[1] - half(a) = b[1] - half(b)
      BY <1>1, <1>2
    <2>4. a[1] = b[1]
      BY <1>1, <2>2, <2>3
    <2> QED BY <1>1, <2>1, <2>4
  <1> HIDE DEF dq, dr
  <1>8. \A p, q \in Tiles :
           /\ Abs(dq(p, q)) \in Nat /\ Abs(dr(p, q)) \in Nat /\ Abs(dq(p, q) + dr(p, q)) \in Nat
    BY <1>4, AbsIs
  <1>11. \A p, q \in Tiles :
           /\ HexDistance(p, q) \in {Abs(dq(p, q)), Abs(dr(p, q)), Abs(dq(p, q) + dr(p, q))}
           /\ Abs(dq(p, q)) <= HexDistance(p, q) /\ Abs(dr(p, q)) <= HexDistance(p, q)
    <2> TAKE p, q \in Tiles
    <2>1. LET x == Abs(dq(p, q))
              y == Abs(dr(p, q))
              z == Abs(dq(p, q) + dr(p, q))
          IN  /\ Max({x, y, z}) \in {x, y, z}
              /\ x <= Max({x, y, z}) /\ y <= Max({x, y, z})
      BY ONLY <1>8, BoundedMax
    <2> QED BY ONLY <1>5, <2>1
  <1>9. HexDistance(a, a) = 0
    <2>1. dq(a, a) + dr(a, a) = 0
      BY <1>6
    <2>2. Abs(0) = 0
      BY DEF Abs
    <2> QED BY ONLY <1>6, <1>11, <2>1, <2>2, a \in Tiles
  <1>10. HexDistance(a, b) = 0 => a = b
    <2>1. /\ Abs(dq(a, b)) \in Nat /\ Abs(dr(a, b)) \in Nat
          /\ Abs(dq(a, b)) <= HexDistance(a, b) /\ Abs(dr(a, b)) <= HexDistance(a, b)
      BY ONLY <1>8, <1>11, a \in Tiles, b \in Tiles
    <2>2. HexDistance(a, b) = 0 => Abs(dq(a, b)) = 0 /\ Abs(dr(a, b)) = 0
      BY ONLY <2>1
    <2> QED BY <2>2, <1>4, <1>7, <2>1, AbsIs
  <1>12. HexDistance(a, b) \in Nat
    BY ONLY <1>8, <1>11, a \in Tiles, b \in Tiles
  <1> QED BY <1>9, <1>10, <1>12

LEMMA MinIs ==
    ASSUME NEW S \in SUBSET Nat, S # {} PROVE Min(S) \in S /\ \A n \in S : Min(S) <= n
  <1>1. \E x \in S : \A y \in S : x <= y
    BY Least
  <1> QED BY <1>1 DEF Min

(* A plot is at no distance from a set of plots exactly when it is one of them. *)
LEMMA NoDistance ==
    ASSUME NEW p \in Tiles, NEW S \in SUBSET Tiles, S # {}
    PROVE  DistanceTo(p, S) \in Nat /\ (DistanceTo(p, S) = 0 <=> p \in S)
  <1> DEFINE D == {HexDistance(p, t) : t \in S}
  <1>1. D \in SUBSET Nat /\ D # {}
    BY DistanceIs
  <1>2. Min(D) \in D /\ \A n \in D : Min(D) <= n
    <2> HIDE DEF D
    <2> QED BY <1>1, MinIs
  <1>3. DistanceTo(p, S) = Min(D)
    BY DEF DistanceTo
  <1>4. ASSUME p \in S PROVE Min(D) = 0
    <2>1. 0 \in D
      BY <1>4, DistanceIs
    <2>2. Min(D) \in Nat /\ Min(D) <= 0
      BY ONLY <1>1, <1>2, <2>1
    <2> QED BY ONLY <2>2
  <1>5. ASSUME Min(D) = 0 PROVE p \in S
    BY <1>2, <1>5, DistanceIs
  <1> QED BY <1>1, <1>2, <1>3, <1>4, <1>5

(* Steps can be taken up to any number: a first number that they cannot be *)
(* taken up to would be one step after one that they can.                  *)
StepsUpTo(tiles, k, reach) ==
    LET Grow(S) == S \cup {t \in tiles : \E s \in S : HexDistance(s, t) <= ClusterRadius}
    IN  reach = [n \in 0..k |-> IF n = 0 THEN [t \in tiles |-> {t}]
                                ELSE [t \in tiles |-> Grow(reach[n - 1][t])]]

LEMMA StepsAre ==
    ASSUME NEW tiles, NEW k \in Nat PROVE \E reach : StepsUpTo(tiles, k, reach)
  <1> DEFINE Grow(S) == S \cup {t \in tiles : \E s \in S : HexDistance(s, t) <= ClusterRadius}
             none == {j \in Nat : ~\E reach : StepsUpTo(tiles, j, reach)}
  <1>1. \A j, reach : StepsUpTo(tiles, j, reach) <=>
           reach = [n \in 0..j |-> IF n = 0 THEN [t \in tiles |-> {t}]
                                   ELSE [t \in tiles |-> Grow(reach[n - 1][t])]]
    BY DEF StepsUpTo
  <1> HIDE DEF Grow
  <1>2. SUFFICES ASSUME none # {} PROVE FALSE
    OBVIOUS
  <1>3. PICK j \in none : \A i \in none : j <= i
    <2> HIDE DEF none
    <2>1. none \in SUBSET Nat
      BY DEF none
    <2> QED BY <1>2, <2>1, Least
  <1>4. CASE j = 0
    <2> DEFINE base == [t \in tiles |-> {t}]
    <2> HIDE DEF base
    <2>1. [n \in 0..0 |-> base]
             = [n \in 0..0 |-> IF n = 0 THEN base
                               ELSE [t \in tiles |-> Grow([m \in 0..0 |-> base][n - 1][t])]]
      OBVIOUS
    <2>2. StepsUpTo(tiles, 0, [n \in 0..0 |-> base])
      BY <1>1, <2>1 DEF base
    <2> QED BY <1>3, <1>4, <2>2
  <1>5. CASE j # 0
    <2>1. j - 1 \in Nat /\ j - 1 \notin none
      BY <1>3, <1>5
    <2>2. PICK r : StepsUpTo(tiles, j - 1, r)
      BY <2>1
    <2> DEFINE base == [t \in tiles |-> {t}]
               After(f) == [t \in tiles |-> Grow(f[t])]
               q == [n \in 0..j |-> IF n = j THEN After(r[j - 1]) ELSE r[n]]
    <2>3. r = [n \in 0..(j - 1) |-> IF n = 0 THEN base ELSE After(r[n - 1])]
      BY <1>1, <2>2
    <2>4. \A f : StepsUpTo(tiles, j, f) <=>
             f = [n \in 0..j |-> IF n = 0 THEN base ELSE After(f[n - 1])]
      BY <1>1
    <2> HIDE DEF base, After
    <2>5. ASSUME NEW n \in 0..j
          PROVE  q[n] = IF n = 0 THEN base ELSE After(q[n - 1])
      <3>1. CASE n = j
        <4>1. q[n] = After(r[j - 1])
          BY <3>1
        <4>2. j - 1 \in 0..j /\ j - 1 # j /\ j \in Nat
          BY <1>5, <2>1
        <4>3. q[j - 1] = r[j - 1]
          BY <4>2
        <4> QED BY <1>5, <3>1, <4>1, <4>3
      <3>2. CASE n # j
        <4>1. n \in 0..(j - 1) /\ j \in Nat
          BY <2>1, <3>2
        <4>2. q[n] = r[n]
          BY <3>2
        <4>3. r[n] = IF n = 0 THEN base ELSE After(r[n - 1])
          BY <2>3, <4>1
        <4>4. n # 0 => n - 1 \in 0..j /\ n - 1 # j
          BY <4>1
        <4>5. n # 0 => q[n - 1] = r[n - 1]
          BY <4>4
        <4> QED BY <4>2, <4>3, <4>5
      <3> QED BY <3>1, <3>2
    <2>6. q = [n \in 0..j |-> IF n = 0 THEN base ELSE After(q[n - 1])]
      <3>1. DOMAIN q = 0..j /\ q = [n \in 0..j |-> q[n]]
        OBVIOUS
      <3> HIDE DEF q
      <3> QED BY <2>5, <3>1
    <2> HIDE DEF q
    <2> QED BY <1>3, <2>4, <2>6
  <1> QED BY <1>4, <1>5

(* Every city plot is on the frontier that is grown from it, and there are *)
(* only city plots on one.                                                 *)
LEMMA StepsReach ==
    ASSUME NEW tiles, NEW k \in Nat, NEW reach, StepsUpTo(tiles, k, reach), NEW t \in tiles
    PROVE  t \in reach[k][t] /\ reach[k][t] \subseteq tiles
  <1> DEFINE Grow(S) == S \cup {u \in tiles : \E s \in S : HexDistance(s, u) <= ClusterRadius}
             wrong == {n \in 0..k : ~(t \in reach[n][t] /\ reach[n][t] \subseteq tiles)}
  <1>1. reach = [n \in 0..k |-> IF n = 0 THEN [u \in tiles |-> {u}]
                                ELSE [u \in tiles |-> Grow(reach[n - 1][u])]]
    BY DEF StepsUpTo
  <1>2. \A S : S \subseteq Grow(S) /\ (S \subseteq tiles => Grow(S) \subseteq tiles)
    OBVIOUS
  <1> HIDE DEF Grow
  <1>3. ASSUME wrong # {} PROVE FALSE
    <2>1. PICK n \in wrong : \A m \in wrong : n <= m
      <3>1. wrong \in SUBSET Nat
        OBVIOUS
      <3> HIDE DEF wrong
      <3> QED BY <1>3, <3>1, Least
    <2>2. n \in 0..k
      OBVIOUS
    <2>3. CASE n = 0
      <3>1. reach[n] = [u \in tiles |-> {u}]
        BY <1>1, <2>2, <2>3
      <3>2. reach[n][t] = {t}
        BY <3>1
      <3> QED BY <3>2
    <2>4. CASE n # 0
      <3>1. n - 1 \in 0..k /\ n - 1 \notin wrong
        BY <2>1, <2>2, <2>4
      <3>2. reach[n] = [u \in tiles |-> Grow(reach[n - 1][u])]
        BY <1>1, <2>2, <2>4
      <3>3. reach[n][t] = Grow(reach[n - 1][t])
        BY <3>2
      <3>4. t \in reach[n - 1][t] /\ reach[n - 1][t] \subseteq tiles
        BY <3>1
      <3>5. t \in reach[n][t] /\ reach[n][t] \subseteq tiles
        BY ONLY <1>2, <3>3, <3>4
      <3> QED BY <3>5
    <2> QED BY <2>3, <2>4
  <1>4. k \in 0..k
    OBVIOUS
  <1> QED BY <1>3, <1>4

LEMMA CitiesAre == ASSUME MapInv PROVE CityTiles \subseteq Tiles /\ IsFiniteSet(CityTiles)
  <1>1. CityTiles \subseteq Tiles
    BY DEF CityTiles, CityRows, Newest, Known, MapInv
  <1> QED BY <1>1, PlansAssumption, FS_Subset

LEMMA FrontiersAre ==
    ASSUME MapInv
    PROVE  /\ \A f \in Frontiers : f \subseteq CityTiles /\ f # {}
           /\ \A t \in CityTiles : \E f \in Frontiers : t \in f
  <1> DEFINE k == Cardinality(CityTiles)
             steps == CHOOSE reach : StepsUpTo(CityTiles, k, reach)
  <1>1. k \in Nat
    BY CitiesAre, FS_CardinalityType
  <1>2. StepsUpTo(CityTiles, k, steps)
    BY <1>1, StepsAre
  <1>3. Frontiers = {steps[k][t] : t \in CityTiles}
    BY DEF Frontiers, StepsUpTo
  <1> HIDE DEF steps, k
  <1>4. \A t \in CityTiles : t \in steps[k][t] /\ steps[k][t] \subseteq CityTiles
    BY <1>1, <1>2, StepsReach
  <1> QED BY <1>3, <1>4

(* A city plot is drawn on a frontier it lies on: the nearest one. *)
LEMMA NearestIs ==
    ASSUME MapInv, NEW t \in CityTiles PROVE t \in FrontierOf(t)
  <1>1. t \in Tiles /\ CityTiles # {} /\ CityTiles \in SUBSET Tiles
    BY CitiesAre
  <1>2. DistanceTo(t, CityTiles) = 0
    BY <1>1, NoDistance
  <1>3. \A f \in Frontiers : DistanceTo(t, f) \in Nat /\ (DistanceTo(t, f) = 0 <=> t \in f)
    <2> TAKE f \in Frontiers
    <2>1. f \in SUBSET Tiles /\ f # {}
      BY <1>1, FrontiersAre
    <2> QED BY <1>1, <2>1, NoDistance
  <1>4. PICK own \in Frontiers : t \in own
    BY FrontiersAre
  <1>5. DistanceTo(t, own) = 0
    BY <1>3, <1>4
  <1>6. \A g \in Frontiers : DistanceTo(t, own) <= DistanceTo(t, g)
    <2> TAKE g \in Frontiers
    <2>1. DistanceTo(t, g) \in Nat
      BY <1>3
    <2> QED BY ONLY <1>5, <2>1
  <1>7. /\ NearestFrontier(t) \in Frontiers
        /\ \A g \in Frontiers : DistanceTo(t, NearestFrontier(t)) <= DistanceTo(t, g)
    BY <1>4, <1>6 DEF NearestFrontier
  <1>8. DistanceTo(t, NearestFrontier(t)) = 0
    <2>1. DistanceTo(t, NearestFrontier(t)) \in Nat
      BY <1>3, <1>7
    <2>2. DistanceTo(t, NearestFrontier(t)) <= DistanceTo(t, own)
      BY <1>4, <1>7
    <2> QED BY ONLY <1>5, <2>1, <2>2
  <1>9. t \in NearestFrontier(t)
    BY <1>3, <1>7, <1>8
  <1>10. DistanceTo(t, CityTiles) <= MapNearTiles
    BY ONLY <1>2 DEF MapNearTiles
  <1> QED BY <1>1, <1>9, <1>10 DEF FrontierOf

LEMMA MapKept == ASSUME MapInv, FrontierNext PROVE MapInv'
  <1>1. CASE LogTarget
    <2>1. PICK row : row.tile \in Tiles /\ targets' \subseteq targets \cup {row}
      BY <1>1 DEF LogTarget
    <2> QED BY <2>1 DEF MapInv
  <1>2. CASE UNCHANGED targets
    BY <1>2 DEF MapInv
  <1> QED BY <1>1, <1>2 DEF FrontierNext, LogPlan, LogOperation, LogOrder, LogSighting,
                            LogOwnMove, CompleteTurn

(* tactical.advise, tactical.snapshot and defense.decide: the alert, the   *)
(* card, the urgency of the context and the map are of one mind, for any   *)
(* map, rivals and units and any number of cities and plans.               *)
THEOREM PlansAgree == FrontierSpec => []FrontierAgrees
  <1>1. FrontierInit => MapInv
    BY DEF FrontierInit, MapInv
  <1>2. MapInv /\ [FrontierNext]_frvars => MapInv'
    <2>1. MapInv /\ UNCHANGED frvars => MapInv'
      BY DEF MapInv, frvars
    <2> QED BY <2>1, MapKept
  <1>3. PlansInv /\ MapInv => FrontierAgrees
    <2> SUFFICES ASSUME PlansInv, MapInv PROVE FrontierAgrees
      OBVIOUS
    <2> DEFINE alert == \E i \in Insights : i.kind = "ordered_attack"
               fresh == \E g \in AttackGoals : Fresh(g)
               card == DefenseCard({None}, TRUE, [k \in {"reinforce", "withdraw"} |-> {}])
    <2>1. alert <=> fresh
      <3>1. \A kind, p, severity : Insight(kind, p, severity).kind = kind
        BY DEF Insight
      <3>2. ASSUME NEW g \in AttackGoals, Fresh(g) PROVE alert
        <4>1. PlanInsight(g.player) = Insight("ordered_attack", g.player, Critical)
          BY <3>2, PlanInsightIs
        <4>2. PlanInsight(g.player) \in Insights
          BY DEF Insights
        <4> QED BY <3>1, <4>1, <4>2
      <3>3. ASSUME NEW i \in Insights, i.kind = "ordered_attack" PROVE fresh
        <4>1. \E g \in AttackGoals : i = PlanInsight(g.player)
          BY <3>1, <3>3 DEF Insights
        <4>2. PICK g \in AttackGoals : i = PlanInsight(g.player)
          BY <4>1
        <4>3. ASSUME ~fresh PROVE FALSE
          <5>1. i = Insight("stale_attack_goal", g.player, Advise)
            BY <4>2, <4>3, PlanInsightIs
          <5> QED BY <3>1, <3>3, <5>1
        <4> QED BY <4>3
      <3> QED BY <3>2, <3>3
    <2>2. Urgent(TRUE) <=> alert
      BY <2>1, UrgentIs
    <2>3. card # None => (card.severity = Critical <=> alert)
      <3>1. card # None => card.severity = IF fresh THEN Critical ELSE Advise
        BY DEF DefenseCard
      <3>2. Advise # Critical
        BY DEF Advise, Critical
      <3> HIDE DEF card, alert, fresh
      <3> QED BY <2>1, <3>1, <3>2
    <2>4. ASSUME NEW g \in AttackGoals PROVE g.tile \in FrontierOf(g.tile)
      <3>1. g.tile \in CityTiles
        BY DEF AttackGoals, Operating, Attacking, Goal
      <3> QED BY <3>1, NearestIs
    <2> QED BY <2>2, <2>3, <2>4 DEF FrontierAgrees
  <1> QED BY <1>1, <1>2, <1>3, PlansHold, PTL DEF FrontierSpec

-----------------------------------------------------------------------------
(* The cards.                                                              *)

(* A set of numbers that is finite has a greatest: a smallest one without  *)
(* would be one number more than a smaller one without.                    *)
LEMMA FiniteHasGreatest ==
    ASSUME NEW S \in SUBSET Nat, S # {}, IsFiniteSet(S)
    PROVE  \E n \in S : \A m \in S : m <= n
  <1> DEFINE HasNone(T) == T # {} /\ IsFiniteSet(T) /\ ~\E n \in T : \A m \in T : m <= n
             sizes == {k \in Nat : \E T \in SUBSET Nat : HasNone(T) /\ Cardinality(T) = k}
  <1>1. SUFFICES ASSUME HasNone(S) PROVE FALSE
    OBVIOUS
  <1>2. sizes \in SUBSET Nat /\ Cardinality(S) \in sizes
    BY <1>1, FS_CardinalityType
  <1>3. PICK k \in sizes : \A j \in sizes : k <= j
    <2> HIDE DEF sizes
    <2> QED BY <1>2, Least
  <1>4. PICK T \in SUBSET Nat : HasNone(T) /\ Cardinality(T) = k
    BY <1>3
  <1>5. PICK x \in T : TRUE
    BY <1>4
  <1>6. IsFiniteSet(T \ {x}) /\ Cardinality(T \ {x}) = k - 1 /\ k \in Nat
    BY <1>3, <1>4, <1>5, FS_RemoveElement
  <1>7. CASE HasNone(T \ {x})
    <2>1. Cardinality(T \ {x}) \in Nat
      BY <1>6, FS_CardinalityType
    <2>2. k - 1 \in sizes
      BY <1>6, <1>7, <2>1
    <2> QED BY <1>3, <1>6, <2>2
  <1>8. CASE ~HasNone(T \ {x})
    <2>1. CASE T = {x}
      BY <1>4, <1>5, <2>1
    <2>2. CASE T # {x}
      <3>1. PICK n \in T \ {x} : \A m \in T \ {x} : m <= n
        BY <1>5, <1>6, <1>8, <2>2
      <3>2. n \in Nat /\ x \in Nat
        BY <1>5, <3>1
      <3>3. CASE x <= n
        BY <1>4, <3>1, <3>3
      <3>4. CASE n <= x
        <4>1. \A m \in T : m <= x
          BY <3>1, <3>2, <3>4
        <4> QED BY <1>4, <1>5, <4>1
      <3> QED BY <3>2, <3>3, <3>4
    <2> QED BY <2>1, <2>2
  <1> QED BY <1>7, <1>8

LEMMA InOrder ==
    ASSUME NEW S, IsFiniteSet(S) PROVE SetToSeq(S) \in Seq(S)
  <1>1. Cardinality(S) \in Nat /\ ExistsBijection(1..Cardinality(S), S)
    BY FS_CardinalityType
  <1>2. \E f \in [1..Cardinality(S) -> S] : IsInjective(f)
    BY <1>1 DEF ExistsBijection, Bijection, Injection, IsInjective
  <1>3. SetToSeq(S) \in [1..Cardinality(S) -> S]
    BY <1>2 DEF SetToSeq
  <1> QED BY <1>1, <1>3

(* What is known of the yields and offers is of the sorts it is read as.   *)
CardsInv ==
    /\ ratio \in [Families -> Ratios \cup {None}]
    /\ offered \in [Cities -> (SUBSET Items) \cup {None}]
    /\ typed \in [Cities \X Items -> [turns : Figures \cup {None}, delta : Figures \cup {None}]]
    /\ liveOffers # None => liveOffers.turns \in [Items -> Figures]
    /\ \A c \in Settlements :
          /\ queues[c].turn \in Nat /\ queues[c].turn <= through + 1
          /\ queues[c].left # None => queues[c].left \in Nat

LEMMA CardsKept ==
    ASSUME PlansInv, CardsInv, BriefNext PROVE CardsInv'
  <1> USE CardsAssumption
  <1>1. CASE LearnQueue /\ UNCHANGED frvars
    <2>1. PICK c \in Cities, item \in Items \cup {None}, left \in Figures \cup {None},
               turn \in {through, through + 1} :
             queues' = [queues EXCEPT ![c] = [item |-> item, left |-> left, turn |-> turn]]
      BY <1>1 DEF LearnQueue
    <2>2. through' = through /\ through \in Nat
      BY <1>1 DEF frvars, PlansInv
    <2>3. ASSUME NEW d \in Settlements'
          PROVE  /\ queues'[d].turn \in Nat /\ queues'[d].turn <= through' + 1
                 /\ queues'[d].left # None => queues'[d].left \in Nat
      <3>1. CASE d = c
        <4>1. queues'[d] = [item |-> item, left |-> left, turn |-> turn] \/ queues'[d] = queues[d]
          BY <2>1, <3>1 DEF Settlements
        <4>2. d \in Settlements \/ queues'[d] = [item |-> item, left |-> left, turn |-> turn]
          BY <4>1 DEF Settlements
        <4>3. CASE d \in Settlements /\ queues'[d] = queues[d]
          BY <2>2, <4>3 DEF CardsInv
        <4>4. CASE queues'[d] = [item |-> item, left |-> left, turn |-> turn]
          <5>1. turn \in Nat /\ turn <= through' + 1 /\ (left # None => left \in Nat)
            BY <2>2
          <5> QED BY ONLY <4>4, <5>1
        <4> QED BY <4>1, <4>2, <4>3, <4>4
      <3>2. CASE d # c
        <4>1. d \in Settlements /\ queues'[d] = queues[d]
          BY <2>1, <3>2 DEF Settlements, CardsInv
        <4> QED BY <2>2, <4>1 DEF CardsInv
      <3> QED BY <3>1, <3>2
    <2> QED BY <1>1, <2>3 DEF LearnQueue, CardsInv
  <1>2. CASE UNCHANGED queues
    <2>1. Settlements' = Settlements
      BY <1>2 DEF Settlements
    <2>2. through' \in Nat /\ through <= through'
      BY DEF BriefNext, LogPlan, LogTarget, LogOperation, LogOrder, LogSighting,
                  LogOwnMove, CompleteTurn, frvars, PlansInv
    <2>3. \A c \in Settlements' :
             /\ queues'[c].turn \in Nat /\ queues'[c].turn <= through' + 1
             /\ queues'[c].left # None => queues'[c].left \in Nat
      BY <1>2, <2>1, <2>2 DEF CardsInv, PlansInv
    <2>4. CASE LearnOffers
      <3>1. liveOffers'.turns \in [Items -> Figures]
        BY <2>4 DEF LearnOffers
      <3> QED BY <2>3, <2>4, <3>1 DEF LearnOffers, CardsInv
    <2>5. CASE ReportOptions
      BY <2>3, <2>5 DEF ReportOptions, CardsInv
    <2>6. CASE ReportFigure
      <3>1. PICK i \in Items, f \in Figures :
               \/ typed' = [typed EXCEPT ![<<Target, i>>].turns = f]
               \/ typed' = [typed EXCEPT ![<<Target, i>>].delta = f]
        BY <2>6 DEF ReportFigure
      <3>2. typed' \in [Cities \X Items -> [turns : Figures \cup {None}, delta : Figures \cup {None}]]
        <4>1. CASE typed' = [typed EXCEPT ![<<Target, i>>].turns = f]
          BY <3>1, <4>1 DEF CardsInv
        <4>2. CASE typed' = [typed EXCEPT ![<<Target, i>>].delta = f]
          BY <3>1, <4>2 DEF CardsInv
        <4> QED BY <3>1, <4>1, <4>2
      <3> QED BY <2>3, <2>6, <3>2 DEF ReportFigure, CardsInv
    <2>7. CASE LearnQueue \/ LearnGold \/ ReportObjective \/ UNCHANGED dvars
      BY <2>3, <2>7 DEF LearnQueue, LearnGold, ReportObjective, dvars, CardsInv
    <2>8. CASE /\ ratio' \in [Families -> Ratios \cup {None}]
               /\ UNCHANGED <<queues, liveGold, liveOffers, offered, objective, typed>>
      BY <2>3, <2>8 DEF CardsInv
    <2> QED BY <2>4, <2>5, <2>6, <2>7, <2>8 DEF BriefNext, DecisionsNext
  <1> QED BY <1>1, <1>2 DEF BriefNext, DecisionsNext, LearnGold, LearnOffers, ReportOptions,
                            ReportObjective, ReportFigure, dvars

LEMMA BriefHolds == BriefSpec => [](PlansInv /\ CardsInv)
  <1>1. BriefInit => PlansInv /\ CardsInv
    <2>1. NoFigures \in [turns : Figures \cup {None}, delta : Figures \cup {None}]
      BY DEF NoFigures
    <2>2. ASSUME DecisionsInit PROVE CardsInv
      <3>1. typed \in [Cities \X Items -> [turns : Figures \cup {None}, delta : Figures \cup {None}]]
        <4> DEFINE R == [turns : Figures \cup {None}, delta : Figures \cup {None}]
        <4>1. typed = [p \in Cities \X Items |-> NoFigures]
          BY <2>2 DEF DecisionsInit
        <4> HIDE DEF R
        <4>2. NoFigures \in R => typed \in [Cities \X Items -> R]
          BY <4>1
        <4> QED BY <2>1, <4>2 DEF R
      <3>2. offered \in [Cities -> (SUBSET Items) \cup {None}]
        BY <2>2 DEF DecisionsInit
      <3>3. Settlements = {}
        BY <2>2 DEF DecisionsInit, Settlements
      <3> QED BY <2>2, <3>1, <3>2, <3>3 DEF DecisionsInit, CardsInv
    <2> QED BY <2>2 DEF BriefInit, FrontierInit, PlansInv
  <1>2. PlansInv /\ CardsInv /\ [BriefNext]_<<frvars, dvars>> => (PlansInv /\ CardsInv)'
    <2>1. UNCHANGED frvars /\ PlansInv => PlansInv'
      BY DEF frvars, PlansInv
    <2>2. UNCHANGED <<frvars, dvars>> /\ CardsInv => CardsInv'
      BY DEF frvars, dvars, CardsInv, Settlements
    <2>3. BriefNext => FrontierNext \/ UNCHANGED frvars
      BY DEF BriefNext, FrontierNext
    <2> QED BY <2>1, <2>2, <2>3, PlansKept, CardsKept
  <1> QED BY <1>1, <1>2, PTL DEF BriefSpec

(* No fact but those of the plans is intercepted. *)
FairCites(ids) == ids \subseteq Ledger /\ \A id \in ids : id[1] \notin {"goal", "frontier"}

LEMMA CitesJoin ==
    ASSUME NEW A, NEW B, FairCites(A), FairCites(B) PROVE FairCites(A \cup B)
  BY DEF FairCites

LEMMA CiteOne ==
    ASSUME NEW id \in Ledger, id[1] \notin {"goal", "frontier"} PROVE FairCites({id})
  BY DEF FairCites

(* What any candidate but a defensive one rests on. *)
LEMMA EvidenceIsFair ==
    ASSUME NEW c, NEW s, s # "defense" PROVE FairCites(EvidenceFor(c, s))
  <1>1. FairCites(IF s \in Families /\ ratio[s] # None THEN {ComparisonFact(s)} ELSE {})
    BY DEF FairCites, Ledger, ComparisonFact
  <1>2. FairCites(IF c \in Settlements THEN {QueueFact(c)} ELSE {})
    BY DEF FairCites, Ledger, QueueFact
  <1>3. FairCites({CoverageFact})
    BY DEF FairCites, Ledger, CoverageFact
  <1>4. FairCites(NetGold)
    <2>1. CASE paid
      <3>1. NetGold = {NetGoldFact} /\ NetGoldFact \in Ledger
        BY <2>1 DEF NetGold, Ledger
      <3>2. NetGoldFact[1] \notin {"goal", "frontier"}
        BY DEF NetGoldFact
      <3>3. FairCites({NetGoldFact})
        BY <3>1, <3>2, CiteOne
      <3> QED BY <3>1, <3>3
    <2>2. CASE ~paid /\ liveGold # None
      <3>1. NetGold = {LiveGoldFact} /\ LiveGoldFact \in Ledger
        BY <2>2 DEF NetGold, Ledger
      <3>2. LiveGoldFact[1] \notin {"goal", "frontier"}
        BY DEF LiveGoldFact
      <3>3. FairCites({LiveGoldFact})
        BY <3>1, <3>2, CiteOne
      <3> QED BY <3>1, <3>3
    <2>3. CASE ~paid /\ liveGold = None
      BY <2>3 DEF NetGold, FairCites
    <2> QED BY <2>1, <2>2, <2>3
  <1> DEFINE compared == IF s \in Families /\ ratio[s] # None THEN {ComparisonFact(s)} ELSE {}
             queued == IF c \in Settlements THEN {QueueFact(c)} ELSE {}
  <1>5. FairCites(compared \cup queued)
    BY <1>1, <1>2, CitesJoin
  <1>6. FairCites((compared \cup queued) \cup {CoverageFact})
    BY <1>3, <1>5, CitesJoin
  <1>7. FairCites(((compared \cup queued) \cup {CoverageFact}) \cup NetGold)
    BY <1>4, <1>6, CitesJoin
  <1> QED BY <1>7 DEF EvidenceFor

LEMMA PreviewIsFair ==
    ASSUME NEW c \in Cities, NEW i \in Items PROVE FairCites(Preview(c, i).cites)
  <1> DEFINE said == {Report(c, i, m) : m \in {n \in {"turns", "delta"} : typed[<<c, i>>][n] # None}}
             live == IF typed[<<c, i>>].turns = None /\ LiveTurns(c, i) # None
                     THEN {OptionFact(c, i)} ELSE {}
  <1>1. FairCites(said)
    <2>1. ASSUME NEW m \in {n \in {"turns", "delta"} : typed[<<c, i>>][n] # None}
          PROVE  Report(c, i, m) \in Reports
      <3> DEFINE given(d, j) == {Report(d, j, n) : n \in {k \in {"turns", "delta"} : typed[<<d, j>>][k] # None}}
      <3>1. Report(c, i, m) \in given(c, i)
        OBVIOUS
      <3>2. given(c, i) \in {given(d, j) : d \in Cities, j \in Items}
        <4> HIDE DEF given
        <4> QED OBVIOUS
      <3>3. Report(c, i, m) \in UNION {given(d, j) : d \in Cities, j \in Items}
        <4> HIDE DEF given
        <4> QED BY <3>1, <3>2
      <3>4. UNION {given(d, j) : d \in Cities, j \in Items} \subseteq Reports
        BY DEF Reports
      <3> HIDE DEF given
      <3> QED BY <3>3, <3>4
    <2>2. \A id \in said : id[1] = "report"
      BY DEF Report
    <2> QED BY <2>1, <2>2 DEF FairCites, Ledger
  <1>2. FairCites(live)
    <2>1. CASE live = {}
      BY <2>1 DEF FairCites
    <2>2. CASE live # {}
      <3>1. liveOffers # None /\ i \in DOMAIN liveOffers.turns /\ c = liveOffers.city
        BY <2>2 DEF LiveTurns
      <3>2. OptionFact(c, i) \in Ledger
        BY <3>1 DEF Ledger
      <3>3. live = {OptionFact(c, i)} /\ OptionFact(c, i)[1] = "build option"
        BY <2>2 DEF OptionFact
      <3> QED BY <3>2, <3>3 DEF FairCites
    <2> QED BY <2>1, <2>2
  <1>3. Preview(c, i).cites = said \cup live
    BY DEF Preview
  <1> QED BY <1>1, <1>2, <1>3, CitesJoin

(* What the player is offered for a yield, and the better of it. *)
LEMMA OptionsAre ==
    ASSUME CardsInv, NEW c \in Cities, NEW s PROVE FamilyOptions(c, s) \subseteq Items
  BY DEF FamilyOptions, CardsInv

LEMMA FiguresAre ==
    ASSUME CardsInv, NEW c \in Cities, NEW i \in Items, Usable(c, i)
    PROVE  Preview(c, i).turns \in Nat /\ Preview(c, i).delta \in Nat
  <1>1. typed[<<c, i>>].turns \in Nat \cup {None} /\ typed[<<c, i>>].delta \in Nat \cup {None}
    BY CardsAssumption DEF CardsInv
  <1>2. LiveTurns(c, i) \in Nat \cup {None}
    BY CardsAssumption DEF LiveTurns, CardsInv
  <1>3. StatedYield[i] \in Nat \cup {None}
    BY CardsAssumption
  <1> QED BY <1>1, <1>2, <1>3 DEF Usable, Preview

(* Of what can be compared, something is beaten by nothing. *)
LEMMA BestIs ==
    ASSUME CardsInv, NEW c \in Cities, NEW S \in SUBSET Items, S # {},
           \A i \in S : Usable(c, i)
    PROVE  \E i \in S : \A j \in S : ~Better(c, j, i)
  <1> DEFINE turns(i) == Preview(c, i).turns
             delta(i) == Preview(c, i).delta
  <1>1. \A i \in S : turns(i) \in Nat /\ delta(i) \in Nat
    BY FiguresAre
  <1>2. \A i, j : Better(c, i, j) <=>
           IF objective[c] = "soonest"
           THEN turns(i) < turns(j) \/ (turns(i) = turns(j) /\ delta(i) > delta(j))
           ELSE delta(i) > delta(j) \/ (delta(i) = delta(j) /\ turns(i) < turns(j))
    BY DEF Better
  <1> HIDE DEF turns, delta
  <1>3. ASSUME NEW T \in SUBSET S, T # {}
        PROVE  \E i \in T : \A j \in T : turns(i) <= turns(j)
    <2> DEFINE N == {turns(i) : i \in T}
    <2>1. N \in SUBSET Nat /\ N # {}
      BY <1>1, <1>3
    <2>2. \E n \in N : \A m \in N : n <= m
      <3> HIDE DEF N
      <3> QED BY <2>1, Least
    <2> QED BY <2>2
  <1>4. ASSUME NEW T \in SUBSET S, T # {}
        PROVE  \E i \in T : \A j \in T : delta(j) <= delta(i)
    <2> DEFINE N == {delta(i) : i \in T}
    <2>1. N \in SUBSET Nat /\ N # {}
      BY <1>1, <1>4
    <2>2. IsFiniteSet(N)
      <3>1. IsFiniteSet(T)
        BY CardsAssumption, FS_Subset
      <3>2. [i \in T |-> delta(i)] \in Surjection(T, N)
        BY DEF Surjection
      <3> QED BY <3>1, <3>2, FS_Surjection DEF ExistsSurjection
    <2>3. \E n \in N : \A m \in N : m <= n
      <3> HIDE DEF N
      <3> QED BY <2>1, <2>2, FiniteHasGreatest
    <2> QED BY <2>3
  <1>5. CASE objective[c] = "soonest"
    <2>1. PICK a \in S : \A j \in S : turns(a) <= turns(j)
      BY <1>3
    <2> DEFINE T == {i \in S : turns(i) = turns(a)}
    <2>2. PICK b \in T : \A j \in T : delta(j) <= delta(b)
      <3> HIDE DEF T
      <3> QED BY <1>4, <2>1 DEF T
    <2>3. ASSUME NEW j \in S PROVE ~Better(c, j, b)
      <3>1. turns(b) = turns(a) /\ turns(a) <= turns(j)
        BY <2>1, <2>2
      <3>2. turns(j) = turns(b) => delta(j) <= delta(b)
        BY <2>2, <3>1
      <3>3. turns(j) \in Nat /\ turns(b) \in Nat /\ delta(j) \in Nat /\ delta(b) \in Nat
        BY <1>1, <2>2
      <3>4. ~(turns(j) < turns(b)) /\ ~(turns(j) = turns(b) /\ delta(j) > delta(b))
        BY ONLY <3>1, <3>2, <3>3
      <3> QED BY <1>2, <1>5, <3>4
    <2> QED BY <2>2, <2>3
  <1>6. CASE objective[c] # "soonest"
    <2>1. PICK a \in S : \A j \in S : delta(j) <= delta(a)
      BY <1>4
    <2> DEFINE T == {i \in S : delta(i) = delta(a)}
    <2>2. PICK b \in T : \A j \in T : turns(b) <= turns(j)
      <3> HIDE DEF T
      <3> QED BY <1>3, <2>1 DEF T
    <2>3. ASSUME NEW j \in S PROVE ~Better(c, j, b)
      <3>1. delta(b) = delta(a) /\ delta(j) <= delta(a)
        BY <2>1, <2>2
      <3>2. delta(j) = delta(b) => turns(b) <= turns(j)
        BY <2>2, <3>1
      <3>3. turns(j) \in Nat /\ turns(b) \in Nat /\ delta(j) \in Nat /\ delta(b) \in Nat
        BY <1>1, <2>2
      <3>4. ~(delta(j) > delta(b)) /\ ~(delta(j) = delta(b) /\ turns(j) < turns(b))
        BY ONLY <3>1, <3>2, <3>3
      <3> QED BY <1>2, <1>6, <3>4
    <2> QED BY <2>2, <2>3
  <1> QED BY <1>5, <1>6

(* The settlement the cards are about is one whose queue is logged. *)
LEMMA TargetIs ==
    ASSUME PlansInv, CardsInv, Target # None PROVE Target \in Settlements
  <1> DEFINE idle == {c \in Settlements : queues[c].item = None}
             dated == {c \in Settlements : queues[c].left # None}
  <1>1. Settlements # {}
    BY DEF Target
  <1>2. CASE idle # {}
    <2> DEFINE T == {queues[c].turn : c \in idle}
    <2>1. T \in SUBSET Nat /\ T # {} /\ through + 1 \in Nat /\ \A n \in T : n <= through + 1
      BY <1>2 DEF CardsInv, PlansInv
    <2>2. \E n \in T : \A m \in T : m <= n
      <3> HIDE DEF T
      <3> QED BY <2>1, Greatest
    <2>3. \E c \in idle : \A d \in idle : queues[d].turn <= queues[c].turn
      BY <2>2
    <2>4. Target = CHOOSE c \in idle : \A d \in idle : queues[d].turn <= queues[c].turn
      BY <1>1, <1>2 DEF Target
    <2> QED BY <2>3, <2>4
  <1>3. CASE idle = {} /\ dated # {}
    <2> DEFINE T == {queues[c].left : c \in dated}
    <2>1. T \in SUBSET Nat /\ T # {}
      <3>1. \A c \in dated : queues[c].left \in Nat
        BY DEF CardsInv
      <3>2. PICK c \in dated : TRUE
        BY <1>3
      <3>3. queues[c].left \in T
        BY <3>2
      <3> QED BY <3>1, <3>3
    <2>2. \E n \in T : \A m \in T : n <= m
      <3> HIDE DEF T
      <3> QED BY <2>1, Least
    <2>3. \E c \in dated : \A d \in dated : queues[c].left <= queues[d].left
      BY <2>2
    <2>4. Target = CHOOSE c \in dated : \A d \in dated : queues[c].left <= queues[d].left
      BY <1>1, <1>3 DEF Target
    <2> QED BY <2>3, <2>4
  <1>4. CASE idle = {} /\ dated = {}
    <2>1. Target = CHOOSE c \in Settlements : TRUE
      BY <1>1, <1>4 DEF Target
    <2> QED BY <1>1, <2>1
  <1> QED BY <1>2, <1>3, <1>4

LEMMA WinnerIs ==
    ASSUME CardsInv, NEW c \in Cities, NEW s, Winner(c, s) # None
    PROVE  Winner(c, s) \in FamilyOptions(c, s)
  <1> DEFINE usable == {i \in FamilyOptions(c, s) : Usable(c, i)}
  <1>1. usable # {}
    <2>1. Cardinality({}) = 0
      BY FS_EmptySet
    <2>2. ~(Cardinality(usable) < 2)
      BY DEF Winner
    <2> HIDE DEF usable
    <2> QED BY <2>1, <2>2
  <1>2. \E i \in usable : \A j \in usable : ~Better(c, j, i)
    <2>1. usable \in SUBSET Items /\ \A i \in usable : Usable(c, i)
      BY OptionsAre
    <2> HIDE DEF usable
    <2> QED BY <1>1, <2>1, BestIs
  <1>3. Winner(c, s) = CHOOSE i \in usable : \A j \in usable : ~Better(c, j, i)
    BY DEF Winner
  <1> QED BY <1>2, <1>3

(* Candidates. *)
FairSeq(ranked) == \E S : ranked \in Seq(S) /\ \A k \in S : FairCites(k.cites)

LEMMA SetInOrder ==
    ASSUME NEW S, IsFiniteSet(S), \A k \in S : FairCites(k.cites)
    PROVE  FairSeq(SetToSeq(S))
  BY InOrder DEF FairSeq

LEMMA JoinedInOrder ==
    ASSUME NEW r, NEW q, FairSeq(r), FairSeq(q) PROVE FairSeq(r \o q)
  <1>1. PICK S : r \in Seq(S) /\ \A k \in S : FairCites(k.cites)
    BY DEF FairSeq
  <1>2. PICK T : q \in Seq(T) /\ \A k \in T : FairCites(k.cites)
    BY DEF FairSeq
  <1>3. r \in Seq(S \cup T) /\ q \in Seq(S \cup T)
    BY <1>1, <1>2
  <1>4. r \o q \in Seq(S \cup T)
    BY <1>3
  <1> QED BY <1>1, <1>2, <1>4 DEF FairSeq

LEMMA BuildsAre ==
    ASSUME NEW c \in Cities, NEW s, s # "defense", NEW items \in SUBSET Items
    PROVE  FairSeq(SetToSeq(NamedBuilds(c, s, items)))
  <1> DEFINE cites(i) == EvidenceFor(c, s) \cup Preview(c, i).cites
                             \cup (IF StatedYield[i] # None THEN {RulesetFact(i)} ELSE {})
             built(i) == Candidate("build", i, cites(i))
  <1>1. ASSUME NEW i \in Items PROVE FairCites(cites(i))
    <2>1. FairCites(IF StatedYield[i] # None THEN {RulesetFact(i)} ELSE {})
      BY DEF FairCites, Ledger, RulesetFact
    <2>2. FairCites(EvidenceFor(c, s) \cup Preview(c, i).cites)
      BY EvidenceIsFair, PreviewIsFair, CitesJoin
    <2> QED BY <2>1, <2>2, CitesJoin
  <1>2. NamedBuilds(c, s, items) = {built(i) : i \in items \cap ItemGuides}
    BY DEF NamedBuilds
  <1>3. ASSUME NEW i \in Items PROVE FairCites(built(i).cites)
    BY <1>1 DEF Candidate
  <1> HIDE DEF built
  <1>4. IsFiniteSet({built(i) : i \in items \cap ItemGuides})
    <2> DEFINE I == items \cap ItemGuides
    <2>1. IsFiniteSet(I)
      BY CardsAssumption, FS_Subset
    <2>2. [i \in I |-> built(i)] \in Surjection(I, {built(i) : i \in I})
      BY DEF Surjection
    <2> QED BY <2>1, <2>2, FS_Surjection DEF ExistsSurjection
  <1> QED BY <1>2, <1>3, <1>4, SetInOrder

LEMMA GuidedAre ==
    ASSUME NEW kind, NEW c, NEW s, s # "defense"
    PROVE  FairSeq(SetToSeq(GuidedBy(kind, c, s)))
  <1>1. FairCites(Candidate(kind, None, EvidenceFor(c, s)).cites)
    BY EvidenceIsFair DEF Candidate
  <1>2. IsFiniteSet(GuidedBy(kind, c, s))
    BY FS_Singleton, FS_EmptySet DEF GuidedBy
  <1>3. \A k \in GuidedBy(kind, c, s) : FairCites(k.cites)
    BY <1>1 DEF GuidedBy
  <1> QED BY <1>2, <1>3, SetInOrder

LEMMA SpecialistIs ==
    ASSUME NEW c PROVE FairSeq(SetToSeq(Specialist(c)))
  <1>1. FairCites(Candidate("specialist", None, EvidenceFor(c, "specialists")).cites)
    BY EvidenceIsFair DEF Candidate
  <1>2. IsFiniteSet(Specialist(c))
    BY FS_Singleton, FS_EmptySet DEF Specialist
  <1>3. \A k \in Specialist(c) : FairCites(k.cites)
    BY <1>1 DEF Specialist
  <1> QED BY <1>2, <1>3, SetInOrder

(* Nothing that is proposed for a yield rests on an intercept. *)
LEMMA RankedIs ==
    ASSUME CardsInv, NEW c \in Cities, NEW s, s # "defense"
    PROVE  FairSeq(Ranked(c, s))
  <1> DEFINE options == FamilyOptions(c, s)
             winner == Winner(c, s)
             Ordered(S) == SetToSeq(S)
             first == IF winner # None
                      THEN SetToSeq(NamedBuilds(c, s, {winner}))
                               \o SetToSeq(NamedBuilds(c, s, options \ {winner}))
                      ELSE IF options # {}
                      THEN SetToSeq(NamedBuilds(c, s, options)) \o SetToSeq(GuidedBy("inspect", c, s))
                      ELSE IF offered[c] = {} THEN SetToSeq(GuidedBy("requirement", c, s))
                      ELSE SetToSeq(GuidedBy("inspect", c, s))
  <1>1. Ranked(c, s) = first \o SetToSeq(Specialist(c))
    BY DEF Ranked
  <1>2. options \in SUBSET Items
    BY OptionsAre
  <1>3. winner # None => winner \in Items
    BY <1>2, WinnerIs
  <1>4. FairSeq(first)
    <2>1. CASE winner # None
      <3>1. /\ FairSeq(SetToSeq(NamedBuilds(c, s, {winner})))
            /\ FairSeq(SetToSeq(NamedBuilds(c, s, options \ {winner})))
        <4>1. {winner} \in SUBSET Items /\ options \ {winner} \in SUBSET Items
          BY <1>2, <1>3, <2>1
        <4> HIDE DEF options, winner
        <4> QED BY <4>1, BuildsAre
      <3> QED BY <2>1, <3>1, JoinedInOrder
    <2>2. CASE winner = None /\ options # {}
      <3>1. FairSeq(SetToSeq(NamedBuilds(c, s, options)))
        BY <1>2, BuildsAre
      <3> QED BY <2>2, <3>1, GuidedAre, JoinedInOrder
    <2>3. CASE winner = None /\ options = {}
      BY <2>3, GuidedAre
    <2> QED BY <2>1, <2>2, <2>3
  <1> HIDE DEF first
  <1> QED BY <1>1, <1>4, SpecialistIs, JoinedInOrder

(* What a card of one yield says. *)
LEMMA RangeIsFair ==
    ASSUME NEW r, FairSeq(r) PROVE FairCites(UNION {k.cites : k \in Range(r)})
  <1>1. PICK S : r \in Seq(S) /\ \A k \in S : FairCites(k.cites)
    BY DEF FairSeq
  <1>2. Range(r) \subseteq S
    BY <1>1 DEF Range
  <1> QED BY <1>1, <1>2 DEF FairCites

LEMMA CardOf ==
    ASSUME PlansInv, CardsInv, NEW s \in Families, NEW oracle, Decide(s, oracle) # None
    PROVE  /\ ratio[s] \in Nat
           /\ \E target, severity, ranked, cites :
                 /\ Decide(s, oracle) = Card(s, target, severity, ranked, cites)
                 /\ FairCites(cites)
                 /\ \/ target = "unobserved" /\ severity = Info
                    \/ severity = Severity(s, oracle)
  <1>1. ratio[s] # None /\ ratio[s] \in Nat
    BY CardsAssumption DEF Decide, CardsInv
  <1>2. CASE Target = None
    <2>1. Decide(s, oracle) = Card(s, "unobserved", Info, <<>>, {ComparisonFact(s), CoverageFact})
      BY <1>1, <1>2 DEF Decide
    <2>2. FairCites({ComparisonFact(s), CoverageFact})
      <3>1. ComparisonFact(s) \in Ledger /\ CoverageFact \in Ledger
        BY <1>1 DEF Ledger
      <3>2. ComparisonFact(s)[1] = "comparison" /\ CoverageFact[1] = "coverage"
        BY DEF ComparisonFact, CoverageFact
      <3> QED BY <3>1, <3>2 DEF FairCites
    <2> QED BY <1>1, <2>1, <2>2
  <1>3. CASE Target # None
    <2>1. Decide(s, oracle) = Card(s, Target, Severity(s, oracle), Ranked(Target, s),
                                   UNION {k.cites : k \in Range(Ranked(Target, s))})
      BY <1>1, <1>3 DEF Decide, CardOn
    <2>2. Target \in Cities
      BY <1>3, TargetIs DEF Settlements
    <2>3. FairCites(UNION {k.cites : k \in Range(Ranked(Target, s))})
      <3>1. s # "defense"
        BY CardsAssumption
      <3> QED BY <2>2, <3>1, RankedIs, RangeIsFair
    <2> QED BY <1>1, <2>1, <2>3
  <1> QED BY <1>2, <1>3

LEMMA CardSays ==
    ASSUME PlansInv, CardsInv, NEW s \in Families, NEW oracle, Decide(s, oracle) # None
    PROVE  /\ Decide(s, oracle).family = s
           /\ FairCites(Decide(s, oracle).cites)
           /\ Decide(s, oracle).alsoBehind = {}
           /\ \/ Decide(s, oracle).target = "unobserved" /\ Decide(s, oracle).severity = Info
              \/ Decide(s, oracle).severity = Severity(s, oracle)
  BY CardOf DEF Card

(* Naming the other gaps leaves the rest of a card as it is. *)
LEMMA FoldedSays ==
    ASSUME PlansInv, CardsInv, NEW s \in Families, NEW oracle, Decide(s, oracle) # None,
           NEW others
    PROVE  LET folded == [Decide(s, oracle) EXCEPT !.alsoBehind = others]
           IN  /\ folded.family = s /\ folded.alsoBehind = others
               /\ folded.cites = Decide(s, oracle).cites
               /\ folded.target = Decide(s, oracle).target
               /\ folded.severity = Decide(s, oracle).severity
  BY CardOf DEF Card

(* The gaps that nothing addresses, and what is made of them. *)
OpenGaps(oracle) ==
    {s \in Families : Decide(s, oracle) # None /\ Behind(s) /\ ~Queued(s)}

LEMMA GroupIs ==
    ASSUME PlansInv, CardsInv, NEW oracle
    PROVE  YieldCards(oracle) =
              {Decide(s, oracle) : s \in {t \in Families \ OpenGaps(oracle) : Decide(t, oracle) # None}}
                  \cup (IF OpenGaps(oracle) = {} THEN {} ELSE {Fold(OpenGaps(oracle), oracle)})
  <1> DEFINE cards == {Decide(s, oracle) : s \in Families} \ {None}
             group == {c.family : c \in {d \in cards : Behind(d.family) /\ ~Queued(d.family)}}
  <1>1. \A s \in Families : Decide(s, oracle) # None => Decide(s, oracle).family = s
    BY CardSays
  <1>2. group = OpenGaps(oracle)
    <2>1. ASSUME NEW c \in cards, Behind(c.family), ~Queued(c.family)
          PROVE  c.family \in OpenGaps(oracle)
      <3>1. PICK s \in Families : c = Decide(s, oracle) /\ c # None
        OBVIOUS
      <3>2. c.family = s
        BY <1>1, <3>1
      <3> QED BY <2>1, <3>1, <3>2 DEF OpenGaps
    <2>2. ASSUME NEW s \in OpenGaps(oracle) PROVE s \in group
      <3>1. s \in Families /\ Decide(s, oracle) # None /\ Behind(s) /\ ~Queued(s)
        BY DEF OpenGaps
      <3>2. Decide(s, oracle) \in cards /\ Decide(s, oracle).family = s
        BY <1>1, <3>1
      <3> HIDE DEF cards
      <3> QED BY <3>1, <3>2
    <2> QED BY <2>1, <2>2
  <1>3. {c \in cards : c.family \notin group}
           = {Decide(s, oracle) : s \in {t \in Families \ OpenGaps(oracle) : Decide(t, oracle) # None}}
    <2> HIDE DEF group
    <2> QED BY <1>1, <1>2
  <1>4. YieldCards(oracle) = {c \in cards : c.family \notin group}
                                 \cup (IF group = {} THEN {} ELSE {Fold(group, oracle)})
    BY DEF YieldCards
  <1> HIDE DEF cards, group
  <1> QED BY <1>2, <1>3, <1>4

(* The worst of them is one of them. *)
LEMMA WorstIs ==
    ASSUME PlansInv, CardsInv, NEW oracle, OpenGaps(oracle) # {}
    PROVE  \E worst \in OpenGaps(oracle) :
              /\ \A t \in OpenGaps(oracle) : ratio[worst] <= ratio[t]
              /\ Fold(OpenGaps(oracle), oracle)
                    = [Decide(worst, oracle) EXCEPT !.alsoBehind = OpenGaps(oracle) \ {worst}]
  <1> DEFINE group == OpenGaps(oracle)
             N == {ratio[s] : s \in group}
  <1>1. \A s \in group : ratio[s] \in Nat
    BY CardOf DEF OpenGaps
  <1>2. \E s \in group : \A t \in group : ratio[s] <= ratio[t]
    <2>1. N \in SUBSET Nat /\ N # {}
      BY <1>1
    <2>2. \E n \in N : \A m \in N : n <= m
      <3> HIDE DEF N
      <3> QED BY <2>1, Least
    <2> QED BY <2>2
  <1> HIDE DEF group
  <1> QED BY <1>2 DEF Fold, group

LEMMA YieldCardIs ==
    ASSUME PlansInv, CardsInv, NEW oracle, NEW c \in YieldCards(oracle)
    PROVE  \E s \in Families :
              /\ Decide(s, oracle) # None /\ c.family = s
              /\ c.cites = Decide(s, oracle).cites /\ c.target = Decide(s, oracle).target
              /\ c.severity = Decide(s, oracle).severity
  <1>1. CASE \E s \in Families : Decide(s, oracle) # None /\ c = Decide(s, oracle)
    BY <1>1, CardSays
  <1>2. CASE OpenGaps(oracle) # {} /\ c = Fold(OpenGaps(oracle), oracle)
    <2>1. PICK worst \in OpenGaps(oracle) :
             c = [Decide(worst, oracle) EXCEPT !.alsoBehind = OpenGaps(oracle) \ {worst}]
      BY <1>2, WorstIs
    <2>2. worst \in Families /\ Decide(worst, oracle) # None
      BY DEF OpenGaps
    <2> QED BY <2>1, <2>2, FoldedSays
  <1> QED BY <1>1, <1>2, GroupIs

(* What a defensive candidate rests on is in the ledger with the plans. *)
LEMMA DefenceEvidenceIs ==
    ASSUME NEW c PROVE EvidenceFor(c, "defense") \subseteq Ledger
  <1>1. "defense" \notin Families
    BY CardsAssumption
  <1>2. (IF c \in Settlements THEN {QueueFact(c)} ELSE {}) \subseteq Ledger
    BY DEF Ledger
  <1>3. {CoverageFact} \subseteq Ledger
    BY DEF Ledger
  <1>4. DefenceFacts \subseteq Ledger
    BY DEF Ledger
  <1>5. EvidenceFor(c, "defense")
           = (IF c \in Settlements THEN {QueueFact(c)} ELSE {}) \cup {CoverageFact} \cup DefenceFacts
    BY <1>1 DEF EvidenceFor
  <1> HIDE DEF QueueFact, CoverageFact, DefenceFacts, Ledger, EvidenceFor
  <1> QED BY <1>2, <1>3, <1>4, <1>5

(* Objectives that share an id are one: those planned are all of one turn, *)
(* those ordered too, and what is planned is not also named as ordered.    *)
LEMMA GoalsApart ==
    ASSUME NEW g \in AttackGoals, NEW h \in AttackGoals, GoalFact(g) = GoalFact(h)
    PROVE  g = h
  <1> DEFINE Ordered == {a \in Attacking :
                            \A o \in Operating : <<o.player, o.tile>> # <<a.player, a.tile>>}
  <1>1. g.player = h.player /\ g.tile = h.tile /\ g.turn = h.turn
    BY DEF GoalFact
  <1>2. AttackGoals \subseteq {Goal(r, "planned") : r \in Operating}
                                 \cup {Goal(r, "ordered") : r \in Ordered}
    BY DEF AttackGoals
  <1>3. \A r, k : /\ Goal(r, k).player = r.player /\ Goal(r, k).tile = r.tile
                  /\ Goal(r, k).turn = r.turn /\ Goal(r, k).kind = k
    BY DEF Goal
  <1>4. \A x \in AttackGoals :
           \/ \E r \in Operating : x = Goal(r, "planned")
           \/ \E r \in Ordered : x = Goal(r, "ordered")
    <2> HIDE DEF Ordered
    <2> QED BY <1>2
  <1>5. CASE g.kind = h.kind
    <2>1. PICK r, k : g = Goal(r, k)
      BY <1>4
    <2>2. PICK q, l : h = Goal(q, l)
      BY <1>4
    <2> QED BY <1>1, <1>3, <1>5, <2>1, <2>2 DEF Goal
  <1>6. CASE g.kind # h.kind
    <2>1. ASSUME NEW r \in Operating, NEW q \in Ordered, r.player = q.player, r.tile = q.tile
          PROVE  FALSE
      BY <2>1
    <2>2. CASE \E r \in Operating : g = Goal(r, "planned")
      <3>1. \E q \in Ordered : h = Goal(q, "ordered")
        BY <1>3, <1>4, <1>6, <2>2
      <3> HIDE DEF Ordered
      <3> QED BY <1>1, <1>3, <2>1, <2>2, <3>1
    <2>3. CASE \E r \in Ordered : g = Goal(r, "ordered")
      <3>1. \E q \in Operating : h = Goal(q, "planned")
        BY <1>3, <1>4, <1>6, <2>3
      <3> HIDE DEF Ordered
      <3> QED BY <1>1, <1>3, <2>1, <2>3, <3>1
    <2> QED BY <1>4, <2>2, <2>3
  <1> QED BY <1>5, <1>6

(* decisions/evidence.py: every id a card cites is in the ledger, those a  *)
(* defence card takes from the settlement and the units among them, no     *)
(* two objectives share an id, and no card of the fair mode rests on an    *)
(* intercept, whatever was learnt of the cities and in whatever order.     *)
THEOREM CitedIsInLedger == BriefSpec => []CitationsResolve
  <1>1. PlansInv /\ CardsInv => CitationsResolve
    <2>1. ASSUME PlansInv, CardsInv, NEW oracle \in BOOLEAN, NEW c \in Brief(oracle)
          PROVE  /\ c.cites \subseteq Ledger
                 /\ ~oracle => \A id \in c.cites : id[1] \notin {"goal", "frontier"}
      <3>1. CASE c \in YieldCards(oracle)
        <4>1. PICK s \in Families : Decide(s, oracle) # None /\ c.cites = Decide(s, oracle).cites
          BY <2>1, <3>1, YieldCardIs
        <4> QED BY <2>1, <4>1, CardSays DEF FairCites
      <3>2. CASE c = DefenseCard(Settlements, oracle, DefenceEvidence) /\ c # None
        <4> DEFINE built == DefenseCandidates(Settlements, oracle)
                   rest == UNION {DefenceEvidence[k] : k \in built}
                   plans == {GoalFact(g) : g \in AttackGoals}
        <4>1. oracle /\ c.cites = plans \cup rest
          BY <3>2 DEF DefenseCard
        <4>2. \A k \in {"reinforce", "withdraw"} : DefenceEvidence[k] \subseteq Ledger
          BY DefenceEvidenceIs DEF DefenceEvidence
        <4>3. built \subseteq {"reinforce", "withdraw"}
          BY DEF DefenseCandidates
        <4>4. plans \subseteq Ledger
          BY DEF Ledger, DefenceFacts
        <4>5. rest \subseteq Ledger
          <5> HIDE DEF built
          <5> QED BY <4>2, <4>3
        <4> HIDE DEF rest, plans
        <4> QED BY <4>1, <4>4, <4>5
      <3> QED BY <2>1, <3>1, <3>2 DEF Brief
    <2> QED BY <2>1, GoalsApart DEF CitationsResolve
  <1> QED BY <1>1, BriefHolds, PTL

(* yields.py and defense.py: while an objective is fresh every yield steps *)
(* back in the mode that may see it, and otherwise no gap that nothing     *)
(* addresses loses its urgency, for any yields, cities and plans.          *)
THEOREM YieldsStepBack == BriefSpec => []DefenceLeads
  <1>1. PlansInv /\ CardsInv => DefenceLeads
    <2> SUFFICES ASSUME PlansInv, CardsInv, NEW oracle \in BOOLEAN, NEW c \in YieldCards(oracle)
                 PROVE  IF oracle /\ \E g \in AttackGoals : Fresh(g) THEN c.severity = Info
                        ELSE (c.target # "unobserved" /\ Behind(c.family) /\ ~Queued(c.family))
                                => c.severity = Advise
      BY DEF DefenceLeads
    <2>1. PICK s \in Families : /\ Decide(s, oracle) # None /\ c.family = s
                                /\ c.target = Decide(s, oracle).target
                                /\ c.severity = Decide(s, oracle).severity
      BY YieldCardIs
    <2>2. \/ c.target = "unobserved" /\ c.severity = Info
          \/ c.severity = Severity(s, oracle)
      BY <2>1, CardSays
    <2>3. Urgent(oracle) <=> oracle /\ \E g \in AttackGoals : Fresh(g)
      <3>1. CASE oracle = TRUE
        BY <3>1, UrgentIs
      <3>2. CASE oracle = FALSE
        BY <3>2, UrgentIs
      <3> QED BY <3>1, <3>2
    <2>4. CASE Urgent(oracle)
      BY <2>2, <2>3, <2>4 DEF Severity
    <2>5. CASE ~Urgent(oracle)
      BY <2>1, <2>2, <2>3, <2>5 DEF Severity
    <2> QED BY <2>4, <2>5
  <1> QED BY <1>1, BriefHolds, PTL

(* yields.decide_all: each gap with something to say about it is in one    *)
(* card, and the card it shares is led by one at least as far behind, for  *)
(* any number of yields.                                                   *)
THEOREM GapsAreFolded == BriefSpec => []EachGapOnce
  <1>1. PlansInv /\ CardsInv => EachGapOnce
    <2> SUFFICES ASSUME PlansInv, CardsInv, NEW oracle \in BOOLEAN, NEW s \in Families,
                        Behind(s), Decide(s, oracle) # None
                 PROVE  LET about == {c \in YieldCards(oracle) : s = c.family \/ s \in c.alsoBehind}
                        IN  Cardinality(about) = 1 /\ \A c \in about : ratio[c.family] <= ratio[s]
      BY DEF EachGapOnce
    <2> DEFINE about == {c \in YieldCards(oracle) : s = c.family \/ s \in c.alsoBehind}
               group == OpenGaps(oracle)
    <2>1. ratio[s] \in Nat
      BY CardOf
    <2>2. ASSUME NEW t \in Families \ group, Decide(t, oracle) # None
          PROVE  /\ Decide(t, oracle) \in YieldCards(oracle)
                 /\ Decide(t, oracle).family = t /\ Decide(t, oracle).alsoBehind = {}
      BY <2>2, GroupIs, CardSays
    <2>3. \A c \in YieldCards(oracle) :
             \/ \E t \in Families \ group : Decide(t, oracle) # None /\ c = Decide(t, oracle)
             \/ group # {} /\ c = Fold(group, oracle)
      BY GroupIs
    <2>4. ASSUME group # {}
          PROVE  \E worst \in group :
                    /\ \A t \in group : ratio[worst] <= ratio[t]
                    /\ Fold(group, oracle).family = worst
                    /\ Fold(group, oracle).alsoBehind = group \ {worst}
      <3>1. PICK worst \in group :
               /\ \A t \in group : ratio[worst] <= ratio[t]
               /\ Fold(group, oracle) = [Decide(worst, oracle) EXCEPT !.alsoBehind = group \ {worst}]
        BY <2>4, WorstIs
      <3>2. worst \in Families /\ Decide(worst, oracle) # None
        BY DEF OpenGaps
      <3> QED BY <3>1, <3>2, FoldedSays
    <2>5. CASE s \notin group
      <3>1. about = {Decide(s, oracle)}
        <4>1. Decide(s, oracle) \in about
          BY <2>2, <2>5
        <4>2. ASSUME NEW c \in about PROVE c = Decide(s, oracle)
          <5>1. CASE \E t \in Families \ group : Decide(t, oracle) # None /\ c = Decide(t, oracle)
            BY <2>2, <5>1
          <5>2. CASE group # {} /\ c = Fold(group, oracle)
            BY <2>4, <2>5, <5>2
          <5> QED BY <2>3, <5>1, <5>2
        <4> HIDE DEF about
        <4> QED BY <4>1, <4>2
      <3>2. Decide(s, oracle).family = s
        BY CardSays
      <3>3. ratio[s] <= ratio[s]
        BY <2>1
      <3>4. Cardinality(about) = 1
        BY ONLY <3>1, FS_Singleton
      <3>5. \A c \in about : c.family = s
        BY ONLY <3>1, <3>2
      <3>6. \A c \in about : ratio[c.family] <= ratio[s]
        BY ONLY <3>3, <3>5
      <3> QED BY <3>4, <3>6
    <2>6. CASE s \in group
      <3>1. Fold(group, oracle) \in YieldCards(oracle)
        BY <2>6, GroupIs
      <3>2. PICK worst \in group :
               /\ \A t \in group : ratio[worst] <= ratio[t]
               /\ Fold(group, oracle).family = worst
               /\ Fold(group, oracle).alsoBehind = group \ {worst}
        BY <2>4, <2>6
      <3>3. about = {Fold(group, oracle)}
        <4>1. Fold(group, oracle) \in about
          BY <2>6, <3>1, <3>2
        <4>2. ASSUME NEW c \in about PROVE c = Fold(group, oracle)
          BY <2>2, <2>3, <2>6
        <4> HIDE DEF about
        <4> QED BY <4>1, <4>2
      <3>4. Cardinality(about) = 1
        BY ONLY <3>3, FS_Singleton
      <3>5. \A c \in about : c.family = worst
        BY ONLY <3>2, <3>3
      <3>6. ratio[worst] <= ratio[s]
        BY <2>6, <3>2
      <3>7. \A c \in about : ratio[c.family] <= ratio[s]
        BY ONLY <3>5, <3>6
      <3> QED BY <3>4, <3>7
    <2> QED BY <2>5, <2>6
  <1> QED BY <1>1, BriefHolds, PTL
=============================================================================
