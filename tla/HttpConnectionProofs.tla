------------------------- MODULE HttpConnectionProofs -------------------------
(***************************************************************************)
(* Proofs about HttpConnection with ThreadPool, for every number of        *)
(* connections and workers and every bound: each handler gets its own      *)
(* request, answers come whole and in turn, no task is stranded, and where *)
(* nothing is under way nobody is owed an answer.                          *)
(*                                                                         *)
(* The bytes of a connection that are read but not parsed or still under   *)
(* way (In) are linked pieces that end with all that was asked, and the    *)
(* parser stands before the piece it waits for.  parseRequest goes through *)
(* them piece by piece, which is an induction over the piece's number, done *)
(* through the set of the numbers that have the property (UpTo).           *)
(***************************************************************************)
EXTENDS HttpConnection, SequenceTheorems, FiniteSetTheorems,
        WellFoundedInduction, TLAPS

-----------------------------------------------------------------------------
(* Induction up to n, over the set T of the numbers that have the property. *)
LEMMA LeastNat ==
  ASSUME NEW T \in SUBSET Nat, T # {}
  PROVE  \E x \in T : \A y \in T : x <= y
<1> DEFINE R == OpToRel(<, Nat)
<1>1. IsWellFoundedOn(R, Nat)
  BY NatLessThanWellFounded
<1>2. \A x, y \in Nat : x < y => <<x, y>> \in R
  BY DEF OpToRel
<1> HIDE DEF R
<1>3. PICK x \in T : \A y \in T : ~(<<y, x>> \in R)
  BY <1>1, WFMin
<1>4. ASSUME NEW y \in T PROVE x <= y
  <2>1. x \in Nat /\ y \in Nat
    OBVIOUS
  <2>2. ~(y < x)
    BY <2>1, <1>2, <1>3, Zenon
  <2> QED
    BY <2>1, <2>2
<1> QED
  BY <1>4

(* If 0 has the property, and each number up to n has it after its         *)
(* predecessor, all have it.                                               *)
LEMMA UpTo ==
  ASSUME NEW n \in Nat, NEW T, 0 \in T, \A i \in 1..n : i - 1 \in T => i \in T
  PROVE  \A i \in 0..n : i \in T
<1> DEFINE U == (0..n) \ T
<1>1. SUFFICES ASSUME U # {} PROVE FALSE
  OBVIOUS
<1>2. U \in SUBSET Nat
  OBVIOUS
<1>3. PICK x \in U : \A y \in U : x <= y
  BY <1>1, <1>2, LeastNat
<1>4. x \in 1..n /\ x - 1 \notin U
  BY <1>3
<1>5. x - 1 \in T
  BY <1>4
<1> QED
  BY <1>4, <1>5

-----------------------------------------------------------------------------
(* What the variables hold.                                                *)
Kinds    == Good \cup Malformed
PartName == {"line", "half_line", "header", "garbage", "blank", "body"}
Piece    == PartName \X Nat
Req      == [line : Nat, header : Nat, body : Nat]
Frame    == [req  : Nat,
             part : {"full", "headers", "chunk", "end", "error", "refused"}]
Task     == Conn \X Nat

HttpTypes ==
  /\ asked \in [Conn -> Seq(Kinds)]
  /\ transit \in [Conn -> Seq(Piece)] /\ buf \in [Conn -> Seq(Piece)]
  /\ context \in [Conn -> [state : {"line", "headers", "body", "aborted"}, request : Req]]
  /\ link \in [Conn -> {"open", "shut", "gone"}]
  /\ pending \in [Conn -> Seq(Frame)] /\ wire \in [Conn -> Seq(Frame)]
  /\ seen \in [Conn -> Seq(Req)]
  /\ sentChunks \in [Worker -> Nat]

PoolTypes ==
  /\ tasks \in Seq(Task) /\ owed \in Nat
  /\ worker \in [Worker -> {"look", "asleep", "busy"}]
  /\ running \in [Worker -> Task \cup {Nothing}]
  /\ \A w \in Worker : worker[w] = "busy" => running[w] \in Task

-----------------------------------------------------------------------------
(* The pieces of a request, one after the other.                           *)
FirstPart(kind) ==
  CASE kind = "bad_line"    -> "garbage"
    [] kind = "bad_version" -> "half_line"
    [] OTHER                -> "line"

(* A body of some length is announced. *)
WithHeader == {"form", "chat", "empty", "bad_length", "negative_length"}

NextPart(kind, part) ==
  CASE part = "line" /\ kind \in {"get", "no_length"} -> "blank"
    [] part = "line" /\ kind = "bad_header" -> "garbage"
    [] part = "line" /\ kind \in WithHeader -> "header"
    [] part \in {"header", "garbage", "half_line"} -> "blank"
    [] part = "blank" /\ kind \in {"form", "chat"} -> "body"
    [] OTHER -> "none"

InOrder(kind, p) ==
  /\ p \in Seq(PartName) /\ Len(p) \in 2..4 /\ p[1] = FirstPart(kind)
  /\ \A i \in 1..Len(p) :
       NextPart(kind, p[i]) = IF i = Len(p) THEN "none" ELSE p[i + 1]

(* Two parts that follow one another, and nothing after them, are in order. *)
LEMMA TwoParts ==
  ASSUME NEW kind, NEW a \in PartName, NEW b \in PartName,
         a = FirstPart(kind), NextPart(kind, a) = b, NextPart(kind, b) = "none"
  PROVE  InOrder(kind, <<a, b>>)
<1>1. PICK p : p = <<a, b>>
  OBVIOUS
<1>2. p \in Seq(PartName) /\ Len(p) = 2 /\ p[1] = a /\ p[2] = b
  BY <1>1
<1>3. \A i \in 1..2 : i = 1 \/ i = 2
  OBVIOUS
<1> QED
  BY <1>1, <1>2, <1>3 DEF InOrder

(* The same of three parts. *)
LEMMA ThreeParts ==
  ASSUME NEW kind, NEW a \in PartName, NEW b \in PartName, NEW d \in PartName,
         a = FirstPart(kind), NextPart(kind, a) = b, NextPart(kind, b) = d,
         NextPart(kind, d) = "none"
  PROVE  InOrder(kind, <<a, b, d>>)
<1>1. PICK p : p = <<a, b, d>>
  OBVIOUS
<1>2. p \in Seq(PartName) /\ Len(p) = 3 /\ p[1] = a /\ p[2] = b /\ p[3] = d
  BY <1>1
<1>3. \A i \in 1..3 : i = 1 \/ i = 2 \/ i = 3
  OBVIOUS
<1> QED
  BY <1>1, <1>2, <1>3 DEF InOrder

(* The same of four parts. *)
LEMMA FourParts ==
  ASSUME NEW kind, NEW a \in PartName, NEW b \in PartName, NEW d \in PartName,
         NEW e \in PartName,
         a = FirstPart(kind), NextPart(kind, a) = b, NextPart(kind, b) = d,
         NextPart(kind, d) = e, NextPart(kind, e) = "none"
  PROVE  InOrder(kind, <<a, b, d, e>>)
<1>1. PICK p : p = <<a, b, d, e>>
  OBVIOUS
<1>2. /\ p \in Seq(PartName) /\ Len(p) = 4
      /\ p[1] = a /\ p[2] = b /\ p[3] = d /\ p[4] = e
  BY <1>1
<1>3. \A i \in 1..4 : i = 1 \/ i = 2 \/ i = 3 \/ i = 4
  OBVIOUS
<1> QED
  BY <1>1, <1>2, <1>3 DEF InOrder

(* The parts of a request of any kind are in the order in which the parser *)
(* takes them.                                                             *)
LEMMA PartsInOrder ==
  ASSUME NEW kind \in Kinds
  PROVE  InOrder(kind, Parts(kind))
<1>1. CASE kind \in {"get", "no_length"}
  <2>1. Parts(kind) = <<"line", "blank">>
    BY <1>1 DEF Parts
  <2> QED
    BY <1>1, <2>1, TwoParts DEF FirstPart, NextPart, PartName, WithHeader
<1>2. CASE kind \in {"form", "chat"}
  <2>1. Parts(kind) = <<"line", "header", "blank", "body">>
    BY <1>2 DEF Parts
  <2>2. /\ FirstPart(kind) = "line" /\ NextPart(kind, "line") = "header"
        /\ NextPart(kind, "header") = "blank" /\ NextPart(kind, "blank") = "body"
        /\ NextPart(kind, "body") = "none"
    BY <1>2 DEF FirstPart, NextPart, WithHeader
  <2> QED
    BY <2>1, <2>2, FourParts DEF PartName
<1>3. CASE kind \in {"empty", "bad_length", "negative_length"}
  <2>1. Parts(kind) = <<"line", "header", "blank">>
    BY <1>3 DEF Parts
  <2> QED
    BY <1>3, <2>1, ThreeParts DEF FirstPart, NextPart, PartName, WithHeader
<1>4. CASE kind = "bad_line"
  <2>1. Parts(kind) = <<"garbage", "blank">>
    BY <1>4 DEF Parts
  <2> QED
    BY <1>4, <2>1, TwoParts DEF FirstPart, NextPart, PartName, WithHeader
<1>5. CASE kind = "bad_header"
  <2>1. Parts(kind) = <<"line", "garbage", "blank">>
    BY <1>5 DEF Parts
  <2> QED
    BY <1>5, <2>1, ThreeParts DEF FirstPart, NextPart, PartName, WithHeader
<1>6. CASE kind = "bad_version"
  <2>1. Parts(kind) = <<"half_line", "blank">>
    BY <1>6 DEF Parts
  <2> QED
    BY <1>6, <2>1, TwoParts DEF FirstPart, NextPart, PartName, WithHeader
<1> QED
  BY <1>1, <1>2, <1>3, <1>4, <1>5, <1>6 DEF Kinds, Good, Malformed

(* The pieces that a client sends for request n are in order, and each is  *)
(* of request n.                                                           *)
LEMMA PiecesInOrder ==
  ASSUME NEW kind \in Kinds, NEW n \in Nat, NEW t, t = Pieces(kind, n)
  PROVE  /\ t \in Seq(Piece) /\ Len(t) \in 2..4 /\ t[1] = <<FirstPart(kind), n>>
         /\ \A i \in 1..Len(t) :
              /\ t[i][2] = n
              /\ NextPart(kind, t[i][1]) = IF i = Len(t) THEN "none" ELSE t[i + 1][1]
              /\ i < Len(t) => t[i + 1] = <<t[i + 1][1], n>>
<1>1. PICK p : p = Parts(kind)
  OBVIOUS
<1>2. /\ p \in Seq(PartName) /\ Len(p) \in 2..4 /\ p[1] = FirstPart(kind)
      /\ \A i \in 1..Len(p) :
           NextPart(kind, p[i]) = IF i = Len(p) THEN "none" ELSE p[i + 1]
  BY <1>1, PartsInOrder DEF InOrder
<1>3. t = [i \in 1..Len(p) |-> <<p[i], n>>]
  BY <1>1 DEF Pieces
<1>4. \A i \in 1..Len(p) : <<p[i], n>> \in Piece
  BY <1>2 DEF Piece
<1>5. t \in Seq(Piece) /\ Len(t) = Len(p)
  BY <1>2, <1>3, <1>4
<1> QED
  BY <1>2, <1>3, <1>5

-----------------------------------------------------------------------------
(* The bytes between client and handler.                                   *)
Done(c) == Len(seen[c])
In(c)   == buf[c] \o transit[c]

(* The piece that follows piece q.                                         *)
After(c, q) ==
  IF NextPart(asked[c][q[2]], q[1]) = "none"
  THEN <<FirstPart(asked[c][q[2] + 1]), q[2] + 1>>
  ELSE <<NextPart(asked[c][q[2]], q[1]), q[2]>>

(* s is what comes last of all that was asked.                             *)
Linked(c, s) ==
  /\ \A i \in 1..Len(s) : s[i][2] \in 1..Len(asked[c])
  /\ \A i \in 1..(Len(s) - 1) : s[i + 1] = After(c, s[i])
  /\ s # <<>> => /\ s[Len(s)][2] = Len(asked[c])
                 /\ NextPart(asked[c][Len(asked[c])], s[Len(s)][1]) = "none"

(* The piece of request n that a parser in this state waits for, and what  *)
(* it has of it.                                                           *)
Due(c, state, r, n) ==
  CASE state = "line"    -> <<FirstPart(asked[c][n]), n>>
    [] state = "headers" -> <<IF r.header = 0 THEN NextPart(asked[c][n], "line")
                                              ELSE "blank", n>>
    [] state = "body"    -> <<"body", n>>

(* The body that r has is one of an earlier request.  A line that is wrong *)
(* may have left its method.                                               *)
Begun(c, state, r, n) ==
  /\ r.body < n
  /\ \/ /\ state = "line" /\ r.header = 0
        /\ \/ r.line = 0
           \/ n \in 1..Len(asked[c]) /\ r.line = n /\ asked[c][n] = "bad_version"
     \/ /\ state = "headers" /\ r.line = n /\ asked[c][n] \notin {"bad_line", "bad_version"}
        /\ r.header = 0 \/ (r.header = n /\ asked[c][n] \in WithHeader)
     \/ /\ state = "body" /\ r.line = n /\ r.header = n
        /\ asked[c][n] \in {"form", "chat"}

(* Piece i of s is the next to read, and it is the one waited for. *)
Awaits(c, state, r, n, s, i) ==
  /\ Begun(c, state, r, n)
  /\ IF i <= Len(s) THEN s[i] = Due(c, state, r, n)
                   ELSE state = "line" /\ n = Len(asked[c]) + 1

(* The parser has refused request n behind its line. *)
CutOff(c, state, r, n, s, i) ==
  /\ state = "headers" /\ r.line = n /\ r.header = 0 /\ n = Len(asked[c]) /\ r.body < n
  /\ \/ asked[c][n] = "bad_header" /\ i <= Len(s) /\ s[i] = <<"blank", n>>
     \/ asked[c][n] = "no_length" /\ i = Len(s) + 1

(* The parser waits for a body that does not come. *)
Stuck(c, state, r, n, s, i) ==
  /\ state = "body" /\ r.line = n /\ r.header = n /\ n = Len(asked[c]) /\ r.body < n
  /\ n \in 1..Len(asked[c]) /\ asked[c][n] = "negative_length" /\ i = Len(s) + 1

Stands(c, state, r, n, s, i) ==
  \/ Awaits(c, state, r, n, s, i)
  \/ Stuck(c, state, r, n, s, i)
  \/ link[c] # "open" /\ CutOff(c, state, r, n, s, i)

(* Request n is all there, with its body or one of an earlier request. *)
Whole(c, r, n) ==
  /\ r.line = n /\ r.header \in {0, n}
  /\ IF asked[c][n] \in {"form", "chat"} THEN r.body = n ELSE r.body < n

Ready(c, n, s, i) ==
  IF i <= Len(s) THEN s[i] = <<FirstPart(asked[c][n]), n>>
                ELSE n = Len(asked[c]) + 1

(* How parseRequest may stand with request n before piece i of s.       *)
Outcome(c, n, s, p, i) ==
  \/ p.more /\ p.ok /\ p.state # "all" /\ Stands(c, p.state, p.request, n, s, i)
  \/ /\ ~p.more /\ p.ok /\ p.state = "all" /\ n \in 1..Len(asked[c])
     /\ Whole(c, p.request, n) /\ Ready(c, n + 1, s, i)
  \/ /\ ~p.more /\ ~p.ok /\ p.state # "all" /\ n \in 1..Len(asked[c])
     /\ asked[c][n] \in Malformed
     /\ \/ Awaits(c, p.state, p.request, n, s, i)
        \/ CutOff(c, p.state, p.request, n, s, i)
  \/ ~p.more /\ p.state = "aborted"

Parsing == [state : {"line", "headers", "body", "all", "aborted"}, request : Req,
            rest : Seq(Piece), ok : BOOLEAN, more : BOOLEAN]

(* Behind piece i comes the next piece of its request, or the next         *)
(* request, if there is one.                                               *)
LEMMA Onward ==
  ASSUME HttpTypes, NEW c \in Conn, NEW s \in Seq(Piece), Linked(c, s),
         NEW i \in 1..Len(s), NEW part, NEW n, s[i] = <<part, n>>
  PROVE  /\ n \in 1..Len(asked[c]) /\ part \in PartName
         /\ asked[c][n] \in Kinds /\ Len(asked[c]) \in Nat /\ Len(s) \in Nat
         /\ NextPart(asked[c][n], part) # "none" =>
              i < Len(s) /\ s[i + 1] = <<NextPart(asked[c][n], part), n>>
         /\ NextPart(asked[c][n], part) = "none" => Ready(c, n + 1, s, i + 1)
<1>1. asked[c] \in Seq(Kinds) /\ Len(asked[c]) \in Nat /\ Len(s) \in Nat
  BY DEF HttpTypes
<1>2. s[i][1] = part /\ s[i][2] = n
  OBVIOUS
<1>3. n \in 1..Len(asked[c])
  BY <1>2 DEF Linked
<1>4. asked[c][n] \in Kinds /\ part \in PartName
  <2>1. s[i] \in Piece
    OBVIOUS
  <2> QED
    BY <1>1, <1>2, <1>3, <2>1 DEF Piece
<1>5. CASE i = Len(s)
  BY <1>1, <1>2, <1>3, <1>4, <1>5 DEF Linked, Ready
<1>6. CASE i < Len(s)
  <2>1. i \in 1..(Len(s) - 1)
    BY <1>6, <1>1
  <2>2. s[i + 1] = After(c, s[i])
    BY <2>1 DEF Linked
  <2> QED
    BY <1>1, <1>2, <1>3, <1>4, <1>6, <2>1, <2>2 DEF After, Ready
<1> QED
  BY <1>1, <1>5, <1>6

(* Behind the last piece of the last request nothing comes.                *)
LEMMA LastPiece ==
  ASSUME HttpTypes, NEW c \in Conn, NEW s \in Seq(Piece), Linked(c, s),
         NEW i \in 1..Len(s), NEW n, n = Len(asked[c]), Ready(c, n + 1, s, i + 1)
  PROVE  i = Len(s)
<1>1. Len(s) \in Nat /\ n \in Nat
  BY DEF HttpTypes
<1>2. ASSUME i < Len(s) PROVE FALSE
  <2>1. s[i + 1] = <<FirstPart(asked[c][n + 1]), n + 1>> /\ i + 1 \in 1..Len(s)
    BY <1>1, <1>2 DEF Ready
  <2>2. n + 1 \in 1..Len(asked[c])
    BY <2>1, Onward
  <2> QED
    BY <1>1, <2>2
<1> QED
  BY <1>1, <1>2

(* The piece waited for, as the state of the parser has it.                *)
Expected(c, p, n, part) ==
  LET r    == p.request
      kind == asked[c][n]
  IN  /\ r.body < n
      /\ p.state = "line" =>
           part = FirstPart(kind) /\ r.header = 0 /\ (r.line = 0 \/ kind = "bad_version")
      /\ p.state = "headers" =>
           /\ r.line = n /\ kind \notin {"bad_line", "bad_version"}
           /\ \/ r.header = 0 /\ part = NextPart(kind, "line")
              \/ r.header = 0 /\ part = "blank" /\ kind = "bad_header"
              \/ r.header = n /\ part = "blank" /\ kind \in WithHeader
      /\ p.state = "body" =>
           /\ part = "body" /\ r.line = n /\ r.header = n
           /\ kind \in {"form", "chat"}

(* The piece that is read is one that a parser in this state expects. *)
LEMMA Awaited ==
  ASSUME NEW c, NEW s \in Seq(Piece), NEW p, NEW n,
         NEW i \in 1..Len(s), NEW part, NEW m, s[i] = <<part, m>>,
         Stands(c, p.state, p.request, n, s, i)
  PROVE  m = n /\ Expected(c, p, n, part)
<1>1. PICK state, r, kind : state = p.state /\ r = p.request /\ kind = asked[c][n]
  OBVIOUS
<1>2. i <= Len(s) /\ i # Len(s) + 1
  OBVIOUS
<1>3. CASE CutOff(c, state, r, n, s, i)
  <2>1. kind = "bad_header" /\ s[i] = <<"blank", n>>
    BY <1>1, <1>2, <1>3 DEF CutOff
  <2>2. <<part, m>> = <<"blank", n>>
    BY <2>1
  <2>3. part = "blank" /\ m = n
    BY <2>2
  <2> QED
    BY <1>1, <1>3, <2>1, <2>3 DEF CutOff, Expected
<1>4. ASSUME Awaits(c, state, r, n, s, i)
       PROVE  <<part, m>> = Due(c, state, r, n) /\ Begun(c, state, r, n)
  BY <1>2, <1>4 DEF Awaits
<1>5. CASE Awaits(c, state, r, n, s, i) /\ state = "line"
  BY <1>1, <1>4, <1>5 DEF Begun, Due, Expected
<1>6. CASE Awaits(c, state, r, n, s, i) /\ state = "headers"
  <2>1. <<part, m>> = <<IF r.header = 0 THEN NextPart(kind, "line") ELSE "blank", n>>
    BY <1>1, <1>4, <1>6 DEF Due
  <2>2. m = n /\ part = IF r.header = 0 THEN NextPart(kind, "line") ELSE "blank"
    BY <2>1
  <2> QED
    BY <1>1, <1>4, <1>6, <2>2 DEF Begun, Expected
<1>7. CASE Awaits(c, state, r, n, s, i) /\ state = "body"
  BY <1>1, <1>4, <1>7 DEF Begun, Due, Expected
<1>8. ~Stuck(c, state, r, n, s, i)
  BY <1>2 DEF Stuck
<1> QED
  BY <1>1, <1>3, <1>4, <1>5, <1>6, <1>7, <1>8 DEF Stands, Begun

(* The parser goes on, in this state. *)
GoesOn(p, state) ==
  /\ p \in Parsing /\ p.more /\ p.ok /\ p.rest = <<>>
  /\ p.state = state

(* Piece i has been read; a parser that goes no further may have left it.  *)
ReadOne(c, n, s, q, i) ==
  /\ q \in Parsing
  /\ \/ q.rest = <<>> /\ Outcome(c, n, s, q, i + 1)
     \/ q.rest = <<s[i]>> /\ ~q.more /\ Outcome(c, n, s, q, i)

(* A first line, read by a parser in its first state.                      *)
LEMMA ReadsLine ==
  ASSUME HttpTypes, NEW c \in Conn, NEW s \in Seq(Piece), Linked(c, s),
         NEW i \in 1..Len(s), NEW part, NEW n, s[i] = <<part, n>>,
         NEW p, GoesOn(p, "line"),
         asked[c][n] \in Malformed => n = Len(asked[c]),
         Stands(c, p.state, p.request, n, s, i),
         NEW q, q = ParseLine(p, part, n)
  PROVE  ReadOne(c, n, s, q, i)
<1>1. /\ part = FirstPart(asked[c][n]) /\ p.request.header = 0 /\ p.request.body < n
      /\ p.request.line = 0 \/ asked[c][n] = "bad_version"
  <2>1. Expected(c, p, n, part)
    BY Awaited
  <2> QED
    BY <2>1 DEF Expected, GoesOn
<1>2. /\ n \in 1..Len(asked[c]) /\ asked[c][n] \in Kinds /\ Len(asked[c]) \in Nat
      /\ NextPart(asked[c][n], part) # "none" =>
           i < Len(s) /\ s[i + 1] = <<NextPart(asked[c][n], part), n>>
      /\ Len(s) \in Nat
  BY Onward
<1>3. s[i] \in Piece /\ n \in Nat /\ p.request \in Req /\ p \in Parsing /\ i <= Len(s)
  <2>1. s[i] \in Piece /\ i <= Len(s)
    OBVIOUS
  <2>2. n \in Nat
    BY <1>2
  <2>3. p.request \in Req /\ p \in Parsing
    BY DEF Parsing, GoesOn
  <2> QED
    BY <2>1, <2>2, <2>3
<1>4. CASE asked[c][n] = "bad_line"
  <2>0. part = "garbage"
    BY <1>1, <1>4 DEF FirstPart
  <2>1. q = [p EXCEPT !.ok = FALSE, !.more = FALSE, !.rest = <<s[i]>>]
    BY <2>0 DEF ParseLine, Refuse
  <2>2. <<s[i]>> \in Seq(Piece)
    BY <1>3
  <2>3. /\ q \in Parsing /\ q.rest = <<s[i]>> /\ ~q.ok /\ ~q.more
        /\ q.state = "line" /\ q.request = p.request
    BY <2>1, <2>2 DEF Parsing, GoesOn
  <2>4. Awaits(c, q.state, q.request, n, s, i)
    BY <1>3, <2>3 DEF Stands, CutOff, Stuck, GoesOn
  <2>5. Outcome(c, n, s, q, i)
    BY <1>2, <1>4, <2>3, <2>4 DEF Outcome, Malformed
  <2> QED
    BY <2>3, <2>5 DEF ReadOne
<1>5. CASE asked[c][n] = "bad_version"
  <2>1. part = "half_line"
    BY <1>1, <1>5 DEF FirstPart
  <2>2. CASE Asserts /\ p.request.line # 0
    <3>1. q = [p EXCEPT !.state = "aborted", !.more = FALSE]
      BY <2>1, <2>2 DEF ParseLine
    <3>2. q \in Parsing /\ q.rest = <<>> /\ ~q.more /\ q.state = "aborted"
      BY <3>1 DEF Parsing, GoesOn
    <3> QED
      BY <3>2 DEF ReadOne, Outcome
  <2>3. CASE ~(Asserts /\ p.request.line # 0)
    <3>1. PICK x : x = [p.request EXCEPT !.line = n]
      OBVIOUS
    <3>2. x \in Req /\ x.line = n /\ x.header = 0 /\ x.body < n
      BY <1>1, <1>3, <3>1 DEF Req
    <3>3. q = [p EXCEPT !.request = x, !.ok = FALSE, !.more = FALSE, !.rest = <<s[i]>>]
      BY <2>1, <2>3, <3>1 DEF ParseLine, Refuse
    <3>4. <<s[i]>> \in Seq(Piece)
      BY <1>3
    <3>5. /\ q \in Parsing /\ q.rest = <<s[i]>> /\ ~q.ok /\ ~q.more
          /\ q.state = "line" /\ q.request = x
      BY <3>2, <3>3, <3>4 DEF Parsing, GoesOn
    <3>6. s[i] = <<FirstPart(asked[c][n]), n>>
      BY <1>1
    <3>7. Awaits(c, q.state, q.request, n, s, i)
      BY <1>2, <1>3, <1>5, <3>2, <3>5, <3>6 DEF Awaits, Begun, Due
    <3>8. Outcome(c, n, s, q, i)
      BY <1>2, <1>5, <3>5, <3>7 DEF Outcome, Malformed
    <3> QED
      BY <3>5, <3>8 DEF ReadOne
  <2> QED
    BY <2>2, <2>3
<1>6. CASE asked[c][n] \notin {"bad_line", "bad_version"}
  <2>1. part = "line" /\ p.request.line = 0
    BY <1>1, <1>6 DEF FirstPart
  <2>2. q = [p EXCEPT !.state = "headers", !.request.line = n]
    BY <2>1 DEF ParseLine
  <2>3. /\ q \in Parsing /\ q.rest = <<>> /\ q.ok /\ q.more /\ q.state = "headers"
        /\ q.request = [p.request EXCEPT !.line = n]
    <3>1. [p.request EXCEPT !.line = n] \in Req
      BY <1>3 DEF Req
    <3>2. /\ q \in Parsing /\ q.rest = p.rest /\ q.ok = p.ok /\ q.more = p.more
          /\ q.state = "headers" /\ q.request = [p.request EXCEPT !.line = n]
      BY <1>3, <2>2, <3>1 DEF Parsing
    <3> QED
      BY <3>2 DEF GoesOn
  <2>8. q.request.line = n /\ q.request.header = 0 /\ q.request.body < n
    BY <1>1, <1>3, <2>3 DEF Req
  <2>4. NextPart(asked[c][n], "line") # "none"
    BY <1>2, <1>6 DEF NextPart, WithHeader, Kinds, Good, Malformed
  <2>5. Begun(c, q.state, q.request, n)
    BY <1>6, <2>3, <2>8 DEF Begun
  <2>6. s[i + 1] = Due(c, q.state, q.request, n) /\ i + 1 <= Len(s)
    BY SMTT(20), <1>2, <2>1, <2>3, <2>8, <2>4 DEF Due
  <2>7. Stands(c, q.state, q.request, n, s, i + 1)
    BY <2>5, <2>6 DEF Awaits, Stands
  <2>9. Outcome(c, n, s, q, i + 1)
    BY <2>3, <2>7 DEF Outcome
  <2> QED
    BY <2>3, <2>9 DEF ReadOne
<1> QED
  BY <1>4, <1>5, <1>6

(* A header, the blank line, or what is no header, read by a parser in the *)
(* headers state.                                                          *)
LEMMA ReadsHeaders ==
  ASSUME HttpTypes, NEW c \in Conn, NEW s \in Seq(Piece), Linked(c, s),
         NEW i \in 1..Len(s), NEW part, NEW n, s[i] = <<part, n>>,
         NEW p, GoesOn(p, "headers"),
         asked[c][n] \in Malformed => n = Len(asked[c]),
         Stands(c, p.state, p.request, n, s, i),
         NEW q, q = ParseHeader(c, p, part, n)
  PROVE  ReadOne(c, n, s, q, i)
<1>1. /\ p.request.line = n /\ asked[c][n] \notin {"bad_line", "bad_version"}
      /\ p.request.body < n
      /\ \/ p.request.header = 0 /\ part = NextPart(asked[c][n], "line")
         \/ p.request.header = 0 /\ part = "blank" /\ asked[c][n] = "bad_header"
         \/ /\ p.request.header = n /\ part = "blank"
            /\ asked[c][n] \in WithHeader
  <2>1. Expected(c, p, n, part)
    BY Awaited
  <2> QED
    BY <2>1 DEF Expected, GoesOn
<1>2. PICK x : x = NextPart(asked[c][n], part)
  OBVIOUS
<1>3. /\ n \in 1..Len(asked[c]) /\ asked[c][n] \in Kinds /\ Len(asked[c]) \in Nat
      /\ x # "none" => i < Len(s) /\ s[i + 1] = <<x, n>>
      /\ x = "none" => Ready(c, n + 1, s, i + 1)
      /\ Len(s) \in Nat
  BY <1>2, Onward
<1>4. n \in Nat /\ n # 0 /\ p.request \in Req /\ p \in Parsing
  BY <1>3 DEF Parsing, GoesOn
<1>5. CASE part = "header"
  <2>1. q = [p EXCEPT !.request.header = n]
    BY <1>5 DEF ParseHeader
  <2>2. /\ q \in Parsing /\ q.rest = <<>> /\ q.ok /\ q.more /\ q.state = "headers"
        /\ q.request = [p.request EXCEPT !.header = n]
    <3>1. [p.request EXCEPT !.header = n] \in Req
      BY <1>4 DEF Req
    <3>2. /\ q \in Parsing /\ q.rest = p.rest /\ q.ok = p.ok /\ q.more = p.more
          /\ q.state = p.state /\ q.request = [p.request EXCEPT !.header = n]
      BY <1>4, <2>1, <3>1 DEF Parsing
    <3> QED
      BY <3>2 DEF GoesOn
  <2>8. q.request.line = n /\ q.request.header = n /\ q.request.body < n
    BY <1>1, <1>4, <2>2 DEF Req
  <2>3. asked[c][n] \in WithHeader
    BY <1>1, <1>3, <1>5 DEF NextPart, WithHeader, Kinds, Good, Malformed
  <2>4. x = "blank"
    BY <1>2, <1>5 DEF NextPart
  <2>5. Begun(c, q.state, q.request, n)
    BY <1>1, <2>2, <2>3, <2>8 DEF Begun
  <2>6. s[i + 1] = Due(c, q.state, q.request, n) /\ i + 1 <= Len(s)
    BY <1>3, <1>4, <2>2, <2>4, <2>8 DEF Due
  <2>7. Stands(c, q.state, q.request, n, s, i + 1)
    BY <2>5, <2>6 DEF Awaits, Stands
  <2> QED
    BY <2>2, <2>7 DEF Outcome, ReadOne
<1>6. CASE part = "garbage"
  <2>1. q = [p EXCEPT !.ok = FALSE, !.more = FALSE, !.rest = <<>>]
    BY <1>6 DEF ParseHeader, Refuse
  <2>2. /\ q \in Parsing /\ q.rest = <<>> /\ ~q.ok /\ ~q.more /\ q.state = "headers"
        /\ q.request = p.request
    BY <2>1 DEF Parsing, GoesOn
  <2>3. asked[c][n] = "bad_header" /\ p.request.header = 0
    BY <1>1, <1>3, <1>6 DEF NextPart, WithHeader, Kinds, Good, Malformed
  <2>4. x = "blank"
    BY <1>2, <1>6 DEF NextPart
  <2>5. n = Len(asked[c]) /\ s[i + 1] = <<"blank", n>> /\ i + 1 <= Len(s)
    <3>1. s[i + 1] = <<"blank", n>> /\ i + 1 <= Len(s)
      BY <1>3, <2>4
    <3>2. asked[c][n] \in Malformed
      BY <2>3 DEF Malformed
    <3> QED
      BY <3>1, <3>2
  <2>6. CutOff(c, q.state, q.request, n, s, i + 1)
    BY <1>1, <2>2, <2>3, <2>5 DEF CutOff
  <2> QED
    BY <1>3, <2>2, <2>3, <2>6 DEF Outcome, Malformed, ReadOne
<1>7. CASE part = "blank"
  <2>1. q = ParseBlank(c, p, n)
    BY <1>7 DEF ParseHeader
  <2>2. IsPost(c, p.request.line) <=>
          asked[c][n] \in WithHeader \cup {"no_length"}
    BY <1>1 DEF IsPost, WithHeader
  <2>3. CASE asked[c][n] \in {"get", "bad_header"}
    <3>1. q = [p EXCEPT !.state = "all", !.more = FALSE]
      BY <2>1, <2>2, <2>3 DEF ParseBlank, WithHeader
    <3>2. /\ q \in Parsing /\ q.rest = <<>> /\ q.ok /\ ~q.more /\ q.state = "all"
          /\ q.request = p.request
      BY <3>1 DEF Parsing, GoesOn
    <3>3. x = "none"
      BY <1>2, <1>7, <2>3 DEF NextPart
    <3> QED
      BY <1>1, <1>3, <2>3, <3>2, <3>3 DEF Outcome, Whole, ReadOne, WithHeader
  <2>4. CASE asked[c][n] = "no_length"
    <3>1. p.request.header = 0 /\ n = Len(asked[c])
      BY <1>1, <2>4 DEF Malformed, WithHeader
    <3>2. q = [p EXCEPT !.ok = FALSE, !.more = FALSE, !.rest = <<>>]
      BY <2>1, <2>2, <2>4, <3>1 DEF ParseBlank, Refuse
    <3>3. /\ q \in Parsing /\ q.rest = <<>> /\ ~q.ok /\ ~q.more /\ q.state = "headers"
          /\ q.request = p.request
      BY <3>2 DEF Parsing, GoesOn
    <3>4. x = "none"
      BY <1>2, <1>7, <2>4 DEF NextPart
    <3>6. i + 1 = Len(s) + 1
      BY <1>3, <3>1, <3>4, LastPiece
    <3>7. CutOff(c, q.state, q.request, n, s, i + 1)
      BY <1>1, <2>4, <3>1, <3>3, <3>6 DEF CutOff
    <3> QED
      BY <1>3, <2>4, <3>3, <3>7 DEF Outcome, Malformed, ReadOne
  <2>5. CASE asked[c][n] \in WithHeader
    <3>1. p.request.header = n
      <4>1. NextPart(asked[c][n], "line") = "header"
        BY <2>5 DEF NextPart, WithHeader
      <4> QED
        BY <1>1, <1>7, <2>5, <4>1 DEF WithHeader
    <3>2. CASE asked[c][n] = "empty"
      <4>1. q = [p EXCEPT !.state = "all", !.more = FALSE]
        BY <1>1, <1>4, <2>1, <2>2, <2>5, <3>1, <3>2 DEF ParseBlank
      <4>2. /\ q \in Parsing /\ q.rest = <<>> /\ q.ok /\ ~q.more /\ q.state = "all"
            /\ q.request = p.request
        BY <4>1 DEF Parsing, GoesOn
      <4>3. x = "none"
        BY <1>2, <1>7, <3>2 DEF NextPart
      <4> QED
        BY <1>1, <1>3, <3>1, <3>2, <4>2, <4>3 DEF Outcome, Whole, ReadOne
    <3>3. CASE asked[c][n] \in {"form", "chat"}
      <4>1. q = [p EXCEPT !.state = "body"]
        BY <1>1, <1>4, <2>1, <2>2, <2>5, <3>1, <3>3 DEF ParseBlank
      <4>2. /\ q \in Parsing /\ q.rest = <<>> /\ q.ok /\ q.more /\ q.state = "body"
            /\ q.request = p.request
        BY <4>1 DEF Parsing, GoesOn
      <4>3. x = "body"
        BY <1>2, <1>7, <3>3 DEF NextPart
      <4>4. Begun(c, q.state, q.request, n)
        BY <1>1, <3>1, <3>3, <4>2 DEF Begun
      <4>5. s[i + 1] = Due(c, q.state, q.request, n) /\ i + 1 <= Len(s)
        BY <1>3, <4>2, <4>3 DEF Due
      <4>6. Stands(c, q.state, q.request, n, s, i + 1)
        BY <4>4, <4>5 DEF Awaits, Stands
      <4> QED
        BY <4>2, <4>6 DEF Outcome, ReadOne
    <3>4. CASE asked[c][n] = "bad_length"
      <4>1. q = [p EXCEPT !.ok = FALSE, !.more = FALSE, !.rest = <<s[i]>>]
        BY <1>1, <1>4, <1>7, <2>1, <2>2, <2>5, <3>1, <3>4 DEF ParseBlank, Refuse
      <4>2. <<s[i]>> \in Seq(Piece)
        OBVIOUS
      <4>3. /\ q \in Parsing /\ q.rest = <<s[i]>> /\ ~q.ok /\ ~q.more
            /\ q.state = "headers" /\ q.request = p.request
        BY <4>1, <4>2 DEF Parsing, GoesOn
      <4>4. Begun(c, q.state, q.request, n)
        BY <1>1, <2>5, <3>1, <4>3 DEF Begun
      <4>5. s[i] = Due(c, q.state, q.request, n) /\ i <= Len(s)
        BY <1>3, <1>4, <1>7, <3>1, <4>3 DEF Due
      <4>6. Outcome(c, n, s, q, i)
        BY <1>3, <3>4, <4>3, <4>4, <4>5 DEF Outcome, Awaits, Malformed
      <4> QED
        BY <4>3, <4>6 DEF ReadOne
    <3>5. CASE asked[c][n] = "negative_length"
      <4>1. q = [p EXCEPT !.state = "body"]
        BY <1>1, <1>4, <2>1, <2>2, <2>5, <3>1, <3>5 DEF ParseBlank
      <4>2. /\ q \in Parsing /\ q.rest = <<>> /\ q.ok /\ q.more /\ q.state = "body"
            /\ q.request = p.request
        BY <4>1 DEF Parsing, GoesOn
      <4>3. x = "none" /\ n = Len(asked[c])
        BY <1>2, <1>7, <3>5 DEF NextPart, Malformed
      <4>4. i + 1 = Len(s) + 1
        BY <1>3, <4>3, LastPiece
      <4>5. Stands(c, q.state, q.request, n, s, i + 1)
        BY <1>1, <1>3, <3>1, <3>5, <4>2, <4>3, <4>4 DEF Stuck, Stands
      <4> QED
        BY <4>2, <4>5 DEF Outcome, ReadOne
    <3> QED
      BY <2>5, <3>2, <3>3, <3>4, <3>5 DEF WithHeader
  <2> QED
    BY <1>1, <1>3, <2>3, <2>4, <2>5 DEF Kinds, Good, Malformed, WithHeader
<1> QED
  <2>1. part \in {"header", "garbage", "blank"}
    BY <1>1, <1>3 DEF NextPart, WithHeader, Kinds, Good, Malformed
  <2> QED
    BY <2>1, <1>5, <1>6, <1>7

(* The body, read by a parser in the body state. *)
LEMMA ReadsBody ==
  ASSUME HttpTypes, NEW c \in Conn, NEW s \in Seq(Piece), Linked(c, s),
         NEW i \in 1..Len(s), NEW part, NEW n, s[i] = <<part, n>>,
         NEW p, GoesOn(p, "body"),
         Stands(c, p.state, p.request, n, s, i),
         NEW q, q = ParseBody(p, n)
  PROVE  q \in Parsing /\ q.rest = <<>> /\ Outcome(c, n, s, q, i + 1)
<1>1. /\ part = "body" /\ p.request.line = n /\ p.request.header = n
      /\ asked[c][n] \in {"form", "chat"}
  <2>1. Expected(c, p, n, part)
    BY Awaited, ZenonT(30)
  <2> QED
    BY <2>1 DEF Expected, GoesOn
<1>2. NextPart(asked[c][n], part) = "none"
  BY <1>1 DEF NextPart
<1>3. n \in 1..Len(asked[c]) /\ Ready(c, n + 1, s, i + 1) /\ Len(asked[c]) \in Nat
  BY <1>2, Onward
<1>4. n \in Nat /\ p.request \in Req /\ p \in Parsing
  BY <1>3 DEF Parsing, GoesOn
<1>5. q = [p EXCEPT !.state = "all", !.request.body = n, !.more = FALSE]
  BY DEF ParseBody
<1>6. /\ q \in Parsing /\ q.rest = <<>> /\ q.ok /\ ~q.more /\ q.state = "all"
      /\ q.request = [p.request EXCEPT !.body = n]
  <2>1. [p.request EXCEPT !.body = n] \in Req
    BY <1>4 DEF Req
  <2>2. /\ q \in Parsing /\ q.rest = p.rest /\ q.ok = p.ok /\ ~q.more
        /\ q.state = "all" /\ q.request = [p.request EXCEPT !.body = n]
    BY <1>4, <1>5, <2>1 DEF Parsing
  <2> QED
    BY <2>2 DEF GoesOn
<1>7. q.request.line = n /\ q.request.header = n /\ q.request.body = n
  BY <1>1, <1>4, <1>6 DEF Req
<1> QED
  BY <1>1, <1>3, <1>6, <1>7 DEF Outcome, Whole

-----------------------------------------------------------------------------
(* parseRequest goes through the bytes piece by piece.                     *)
LEMMA ParseUnfolds ==
  ASSUME NEW c, NEW bytes \in Seq(Piece), NEW start, NEW a,
         a = CHOOSE f : f = [i \in 0..Len(bytes) |->
               IF i = 0 THEN start ELSE ParsePiece(c, f[i - 1], bytes[i])]
  PROVE  a = [i \in 0..Len(bytes) |->
               IF i = 0 THEN start ELSE ParsePiece(c, a[i - 1], bytes[i])]
<1> DEFINE Step(f, i) == IF i = 0 THEN start ELSE ParsePiece(c, f[i - 1], bytes[i])
           T == {k \in 0..Len(bytes) : \E f : f = [i \in 0..k |-> Step(f, i)]}
<1>1. Len(bytes) \in Nat
  OBVIOUS
<1>2. 0 \in T
  <2>1. PICK f : f = [i \in 0..0 |-> start]
    OBVIOUS
  <2>2. f = [i \in 0..0 |-> Step(f, i)]
    BY <2>1
  <2> QED
    BY <1>1, <2>2
<1>3. ASSUME NEW k \in 1..Len(bytes), k - 1 \in T PROVE k \in T
  <2>1. PICK f : f = [i \in 0..(k - 1) |-> Step(f, i)]
    BY <1>3
  <2>2. PICK h : h = [i \in 0..k |-> IF i = k THEN Step(f, k) ELSE f[i]]
    OBVIOUS
  <2>3. ASSUME NEW i \in 0..k PROVE h[i] = Step(h, i)
    <3>1. CASE i = 0
      BY <2>1, <2>2, <3>1
    <3>2. CASE i \in 1..(k - 1)
      BY <2>1, <2>2, <3>2
    <3>3. CASE i = k
      BY <2>1, <2>2, <3>3
    <3> QED
      BY <3>1, <3>2, <3>3
  <2>4. h = [i \in 0..k |-> Step(h, i)]
    <3> HIDE DEF Step
    <3> QED
      BY <2>2, <2>3
  <2> QED
    BY <2>4
<1>4. Len(bytes) \in T
  <2> HIDE DEF T
  <2>1. \A i \in 0..Len(bytes) : i \in T
    BY <1>1, <1>2, <1>3, UpTo
  <2> QED
    BY <1>1, <2>1
<1> QED
  BY <1>4, Zenon

(* Whatever the piece, a parser that stands right stands right behind it. *)
LEMMA ReadsPiece ==
  ASSUME HttpTypes, NEW c \in Conn, NEW s \in Seq(Piece), Linked(c, s),
         NEW i \in 1..Len(s), NEW n, NEW p \in Parsing,
         n \in 1..Len(asked[c]) /\ asked[c][n] \in Malformed => n = Len(asked[c]),
         p.more, p.rest = <<>>, Outcome(c, n, s, p, i),
         NEW q, q = ParsePiece(c, p, s[i])
  PROVE  ReadOne(c, n, s, q, i)
<1>1. /\ p.ok /\ p.state \in {"line", "headers", "body"}
      /\ Stands(c, p.state, p.request, n, s, i)
  BY DEF Outcome, Stands, Awaits, Begun, CutOff, Stuck
<1>2. PICK part, m : s[i] = <<part, m>>
  <2>1. s[i] \in PartName \X Nat
    BY DEF Piece
  <2> QED
    BY <2>1
<1>3. m = n
  <2>1. m = n /\ Expected(c, p, n, part)
    BY <1>1, <1>2, Awaited
  <2> QED
    BY <2>1
<1>4. s[i] = <<part, n>> /\ s[i][1] = part /\ s[i][2] = n
  BY <1>2, <1>3
<1>5. n \in 1..Len(asked[c])
  BY <1>4, Onward
<1>6. asked[c][n] \in Malformed => n = Len(asked[c])
  BY <1>5
<1>7. CASE p.state = "line"
  <2>1. GoesOn(p, "line")
    BY <1>1, <1>7 DEF GoesOn
  <2>2. q = ParseLine(p, part, n)
    BY <1>4, <1>7 DEF ParsePiece
  <2> QED
    BY <1>1, <1>4, <1>6, <2>1, <2>2, ReadsLine
<1>8. CASE p.state = "headers"
  <2>1. GoesOn(p, "headers")
    BY <1>1, <1>8 DEF GoesOn
  <2>2. q = ParseHeader(c, p, part, n)
    BY <1>4, <1>8 DEF ParsePiece
  <2> QED
    BY <1>1, <1>4, <1>6, <2>1, <2>2, ReadsHeaders
<1>9. CASE p.state = "body"
  <2>1. GoesOn(p, "body")
    BY <1>1, <1>9 DEF GoesOn
  <2>2. q = ParseBody(p, n)
    BY <1>4, <1>9 DEF ParsePiece
  <2> QED
    BY <1>1, <1>4, <2>1, <2>2, ReadsBody DEF ReadOne
<1> QED
  BY <1>1, <1>7, <1>8, <1>9

(* p has read bytes up to k: what is left of them is from i on. *)
HasRead(c, n, s, p, bytes, k) ==
  /\ p \in Parsing
  /\ \E i \in 1..(k + 1) : /\ p.rest = SubSeq(bytes, i, k) /\ (p.more => i = k + 1)
                           /\ Outcome(c, n, s, p, i)

(* Piece k of what is in the buffer, after the k - 1 before it, wherever   *)
(* the parser stopped.                                                     *)
LEMMA ReadsOn ==
  ASSUME HttpTypes, NEW c \in Conn, NEW s \in Seq(Piece), Linked(c, s), NEW n,
         n \in 1..Len(asked[c]) /\ asked[c][n] \in Malformed => n = Len(asked[c]),
         NEW bytes \in Seq(Piece), Len(bytes) <= Len(s),
         NEW k \in 1..Len(bytes), bytes[k] = s[k],
         NEW p, HasRead(c, n, s, p, bytes, k - 1),
         NEW q, q = ParsePiece(c, p, bytes[k])
  PROVE  HasRead(c, n, s, q, bytes, k)
<1>1. /\ Len(bytes) \in Nat /\ Len(s) \in Nat /\ k \in 1..Len(s) /\ bytes[k] \in Piece
      /\ (k - 1) + 1 = k
  OBVIOUS
<1>2. p \in Parsing
  BY DEF HasRead
<1>3. PICK i \in 1..k : /\ p.rest = SubSeq(bytes, i, k - 1) /\ (p.more => i = k)
                        /\ Outcome(c, n, s, p, i)
  BY <1>1 DEF HasRead
<1>4. CASE ~p.more
  <2>1. q = [p EXCEPT !.rest = Append(@, bytes[k])]
    BY <1>4 DEF ParsePiece
  <2>3. p.rest \in Seq(Piece)
    BY <1>2 DEF Parsing
  <2>4. /\ Append(p.rest, bytes[k]) = SubSeq(bytes, i, k)
        /\ Append(p.rest, bytes[k]) \in Seq(Piece)
    <3>1. SubSeq(bytes, i, k) = SubSeq(bytes, i, k - 1) \o <<bytes[k]>>
      BY <1>1, SubSeqRecursiveSecond
    <3>2. Append(p.rest, bytes[k]) = p.rest \o <<bytes[k]>>
      BY <1>1, <2>3, AppendIsConcat
    <3>3. Append(p.rest, bytes[k]) \in Seq(Piece)
      BY <1>1, <2>3
    <3> QED
      BY <1>3, <3>1, <3>2, <3>3
  <2>5. /\ q \in Parsing /\ q.rest = Append(p.rest, bytes[k])
        /\ q.more = p.more /\ q.ok = p.ok
        /\ q.state = p.state /\ q.request = p.request
    BY <1>2, <2>1, <2>4 DEF Parsing
  <2>6. Outcome(c, n, s, q, i)
    BY <1>3, <2>5 DEF Outcome
  <2>7. ~q.more /\ q.rest = SubSeq(bytes, i, k) /\ i \in 1..(k + 1)
    BY <1>1, <1>4, <2>4, <2>5
  <2> QED
    BY <2>5, <2>6, <2>7 DEF HasRead
<1>5. CASE p.more
  <2>1. i = k
    BY <1>3, <1>5
  <2>2. p.rest = <<>>
    BY <1>1, <1>3, <2>1, SubSeqEmpty
  <2>3. Outcome(c, n, s, p, k) /\ q = ParsePiece(c, p, s[k])
    BY <1>3, <2>1
  <2>4. /\ q \in Parsing
        /\ \/ q.rest = <<>> /\ Outcome(c, n, s, q, k + 1)
           \/ q.rest = <<s[k]>> /\ ~q.more /\ Outcome(c, n, s, q, k)
    <3>1. ReadOne(c, n, s, q, k)
      BY <1>1, <1>2, <1>5, <2>2, <2>3, ReadsPiece
    <3> QED
      BY <3>1 DEF ReadOne
  <2>5. SubSeq(bytes, k + 1, k) = <<>> /\ SubSeq(bytes, k, k) = <<s[k]>>
    <3>1. SubSeq(bytes, k + 1, k) = <<>>
      BY SubSeqEmpty
    <3>2. SubSeq(bytes, k, k) = <<s[k]>> \o SubSeq(bytes, k + 1, k)
      BY <1>1, SubSeqRecursiveFirst
    <3>3. <<s[k]>> \in Seq(Piece)
      BY <1>1
    <3> QED
      BY <3>1, <3>2, <3>3, ConcatEmptySeq
  <2>6. CASE q.rest = <<>> /\ Outcome(c, n, s, q, k + 1)
    <3>1. k + 1 \in 1..(k + 1) /\ q.rest = SubSeq(bytes, k + 1, k)
      BY <1>1, <2>5, <2>6
    <3>2. (q.more => k + 1 = k + 1) /\ Outcome(c, n, s, q, k + 1)
      BY <2>6
    <3>3. q \in Parsing
      BY <2>4
    <3> QED
      BY <3>1, <3>2, <3>3, Zenon DEF HasRead
  <2>7. CASE q.rest = <<s[k]>> /\ ~q.more /\ Outcome(c, n, s, q, k)
    <3>1. k \in 1..(k + 1) /\ q.rest = SubSeq(bytes, k, k)
      BY <1>1, <2>5, <2>7
    <3>2. (q.more => k = k + 1) /\ Outcome(c, n, s, q, k)
      BY <2>7
    <3>3. q \in Parsing
      BY <2>4
    <3> QED
      BY <3>1, <3>2, <3>3 DEF HasRead
  <2> QED
    BY <2>4, <2>6, <2>7
<1> QED
  BY <1>4, <1>5

(* parseRequest, from the context and over all that is in the buffer. *)
LEMMA ParseReads ==
  ASSUME HttpTypes, NEW c \in Conn, NEW s \in Seq(Piece), Linked(c, s), NEW n,
         n \in 1..Len(asked[c]) /\ asked[c][n] \in Malformed => n = Len(asked[c]),
         Stands(c, context[c].state, context[c].request, n, s, 1),
         NEW bytes \in Seq(Piece), Len(bytes) <= Len(s),
         \A k \in 1..Len(bytes) : bytes[k] = s[k]
  PROVE  HasRead(c, n, s, Parse(c, bytes), bytes, Len(bytes))
<1>1. PICK start : start = [state |-> context[c].state, request |-> context[c].request,
                            rest |-> <<>>, ok |-> TRUE, more |-> TRUE]
  OBVIOUS
<1>2. PICK a : a = CHOOSE f : f = [i \in 0..Len(bytes) |->
                      IF i = 0 THEN start ELSE ParsePiece(c, f[i - 1], bytes[i])]
  OBVIOUS
<1>3. Parse(c, bytes) = a[Len(bytes)]
  BY <1>1, <1>2 DEF Parse
<1>4. a = [i \in 0..Len(bytes) |->
             IF i = 0 THEN start ELSE ParsePiece(c, a[i - 1], bytes[i])]
  BY <1>2, ParseUnfolds
<1>5. Len(bytes) \in Nat
  OBVIOUS
<1> DEFINE T == {k \in 0..Len(bytes) : HasRead(c, n, s, a[k], bytes, k)}
<1>6. 0 \in T
  <2>1. context[c] \in [state : {"line", "headers", "body", "aborted"}, request : Req]
    BY DEF HttpTypes
  <2>2. /\ start \in Parsing /\ start.rest = <<>> /\ start.ok /\ start.more
        /\ start.state # "all"
        /\ start.state = context[c].state /\ start.request = context[c].request
    BY <1>1, <2>1 DEF Parsing
  <2>3. Outcome(c, n, s, start, 1)
    BY <2>2 DEF Outcome
  <2>4. SubSeq(bytes, 1, 0) = <<>>
    OBVIOUS
  <2>5. HasRead(c, n, s, start, bytes, 0)
    BY <2>2, <2>3, <2>4 DEF HasRead
  <2>6. a[0] = start
    BY <1>4, <1>5
  <2> QED
    BY <1>5, <2>5, <2>6
<1>7. ASSUME NEW k \in 1..Len(bytes), k - 1 \in T PROVE k \in T
  <2>1. HasRead(c, n, s, a[k - 1], bytes, k - 1)
    BY <1>7
  <2>2. a[k] = ParsePiece(c, a[k - 1], bytes[k])
    BY <1>4, <1>5
  <2>3. HasRead(c, n, s, a[k], bytes, k)
    BY <2>1, <2>2, ReadsOn
  <2> QED
    BY <1>5, <2>3
<1>8. Len(bytes) \in T
  <2> HIDE DEF T
  <2>1. \A i \in 0..Len(bytes) : i \in T
    BY <1>5, <1>6, <1>7, UpTo
  <2> QED
    BY <1>5, <2>1
<1> QED
  BY <1>3, <1>8


-----------------------------------------------------------------------------
(* The pool.                                                               *)
Looking == {w \in Worker : worker[w] = "look"}

(* The workers that are about to look at the queue can be counted. *)
LEMMA LookingIsFinite ==
  IsFiniteSet(Looking) /\ IsFiniteSet(Looking')
<1>1. IsFiniteSet(Worker)
  BY ThreadPoolAssumption
<1> QED
  BY <1>1, FS_Subset DEF Looking

(* The pool starts well-typed, and with no task there is none to strand. *)
LEMMA PoolStart ==
  ASSUME TPInit
  PROVE  PoolTypes /\ NoTaskStranded
<1> QED
  BY DEF TPInit, PoolTypes, NoTaskStranded

(* A task that is enqueued is owed a notification, so it is not stranded. *)
LEMMA EnqueueIsSafe ==
  ASSUME PoolTypes, NoTaskStranded, NEW task \in Task, Enqueue(task)
  PROVE  PoolTypes' /\ NoTaskStranded'
<1>1. PoolTypes' /\ Len(tasks') = Len(tasks) + 1 /\ owed' = owed + 1 /\ worker' = worker
  BY DEF PoolTypes, Enqueue
<1>2. Looking' = Looking /\ Cardinality(Looking) \in Nat
  BY <1>1, LookingIsFinite, FS_CardinalityType DEF Looking
<1>3. Len(tasks) \in Nat /\ owed \in Nat
  BY DEF PoolTypes
<1>4. NoTaskStranded'
  BY <1>1, <1>2, <1>3 DEF NoTaskStranded, Looking
<1> QED
  BY <1>1, <1>4

(* A worker goes to sleep only when the queue is empty. *)
LEMMA SleepIsSafe ==
  ASSUME PoolTypes, NoTaskStranded, NEW w \in Worker, Sleep(w)
  PROVE  PoolTypes' /\ NoTaskStranded'
<1>1. PoolTypes'
  BY DEF PoolTypes, Sleep
<1>2. Len(tasks') = 0 /\ owed' \in Nat
  BY DEF Sleep, PoolTypes
<1>3. Cardinality(Looking') \in Nat
  BY LookingIsFinite, FS_CardinalityType
<1>4. NoTaskStranded'
  BY <1>2, <1>3 DEF NoTaskStranded, Looking
<1> QED
  BY <1>1, <1>4

(* Whoever takes a task was about to look, and whoever has finished is.    *)
LEMMA TakeIsSafe ==
  ASSUME PoolTypes, NoTaskStranded, NEW w \in Worker, Take(w)
  PROVE  PoolTypes' /\ NoTaskStranded'
<1>1. /\ tasks \in Seq(Task) /\ tasks # <<>> /\ tasks' = Tail(tasks)
      /\ Len(tasks) \in Nat /\ owed' = owed /\ owed \in Nat
  BY DEF Take, PoolTypes
<1>2. Head(tasks) \in Task /\ tasks' \in Seq(Task) /\ Len(tasks') = Len(tasks) - 1
  BY <1>1, HeadTailProperties
<1>3. PoolTypes'
  BY <1>2 DEF PoolTypes, Take
<1>4. Looking' = Looking \ {w} /\ w \in Looking
  BY DEF Looking, Take, PoolTypes
<1>5. Cardinality(Looking') = Cardinality(Looking) - 1
  BY <1>4, LookingIsFinite, FS_RemoveElement
<1>6. Cardinality(Looking) \in Nat
  BY LookingIsFinite, FS_CardinalityType
<1>7. \A v \in Worker : worker[v] # "asleep" => worker'[v] # "asleep"
  BY DEF Take, PoolTypes
<1>8. NoTaskStranded'
  BY <1>1, <1>2, <1>5, <1>6, <1>7 DEF NoTaskStranded, Looking
<1> QED
  BY <1>3, <1>8

(* A worker that comes back from its task will look at the queue again. *)
LEMMA FinishIsSafe ==
  ASSUME PoolTypes, NoTaskStranded, NEW w \in Worker, worker[w] = "busy", Finish(w)
  PROVE  PoolTypes' /\ NoTaskStranded'
<1>1. PoolTypes'
  BY DEF PoolTypes, Finish
<1>2. tasks' = tasks /\ owed' = owed /\ Len(tasks) \in Nat /\ owed \in Nat
  BY DEF Finish, PoolTypes
<1>3. Looking' = Looking \cup {w} /\ w \notin Looking
  BY DEF Looking, Finish, PoolTypes
<1>4. Cardinality(Looking') = Cardinality(Looking) + 1
  BY <1>3, LookingIsFinite, FS_AddElement
<1>5. Cardinality(Looking) \in Nat
  BY LookingIsFinite, FS_CardinalityType
<1>6. \A v \in Worker : worker[v] # "asleep" => worker'[v] # "asleep"
  BY DEF Finish, PoolTypes
<1>7. NoTaskStranded'
  BY <1>2, <1>4, <1>5, <1>6 DEF NoTaskStranded, Looking
<1> QED
  BY <1>1, <1>7

(* A notification that comes is one less to come, and one more looks.      *)
LEMMA NotifyIsSafe ==
  ASSUME PoolTypes, NoTaskStranded, NotifyOne
  PROVE  PoolTypes' /\ NoTaskStranded'
<1>1. PoolTypes'
  BY DEF PoolTypes, NotifyOne
<1>2. /\ tasks' = tasks /\ owed > 0 /\ owed' = owed - 1 /\ Len(tasks) \in Nat
      /\ owed \in Nat
  BY DEF NotifyOne, PoolTypes
<1>3. Cardinality(Looking) \in Nat
  BY LookingIsFinite, FS_CardinalityType
<1>4. ASSUME NEW w \in Worker, worker[w] = "asleep",
             worker' = [worker EXCEPT ![w] = "look"]
      PROVE  NoTaskStranded'
  <2>1. Looking' = Looking \cup {w} /\ w \notin Looking
    BY <1>4 DEF Looking, PoolTypes
  <2>2. Cardinality(Looking') = Cardinality(Looking) + 1
    BY <2>1, LookingIsFinite, FS_AddElement
  <2> QED
    BY <1>2, <1>3, <1>4, <2>2 DEF NoTaskStranded, Looking
<1>5. CASE (\A w \in Worker : worker[w] # "asleep") /\ UNCHANGED worker
  BY <1>1, <1>5 DEF NoTaskStranded
<1> QED
  BY <1>1, <1>4, <1>5 DEF NotifyOne

-----------------------------------------------------------------------------
(* What the pool has of connection c: nothing, one task waiting, or one    *)
(* task that a worker is in.                                               *)
NoTask(c) ==
  /\ \A i \in 1..Len(tasks) : tasks[i][1] # c
  /\ \A w \in Worker : worker[w] = "busy" => running[w][1] # c

Waits(c, n) ==
  /\ \E i \in 1..Len(tasks) :
       /\ tasks[i] = <<c, n>>
       /\ \A j \in 1..Len(tasks) : tasks[j][1] = c => j = i
  /\ \A w \in Worker : worker[w] = "busy" => running[w][1] # c

Serves(w, c, n) ==
  /\ worker[w] = "busy" /\ running[w] = <<c, n>>
  /\ \A i \in 1..Len(tasks) : tasks[i][1] # c
  /\ \A v \in Worker : worker[v] = "busy" /\ running[v][1] = c => v = w

(* Where queue and serving workers stay, a connection has in the pool what *)
(* it had.                                                                 *)
LEMMA PoolStays ==
  ASSUME NEW c, NEW n, tasks' = tasks, running' = running,
         \A w \in Worker : worker'[w] = "busy" <=> worker[w] = "busy"
  PROVE  /\ NoTask(c) => NoTask(c)'
         /\ Waits(c, n) => Waits(c, n)'
         /\ \A w \in Worker : Serves(w, c, n) => Serves(w, c, n)'
<1>1. NoTask(c) => NoTask(c)'
  BY DEF NoTask
<1>2. Waits(c, n) => Waits(c, n)'
  BY DEF Waits
<1>3. \A w \in Worker : Serves(w, c, n) => Serves(w, c, n)'
  BY DEF Serves
<1> QED
  BY <1>1, <1>2, <1>3

(* A new task of connection d is its one, and does not concern the others. *)
LEMMA PoolGrows ==
  ASSUME PoolTypes, NEW d \in Conn, NEW m \in Nat, Enqueue(<<d, m>>), NEW c, NEW n
  PROVE  /\ NoTask(c) => IF c = d THEN Waits(c, m)' ELSE NoTask(c)'
         /\ c # d /\ Waits(c, n) => Waits(c, n)'
         /\ c # d => \A w \in Worker : Serves(w, c, n) => Serves(w, c, n)'
<1>1. /\ tasks \in Seq(Task) /\ <<d, m>> \in Task
      /\ tasks' = Append(tasks, <<d, m>>) /\ worker' = worker /\ running' = running
  BY DEF Enqueue, PoolTypes, Task
<1>2. /\ Len(tasks) \in Nat /\ Len(tasks') = Len(tasks) + 1
      /\ \A i \in 1..Len(tasks) : tasks'[i] = tasks[i]
      /\ tasks'[Len(tasks) + 1] = <<d, m>>
  BY <1>1, AppendProperties
<1>3. \A i \in 1..Len(tasks') : i \in 1..Len(tasks) \/ i = Len(tasks) + 1
  BY <1>2
<1>4. tasks'[Len(tasks) + 1][1] = d
  BY <1>2
<1>5. 1..Len(tasks) \subseteq 1..Len(tasks')
  BY <1>2
<1>6. ASSUME NoTask(c), c = d PROVE Waits(c, m)'
  <2>1. Len(tasks) + 1 \in 1..Len(tasks')
    BY <1>2
  <2>2. \A j \in 1..Len(tasks') : tasks'[j][1] = c => j = Len(tasks) + 1
    BY <1>2, <1>3, <1>6 DEF NoTask
  <2>3. \A w \in Worker : worker'[w] = "busy" => running'[w][1] # c
    BY <1>1, <1>6 DEF NoTask
  <2> QED
    BY <1>2, <1>6, <2>1, <2>2, <2>3 DEF Waits
<1>7. ASSUME NoTask(c), c # d PROVE NoTask(c)'
  BY <1>1, <1>2, <1>3, <1>4, <1>7 DEF NoTask
<1>8. ASSUME c # d, Waits(c, n) PROVE Waits(c, n)'
  <2>1. PICK i \in 1..Len(tasks) : /\ tasks[i] = <<c, n>>
                                   /\ \A j \in 1..Len(tasks) : tasks[j][1] = c => j = i
    BY <1>8 DEF Waits
  <2>2. i \in 1..Len(tasks') /\ tasks'[i] = <<c, n>>
    BY <1>2, <1>5, <2>1
  <2>3. \A j \in 1..Len(tasks') : tasks'[j][1] = c => j = i
    BY <1>2, <1>3, <1>4, <1>8, <2>1
  <2>4. \A w \in Worker : worker'[w] = "busy" => running'[w][1] # c
    BY <1>1, <1>8 DEF Waits
  <2> QED
    BY <2>2, <2>3, <2>4 DEF Waits
<1>9. ASSUME c # d, NEW w \in Worker, Serves(w, c, n) PROVE Serves(w, c, n)'
  BY <1>1, <1>2, <1>3, <1>4, <1>9 DEF Serves
<1> QED
  BY <1>6, <1>7, <1>8, <1>9

(* A task that is taken is served by the worker that takes it, and by no   *)
(* other.                                                                  *)
LEMMA PoolTakes ==
  ASSUME PoolTypes, NEW w \in Worker, Take(w), NEW c, NEW n
  PROVE  /\ NoTask(c) => NoTask(c)'
         /\ Waits(c, n) => Waits(c, n)' \/ Serves(w, c, n)'
         /\ \A v \in Worker : Serves(v, c, n) => v # w /\ Serves(v, c, n)'
<1>1. /\ tasks \in Seq(Task) /\ tasks # <<>> /\ tasks' = Tail(tasks)
      /\ worker[w] = "look" /\ worker' = [worker EXCEPT ![w] = "busy"]
      /\ running' = [running EXCEPT ![w] = Head(tasks)]
      /\ Head(tasks) = tasks[1]
  BY DEF Take, PoolTypes
<1>2. /\ Len(tasks) \in Nat /\ Len(tasks) > 0 /\ Len(tasks') = Len(tasks) - 1
      /\ \A i \in 1..Len(tasks') : tasks'[i] = tasks[i + 1]
  BY <1>1, HeadTailProperties
<1>3. /\ \A i \in 1..Len(tasks') : i + 1 \in 1..Len(tasks)
      /\ 1 \in 1..Len(tasks)
  BY <1>2
<1>4. /\ worker'[w] = "busy" /\ running'[w] = tasks[1]
      /\ \A v \in Worker : v # w => worker'[v] = worker[v] /\ running'[v] = running[v]
  BY <1>1 DEF PoolTypes
<1>5. ASSUME NoTask(c) PROVE NoTask(c)'
  BY <1>2, <1>3, <1>4, <1>5 DEF NoTask
<1>6. ASSUME Waits(c, n) PROVE Waits(c, n)' \/ Serves(w, c, n)'
  <2>1. PICK i \in 1..Len(tasks) : /\ tasks[i] = <<c, n>>
                                   /\ \A j \in 1..Len(tasks) : tasks[j][1] = c => j = i
    BY <1>6 DEF Waits
  <2>2. CASE i = 1
    <3>1. \A j \in 1..Len(tasks') : tasks'[j][1] # c
      <4>1. \A j \in 1..Len(tasks') : j + 1 # 1
        BY <1>2
      <4> QED
        BY <1>2, <1>3, <2>1, <2>2, <4>1
    <3>2. \A v \in Worker : worker'[v] = "busy" /\ running'[v][1] = c => v = w
      BY <1>4, <1>6 DEF Waits
    <3> QED
      BY <1>4, <2>1, <2>2, <3>1, <3>2 DEF Serves
  <2>3. CASE i # 1
    <3>1. i - 1 \in 1..Len(tasks') /\ (i - 1) + 1 = i
      BY <1>2, <2>3
    <3>2. tasks'[i - 1] = <<c, n>>
      BY <1>2, <2>1, <3>1
    <3>3. \A j \in 1..Len(tasks') : tasks'[j][1] = c => j = i - 1
      <4>1. \A j \in 1..Len(tasks') : j + 1 = i => j = i - 1
        OBVIOUS
      <4> QED
        BY <1>2, <1>3, <2>1, <4>1
    <3>4. tasks[1][1] # c
      BY <1>3, <2>1, <2>3
    <3>5. \A v \in Worker : worker'[v] = "busy" => running'[v][1] # c
      BY <1>4, <1>6, <3>4 DEF Waits
    <3> QED
      BY <3>1, <3>2, <3>3, <3>5 DEF Waits
  <2> QED
    BY <2>2, <2>3
<1>7. ASSUME NEW v \in Worker, Serves(v, c, n) PROVE v # w /\ Serves(v, c, n)'
  <2>1. v # w
    BY <1>1, <1>7 DEF Serves
  <2>2. tasks[1][1] # c
    BY <1>3, <1>7 DEF Serves
  <2>3. \A i \in 1..Len(tasks') : tasks'[i][1] # c
    BY <1>2, <1>3, <1>7 DEF Serves
  <2>4. \A u \in Worker : worker'[u] = "busy" /\ running'[u][1] = c => u = v
    BY <1>4, <1>7, <2>2 DEF Serves
  <2>5. worker'[v] = "busy" /\ running'[v] = <<c, n>>
    BY <1>4, <1>7, <2>1 DEF Serves
  <2> QED
    BY <2>1, <2>3, <2>4, <2>5 DEF Serves
<1> QED
  BY <1>5, <1>6, <1>7

(* A worker that finishes leaves its connection without a task, and the    *)
(* others alone.                                                           *)
LEMMA PoolFinishes ==
  ASSUME PoolTypes, NEW w \in Worker, worker[w] = "busy", Finish(w), NEW c, NEW n
  PROVE  /\ NoTask(c) => NoTask(c)'
         /\ Waits(c, n) => Waits(c, n)'
         /\ \A v \in Worker : Serves(v, c, n) =>
              IF v = w THEN NoTask(c)' ELSE Serves(v, c, n)'
<1>1. /\ tasks' = tasks /\ worker'[w] = "look"
      /\ \A v \in Worker : v # w => worker'[v] = worker[v] /\ running'[v] = running[v]
  BY DEF Finish, PoolTypes
<1>2. NoTask(c) => NoTask(c)'
  BY <1>1 DEF NoTask
<1>3. Waits(c, n) => Waits(c, n)'
  BY <1>1 DEF Waits
<1>4. ASSUME NEW v \in Worker, Serves(v, c, n), v = w PROVE NoTask(c)'
  BY <1>1, <1>4 DEF Serves, NoTask
<1>5. ASSUME NEW v \in Worker, Serves(v, c, n), v # w PROVE Serves(v, c, n)'
  BY <1>1, <1>5 DEF Serves
<1> QED
  BY <1>2, <1>3, <1>4, <1>5

-----------------------------------------------------------------------------
(* Answers in turn, as a sequence of frames.                               *)
NoFrame   == [req |-> 0, part |-> "full"]
Newest(s) == IF s = <<>> THEN NoFrame ELSE s[Len(s)]

Follows(g, f) ==
  IF f.part \in {"full", "headers", "refused"}
  THEN g.part \in Complete /\ f.req = g.req + 1
  ELSE g.part \in {"headers", "chunk"} /\ f.req = g.req

InTurn(s) ==
  \A i \in 1..Len(s) : Follows(IF i = 1 THEN NoFrame ELSE s[i - 1], s[i])

NoneBeyond(s, n) == \A i \in 1..Len(s) : s[i].req <= n

(* A frame that follows the newest keeps the frames in turn. *)
LEMMA OneMore ==
  ASSUME NEW s \in Seq(Frame), NEW f \in Frame, InTurn(s), Follows(Newest(s), f),
         NEW n \in Nat, NoneBeyond(s, n)
  PROVE  /\ InTurn(Append(s, f)) /\ Newest(Append(s, f)) = f
         /\ f.req <= n => NoneBeyond(Append(s, f), n)
<1>1. PICK t : t = Append(s, f)
  OBVIOUS
<1>2. /\ Len(s) \in Nat /\ Len(t) = Len(s) + 1 /\ t # <<>>
      /\ \A i \in 1..Len(s) : t[i] = s[i]
      /\ t[Len(s) + 1] = f
  BY <1>1, AppendProperties
<1>3. Newest(t) = f
  BY <1>2 DEF Newest
<1>4. ASSUME NEW i \in 1..Len(t)
      PROVE  Follows(IF i = 1 THEN NoFrame ELSE t[i - 1], t[i])
  <2>1. CASE i \in 1..Len(s)
    <3>1. i # 1 => i - 1 \in 1..Len(s)
      BY <1>2, <2>1
    <3>2. /\ t[i] = s[i]
          /\ (IF i = 1 THEN NoFrame ELSE t[i - 1])
                = (IF i = 1 THEN NoFrame ELSE s[i - 1])
      BY <1>2, <2>1, <3>1
    <3>3. Follows(IF i = 1 THEN NoFrame ELSE s[i - 1], s[i])
      BY <2>1 DEF InTurn
    <3> QED
      BY <3>2, <3>3
  <2>2. CASE i = Len(s) + 1
    <3>1. (IF i = 1 THEN NoFrame ELSE t[i - 1]) = Newest(s)
      <4>1. CASE s = <<>>
        <5>1. i = 1
          BY <2>2, <4>1
        <5> QED
          BY <4>1, <5>1 DEF Newest
      <4>2. CASE s # <<>>
        <5>1. Len(s) \in 1..Len(s) /\ i # 1 /\ i - 1 = Len(s)
          BY <1>2, <2>2, <4>2, EmptySeq
        <5> QED
          BY <1>2, <4>2, <5>1 DEF Newest
      <4> QED
        BY <4>1, <4>2
    <3> QED
      BY <1>2, <2>2, <3>1
  <2> QED
    BY <1>2, <2>1, <2>2
<1>5. InTurn(t)
  BY <1>4 DEF InTurn
<1>6. f.req <= n => NoneBeyond(t, n)
  BY <1>2 DEF NoneBeyond
<1> QED
  BY <1>1, <1>3, <1>5, <1>6

(* What is in turn is so up to any place. *)
LEMMA BeginningInTurn ==
  ASSUME NEW s \in Seq(Frame), NEW t \in Seq(Frame), InTurn(s \o t)
  PROVE  InTurn(s)
<1>1. PICK u : u = s \o t
  OBVIOUS
<1>2. /\ Len(s) \in Nat /\ Len(t) \in Nat /\ Len(u) = Len(s) + Len(t)
      /\ \A i \in 1..Len(s) : i \in 1..Len(u) /\ u[i] = s[i]
  BY <1>1, ConcatProperties
<1>3. ASSUME NEW i \in 1..Len(s)
      PROVE  Follows(IF i = 1 THEN NoFrame ELSE s[i - 1], s[i])
  <2>1. Follows(IF i = 1 THEN NoFrame ELSE u[i - 1], u[i])
    BY <1>1, <1>2 DEF InTurn
  <2>2. i # 1 => i - 1 \in 1..Len(s)
    BY <1>2
  <2>3. (IF i = 1 THEN NoFrame ELSE u[i - 1]) = (IF i = 1 THEN NoFrame ELSE s[i - 1])
    BY <1>2, <2>2
  <2> QED
    BY <1>2, <2>1, <2>3
<1> QED
  BY <1>3 DEF InTurn

(* The answer to the last request so far is the last of the frames.        *)
LEMMA LastIsLast ==
  ASSUME NEW s \in Seq(Frame), InTurn(s), NEW n \in Nat, NoneBeyond(s, n),
         NEW i \in 1..Len(s), s[i].req = n, s[i].part \in Complete
  PROVE  i = Len(s) /\ Newest(s) = s[i]
<1>1. Len(s) \in Nat /\ s # <<>>
  OBVIOUS
<1>2. ASSUME i # Len(s) PROVE FALSE
  <2>1. i + 1 \in 1..Len(s) /\ i + 1 # 1 /\ (i + 1) - 1 = i
    BY <1>1, <1>2
  <2>2. Follows(s[i], s[i + 1])
    BY <2>1 DEF InTurn
  <2>3. s[i + 1].req = n + 1
    BY <2>2 DEF Follows, Complete
  <2>4. s[i + 1].req <= n
    BY <2>1 DEF NoneBeyond
  <2> QED
    BY <2>3, <2>4
<1> QED
  BY <1>1, <1>2 DEF Newest

-----------------------------------------------------------------------------
(* The frames of connection c: written, or on their way through the loop.  *)
Frames(c) == wire[c] \o pending[c]

Chatting(c) ==
  Done(c) = Len(asked[c]) /\ Done(c) > 0 /\ asked[c][Done(c)] = "chat"

(* All is answered; a stream is owed; or a worker is in it.                *)
Rests(c) ==
  /\ NoTask(c)
  /\ Newest(Frames(c)).part \in Complete /\ Newest(Frames(c)).req = Done(c)

Owes(c) ==
  /\ Chatting(c) /\ pending[c] = <<>>
  /\ Newest(Frames(c)).part \in Complete /\ Newest(Frames(c)).req = Done(c) - 1
  /\ \/ Waits(c, Done(c))
     \/ \E w \in Worker : Serves(w, c, Done(c)) /\ sentChunks[w] = 0

Streams(c) ==
  /\ Chatting(c)
  /\ Newest(Frames(c)).part \in {"headers", "chunk"} /\ Newest(Frames(c)).req = Done(c)
  /\ \E w \in Worker : Serves(w, c, Done(c)) /\ sentChunks[w] > 0

Writing(c) ==
  /\ InTurn(wire[c])
  /\ link[c] = "open" =>
       /\ InTurn(Frames(c)) /\ NoneBeyond(Frames(c), Done(c))
       /\ pending[c] # <<>> => Chatting(c)
       /\ Rests(c) \/ Owes(c) \/ Streams(c)

(* What came is what was asked, and the parser stands where it should.     *)
Reading(c) ==
  link[c] # "gone" =>
    /\ Linked(c, In(c))
    /\ Stands(c, context[c].state, context[c].request, Done(c) + 1, In(c), 1)
    /\ link[c] = "open" /\ c \notin Hasty => buf[c] = <<>>

Heard(c) ==
  /\ Done(c) <= Len(asked[c])
  /\ \A i \in 1..Done(c) : Whole(c, seen[c][i], i)

Asked(c) ==
  /\ \A i \in 1..Len(asked[c]) : asked[c][i] \in Wants[c]
  /\ \A i \in 1..(Len(asked[c]) - 1) :
       c \notin Hasty \/ asked[c][i] = "chat" => Answered(c, i)
  /\ c \notin Hasty => Len(asked[c]) <= Done(c) + 1

(* No frame is of a request that no handler has been called with. *)
Framed(c) ==
  link[c] = "open" => NoneBeyond(wire[c], Done(c)) /\ NoneBeyond(pending[c], Done(c))

(* Where every text is UTF-8, the frames are in turn as well. *)
ConnInv(c) ==
  Reading(c) /\ Heard(c) /\ Asked(c) /\ Framed(c) /\ (c \notin Garbled => Writing(c))

(* A task is of a request that a handler has been called with. *)
KnownTasks ==
  /\ \A i \in 1..Len(tasks) : tasks[i][2] <= Done(tasks[i][1])
  /\ \A w \in Worker : worker[w] = "busy" => running[w][2] <= Done(running[w][1])

IInv ==
  /\ HttpTypes /\ PoolTypes /\ NoTaskStranded /\ KnownTasks
  /\ \A w \in Worker : sentChunks[w] > 0 => worker[w] = "busy"
  /\ \A c \in Conn : ConnInv(c)

-----------------------------------------------------------------------------
(* A step that concerns connection c in nothing but the pool's progress.   *)
Aside(c) ==
  /\ asked'[c] = asked[c] /\ transit'[c] = transit[c] /\ buf'[c] = buf[c]
  /\ context'[c] = context[c] /\ link'[c] = link[c] /\ pending'[c] = pending[c]
  /\ wire'[c] = wire[c] /\ seen'[c] = seen[c]

PoolKeeps(c, n) ==
  /\ NoTask(c) => NoTask(c)'
  /\ Waits(c, n) => \/ Waits(c, n)'
                    \/ \E w \in Worker : Serves(w, c, n)' /\ sentChunks'[w] = 0
  /\ \A w \in Worker : Serves(w, c, n) =>
                         Serves(w, c, n)' /\ sentChunks'[w] = sentChunks[w]

(* What the parser stands before depends on what was asked and on the link *)
(* alone.                                                                  *)
LEMMA StandsStill ==
  ASSUME NEW c, asked'[c] = asked[c], link'[c] = link[c],
         NEW state, NEW r, NEW n, NEW s, NEW i
  PROVE  /\ Linked(c, s)' <=> Linked(c, s)
         /\ Stands(c, state, r, n, s, i)' <=> Stands(c, state, r, n, s, i)
<1>1. Linked(c, s)' <=> Linked(c, s)
  BY DEF Linked, After
<1>2. Awaits(c, state, r, n, s, i)' <=> Awaits(c, state, r, n, s, i)
  BY DEF Awaits, Begun, Due
<1>3. CutOff(c, state, r, n, s, i)' <=> CutOff(c, state, r, n, s, i)
  BY DEF CutOff
<1>4. Stuck(c, state, r, n, s, i)' <=> Stuck(c, state, r, n, s, i)
  BY DEF Stuck
<1> QED
  BY <1>1, <1>2, <1>3, <1>4 DEF Stands

(* A task that is known stays so, while no handler's call is forgotten.    *)
LEMMA KnownTask ==
  ASSUME HttpTypes, HttpTypes', \A c \in Conn : Done(c) <= Done(c)',
         NEW task \in Task, task[2] <= Done(task[1])
  PROVE  task[2] <= Len(seen'[task[1]])
<1>1. PICK c, n : c = task[1] /\ n = task[2]
  OBVIOUS
<1>2. c \in Conn /\ n \in Nat
  BY <1>1 DEF Task
<1>3. PICK x, y : x = Done(c) /\ y = Len(seen'[c])
  OBVIOUS
<1>4. x \in Nat /\ y \in Nat
  BY <1>2, <1>3 DEF HttpTypes, Done
<1>5. x <= y
  BY <1>2, <1>3 DEF Done
<1>6. n <= x
  BY <1>1, <1>3
<1> QED
  BY <1>1, <1>2, <1>3, <1>4, <1>5, <1>6

(* A task that is known stays so, whoever has it, while no handler's call  *)
(* is forgotten.                                                           *)
LEMMA KnownStays ==
  ASSUME PoolTypes, KnownTasks, HttpTypes, HttpTypes',
         \A c \in Conn : Done(c) <= Done(c)',
         \/ UNCHANGED tpvars
         \/ NotifyOne
         \/ \E w \in Worker : Sleep(w) \/ Take(w) \/ (worker[w] = "busy" /\ Finish(w))
  PROVE  KnownTasks'
<1>1. ASSUME NEW task \in Task, task[2] <= Done(task[1])
      PROVE  task[2] <= Len(seen'[task[1]])
  BY <1>1, KnownTask
<1>2. ASSUME NEW i \in 1..Len(tasks) PROVE tasks[i][2] <= Len(seen'[tasks[i][1]])
  BY <1>1 DEF KnownTasks, PoolTypes
<1>3. ASSUME NEW w \in Worker, worker[w] = "busy"
      PROVE  running[w][2] <= Len(seen'[running[w][1]])
  BY <1>1, <1>3 DEF KnownTasks, PoolTypes
<1>4. ASSUME tasks' = tasks,
             \A w \in Worker : worker'[w] = "busy" => worker[w] = "busy" /\ running'[w] = running[w]
      PROVE  KnownTasks'
  <2>1. \A i \in 1..Len(tasks') : tasks'[i][2] <= Len(seen'[tasks'[i][1]])
    BY <1>2, <1>4
  <2>2. \A w \in Worker : worker'[w] = "busy" => running'[w][2] <= Len(seen'[running'[w][1]])
    BY <1>3, <1>4
  <2> QED
    BY <2>1, <2>2 DEF KnownTasks, Done
<1>5. CASE UNCHANGED tpvars
  BY <1>4, <1>5 DEF tpvars
<1>6. CASE NotifyOne
  BY <1>4, <1>6 DEF NotifyOne, PoolTypes
<1>7. ASSUME NEW w \in Worker, Sleep(w) PROVE KnownTasks'
  BY <1>4, <1>7 DEF Sleep, PoolTypes
<1>8. ASSUME NEW w \in Worker, worker[w] = "busy", Finish(w) PROVE KnownTasks'
  BY <1>4, <1>8 DEF Finish, PoolTypes
<1>9. ASSUME NEW w \in Worker, Take(w) PROVE KnownTasks'
  <2>1. /\ tasks \in Seq(Task) /\ tasks # <<>> /\ tasks' = Tail(tasks)
        /\ running' = [running EXCEPT ![w] = Head(tasks)]
        /\ worker' = [worker EXCEPT ![w] = "busy"]
        /\ Head(tasks) = tasks[1]
    BY <1>9 DEF Take, PoolTypes
  <2>2. /\ Len(tasks) \in Nat /\ Len(tasks) > 0 /\ Len(tasks') = Len(tasks) - 1
        /\ \A i \in 1..Len(tasks') : tasks'[i] = tasks[i + 1]
    BY <2>1, HeadTailProperties
  <2>3. 1 \in 1..Len(tasks) /\ \A i \in 1..Len(tasks') : i + 1 \in 1..Len(tasks)
    BY <2>2
  <2>4. \A i \in 1..Len(tasks') : tasks'[i][2] <= Len(seen'[tasks'[i][1]])
    BY <1>2, <2>2, <2>3
  <2>5. ASSUME NEW v \in Worker, worker'[v] = "busy"
        PROVE  running'[v][2] <= Len(seen'[running'[v][1]])
    <3>1. CASE v = w
      <4>1. running'[v] = tasks[1]
        BY <2>1, <3>1 DEF PoolTypes
      <4>2. tasks[1][2] <= Len(seen'[tasks[1][1]])
        BY <1>2, <2>3
      <4> QED
        BY <4>1, <4>2
    <3>2. CASE v # w
      BY <1>3, <2>1, <2>5, <3>2 DEF PoolTypes
    <3> QED
      BY <3>1, <3>2
  <2> QED
    BY <2>4, <2>5 DEF KnownTasks, Done
<1> QED
  BY <1>5, <1>6, <1>7, <1>8, <1>9

(* The same of a step that leaves what handlers were called with.          *)
LEMMA KnownSame ==
  ASSUME PoolTypes, KnownTasks, HttpTypes, HttpTypes', seen' = seen,
         \/ UNCHANGED tpvars
         \/ NotifyOne
         \/ \E w \in Worker : Sleep(w) \/ Take(w) \/ (worker[w] = "busy" /\ Finish(w))
  PROVE  KnownTasks'
<1>1. ASSUME NEW c \in Conn PROVE Done(c) <= Done(c)'
  <2>1. Done(c)' = Done(c) /\ Done(c) \in Nat
    BY DEF HttpTypes, Done
  <2> QED
    BY <2>1
<1> QED
  BY <1>1, KnownStays

(* A new task is known if its request is the handler's. *)
LEMMA KnownGrows ==
  ASSUME PoolTypes, KnownTasks, HttpTypes, HttpTypes',
         \A c \in Conn : Done(c) <= Done(c)',
         NEW d \in Conn, NEW m \in Nat, Enqueue(<<d, m>>), m <= Done(d)'
  PROVE  KnownTasks'
<1>1. ASSUME NEW task \in Task, task[2] <= Done(task[1])
      PROVE  task[2] <= Len(seen'[task[1]])
  BY <1>1, KnownTask
<1>2. /\ tasks \in Seq(Task) /\ <<d, m>> \in Task
      /\ tasks' = Append(tasks, <<d, m>>) /\ worker' = worker /\ running' = running
  BY DEF Enqueue, PoolTypes, Task
<1>3. /\ Len(tasks) \in Nat /\ Len(tasks') = Len(tasks) + 1
      /\ \A i \in 1..Len(tasks) : tasks'[i] = tasks[i]
      /\ tasks'[Len(tasks) + 1] = <<d, m>>
  BY <1>2, AppendProperties
<1>4. ASSUME NEW i \in 1..Len(tasks') PROVE tasks'[i][2] <= Len(seen'[tasks'[i][1]])
  <2>1. CASE i \in 1..Len(tasks)
    BY <1>1, <1>2, <1>3, <2>1 DEF KnownTasks
  <2>2. CASE i = Len(tasks) + 1
    <3>1. tasks'[i] = <<d, m>>
      BY <1>3, <2>2
    <3> QED
      BY <3>1 DEF Done
  <2> QED
    BY <1>3, <2>1, <2>2
<1>5. \A w \in Worker : worker'[w] = "busy" => running'[w][2] <= Len(seen'[running'[w][1]])
  BY <1>1, <1>2 DEF KnownTasks, PoolTypes
<1> QED
  BY <1>4, <1>5 DEF KnownTasks, Done

(* A step that leaves bytes and parser of c alone, and takes no answer     *)
(* back, keeps what is said of them.                                       *)
LEMMA BytesKept ==
  ASSUME NEW c, Reading(c), Heard(c), Asked(c),
         asked'[c] = asked[c], transit'[c] = transit[c], buf'[c] = buf[c],
         context'[c] = context[c], link'[c] = link[c], seen'[c] = seen[c],
         \A i : Answered(c, i) => Answered(c, i)'
  PROVE  Reading(c)' /\ Heard(c)' /\ Asked(c)'
<1>1. PICK n, x, s : n = Done(c) /\ x = context[c] /\ s = In(c)
  OBVIOUS
<1>2. Done(c)' = n /\ context'[c] = x /\ In(c)' = s
  BY <1>1 DEF Done, In
<1>3. Reading(c)'
  <2>1. SUFFICES ASSUME link[c] # "gone"
                 PROVE  /\ Linked(c, s)'
                        /\ Stands(c, x.state, x.request, n + 1, s, 1)'
                        /\ link[c] = "open" /\ c \notin Hasty => buf[c] = <<>>
    BY <1>2 DEF Reading
  <2>2. /\ Linked(c, s) /\ Stands(c, x.state, x.request, n + 1, s, 1)
        /\ link[c] = "open" /\ c \notin Hasty => buf[c] = <<>>
    BY <1>1, <2>1 DEF Reading
  <2> QED
    BY <2>2, StandsStill
<1>4. Heard(c)'
  BY <1>1, <1>2 DEF Heard, Whole
<1>5. Asked(c)'
  BY <1>1, <1>2 DEF Asked
<1> QED
  BY <1>3, <1>4, <1>5

(* A step that concerns c in nothing but the progress of the pool keeps    *)
(* its invariant.                                                          *)
LEMMA AsideIsSafe ==
  ASSUME NEW c, ConnInv(c), Aside(c), PoolKeeps(c, Done(c))
  PROVE  ConnInv(c)'
<1>1. PICK n, F : n = Done(c) /\ F = Frames(c)
  OBVIOUS
<1>2. /\ Done(c)' = n /\ Frames(c)' = F /\ Chatting(c)' = Chatting(c)
      /\ \A i : Answered(c, i) => Answered(c, i)'
  BY <1>1 DEF Aside, Done, Frames, Chatting, Answered
<1>3. Reading(c)' /\ Heard(c)' /\ Asked(c)'
  BY <1>2, BytesKept DEF ConnInv, Aside
<1>4. ASSUME c \notin Garbled PROVE Writing(c)'
  <2>1. Rests(c) => Rests(c)'
    BY <1>1, <1>2 DEF Rests, PoolKeeps
  <2>2. Streams(c) => Streams(c)'
    BY <1>1, <1>2 DEF Streams, PoolKeeps
  <2>3. Owes(c) => Owes(c)'
    BY <1>1, <1>2 DEF Owes, PoolKeeps, Aside
  <2> QED
    BY <1>1, <1>2, <1>4, <2>1, <2>2, <2>3 DEF ConnInv, Writing, Aside
<1>5. Framed(c)'
  BY <1>1, <1>2 DEF ConnInv, Framed, Aside
<1> QED
  BY <1>3, <1>4, <1>5 DEF ConnInv

-----------------------------------------------------------------------------
(* The invariant holds before the first segment. *)
LEMMA StartIsSafe ==
  ASSUME Init
  PROVE  IInv
<1>1. HttpTypes
  BY DEF Init, HttpTypes, NewContext, NoRequest, Req
<1>2. PoolTypes /\ NoTaskStranded
  BY PoolStart DEF Init
<1>3. \A w \in Worker : ~(sentChunks[w] > 0)
  BY DEF Init
<1>4. ASSUME NEW c \in Conn PROVE ConnInv(c)
  <2>1. /\ asked[c] = <<>> /\ seen[c] = <<>> /\ wire[c] = <<>> /\ pending[c] = <<>>
        /\ buf[c] = <<>> /\ transit[c] = <<>> /\ link[c] = "open"
        /\ context[c] = NewContext /\ tasks = <<>>
        /\ \A w \in Worker : worker[w] = "look"
    BY DEF Init, TPInit
  <2>2. Done(c) = 0 /\ In(c) = <<>> /\ Frames(c) = <<>> /\ Len(<<>>) = 0
    BY <2>1 DEF Done, In, Frames
  <2>3. Reading(c)
    <3>1. Linked(c, <<>>)
      BY <2>2 DEF Linked
    <3>2. /\ NewContext.state = "line" /\ NewContext.request.line = 0
          /\ NewContext.request.header = 0 /\ NewContext.request.body = 0
      BY DEF NewContext, NoRequest
    <3>3. Stands(c, NewContext.state, NewContext.request, 1, <<>>, 1)
      BY <2>1, <2>2, <3>2 DEF Stands, Awaits, Begun
    <3> QED
      BY <2>1, <2>2, <3>1, <3>3 DEF Reading
  <2>4. Heard(c) /\ Asked(c)
    BY <2>1, <2>2 DEF Heard, Asked
  <2>5. Rests(c)
    BY <2>1, <2>2 DEF Rests, NoTask, Newest, NoFrame, Complete
  <2>6. Writing(c)
    BY <2>1, <2>2, <2>5 DEF Writing, InTurn, NoneBeyond
  <2>7. Framed(c)
    BY <2>1, <2>2 DEF Framed, NoneBeyond
  <2> QED
    BY <2>3, <2>4, <2>6, <2>7 DEF ConnInv
<1>5. KnownTasks
  BY DEF Init, TPInit, KnownTasks
<1> QED
  BY <1>1, <1>2, <1>3, <1>4, <1>5 DEF IInv

-----------------------------------------------------------------------------
(* The pool's own steps.                                                   *)
LEMMA PoolStepIsSafe ==
  ASSUME IInv, UNCHANGED hvars,
         NotifyOne \/ \E w \in Worker : Sleep(w) \/ Take(w)
  PROVE  IInv'
<1>1. HttpTypes'
  BY DEF IInv, HttpTypes, hvars
<1>2. PoolTypes' /\ NoTaskStranded'
  BY NotifyIsSafe, SleepIsSafe, TakeIsSafe DEF IInv
<1>3. sentChunks' = sentChunks /\ \A c : Aside(c)
  BY DEF hvars, Aside
<1>4. \A w \in Worker : worker[w] = "busy" => worker'[w] = "busy"
  BY DEF IInv, PoolTypes, NotifyOne, Sleep, Take
<1>5. ASSUME NEW c \in Conn, NEW n PROVE PoolKeeps(c, n)
  <2>1. CASE NotifyOne \/ \E w \in Worker : Sleep(w)
    <3>1. /\ tasks' = tasks /\ running' = running
          /\ \A w \in Worker : worker'[w] = "busy" <=> worker[w] = "busy"
      BY <2>1 DEF IInv, PoolTypes, NotifyOne, Sleep
    <3> QED
      BY <1>3, <3>1, PoolStays DEF PoolKeeps
  <2>2. ASSUME NEW w \in Worker, Take(w) PROVE PoolKeeps(c, n)
    <3>1. worker[w] = "look" /\ sentChunks[w] \in Nat
      BY <2>2 DEF Take, IInv, HttpTypes
    <3>2. sentChunks'[w] = 0
      BY <1>3, <3>1 DEF IInv
    <3>3. /\ NoTask(c) => NoTask(c)'
          /\ Waits(c, n) => Waits(c, n)' \/ Serves(w, c, n)'
          /\ \A v \in Worker : Serves(v, c, n) => v # w /\ Serves(v, c, n)'
      BY <2>2, PoolTakes DEF IInv
    <3> QED
      BY <1>3, <3>2, <3>3 DEF PoolKeeps
  <2> QED
    BY <2>1, <2>2
<1>6. \A c \in Conn : ConnInv(c)'
  BY <1>3, <1>5, AsideIsSafe DEF IInv
<1>7. KnownTasks'
  BY <1>1, KnownSame DEF IInv, hvars
<1> QED
  BY <1>1, <1>2, <1>3, <1>4, <1>6, <1>7 DEF IInv

-----------------------------------------------------------------------------
(* A worker that is busy with c is the only one, and with c's last chat.   *)
LEMMA MyTask ==
  ASSUME HttpTypes, PoolTypes, NEW w \in Worker, worker[w] = "busy",
         NEW c \in Conn, running[w][1] = c, Writing(c), link[c] = "open"
  PROVE  /\ Serves(w, c, Done(c)) /\ running[w][2] = Done(c)
         /\ IF sentChunks[w] = 0 THEN Owes(c) ELSE Streams(c)
<1>1. ~NoTask(c) /\ ~Waits(c, Done(c))
  BY DEF NoTask, Waits
<1>2. \A v \in Worker : Serves(v, c, Done(c)) => v = w
  BY DEF Serves
<1>3. sentChunks[w] \in Nat
  BY DEF HttpTypes
<1>4. ~Rests(c)
  BY <1>1 DEF Rests
<1>5. CASE Owes(c)
  <2>1. Serves(w, c, Done(c)) /\ sentChunks[w] = 0
    BY <1>1, <1>2, <1>5 DEF Owes
  <2> QED
    BY <1>5, <2>1 DEF Serves
<1>6. CASE Streams(c)
  <2>1. Serves(w, c, Done(c)) /\ sentChunks[w] > 0
    BY <1>2, <1>6 DEF Streams
  <2> QED
    BY <1>3, <1>6, <2>1 DEF Serves
<1> QED
  BY <1>4, <1>5, <1>6 DEF Writing

(* A frame that is posted goes behind all others. *)
LEMMA Behind ==
  ASSUME NEW s \in Seq(Frame), NEW t \in Seq(Frame), NEW f \in Frame
  PROVE  s \o Append(t, f) = Append(s \o t, f)
<1>1. <<f>> \in Seq(Frame) /\ s \o t \in Seq(Frame)
  BY ConcatProperties
<1>2. Append(t, f) = t \o <<f>> /\ Append(s \o t, f) = (s \o t) \o <<f>>
  BY <1>1, AppendIsConcat
<1>3. s \o (t \o <<f>>) = (s \o t) \o <<f>>
  BY <1>1, ConcatAssociative
<1> QED
  BY <1>2, <1>3

(* The frame goes behind what the loop has to write already.               *)
LEMMA Posted ==
  ASSUME HttpTypes, NEW c \in Conn, NEW f \in Frame, NEW n \in Nat,
         pending'[c] = Append(pending[c], f), wire'[c] = wire[c],
         InTurn(Frames(c)), NoneBeyond(Frames(c), n),
         Follows(Newest(Frames(c)), f), f.req <= n
  PROVE  /\ InTurn(Frames(c)') /\ NoneBeyond(Frames(c)', n)
         /\ Newest(Frames(c)') = f
<1>1. wire[c] \in Seq(Frame) /\ pending[c] \in Seq(Frame) /\ <<f>> \in Seq(Frame)
  BY DEF HttpTypes
<1>2. PICK F : F = Frames(c)
  OBVIOUS
<1>3. F \in Seq(Frame)
  BY <1>1, <1>2, ConcatProperties DEF Frames
<1>4. Frames(c)' = Append(F, f)
  <2>1. Frames(c)' = wire[c] \o Append(pending[c], f)
    BY DEF Frames
  <2>2. wire[c] \o Append(pending[c], f) = Append(wire[c] \o pending[c], f)
    BY <1>1, Behind
  <2> QED
    BY <1>2, <2>1, <2>2 DEF Frames
<1> QED
  BY <1>2, <1>3, <1>4, OneMore

(* Frame f is on its way to d. *)
Posts(d, f) ==
  /\ d \in Conn /\ f \in Frame /\ pending' \in [Conn -> Seq(Frame)]
  /\ pending'[d] = Append(pending[d], f)
  /\ \A c \in Conn : c # d => pending'[c] = pending[c]

(* A worker that posts a frame changes its connection's pending frames only. *)
LEMMA PostTypes ==
  ASSUME HttpTypes, PoolTypes, NEW w \in Worker, worker[w] = "busy",
         NEW part \in {"headers", "chunk", "end", "error"}, Post(w, part)
  PROVE  Posts(running[w][1], [req |-> running[w][2], part |-> part])
<1>1. PICK d, f : d = running[w][1] /\ f = [req |-> running[w][2], part |-> part]
  OBVIOUS
<1>2. running[w] \in Conn \X Nat
  BY DEF PoolTypes, Task
<1>3. d \in Conn /\ running[w][2] \in Nat
  BY <1>1, <1>2
<1>4. f \in Frame
  BY <1>1, <1>3 DEF Frame
<1>5. pending' = [pending EXCEPT ![d] = Append(pending[d], f)]
  BY <1>1 DEF Post
<1>6. pending \in [Conn -> Seq(Frame)] /\ Append(pending[d], f) \in Seq(Frame)
  BY <1>3, <1>4, AppendProperties DEF HttpTypes
<1>7. Posts(d, f)
  BY <1>3, <1>4, <1>5, <1>6 DEF Posts
<1> QED
  BY <1>1, <1>7

(* A worker's step concerns no connection but the one of its task.         *)
LEMMA OthersServed ==
  ASSUME NEW w \in Worker, worker[w] = "busy", NEW c, NEW n, running[w][1] # c,
         \A v \in Worker : v # w => sentChunks'[v] = sentChunks[v],
         PoolTypes, UNCHANGED tpvars \/ Finish(w)
  PROVE  PoolKeeps(c, n)
<1>1. \A v \in Worker : Serves(v, c, n) => v # w /\ sentChunks'[v] = sentChunks[v]
  BY DEF Serves
<1>2. CASE UNCHANGED tpvars
  <2>1. /\ NoTask(c) => NoTask(c)'
        /\ Waits(c, n) => Waits(c, n)'
        /\ \A v \in Worker : Serves(v, c, n) => Serves(v, c, n)'
    BY <1>2, PoolStays DEF tpvars
  <2> QED
    BY <1>1, <2>1 DEF PoolKeeps
<1>3. CASE Finish(w)
  <2>1. /\ NoTask(c) => NoTask(c)'
        /\ Waits(c, n) => Waits(c, n)'
        /\ \A v \in Worker : Serves(v, c, n) =>
             IF v = w THEN NoTask(c)' ELSE Serves(v, c, n)'
    BY <1>3, PoolFinishes
  <2> QED
    BY <1>1, <2>1 DEF PoolKeeps
<1> QED
  BY <1>2, <1>3

(* What a worker posts is of a request that a handler was called with.     *)
LEMMA PostIsFramed ==
  ASSUME HttpTypes, NEW d \in Conn, NEW f \in Frame, Framed(d), f.req <= Done(d),
         pending'[d] = Append(pending[d], f), wire'[d] = wire[d], seen'[d] = seen[d],
         link'[d] = link[d]
  PROVE  Framed(d)'
<1>1. PICK n, s, t : n = Done(d) /\ s = pending[d] /\ t = Append(s, f)
  OBVIOUS
<1>2. s \in Seq(Frame) /\ Done(d)' = n
  BY <1>1 DEF HttpTypes, Done
<1>3. /\ Len(s) \in Nat /\ Len(t) = Len(s) + 1 /\ t[Len(s) + 1] = f
      /\ \A i \in 1..Len(s) : t[i] = s[i]
  BY <1>1, <1>2, AppendProperties
<1>4. NoneBeyond(s, n) => NoneBeyond(t, n)
  BY <1>1, <1>3 DEF NoneBeyond
<1> QED
  BY <1>1, <1>2, <1>4 DEF Framed

(* The worker sends the headers of its stream: it owned the one unanswered *)
(* request.                                                                *)
LEMMA StreamBeginsIsSafe ==
  ASSUME IInv, NEW w \in Worker, StreamBegins(w)
  PROVE  IInv'
<1>1. /\ HttpTypes /\ PoolTypes /\ NoTaskStranded /\ worker[w] = "busy"
      /\ sentChunks[w] = 0 /\ sentChunks' = [sentChunks EXCEPT ![w] = 1]
      /\ sentChunks \in [Worker -> Nat]
      /\ UNCHANGED <<tpvars, asked, transit, buf, context, link, wire, seen>>
  BY DEF IInv, StreamBegins, HttpTypes
<1>2. PICK d, m : d = running[w][1] /\ m = running[w][2]
  OBVIOUS
<1>3. CASE link[d] # "open"
  <2>1. pending' = pending
    BY <1>2, <1>3 DEF StreamBegins
  <2>2. HttpTypes'
    BY <1>1, <2>1 DEF HttpTypes
  <2>3. \A c : Aside(c)
    BY <1>1, <2>1 DEF Aside
  <2>4. ASSUME NEW c \in Conn PROVE ConnInv(c)'
    <3>1. CASE c = d
      <4>1. Reading(c)' /\ Heard(c)' /\ Asked(c)'
        BY <2>3, BytesKept DEF IInv, ConnInv, Aside, Answered
      <4>2. Framed(c)' /\ (c \notin Garbled => Writing(c)')
        BY <1>1, <1>3, <3>1 DEF IInv, ConnInv, Framed, Writing
      <4> QED
        BY <4>1, <4>2 DEF ConnInv
    <3>2. CASE c # d
      <4>1. PoolKeeps(c, Done(c))
        BY <1>1, <1>2, <3>2, OthersServed
      <4> QED
        BY <2>3, <4>1, AsideIsSafe DEF IInv
    <3> QED
      BY <3>1, <3>2
  <2>5. /\ PoolTypes' /\ NoTaskStranded'
        /\ \A v \in Worker : sentChunks'[v] > 0 => worker'[v] = "busy"
    BY <1>1 DEF IInv, PoolTypes, NoTaskStranded, tpvars
  <2>6. KnownTasks'
    BY <1>1, <2>2, KnownSame DEF IInv
  <2> QED
    BY <2>2, <2>4, <2>5, <2>6 DEF IInv
<1>4. CASE link[d] = "open"
  <2>1. Post(w, "headers")
    BY <1>2, <1>4 DEF StreamBegins
  <2>2. PICK f : f = [req |-> m, part |-> "headers"]
    OBVIOUS
  <2>3. /\ d \in Conn /\ f \in Frame /\ pending' \in [Conn -> Seq(Frame)]
        /\ pending'[d] = Append(pending[d], f)
        /\ \A c \in Conn : c # d => pending'[c] = pending[c]
    <3>1. Posts(d, f)
      BY <1>1, <1>2, <2>1, <2>2, PostTypes
    <3> QED
      BY <3>1 DEF Posts
  <2>4. HttpTypes'
    BY <1>1, <2>3 DEF HttpTypes
  <2>5. ASSUME NEW c \in Conn, c # d PROVE ConnInv(c)'
    <3>1. Aside(c)
      BY <1>1, <2>3, <2>5 DEF Aside
    <3>2. PoolKeeps(c, Done(c))
      BY <1>1, <1>2, <2>5, OthersServed
    <3> QED
      BY <3>1, <3>2, AsideIsSafe DEF IInv
  <2>6. ConnInv(d)'
    <3>1. Reading(d)' /\ Heard(d)' /\ Asked(d)'
      BY <1>1, <2>3, BytesKept DEF IInv, ConnInv, Answered
    <3>2. Framed(d)'
      <4>1. m <= Done(d) /\ f.req = m
        BY <1>1, <1>2, <2>2 DEF IInv, KnownTasks
      <4> QED
        BY <1>1, <2>3, <4>1, PostIsFramed DEF IInv, ConnInv
    <3>3. ASSUME d \notin Garbled PROVE Writing(d)'
      <4>1. PICK n : n = Done(d)
        OBVIOUS
      <4>2. Writing(d)
        BY <2>3, <3>3 DEF IInv, ConnInv
      <4>3. Serves(w, d, n) /\ m = n /\ Owes(d)
        BY <1>1, <1>2, <1>4, <2>3, <4>1, <4>2, MyTask
      <4>4. n \in Nat /\ n > 0 /\ f.req = n /\ f.part = "headers"
        BY <1>1, <2>2, <2>3, <4>1, <4>3 DEF Owes, Chatting, Done, HttpTypes
      <4>5. InTurn(Frames(d)) /\ NoneBeyond(Frames(d), n)
        BY <1>4, <4>1, <4>2 DEF Writing
      <4>6. Follows(Newest(Frames(d)), f)
        BY <4>1, <4>3, <4>4 DEF Follows, Owes
      <4>7. /\ InTurn(Frames(d)') /\ NoneBeyond(Frames(d)', n) /\ Newest(Frames(d)') = f
        BY <1>1, <2>3, <4>4, <4>5, <4>6, Posted
      <4>8. Done(d)' = n /\ Chatting(d)'
        BY <1>1, <4>1, <4>3 DEF Done, Chatting, Owes
      <4>9. Serves(w, d, n)' /\ sentChunks'[w] = 1
        BY <1>1, <4>3, PoolStays DEF tpvars
      <4>10. Streams(d)'
        BY <4>4, <4>7, <4>8, <4>9 DEF Streams
      <4> QED
        BY <1>1, <4>2, <4>7, <4>8, <4>10 DEF Writing    <3> QED
      BY <3>1, <3>2, <3>3 DEF ConnInv
  <2>7. /\ PoolTypes' /\ NoTaskStranded'
        /\ \A v \in Worker : sentChunks'[v] > 0 => worker'[v] = "busy"
    BY <1>1 DEF IInv, PoolTypes, NoTaskStranded, tpvars
  <2>8. KnownTasks'
    BY <1>1, <2>4, KnownSame DEF IInv
  <2> QED
    BY <2>4, <2>5, <2>6, <2>7, <2>8 DEF IInv
<1> QED
  BY <1>3, <1>4

(* The next frame of a stream.                                             *)
LEMMA StreamPosts ==
  ASSUME IInv, NEW w \in Worker, worker[w] = "busy", sentChunks[w] > 0,
         NEW part \in {"chunk", "end", "error"}, Post(w, part),
         UNCHANGED <<asked, transit, buf, context, link, wire, seen>>,
         sentChunks' \in [Worker -> Nat], UNCHANGED tpvars \/ Finish(w),
         \A v \in Worker : v # w => sentChunks'[v] = sentChunks[v],
         running[w][1] \notin Garbled =>
           IF part = "chunk" THEN UNCHANGED tpvars /\ sentChunks'[w] > 0 ELSE Finish(w)
  PROVE  HttpTypes' /\ \A c \in Conn : ConnInv(c)'
<1>1. HttpTypes /\ PoolTypes
  BY DEF IInv
<1>2. PICK d, m : d = running[w][1] /\ m = running[w][2]
  OBVIOUS
<1>3. PICK f : f = [req |-> m, part |-> part]
  OBVIOUS
<1>4. /\ d \in Conn /\ f \in Frame /\ pending' \in [Conn -> Seq(Frame)]
      /\ pending'[d] = Append(pending[d], f)
      /\ \A c \in Conn : c # d => pending'[c] = pending[c]
  <2>1. Posts(d, f)
    BY <1>1, <1>2, <1>3, PostTypes
  <2> QED
    BY <2>1 DEF Posts
<1>5. HttpTypes'
  BY <1>1, <1>4 DEF HttpTypes
<1>6. ASSUME NEW c \in Conn, c # d PROVE ConnInv(c)'
  <2>1. Aside(c)
    BY <1>4, <1>6 DEF Aside
  <2>2. PoolKeeps(c, Done(c))
    BY <1>1, <1>2, <1>6, OthersServed
  <2> QED
    BY <2>1, <2>2, AsideIsSafe DEF IInv
<1>7. Framed(d)'
  <2>1. m <= Done(d) /\ f.req = m
    BY <1>2, <1>3 DEF IInv, KnownTasks
  <2> QED
    BY <1>1, <1>4, <2>1, PostIsFramed DEF IInv, ConnInv
<1>8. ASSUME d \notin Garbled PROVE Writing(d)'
  <2>0. Writing(d)
    BY <1>4, <1>8 DEF IInv, ConnInv
  <2>1. CASE link[d] # "open"
    BY <2>0, <2>1 DEF Writing
  <2>2. CASE link[d] = "open"
    <3>1. PICK n : n = Done(d)
      OBVIOUS
    <3>2. Serves(w, d, n) /\ m = n /\ Streams(d)
      BY <1>1, <1>2, <1>4, <2>0, <2>2, <3>1, MyTask
    <3>3. n \in Nat /\ f.req = n /\ f.part = part
      BY <1>1, <1>3, <1>4, <3>1, <3>2 DEF Done, HttpTypes
    <3>4. InTurn(Frames(d)) /\ NoneBeyond(Frames(d), n)
      BY <2>0, <2>2, <3>1 DEF Writing
    <3>5. Follows(Newest(Frames(d)), f)
      BY <3>1, <3>2, <3>3 DEF Follows, Streams
    <3>6. /\ InTurn(Frames(d)') /\ NoneBeyond(Frames(d)', n) /\ Newest(Frames(d)') = f
      BY <1>1, <1>4, <3>3, <3>4, <3>5, Posted
    <3>7. Done(d)' = n /\ Chatting(d)'
      BY <3>1, <3>2 DEF Done, Chatting, Streams
    <3>8. CASE part = "chunk"
      <4>1. Serves(w, d, n)' /\ sentChunks'[w] > 0
        BY <1>2, <1>8, <3>2, <3>8, PoolStays DEF tpvars
      <4>2. Streams(d)'
        BY <3>3, <3>6, <3>7, <3>8, <4>1 DEF Streams
      <4> QED
        BY <2>0, <3>6, <3>7, <4>2 DEF Writing
    <3>9. CASE part # "chunk"
      <4>1. NoTask(d)'
        BY <1>1, <1>2, <1>8, <3>2, <3>9, PoolFinishes
      <4>2. Rests(d)'
        BY <3>3, <3>6, <3>7, <3>9, <4>1 DEF Rests, Complete
      <4> QED
        BY <2>0, <3>6, <3>7, <4>2 DEF Writing
    <3> QED
      BY <3>8, <3>9
  <2> QED
    BY <2>1, <2>2
<1>9. ConnInv(d)'
  <2>1. Reading(d)' /\ Heard(d)' /\ Asked(d)'
    BY <1>4, BytesKept DEF IInv, ConnInv, Answered
  <2> QED
    BY <1>7, <1>8, <2>1 DEF ConnInv
<1> QED
  BY <1>5, <1>6, <1>9

(* The worker sends a chunk. *)
LEMMA StreamGoesOnIsSafe ==
  ASSUME IInv, NEW w \in Worker, StreamGoesOn(w)
  PROVE  IInv'
<1>1. /\ sentChunks \in [Worker -> Nat] /\ sentChunks[w] > 0 /\ worker[w] = "busy"
      /\ sentChunks' = [sentChunks EXCEPT ![w] = sentChunks[w] + 1]
      /\ UNCHANGED tpvars
      /\ UNCHANGED <<asked, transit, buf, context, link, wire, seen>>
  BY HttpAssumption DEF StreamGoesOn, IInv, HttpTypes
<1>2. PICK part \in {"chunk", "error"} :
        Post(w, part) /\ (running[w][1] \notin Garbled => part = "chunk")
  BY DEF StreamGoesOn
<1>3. /\ sentChunks' \in [Worker -> Nat] /\ sentChunks'[w] > 0
      /\ \A v \in Worker : v # w => sentChunks'[v] = sentChunks[v]
  BY <1>1
<1>4. HttpTypes' /\ \A c \in Conn : ConnInv(c)'
  BY <1>1, <1>2, <1>3, StreamPosts
<1>5. /\ PoolTypes' /\ NoTaskStranded'
      /\ \A v \in Worker : sentChunks'[v] > 0 => worker'[v] = "busy"
  BY <1>1, <1>3 DEF IInv, PoolTypes, NoTaskStranded, tpvars
<1>6. KnownTasks'
  BY <1>1, <1>4, KnownSame DEF IInv
<1> QED
  BY <1>4, <1>5, <1>6 DEF IInv

(* The task fails with a text that is not UTF-8: nothing is sent. *)
LEMMA SilentStop ==
  ASSUME IInv, NEW w \in Worker, worker[w] = "busy", Finish(w), running[w][1] \in Garbled,
         UNCHANGED <<asked, transit, buf, context, link, wire, seen, pending>>,
         sentChunks' \in [Worker -> Nat],
         \A v \in Worker : v # w => sentChunks'[v] = sentChunks[v]
  PROVE  HttpTypes' /\ \A c \in Conn : ConnInv(c)'
<1>1. HttpTypes /\ PoolTypes /\ HttpTypes'
  BY DEF IInv, HttpTypes
<1>2. PICK d : d = running[w][1]
  OBVIOUS
<1>3. \A c \in Conn : Aside(c)
  BY DEF Aside
<1>4. ASSUME NEW c \in Conn, c # d PROVE ConnInv(c)'
  <2>1. PoolKeeps(c, Done(c))
    BY <1>1, <1>2, <1>4, OthersServed
  <2> QED
    BY <1>3, <2>1, AsideIsSafe DEF IInv
<1>5. ASSUME NEW c \in Conn, c = d PROVE ConnInv(c)'
  <2>1. Reading(c)' /\ Heard(c)' /\ Asked(c)'
    BY <1>3, BytesKept DEF IInv, ConnInv, Aside, Answered
  <2>2. Framed(c)'
    BY DEF IInv, ConnInv, Framed, Done
  <2> QED
    BY <1>2, <1>5, <2>1, <2>2 DEF ConnInv
<1> QED
  BY <1>1, <1>4, <1>5

(* The worker sends the end of its stream or the error, and its connection *)
(* is at rest; or it sends nothing, where a text may not be UTF-8.         *)
LEMMA StreamStopsIsSafe ==
  ASSUME IInv, NEW w \in Worker, StreamStops(w)
  PROVE  IInv'
<1>1. /\ sentChunks \in [Worker -> Nat] /\ sentChunks[w] > 0 /\ worker[w] = "busy"
      /\ sentChunks' = [sentChunks EXCEPT ![w] = 0] /\ Finish(w)
      /\ UNCHANGED <<asked, transit, buf, context, link, wire, seen>>
  BY DEF StreamStops, IInv, HttpTypes
<1>2. /\ sentChunks' \in [Worker -> Nat] /\ sentChunks'[w] = 0
      /\ \A v \in Worker : v # w => sentChunks'[v] = sentChunks[v]
  BY <1>1
<1>3. HttpTypes' /\ \A c \in Conn : ConnInv(c)'
  <2>1. ASSUME NEW part \in {"end", "error"}, Post(w, part)
        PROVE  HttpTypes' /\ \A c \in Conn : ConnInv(c)'
    BY <1>1, <1>2, <2>1, StreamPosts
  <2>2. ASSUME running[w][1] \in Garbled, UNCHANGED pending
        PROVE  HttpTypes' /\ \A c \in Conn : ConnInv(c)'
    BY <1>1, <1>2, <2>2, SilentStop
  <2> QED
    BY <2>1, <2>2 DEF StreamStops
<1>4. PoolTypes' /\ NoTaskStranded'
  BY <1>1, FinishIsSafe DEF IInv
<1>5. \A v \in Worker : sentChunks'[v] > 0 => worker'[v] = "busy"
  BY <1>1, <1>2 DEF IInv, Finish, PoolTypes
<1>6. KnownTasks'
  BY <1>1, <1>3, KnownSame DEF IInv
<1> QED
  BY <1>3, <1>4, <1>5, <1>6 DEF IInv

-----------------------------------------------------------------------------
(* The loop.                                                               *)
LEMMA PoolSame ==
  ASSUME UNCHANGED <<tpvars, sentChunks>>, NEW c, NEW n
  PROVE  PoolKeeps(c, n)
<1>1. /\ NoTask(c) => NoTask(c)'
      /\ Waits(c, n) => Waits(c, n)'
      /\ \A v \in Worker : Serves(v, c, n) => Serves(v, c, n)'
  BY PoolStays DEF tpvars
<1> QED
  BY <1>1 DEF PoolKeeps

(* What goes from the head of one sequence to the end of the other stays   *)
(* in its place.                                                           *)
LEMMA HeadMoves ==
  ASSUME NEW s \in Seq(Frame), NEW t \in Seq(Frame), t # <<>>
  PROVE  Append(s, Head(t)) \o Tail(t) = s \o t
<1>1. PICK f, u : f = Head(t) /\ u = Tail(t)
  OBVIOUS
<1>2. f \in Frame /\ u \in Seq(Frame) /\ <<f>> \in Seq(Frame) /\ t = <<f>> \o u
  BY <1>1, HeadTailProperties
<1>3. Append(s, f) = s \o <<f>>
  BY <1>2, AppendIsConcat
<1>4. (s \o <<f>>) \o u = s \o (<<f>> \o u)
  BY <1>2, ConcatAssociative
<1> QED
  BY <1>1, <1>2, <1>3, <1>4

(* What the loop writes is of a request that a handler was called with.    *)
LEMMA FunctorIsFramed ==
  ASSUME HttpTypes, NEW d \in Conn, Framed(d), pending[d] # <<>>,
         NEW f, f = Head(pending[d]),
         wire'[d] = (IF link[d] = "open" THEN Append(wire[d], f) ELSE wire[d]),
         pending'[d] = Tail(pending[d]), link' = link, seen' = seen
  PROVE  Framed(d)'
<1>1. PICK n, s, t : n = Done(d) /\ s = pending[d] /\ t = wire[d]
  OBVIOUS
<1>2. s \in Seq(Frame) /\ t \in Seq(Frame) /\ Done(d)' = n
  BY <1>1 DEF HttpTypes, Done
<1>3. /\ Len(s) \in Nat /\ Len(s) > 0 /\ Len(Tail(s)) = Len(s) - 1 /\ f = s[1] /\ f \in Frame
      /\ \A i \in 1..Len(Tail(s)) : Tail(s)[i] = s[i + 1]
  BY <1>1, <1>2, HeadTailProperties
<1>4. PICK v : v = Append(t, f)
  OBVIOUS
<1>5. /\ Len(t) \in Nat /\ Len(v) = Len(t) + 1 /\ v[Len(t) + 1] = f
      /\ \A i \in 1..Len(t) : v[i] = t[i]
  BY <1>2, <1>3, <1>4, AppendProperties
<1>6. ASSUME NoneBeyond(s, n) PROVE f.req <= n /\ NoneBeyond(Tail(s), n)
  <2>1. 1 \in 1..Len(s) /\ \A i \in 1..Len(Tail(s)) : i + 1 \in 1..Len(s)
    BY <1>3
  <2> QED
    BY <1>3, <1>6, <2>1 DEF NoneBeyond
<1>7. ASSUME NoneBeyond(t, n), f.req <= n PROVE NoneBeyond(v, n)
  BY <1>5, <1>7 DEF NoneBeyond
<1> QED
  BY <1>1, <1>2, <1>4, <1>6, <1>7 DEF Framed

(* The loop writes what a worker has posted, if the client is still there. *)
LEMMA DoPendingFunctorIsSafe ==
  ASSUME IInv, NEW d \in Conn, DoPendingFunctor(d)
  PROVE  IInv'
<1>1. /\ HttpTypes /\ pending[d] # <<>>
      /\ pending' = [pending EXCEPT ![d] = Tail(pending[d])]
      /\ UNCHANGED <<tpvars, asked, transit, buf, context, link, seen, sentChunks>>
  BY DEF IInv, DoPendingFunctor
<1>2. PICK f : f = Head(pending[d])
  OBVIOUS
<1>3. /\ f \in Frame /\ Tail(pending[d]) \in Seq(Frame) /\ wire[d] \in Seq(Frame)
      /\ pending[d] \in Seq(Frame)
  BY <1>1, <1>2, HeadTailProperties DEF HttpTypes
<1>4. f = [req |-> f.req, part |-> f.part]
  BY <1>3 DEF Frame
<1>5. wire' = IF link[d] = "open" THEN [wire EXCEPT ![d] = Append(wire[d], f)] ELSE wire
  BY <1>2, <1>4 DEF DoPendingFunctor, Write
<1>6. /\ wire'[d] = (IF link[d] = "open" THEN Append(wire[d], f) ELSE wire[d])
      /\ pending'[d] = Tail(pending[d])
      /\ \A c \in Conn : c # d => wire'[c] = wire[c] /\ pending'[c] = pending[c]
      /\ wire' \in [Conn -> Seq(Frame)] /\ pending' \in [Conn -> Seq(Frame)]
  BY <1>1, <1>3, <1>5, AppendProperties DEF HttpTypes
<1>7. HttpTypes'
  BY <1>1, <1>6 DEF HttpTypes
<1>8. ASSUME NEW c \in Conn, c # d PROVE ConnInv(c)'
  <2>1. Aside(c)
    BY <1>1, <1>6, <1>8 DEF Aside
  <2> QED
    BY <1>1, <2>1, PoolSame, AsideIsSafe DEF IInv
<1>9. ConnInv(d)'
  <2>1. \A i : Answered(d, i) => Answered(d, i)'
    <3>1. CASE link[d] = "open"
      <4>1. /\ Len(wire[d]) \in Nat /\ Len(wire'[d]) = Len(wire[d]) + 1
            /\ \A i \in 1..Len(wire[d]) : wire'[d][i] = wire[d][i]
        BY <1>3, <1>6, <3>1, AppendProperties
      <4>2. \A i \in 1..Len(wire[d]) : i \in 1..Len(wire'[d]) /\ wire'[d][i] = wire[d][i]
        BY <4>1
      <4> QED
        BY <4>2 DEF Answered
    <3>2. CASE link[d] # "open"
      BY <1>6, <3>2 DEF Answered
    <3> QED
      BY <3>1, <3>2
  <2>2. Reading(d)' /\ Heard(d)' /\ Asked(d)'
    BY <1>1, <2>1, BytesKept DEF IInv, ConnInv
  <2>3. Framed(d)'
    BY <1>1, <1>2, <1>3, <1>6, FunctorIsFramed DEF IInv, ConnInv
  <2>4. CASE d \in Garbled
    BY <2>2, <2>3, <2>4 DEF ConnInv
  <2>5. CASE d \notin Garbled /\ link[d] # "open"
    <3>1. Writing(d)'
      BY <1>1, <1>6, <2>5 DEF IInv, ConnInv, Writing
    <3> QED
      BY <2>2, <2>3, <3>1 DEF ConnInv
  <2>6. CASE d \notin Garbled /\ link[d] = "open"
    <3>0. Writing(d)
      BY <2>6 DEF IInv, ConnInv
    <3>1. Frames(d)' = Frames(d)
      <4>1. Append(wire[d], f) \o Tail(pending[d]) = wire[d] \o pending[d]
        BY <1>1, <1>2, <1>3, HeadMoves
      <4> QED
        BY <1>6, <2>6, <4>1 DEF Frames
    <3>2. Chatting(d) /\ Chatting(d)' /\ Done(d)' = Done(d) /\ ~Owes(d)
      BY <1>1, <3>0, <2>6 DEF Writing, Chatting, Done, Owes
    <3>3. PICK n : n = Done(d)
      OBVIOUS
    <3>4. PoolKeeps(d, n)
      BY <1>1, PoolSame
    <3>5. Rests(d) => Rests(d)'
      BY <3>1, <3>2, <3>4 DEF Rests, PoolKeeps
    <3>6. Streams(d) => Streams(d)'
      BY <3>1, <3>2, <3>3, <3>4 DEF Streams, PoolKeeps
    <3>7. InTurn(wire'[d])
      <4>1. /\ Frames(d)' = wire'[d] \o pending'[d]
            /\ wire'[d] \in Seq(Frame) /\ pending'[d] \in Seq(Frame)
        BY <1>6 DEF Frames
      <4>2. InTurn(wire'[d] \o pending'[d])
        BY <3>0, <2>6, <3>1, <4>1 DEF Writing
      <4> QED
        BY <4>1, <4>2, BeginningInTurn
    <3>8. Writing(d)'
      BY <1>1, <3>0, <2>6, <3>1, <3>2, <3>5, <3>6, <3>7 DEF Writing
    <3> QED
      BY <2>2, <2>3, <3>8 DEF ConnInv
  <2> QED
    BY <2>4, <2>5, <2>6
<1>10. /\ PoolTypes' /\ NoTaskStranded'
       /\ \A v \in Worker : sentChunks'[v] > 0 => worker'[v] = "busy"
  BY <1>1 DEF IInv, PoolTypes, NoTaskStranded, tpvars
<1>11. KnownTasks'
  BY <1>1, <1>7, KnownSame DEF IInv
<1> QED
  BY <1>7, <1>8, <1>9, <1>10, <1>11 DEF IInv

(* The connection ends.                                                    *)
LEMMA LeaveIsSafe ==
  ASSUME IInv, NEW d \in Conn, Leave(d)
  PROVE  IInv'
<1>1. HttpTypes'
  BY DEF IInv, Leave, HttpTypes, NewContext, NoRequest, Req
<1>2. UNCHANGED <<tpvars, asked, pending, wire, seen, sentChunks>>
  BY DEF Leave
<1>3. ASSUME NEW c \in Conn, c # d PROVE ConnInv(c)'
  <2>1. Aside(c)
    BY <1>3 DEF Aside, Leave, IInv, HttpTypes
  <2> QED
    BY <1>2, <2>1, PoolSame, AsideIsSafe DEF IInv
<1>4. ConnInv(d)'
  <2>1. link'[d] = "gone" /\ ConnInv(d)
    BY DEF Leave, IInv, HttpTypes
  <2> QED
    BY <1>2, <2>1 DEF ConnInv, Reading, Heard, Asked, Framed, Writing, Done, Whole, Answered
<1>5. /\ PoolTypes' /\ NoTaskStranded'
      /\ \A v \in Worker : sentChunks'[v] > 0 => worker'[v] = "busy"
  BY <1>2 DEF IInv, PoolTypes, NoTaskStranded, tpvars
<1>6. KnownTasks'
  BY <1>1, <1>2, KnownSame DEF IInv
<1> QED
  BY <1>1, <1>3, <1>4, <1>5, <1>6 DEF IInv

(* The process ends, and every connection and task with it. *)
LEMMA AbortIsSafe ==
  ASSUME IInv, NEW d \in Conn, NEW p \in Parsing, Abort(d, p)
  PROVE  IInv'
<1>1. UNCHANGED <<asked, wire, seen>> /\ p.request \in Req
  BY DEF Abort, Parsing
<1>2. HttpTypes'
  <2>1. NewContext \in [state : {"line", "headers", "body", "aborted"}, request : Req]
    BY DEF NewContext, NoRequest, Req
  <2>2. context' \in [Conn -> [state : {"line", "headers", "body", "aborted"}, request : Req]]
    BY <1>1, <2>1 DEF Abort
  <2> QED
    BY <1>1, <2>2 DEF IInv, Abort, HttpTypes
<1>3. /\ tasks' = <<>> /\ owed' = 0 /\ worker' = [w \in Worker |-> "asleep"]
      /\ running' = [w \in Worker |-> Nothing] /\ sentChunks' = [w \in Worker |-> 0]
  BY DEF Abort
<1>4. PoolTypes'
  BY <1>3 DEF PoolTypes
<1>5. NoTaskStranded'
  <2>1. Cardinality(Looking') \in Nat
    BY LookingIsFinite, FS_CardinalityType
  <2> QED
    BY <1>3, <2>1 DEF NoTaskStranded, Looking
<1>6. KnownTasks' /\ \A w \in Worker : ~(sentChunks'[w] > 0)
  BY <1>3 DEF KnownTasks
<1>7. ASSUME NEW c \in Conn PROVE ConnInv(c)'
  <2>1. link'[c] = "gone"
    BY DEF Abort
  <2> QED
    BY <1>1, <2>1
       DEF IInv, ConnInv, Reading, Heard, Asked, Framed, Writing, Done, Whole, Answered
<1> QED
  BY <1>2, <1>4, <1>5, <1>6, <1>7 DEF IInv

-----------------------------------------------------------------------------
(* The client.                                                             *)
Joins(s, t, u) ==
  /\ u \in Seq(Frame) /\ Len(u) = Len(s) + Len(t)
  /\ Len(s) \in Nat /\ Len(t) \in Nat /\ (Len(t) = 0 => t = <<>>)
  /\ \A i \in 1..Len(s) : i \in 1..Len(u) /\ u[i] = s[i]

(* What a sequence that is made of two has at each place. *)
LEMMA Joined ==
  ASSUME NEW s \in Seq(Frame), NEW t \in Seq(Frame)
  PROVE  Joins(s, t, s \o t)
<1> QED
  BY ConcatProperties, EmptySeq DEF Joins

(* The frames of a connection are those on the wire, then those that wait  *)
(* for the loop.                                                           *)
LEMMA FramesOf ==
  ASSUME HttpTypes, NEW c \in Conn
  PROVE  Joins(wire[c], pending[c], Frames(c))
<1>1. wire[c] \in Seq(Frame) /\ pending[c] \in Seq(Frame)
  BY DEF HttpTypes
<1> QED
  BY <1>1, Joined DEF Frames

(* What a client of an open connection has the answer to, the server has   *)
(* taken.                                                                  *)
LEMMA AnsweredIsDone ==
  ASSUME HttpTypes, NEW c \in Conn, Writing(c), link[c] = "open",
         NEW n, Answered(c, n), NEW F, F = Frames(c)
  PROVE  \E i \in 1..Len(F) : /\ i <= Len(wire[c]) /\ F[i].req = n
                              /\ F[i].part \in Complete /\ n <= Done(c)
<1>1. PICK s, t : s = wire[c] /\ t = pending[c]
  OBVIOUS
<1>2. PICK i \in 1..Len(s) : s[i].req = n /\ s[i].part \in Complete
  BY <1>1 DEF Answered
<1>3. Len(s) \in Nat /\ i \in 1..Len(F) /\ F[i] = s[i]
  <2>1. Joins(s, t, F)
    BY <1>1, FramesOf
  <2> QED
    BY <2>1 DEF Joins
<1>4. F[i].req <= Done(c)
  BY <1>3 DEF Writing, NoneBeyond
<1> QED
  BY <1>1, <1>2, <1>3, <1>4

(* The same where texts may not be UTF-8. *)
LEMMA AnsweredIsTaken ==
  ASSUME HttpTypes, NEW c \in Conn, Framed(c), link[c] = "open", NEW n, Answered(c, n)
  PROVE  n <= Done(c)
<1> QED
  BY DEF Framed, NoneBeyond, Answered

(* When the latest request has its answer, nothing is left to write for    *)
(* the connection.                                                         *)
LEMMA Settled ==
  ASSUME HttpTypes, NEW c \in Conn, Writing(c), link[c] = "open",
         Chatting(c) => Answered(c, Done(c))
  PROVE  pending[c] = <<>> /\ Rests(c)
<1>1. CASE ~Chatting(c)
  BY <1>1 DEF Writing, Owes, Streams
<1>2. CASE Chatting(c)
  <2>1. PICK n, F, s, t : n = Done(c) /\ F = Frames(c) /\ s = wire[c] /\ t = pending[c]
    OBVIOUS
  <2>2. PICK i \in 1..Len(F) : i <= Len(s) /\ F[i].req = n /\ F[i].part \in Complete
    BY <1>2, <2>1, AnsweredIsDone
  <2>3. /\ F \in Seq(Frame) /\ Len(F) = Len(s) + Len(t)
        /\ Len(s) \in Nat /\ Len(t) \in Nat /\ (Len(t) = 0 => t = <<>>)
    <3>1. Joins(s, t, F)
      BY <2>1, FramesOf
    <3> QED
      BY <3>1 DEF Joins
  <2>4. n \in Nat /\ InTurn(F) /\ NoneBeyond(F, n)
    BY <2>1 DEF Writing, HttpTypes, Done
  <2>5. i = Len(F) /\ Newest(F) = F[i]
    BY <2>2, <2>3, <2>4, LastIsLast
  <2>6. t = <<>>
    BY <2>2, <2>3, <2>5
  <2>7. Newest(F).part \in Complete /\ Newest(F).req = n
    BY <2>2, <2>5
  <2>8. n # n - 1
    BY <2>4
  <2>9. ~Owes(c)
    BY <2>1, <2>7, <2>8 DEF Owes
  <2>10. ~Streams(c)
    BY <2>1, <2>7 DEF Streams, Complete
  <2> QED
    BY <2>1, <2>6, <2>9, <2>10 DEF Writing
<1> QED
  BY <1>1, <1>2

(* The pieces of a new request link to what was asked before.              *)
LEMMA LinkedGrows ==
  ASSUME NEW c, NEW a \in Seq(Kinds), asked[c] = a, NEW kind \in Kinds,
         asked'[c] = Append(a, kind), NEW s \in Seq(Piece), Linked(c, s),
         NEW t, t = Pieces(kind, Len(a) + 1)
  PROVE  Linked(c, s \o t)'
<1>1. PICK n, b, u : n = Len(a) /\ b = Append(a, kind) /\ u = s \o t
  OBVIOUS
<1>2. /\ n \in Nat /\ Len(b) = n + 1 /\ b[n + 1] = kind
      /\ \A i \in 1..n : b[i] = a[i]
  BY <1>1, AppendProperties
<1>3. /\ t \in Seq(Piece) /\ Len(t) \in 2..4 /\ t[1] = <<FirstPart(kind), n + 1>>
      /\ \A i \in 1..Len(t) :
           /\ t[i][2] = n + 1
           /\ NextPart(kind, t[i][1]) = IF i = Len(t) THEN "none" ELSE t[i + 1][1]
           /\ i < Len(t) => t[i + 1] = <<t[i + 1][1], n + 1>>
  BY SMTT(20), <1>1, <1>2, PiecesInOrder
<1>4. /\ Len(u) = Len(s) + Len(t) /\ Len(s) \in Nat
      /\ \A i \in 1..Len(s) : u[i] = s[i]
      /\ \A i \in 1..Len(t) : Len(s) + i \in 1..Len(u) /\ u[Len(s) + i] = t[i]
  BY <1>1, <1>3, ConcatProperties
<1>5. \A i \in 1..Len(s) : s[i][2] \in 1..n
  BY <1>1 DEF Linked
<1>6. \A i \in 1..Len(u) : i \in 1..Len(s) \/ \E j \in 1..Len(t) : i = Len(s) + j
  <2>1. SUFFICES ASSUME NEW i \in 1..Len(u), i \notin 1..Len(s)
                 PROVE  \E j \in 1..Len(t) : i = Len(s) + j
    OBVIOUS
  <2>2. i - Len(s) \in 1..Len(t) /\ i = Len(s) + (i - Len(s))
    BY <1>3, <1>4, <2>1
  <2> QED
    BY <2>2
<1>7. ASSUME NEW i \in 1..Len(u) PROVE u[i][2] \in 1..(n + 1)
  <2>1. CASE i \in 1..Len(s)
    <3>1. u[i] = s[i] /\ s[i][2] \in 1..n
      BY <1>4, <1>5, <2>1
    <3> QED
      BY <1>2, <3>1
  <2>2. ASSUME NEW j \in 1..Len(t), i = Len(s) + j PROVE u[i][2] \in 1..(n + 1)
    <3>1. u[i] = t[j] /\ t[j][2] = n + 1
      BY <1>3, <1>4, <2>2
    <3> QED
      BY <1>2, <3>1
  <2> QED
    BY <1>6, <2>1, <2>2
<1>8. ASSUME NEW i \in 1..(Len(u) - 1)
      PROVE  u[i + 1] = IF NextPart(b[u[i][2]], u[i][1]) = "none"
                        THEN <<FirstPart(b[u[i][2] + 1]), u[i][2] + 1>>
                        ELSE <<NextPart(b[u[i][2]], u[i][1]), u[i][2]>>
  <2>1. CASE i \in 1..(Len(s) - 1)
    <3>1. i \in 1..Len(s) /\ i + 1 \in 1..Len(s)
      BY <1>4, <2>1
    <3>2. PICK part, m : part = s[i][1] /\ m = s[i][2]
      OBVIOUS
    <3>3. m \in 1..n /\ b[m] = a[m]
      BY <1>2, <1>5, <3>1, <3>2
    <3>4. s[i + 1] = IF NextPart(a[m], part) = "none"
                     THEN <<FirstPart(a[m + 1]), m + 1>> ELSE <<NextPart(a[m], part), m>>
      BY <2>1, <3>2 DEF Linked, After
    <3>5. ASSUME NextPart(a[m], part) = "none" PROVE b[m + 1] = a[m + 1]
      <4>1. s[i + 1][2] = m + 1
        BY <3>4, <3>5
      <4> QED
        BY <1>2, <1>5, <3>1, <4>1
    <3> QED
      BY <1>4, <3>1, <3>2, <3>3, <3>4, <3>5
  <2>2. CASE i = Len(s)
    <3>1. i \in 1..Len(s) /\ u[i] = s[i] /\ s # <<>>
      BY <1>4, <2>2
    <3>2. s[i][2] = n /\ NextPart(a[n], s[i][1]) = "none"
      BY <1>1, <2>2, <3>1 DEF Linked
    <3>3. n \in 1..n
      BY <1>5, <3>1, <3>2
    <3>4. u[i + 1] = t[1]
      BY <1>3, <1>4, <2>2
    <3> QED
      BY <1>2, <1>3, <3>1, <3>2, <3>3, <3>4
  <2>3. CASE i > Len(s)
    <3>1. PICK j : j = i - Len(s)
      OBVIOUS
    <3>2. /\ j \in 1..Len(t) /\ j < Len(t) /\ j + 1 \in 1..Len(t)
          /\ i = Len(s) + j /\ i + 1 = Len(s) + (j + 1)
      BY <1>3, <1>4, <2>3, <3>1
    <3>3. u[i] = t[j] /\ u[i + 1] = t[j + 1]
      BY <1>4, <3>2
    <3>4. t[j][2] = n + 1 /\ NextPart(kind, t[j][1]) = t[j + 1][1]
          /\ t[j + 1] = <<t[j + 1][1], n + 1>>
      BY <1>3, <3>2
    <3>5. t[j + 1][1] # "none"
      <4>1. t[j + 1] \in Piece
        BY <1>3, <3>2
      <4> QED
        BY <4>1 DEF Piece, PartName
    <3>6. PICK part, m : part = u[i][1] /\ m = u[i][2]
      OBVIOUS
    <3>7. m = n + 1 /\ b[m] = kind
      BY <1>2, <3>3, <3>4, <3>6
    <3>8. NextPart(b[m], part) # "none" /\ u[i + 1] = <<NextPart(b[m], part), m>>
      BY <3>3, <3>4, <3>5, <3>6, <3>7
    <3> QED
      BY <3>6, <3>8
  <2> QED
    BY <1>4, <2>1, <2>2, <2>3
<1>9. Len(u) \in 1..Len(u) /\ u[Len(u)] = t[Len(t)] /\ Len(t) \in 1..Len(t)
  BY <1>3, <1>4
<1>10. u[Len(u)][2] = n + 1 /\ NextPart(b[n + 1], u[Len(u)][1]) = "none"
  BY <1>2, <1>3, <1>9
<1>11. asked'[c] = b /\ Len(b) = n + 1
  BY <1>1, <1>2
<1>12. \A i \in 1..(Len(u) - 1) : u[i + 1] = After(c, u[i])'
  BY <1>8, <1>11 DEF After
<1>13. Linked(c, u)'
  BY <1>7, <1>10, <1>11, <1>12 DEF Linked
<1> QED
  BY <1>1, <1>13

(* and the parser still waits for the next of them.                        *)
LEMMA AwaitsGrows ==
  ASSUME NEW c, NEW a \in Seq(Kinds), asked[c] = a, NEW kind \in Kinds,
         asked'[c] = Append(a, kind), NEW s \in Seq(Piece), Linked(c, s),
         NEW t, t = Pieces(kind, Len(a) + 1),
         NEW state, NEW r, NEW m \in Nat, Awaits(c, state, r, m, s, 1)
  PROVE  Awaits(c, state, r, m, s \o t, 1)'
<1>1. PICK n, b, u : n = Len(a) /\ b = Append(a, kind) /\ u = s \o t
  OBVIOUS
<1>2. /\ n \in Nat /\ Len(b) = n + 1 /\ b[n + 1] = kind /\ \A i \in 1..n : b[i] = a[i]
  BY <1>1, AppendProperties
<1>3. t \in Seq(Piece) /\ Len(t) \in 2..4 /\ t[1] = <<FirstPart(kind), n + 1>>
  BY <1>1, <1>2, PiecesInOrder
<1>4. /\ Len(u) = Len(s) + Len(t) /\ Len(s) \in Nat /\ 1 <= Len(u)
      /\ \A i \in 1..Len(s) : u[i] = s[i]
      /\ Len(s) = 0 => u[1] = t[1]
  BY <1>1, <1>3, ConcatProperties
<1>5. CASE Len(s) = 0
  <2>1. state = "line" /\ m = n + 1 /\ r.line = 0 /\ r.header = 0 /\ r.body < m
    <3>1. state = "line" /\ m = n + 1 /\ Begun(c, state, r, m)
      BY <1>1, <1>5 DEF Awaits
    <3>2. m \notin 1..Len(asked[c])
      BY <1>1, <1>2, <3>1
    <3> QED
      BY <3>1, <3>2 DEF Begun
  <2>2. u[1] = <<FirstPart(b[m]), m>>
    BY <1>2, <1>3, <1>4, <1>5, <2>1
  <2> QED
    BY <1>1, <1>4, <2>1, <2>2 DEF Awaits, Begun, Due
<1>6. CASE Len(s) # 0
  <2>1. 1 \in 1..Len(s) /\ s[1] = Due(c, state, r, m) /\ Begun(c, state, r, m)
    BY <1>4, <1>6 DEF Awaits
  <2>2. m = s[1][2]
    <3>1. s[1] = <<FirstPart(a[m]), m>> \/ s[1] = <<"body", m>>
          \/ s[1] = <<IF r.header = 0 THEN NextPart(a[m], "line") ELSE "blank", m>>
      BY <2>1 DEF Begun, Due
    <3> QED
      BY <3>1
  <2>3. b[m] = a[m] /\ m \in 1..Len(a) /\ m \in 1..Len(b)
    BY <1>1, <1>2, <2>1, <2>2 DEF Linked
  <2>4. Begun(c, state, r, m)' /\ Due(c, state, r, m)' = Due(c, state, r, m)
    BY <1>1, <2>1, <2>3 DEF Begun, Due
  <2> QED
    BY <1>1, <1>4, <2>1, <2>4 DEF Awaits
<1> QED
  BY <1>5, <1>6

(* It is the same whether u joins t or what t has joined. *)
Arriving(s, t, u) ==
  /\ s \o (t \o u) = (s \o t) \o u
  /\ s \o t \in Seq(Piece) /\ t \o u \in Seq(Piece)

(* What a client sends goes behind what is under way. *)
LEMMA MoreArrives ==
  ASSUME NEW s \in Seq(Piece), NEW t \in Seq(Piece), NEW u \in Seq(Piece)
  PROVE  Arriving(s, t, u)
<1> QED
  BY ConcatAssociative, ConcatProperties DEF Arriving

(* The client asks: its pieces are linked behind those before them. *)
LEMMA AskIsSafe ==
  ASSUME IInv, NEW d \in Conn, NEW kind \in Wants[d], Ask(d, kind)
  PROVE  IInv'
<1>1. PICK a, n, new : a = asked[d] /\ n = Len(a) /\ new = Pieces(kind, n + 1)
  OBVIOUS
<1>2. /\ HttpTypes /\ ConnInv(d) /\ link[d] = "open" /\ a \in Seq(Kinds) /\ n \in Nat
      /\ kind \in Kinds
      /\ UNCHANGED <<tpvars, buf, context, link, pending, wire, seen, sentChunks>>
  <2>1. Wants[d] \in SUBSET (Good \cup Malformed)
    BY HttpAssumption
  <2>2. kind \in Kinds
    BY <2>1 DEF Kinds
  <2>3. HttpTypes /\ ConnInv(d)
    BY DEF IInv
  <2>4. /\ link[d] = "open"
        /\ UNCHANGED <<tpvars, buf, context, link, pending, wire, seen, sentChunks>>
    BY DEF Ask
  <2>5. a \in Seq(Kinds) /\ n \in Nat
    BY <1>1, <2>3 DEF HttpTypes
  <2> QED
    BY <2>2, <2>3, <2>4, <2>5
<1>3. /\ n > 0 => Answered(d, n) \/ (d \in Hasty /\ a[n] # "chat")
      /\ asked' = [asked EXCEPT ![d] = Append(a, kind)]
      /\ transit' = [transit EXCEPT ![d] = transit[d] \o new]
  BY <1>1 DEF Ask
<1>4. new \in Seq(Piece)
  BY <1>1, <1>2, PiecesInOrder
<1>5. PICK b : b = Append(a, kind)
  OBVIOUS
<1>6. /\ b \in Seq(Kinds) /\ Len(b) = n + 1 /\ b[n + 1] = kind
      /\ \A i \in 1..n : b[i] = a[i]
  BY <1>1, <1>2, <1>5, AppendProperties
<1>7. /\ transit[d] \in Seq(Piece) /\ buf[d] \in Seq(Piece)
      /\ transit[d] \o new \in Seq(Piece)
  <2>1. transit[d] \in Seq(Piece) /\ buf[d] \in Seq(Piece)
    BY <1>2 DEF HttpTypes
  <2> QED
    BY <1>4, <2>1, MoreArrives DEF Arriving
<1>8. /\ asked' \in [Conn -> Seq(Kinds)] /\ asked'[d] = b
      /\ transit' \in [Conn -> Seq(Piece)] /\ transit'[d] = transit[d] \o new
      /\ \A c \in Conn : c # d => asked'[c] = asked[c] /\ transit'[c] = transit[c]
  BY <1>2, <1>3, <1>5, <1>6, <1>7 DEF HttpTypes
<1>9. HttpTypes'
  BY <1>2, <1>8 DEF HttpTypes
<1>10. ASSUME NEW c \in Conn, c # d PROVE ConnInv(c)'
  <2>1. Aside(c)
    BY <1>2, <1>8, <1>10 DEF Aside
  <2> QED
    BY <1>2, <2>1, PoolSame, AsideIsSafe DEF IInv
<1>11. PICK m, s, x : m = Done(d) /\ s = In(d) /\ x = context[d]
  OBVIOUS
<1>12. /\ m \in Nat /\ m <= n /\ Done(d)' = m /\ s \in Seq(Piece)
       /\ In(d)' = s \o new /\ context'[d] = x
  <2>1. m \in Nat /\ m <= n /\ Done(d)' = m /\ context'[d] = x
    BY <1>1, <1>2, <1>11 DEF ConnInv, Heard, Done, HttpTypes
  <2>2. buf[d] \o (transit[d] \o new) = (buf[d] \o transit[d]) \o new
        /\ buf[d] \o transit[d] \in Seq(Piece)
    <3>1. Arriving(buf[d], transit[d], new)
      BY <1>4, <1>7, MoreArrives
    <3> QED
      BY <3>1 DEF Arriving
  <2>3. In(d)' = buf[d] \o (transit[d] \o new)
    BY <1>2, <1>8 DEF In
  <2>4. s = buf[d] \o transit[d]
    BY <1>11 DEF In
  <2> QED
    BY <2>1, <2>2, <2>3, <2>4
<1>13. Reading(d)'
  <2>1. /\ Linked(d, s) /\ Stands(d, x.state, x.request, m + 1, s, 1)
        /\ d \notin Hasty => buf[d] = <<>>
    BY <1>2, <1>11 DEF ConnInv, Reading
  <2>2. Linked(d, s \o new)'
    BY <1>1, <1>2, <1>5, <1>8, <1>12, <2>1, LinkedGrows
  <2>3. Awaits(d, x.state, x.request, m + 1, s, 1)
    <3>1. ASSUME Stuck(d, x.state, x.request, m + 1, s, 1) PROVE FALSE
      <4>0. n \in Nat /\ m \in Nat
        BY <1>2, <1>12
      <4>1. m + 1 = n /\ n \in 1..n /\ a[n] = "negative_length"
        BY <1>1, <1>2, <3>1 DEF Stuck
      <4>2. a[n] \in Wants[d]
        BY <1>1, <1>2, <4>1 DEF ConnInv, Asked
      <4>3. d \notin Hasty
        BY <4>1, <4>2, HttpAssumption DEF Good
      <4>4. n <= m
        <5>1. n > 0
          BY <4>0, <4>1
        <5>2. Answered(d, n)
          BY <1>3, <4>3, <5>1
        <5> QED
          BY <1>2, <1>11, <5>2, AnsweredIsTaken DEF ConnInv
      <4> QED
        BY <4>0, <4>1, <4>4
    <3> QED
      BY <1>2, <2>1, <3>1 DEF Stands
  <2>4. m + 1 \in Nat
    BY <1>12
  <2>5. Awaits(d, x.state, x.request, m + 1, s \o new, 1)'
    BY <1>1, <1>2, <1>5, <1>8, <1>12, <2>1, <2>3, <2>4, AwaitsGrows
  <2>6. Stands(d, x.state, x.request, m + 1, s \o new, 1)'
    BY <2>5 DEF Stands
  <2> QED
    BY <1>2, <1>12, <2>1, <2>2, <2>6 DEF Reading
<1>14. Heard(d)'
  <2>1. ASSUME NEW i \in 1..m PROVE Whole(d, seen[d][i], i)'
    <3>1. b[i] = a[i]
      BY <1>2, <1>6, <1>12
    <3>2. Whole(d, seen[d][i], i)
      BY <1>2, <1>11 DEF ConnInv, Heard
    <3> QED
      BY <1>1, <1>2, <1>8, <3>1, <3>2 DEF Whole
  <2>2. m <= Len(b)
    BY <1>2, <1>6, <1>12
  <2> QED
    BY <1>2, <1>8, <1>12, <2>1, <2>2 DEF Heard
<1>15. Asked(d)'
  <2>1. \A i : Answered(d, i)' <=> Answered(d, i)
    BY <1>2 DEF Answered
  <2>2. /\ \A i \in 1..n : a[i] \in Wants[d]
        /\ \A i \in 1..(n - 1) : d \notin Hasty \/ a[i] = "chat" => Answered(d, i)
        /\ d \notin Hasty => n <= m + 1
    BY <1>1, <1>2, <1>11 DEF ConnInv, Asked
  <2>3. \A i \in 1..Len(b) : b[i] \in Wants[d]
    BY <1>2, <1>6, <2>2
  <2>4. ASSUME NEW i \in 1..n, d \notin Hasty \/ b[i] = "chat"
        PROVE  Answered(d, i)
    <3>1. b[i] = a[i]
      BY <1>6
    <3>2. CASE i = n
      BY <1>2, <1>3, <2>4, <3>1, <3>2
    <3>3. CASE i \in 1..(n - 1)
      BY <2>2, <2>4, <3>1, <3>3
    <3> QED
      BY <1>2, <3>2, <3>3
  <2>5. ASSUME d \notin Hasty PROVE n <= m
    <3>1. CASE n = 0
      BY <1>12, <3>1
    <3>2. CASE n > 0
      <4>1. Answered(d, n) /\ Framed(d)
        BY <1>2, <1>3, <2>5, <3>2 DEF ConnInv
      <4> QED
        BY <1>2, <1>11, <4>1, AnsweredIsTaken
    <3> QED
      BY <1>2, <3>1, <3>2
  <2>6. Len(b) - 1 = n /\ (n <= m => Len(b) <= m + 1)
    BY <1>2, <1>6, <1>12
  <2> QED
    BY <1>8, <1>12, <2>1, <2>3, <2>4, <2>5, <2>6 DEF Asked
<1>16. ASSUME d \notin Garbled PROVE Writing(d)'
  <2>1. Writing(d)
    BY <1>2, <1>16 DEF ConnInv
  <2>2. ASSUME Chatting(d) PROVE Answered(d, Done(d))
    BY <1>1, <1>3, <2>2 DEF Chatting
  <2>3. pending[d] = <<>> /\ Rests(d)
    BY <1>2, <2>1, <2>2, Settled
  <2>4. NoTask(d)'
    BY <1>2, <2>3, PoolSame DEF Rests, PoolKeeps
  <2>5. Frames(d)' = Frames(d)
    BY <1>2 DEF Frames
  <2>6. Rests(d)'
    BY <1>11, <1>12, <2>3, <2>4, <2>5 DEF Rests
  <2> QED
    BY <1>2, <1>11, <1>12, <2>1, <2>3, <2>5, <2>6 DEF Writing
<1>17. ConnInv(d)'
  <2>1. Framed(d)'
    BY <1>2, <1>11, <1>12 DEF ConnInv, Framed
  <2> QED
    BY <1>13, <1>14, <1>15, <1>16, <2>1 DEF ConnInv
<1>18. /\ PoolTypes' /\ NoTaskStranded'
       /\ \A v \in Worker : sentChunks'[v] > 0 => worker'[v] = "busy"
  BY <1>2 DEF IInv, PoolTypes, NoTaskStranded, tpvars
<1>19. KnownTasks'
  BY <1>2, <1>9, KnownSame DEF IInv
<1> QED
  BY <1>9, <1>10, <1>17, <1>18, <1>19 DEF IInv

-----------------------------------------------------------------------------
(* A segment arrives: what is left of the bytes is a tail of what was.     *)
LEMMA TailJoins ==
  ASSUME NEW b \in Seq(Piece), NEW r \in Seq(Piece), NEW i \in 1..(Len(b) + 1)
  PROVE  SubSeq(b, i, Len(b)) \o r = SubSeq(b \o r, i, Len(b \o r))
<1>1. PICK s, n, m : s = b \o r /\ n = Len(b) /\ m = Len(r)
  OBVIOUS
<1>2. /\ n \in Nat /\ m \in Nat /\ s \in Seq(Piece) /\ Len(s) = n + m
      /\ \A j \in 1..(n + m) : s[j] = IF j <= n THEN b[j] ELSE r[j - n]
  BY <1>1, ConcatProperties
<1>3. PICK u, v : u = SubSeq(b, i, n) /\ v = SubSeq(s, i, n + m)
  OBVIOUS
<1>4. /\ u \in Seq(Piece) /\ Len(u) = n - i + 1
      /\ \A j \in 1..(n - i + 1) : u[j] = b[i + j - 1]
  <2>1. \A j \in i..n : b[j] \in Piece
    BY <1>1
  <2>2. /\ u \in Seq(Piece) /\ Len(u) = IF i <= n THEN n - i + 1 ELSE 0
        /\ \A j \in 1..(n - i + 1) : u[j] = b[i + j - 1]
    BY <1>2, <1>3, <2>1, SubSeqProperties
  <2> QED
    BY <1>1, <1>2, <2>2
<1>5. /\ v \in Seq(Piece) /\ Len(v) = n + m - i + 1
      /\ \A j \in 1..(n + m - i + 1) : v[j] = s[i + j - 1]
  <2>1. \A j \in i..(n + m) : s[j] \in Piece
    BY <1>2
  <2>2. /\ v \in Seq(Piece) /\ Len(v) = IF i <= n + m THEN n + m - i + 1 ELSE 0
        /\ \A j \in 1..(n + m - i + 1) : v[j] = s[i + j - 1]
    BY <1>2, <1>3, <2>1, SubSeqProperties
  <2>3. i \in 1..(n + 1) /\ n \in Nat /\ m \in Nat
    BY <1>1, <1>2
  <2>4. (IF i <= n + m THEN n + m - i + 1 ELSE 0) = n + m - i + 1
    BY <2>3
  <2> QED
    BY <2>2, <2>4
<1>6. PICK w : w = u \o r
  OBVIOUS
<1>7. /\ w \in Seq(Piece) /\ Len(w) = n + m - i + 1
      /\ \A j \in 1..(n + m - i + 1) :
           w[j] = IF j <= n - i + 1 THEN u[j] ELSE r[j - (n - i + 1)]
  <2>1. /\ w \in Seq(Piece) /\ Len(w) = Len(u) + Len(r)
        /\ \A j \in 1..(Len(u) + Len(r)) :
             w[j] = IF j <= Len(u) THEN u[j] ELSE r[j - Len(u)]
    BY <1>4, <1>6, ConcatProperties
  <2>2. Len(u) + Len(r) = n + m - i + 1 /\ Len(u) = n - i + 1
    BY <1>1, <1>2, <1>4
  <2> QED
    BY <2>1, <2>2
<1>8. ASSUME NEW j \in 1..(n + m - i + 1) PROVE w[j] = v[j]
  <2>1. i + j - 1 \in 1..(n + m) /\ v[j] = s[i + j - 1]
    BY <1>1, <1>2, <1>5
  <2>2. CASE j <= n - i + 1
    <3>1. i + j - 1 <= n /\ j \in 1..(n - i + 1)
      BY <1>1, <1>2, <2>2
    <3>2. w[j] = u[j] /\ u[j] = b[i + j - 1]
      BY <1>4, <1>7, <2>2, <3>1
    <3>3. s[i + j - 1] = b[i + j - 1]
      BY <1>2, <2>1, <3>1
    <3> QED
      BY <2>1, <3>2, <3>3
  <2>3. CASE j > n - i + 1
    <3>1. ~(i + j - 1 <= n) /\ ~(j <= n - i + 1)
      BY <1>1, <1>2, <2>3
    <3>2. w[j] = r[j - (n - i + 1)]
      BY <1>7, <3>1
    <3>3. s[i + j - 1] = r[(i + j - 1) - n]
      BY <1>2, <2>1, <3>1
    <3>4. j - (n - i + 1) = (i + j - 1) - n
      BY <1>2
    <3> QED
      BY <2>1, <3>2, <3>3, <3>4
  <2> QED
    BY <1>2, <2>2, <2>3
<1>9. w = v
  BY <1>5, <1>7, <1>8, SeqEqual
<1> QED
  BY <1>1, <1>2, <1>3, <1>6, <1>9

(* A segment of k pieces goes from what is under way to the buffer, in its *)
(* order.                                                                  *)
LEMMA SegmentJoins ==
  ASSUME NEW b \in Seq(Piece), NEW t \in Seq(Piece), NEW k \in 1..Len(t)
  PROVE  /\ b \o SubSeq(t, 1, k) \in Seq(Piece)
         /\ SubSeq(t, k + 1, Len(t)) \in Seq(Piece)
         /\ b \o t = (b \o SubSeq(t, 1, k)) \o SubSeq(t, k + 1, Len(t))
<1>1. PICK f, r : f = SubSeq(t, 1, k) /\ r = SubSeq(t, k + 1, Len(t))
  OBVIOUS
<1>2. f \in Seq(Piece) /\ r \in Seq(Piece)
  BY <1>1
<1>3. t = f \o r
  <2>1. Len(t) \in Nat /\ 1 \in 1..(Len(t) + 1) /\ k \in 0..Len(t) /\ Len(t) \in k..Len(t)
    OBVIOUS
  <2>2. f \o r = SubSeq(t, 1, Len(t))
    BY <1>1, <2>1, ConcatAdjacentSubSeq
  <2>3. SubSeq(t, 1, Len(t)) = t
    BY SubSeqFull
  <2> QED
    BY <2>2, <2>3
<1>4. b \o (f \o r) = (b \o f) \o r /\ b \o f \in Seq(Piece)
  BY <1>2, MoreArrives DEF Arriving
<1> QED
  BY <1>1, <1>2, <1>3, <1>4

(* Where nothing is left of both, nothing is left of the first. *)
LEMMA NothingJoins ==
  ASSUME NEW s \in Seq(Piece), NEW t \in Seq(Piece), s \o t = <<>>
  PROVE  s = <<>>
<1> QED
  BY ConcatEqualIffEmpty

(* The next piece of u is the one that p is before.                        *)
IsNext(c, n, u, p) == u \in Seq(Piece) /\ Linked(c, u) /\ Outcome(c, n, u, p, 1)

(* What holds at a place of s holds at the beginning of what follows.      *)
LEMMA Shifted ==
  ASSUME NEW c, NEW s \in Seq(Piece), NEW i \in 1..(Len(s) + 1),
         Linked(c, s), NEW n, NEW p, Outcome(c, n, s, p, i)
  PROVE  IsNext(c, n, SubSeq(s, i, Len(s)), p)
<1>1. PICK m, u : m = Len(s) /\ u = SubSeq(s, i, m)
  OBVIOUS
<1>2. /\ m \in Nat /\ u \in Seq(Piece) /\ Len(u) = m - i + 1
      /\ \A j \in 1..(m - i + 1) : u[j] = s[i + j - 1]
  <2>1. \A j \in i..m : s[j] \in Piece
    BY <1>1
  <2>2. /\ u \in Seq(Piece) /\ Len(u) = IF i <= m THEN m - i + 1 ELSE 0
        /\ \A j \in 1..(m - i + 1) : u[j] = s[i + j - 1]
    BY <1>1, <2>1, SubSeqProperties
  <2> QED
    BY <1>1, <2>2
<1>3. /\ 1 <= Len(u) <=> i <= m
      /\ 1 = Len(u) + 1 <=> i = m + 1
      /\ i <= m => u[1] = s[i]
  <2>1. i <= m => 1 \in 1..(m - i + 1) /\ i + 1 - 1 = i
    BY <1>1, <1>2
  <2> QED
    BY <1>1, <1>2, <2>1
<1>4. Linked(c, u)
  <2>1. ASSUME NEW j \in 1..Len(u) PROVE u[j][2] \in 1..Len(asked[c])
    <3>1. i + j - 1 \in 1..m /\ u[j] = s[i + j - 1]
      BY <1>1, <1>2
    <3> QED
      BY <1>1, <3>1 DEF Linked
  <2>2. ASSUME NEW j \in 1..(Len(u) - 1) PROVE u[j + 1] = After(c, u[j])
    <3>1. i + j - 1 \in 1..(m - 1) /\ (i + j - 1) + 1 = i + (j + 1) - 1
          /\ u[j] = s[i + j - 1] /\ u[j + 1] = s[i + (j + 1) - 1]
      <4>1. j \in 1..(m - i + 1) /\ j + 1 \in 1..(m - i + 1)
        BY <1>1, <1>2
      <4>2. u[j] = s[i + j - 1] /\ u[j + 1] = s[i + (j + 1) - 1]
        BY <1>2, <4>1
      <4>3. i + j - 1 \in 1..(m - 1) /\ (i + j - 1) + 1 = i + (j + 1) - 1
        BY <1>1, <1>2
      <4> QED
        BY <4>2, <4>3
    <3>2. s[(i + j - 1) + 1] = After(c, s[i + j - 1])
      BY <1>1, <3>1 DEF Linked
    <3> QED
      BY <3>1, <3>2
  <2>3. ASSUME u # <<>>
        PROVE  /\ u[Len(u)][2] = Len(asked[c])
               /\ NextPart(asked[c][Len(asked[c])], u[Len(u)][1]) = "none"
    <3>1. Len(u) # 0
      BY <1>2, <2>3, EmptySeq
    <3>2. m # 0 /\ u[Len(u)] = s[m]
      <4>1. Len(u) \in 1..(m - i + 1) /\ i + Len(u) - 1 = m
        BY <1>1, <1>2, <3>1
      <4> QED
        BY <1>1, <1>2, <4>1
    <3>3. s # <<>>
      BY <1>1, <3>2
    <3> QED
      BY <1>1, <3>2, <3>3 DEF Linked
  <2> QED
    BY <2>1, <2>2, <2>3 DEF Linked
<1>5. ASSUME NEW state, NEW r, Awaits(c, state, r, n, s, i)
      PROVE  Awaits(c, state, r, n, u, 1)
  BY <1>1, <1>3, <1>5 DEF Awaits
<1>6. ASSUME NEW state, NEW r, CutOff(c, state, r, n, s, i)
      PROVE  CutOff(c, state, r, n, u, 1)
  BY <1>1, <1>3, <1>6 DEF CutOff
<1>9. ASSUME NEW state, NEW r, Stuck(c, state, r, n, s, i)
      PROVE  Stuck(c, state, r, n, u, 1)
  BY <1>1, <1>3, <1>9 DEF Stuck
<1>7. Ready(c, n + 1, s, i) => Ready(c, n + 1, u, 1)
  BY <1>1, <1>3 DEF Ready
<1>8. Outcome(c, n, u, p, 1)
  BY <1>5, <1>6, <1>7, <1>9 DEF Outcome, Stands
<1> QED
  BY <1>1, <1>2, <1>4, <1>8 DEF IsNext

(* A segment has been parsed; u is what is left of the bytes to come.      *)
Got(c, p, u) ==
  /\ p \in Parsing /\ u \in Seq(Piece) /\ Linked(c, u)
  /\ Outcome(c, Done(c) + 1, u, p, 1)
  /\ (p.more \/ u = <<>>) => p.rest = <<>>

(* What a segment brings leaves the parser, and what is still to come, as  *)
(* HasRead has them.                                                       *)
LEMMA Arrives ==
  ASSUME HttpTypes, NEW c \in Conn, Reading(c), Asked(c), link[c] # "gone",
         NEW k \in 1..Len(transit[c]),
         NEW p, p = Parse(c, buf[c] \o SubSeq(transit[c], 1, k)),
         NEW u, u = p.rest \o SubSeq(transit[c], k + 1, Len(transit[c]))
  PROVE  Got(c, p, u)
<1>1. PICK b, t : b = buf[c] /\ t = transit[c]
  OBVIOUS
<1>2. b \in Seq(Piece) /\ t \in Seq(Piece) /\ k \in 1..Len(t)
  BY <1>1 DEF HttpTypes
<1>3. PICK f, r, s, n : /\ f = b \o SubSeq(t, 1, k) /\ r = SubSeq(t, k + 1, Len(t))
                        /\ s = b \o t /\ n = Done(c) + 1
  OBVIOUS
<1>4. f \in Seq(Piece) /\ r \in Seq(Piece) /\ s = f \o r
  BY <1>2, <1>3, SegmentJoins
<1>5. /\ s \in Seq(Piece) /\ Len(f) <= Len(s) /\ Len(f) \in Nat
      /\ \A j \in 1..Len(f) : f[j] = s[j]
  BY <1>4, ConcatProperties
<1>6. /\ Linked(c, s) /\ Stands(c, context[c].state, context[c].request, n, s, 1)
      /\ s = In(c)
  BY <1>1, <1>3 DEF Reading, In
<1>7. n \in 1..Len(asked[c]) /\ asked[c][n] \in Malformed => n = Len(asked[c])
  <2>1. SUFFICES ASSUME n \in 1..Len(asked[c]), asked[c][n] \in Malformed
                 PROVE  n = Len(asked[c])
    OBVIOUS
  <2>2. asked[c][n] \in Wants[c]
    BY <2>1 DEF Asked
  <2>3. c \notin Hasty
    BY <2>1, <2>2, HttpAssumption DEF Good, Malformed
  <2>4. Len(asked[c]) <= n
    BY <1>3, <2>3 DEF Asked
  <2>5. Len(asked[c]) \in Nat
    BY DEF HttpTypes
  <2> QED
    BY <2>1, <2>4, <2>5
<1>8. HasRead(c, n, s, p, f, Len(f))
  <2>1. p = Parse(c, f)
    BY <1>1, <1>3
  <2> QED
    BY <1>4, <1>5, <1>6, <1>7, <2>1, ParseReads
<1>9. p \in Parsing
  BY <1>8 DEF HasRead
<1>10. PICK i \in 1..(Len(f) + 1) :
         /\ p.rest = SubSeq(f, i, Len(f)) /\ (p.more => i = Len(f) + 1)
         /\ Outcome(c, n, s, p, i)
  BY <1>8 DEF HasRead
<1>11. u = SubSeq(s, i, Len(s))
  <2>1. u = p.rest \o r
    BY <1>1, <1>3
  <2> QED
    BY <1>4, <1>10, <2>1, TailJoins
<1>12. i \in 1..(Len(s) + 1)
  BY <1>5
<1>13. u \in Seq(Piece) /\ Linked(c, u) /\ Outcome(c, n, u, p, 1)
  <2>1. IsNext(c, n, u, p)
    BY <1>5, <1>6, <1>10, <1>11, <1>12, Shifted
  <2> QED
    BY <2>1 DEF IsNext
<1>14. p.more => p.rest = <<>>
  BY <1>5, <1>10, SubSeqEmpty
<1>15. u = <<>> => p.rest = <<>>
  <2>1. p.rest \in Seq(Piece) /\ u = p.rest \o r
    BY <1>1, <1>3, <1>9 DEF Parsing
  <2> QED
    BY <1>4, <2>1, NothingJoins
<1> QED
  BY <1>3, <1>9, <1>13, <1>14, <1>15 DEF Got

(* What OnMessage does to the bytes, whatever came of them.                *)
Taken(d, p, u) ==
  /\ Got(d, p, u) /\ In(d)' = u /\ buf'[d] = p.rest
  /\ transit' \in [Conn -> Seq(Piece)] /\ buf' \in [Conn -> Seq(Piece)]
  /\ \A c \in Conn : c # d => transit'[c] = transit[c] /\ buf'[c] = buf[c]

(* onMessage takes what parseRequest took; its caller keeps the rest. *)
LEMMA SegmentTaken ==
  ASSUME IInv, NEW d \in Conn, NEW k \in 1..Len(transit[d]), OnMessage(d, k),
         NEW p, p = Parse(d, buf[d] \o SubSeq(transit[d], 1, k)),
         NEW u, u = p.rest \o SubSeq(transit[d], k + 1, Len(transit[d]))
  PROVE  Taken(d, p, u)
<1>1. /\ HttpTypes /\ Reading(d) /\ Asked(d) /\ link[d] # "gone"
      /\ transit' = [transit EXCEPT ![d] = SubSeq(transit[d], k + 1, Len(transit[d]))]
      /\ buf' = [buf EXCEPT ![d] = p.rest]
  BY DEF IInv, ConnInv, OnMessage
<1>2. Got(d, p, u)
  BY <1>1, Arrives
<1>3. p.rest \in Seq(Piece)
  BY <1>2 DEF Got, Parsing
<1>4. transit[d] \in Seq(Piece) /\ buf[d] \in Seq(Piece)
  BY <1>1 DEF HttpTypes
<1>5. SubSeq(transit[d], k + 1, Len(transit[d])) \in Seq(Piece)
  BY <1>4, SegmentJoins
<1>6. /\ transit' \in [Conn -> Seq(Piece)] /\ buf' \in [Conn -> Seq(Piece)]
      /\ transit'[d] = SubSeq(transit[d], k + 1, Len(transit[d])) /\ buf'[d] = p.rest
      /\ \A c \in Conn : c # d => transit'[c] = transit[c] /\ buf'[c] = buf[c]
  BY <1>1, <1>3, <1>5 DEF HttpTypes
<1>7. In(d)' = u
  BY <1>6 DEF In
<1> QED
  BY <1>2, <1>6, <1>7 DEF Taken

(* Nothing is in the way of the answer to a request that came late.        *)
LEMMA AtRest ==
  ASSUME IInv, NEW d \in Conn, d \notin Garbled, link[d] = "open",
         Done(d) + 1 \in 1..Len(asked[d])
  PROVE  /\ pending[d] = <<>> /\ Rests(d) /\ Frames(d) = wire[d]
         /\ InTurn(wire[d]) /\ NoneBeyond(wire[d], Done(d))
<1>1. HttpTypes /\ Writing(d)
  BY DEF IInv, ConnInv
<1>2. Done(d) \in Nat /\ Len(asked[d]) \in Nat
  BY <1>1 DEF HttpTypes, Done
<1>3. ~Chatting(d)
  BY <1>2 DEF Chatting
<1>4. pending[d] = <<>> /\ Rests(d)
  BY <1>1, <1>3, Settled
<1>5. Frames(d) = wire[d]
  BY <1>1, <1>4, ConcatEmptySeq DEF Frames, HttpTypes
<1> QED
  BY <1>1, <1>4, <1>5 DEF Writing

(* A frame is written to d, if its connection is open. *)
Writes(d, f) ==
  /\ f \in Frame /\ wire' \in [Conn -> Seq(Frame)]
  /\ wire'[d] = (IF link[d] = "open" THEN Append(wire[d], f) ELSE wire[d])
  /\ \A c \in Conn : c # d => wire'[c] = wire[c]
  /\ \A i : Answered(d, i) => Answered(d, i)'

(* An answer of the loop goes on the wire of its connection only. *)
LEMMA WriteTypes ==
  ASSUME HttpTypes, NEW d \in Conn, NEW n \in Nat,
         NEW part \in {"full", "refused"}, Write(d, n, part)
  PROVE  Writes(d, [req |-> n, part |-> part])
<1>0. PICK f : f = [req |-> n, part |-> part]
  OBVIOUS
<1>1. f \in Frame /\ f.req = n /\ f.part = part
  BY <1>0 DEF Frame
<1>2. wire[d] \in Seq(Frame) /\ wire \in [Conn -> Seq(Frame)]
  BY DEF HttpTypes
<1>3. PICK s : s = Append(wire[d], f)
  OBVIOUS
<1>4. /\ s \in Seq(Frame)
      /\ \A i \in 1..Len(wire[d]) : i \in 1..Len(s) /\ s[i] = wire[d][i]
  BY <1>1, <1>2, <1>3, AppendProperties
<1>5. wire' = IF link[d] = "open" THEN [wire EXCEPT ![d] = s] ELSE wire
  BY <1>0, <1>3 DEF Write
<1>6. /\ wire' \in [Conn -> Seq(Frame)]
      /\ wire'[d] = (IF link[d] = "open" THEN s ELSE wire[d])
      /\ \A c \in Conn : c # d => wire'[c] = wire[c]
  BY <1>2, <1>4, <1>5
<1>7. \A i : Answered(d, i) => Answered(d, i)'
  BY <1>4, <1>6 DEF Answered
<1> QED
  BY <1>0, <1>1, <1>3, <1>6, <1>7 DEF Writes

(* The answer to the next request follows those before it. *)
LEMMA AnswerNext ==
  ASSUME HttpTypes, NEW d \in Conn, Rests(d), Frames(d) = wire[d], InTurn(wire[d]),
         NEW f \in Frame, f.part \in {"full", "refused", "headers"},
         f.req = Done(d) + 1, NoneBeyond(wire[d], Done(d)),
         NEW s, s = Append(wire[d], f)
  PROVE  InTurn(s) /\ Newest(s) = f /\ NoneBeyond(s, Done(d) + 1)
<1>1. wire[d] \in Seq(Frame) /\ Done(d) \in Nat /\ f.req \in Nat
  BY DEF HttpTypes, Done, Frame
<1>2. PICK w, n : w = wire[d] /\ n = Done(d)
  OBVIOUS
<1>3. w \in Seq(Frame) /\ n \in Nat /\ n + 1 \in Nat /\ InTurn(w)
  BY <1>1, <1>2
<1>4. ASSUME NEW i \in 1..Len(w) PROVE w[i].req \in Nat
  <2>1. w[i] \in Frame
    BY <1>3
  <2> QED
    BY <2>1 DEF Frame
<1>5. NoneBeyond(w, n + 1)
  BY <1>2, <1>3, <1>4 DEF NoneBeyond
<1>6. Follows(Newest(w), f)
  BY <1>2, <1>3 DEF Rests, Follows
<1>7. f.req <= n + 1
  BY <1>1, <1>2, <1>3
<1>8. InTurn(Append(w, f)) /\ Newest(Append(w, f)) = f /\ NoneBeyond(Append(w, f), n + 1)
  BY <1>3, <1>5, <1>6, <1>7, OneMore
<1> QED
  BY <1>2, <1>8

-----------------------------------------------------------------------------
(* The parser waits for more.                                              *)
LEMMA WaitsOn ==
  ASSUME IInv, NEW d \in Conn, NEW p, NEW u, Got(d, p, u), In(d)' = u,
         p.state \notin {"all", "aborted"}, p.ok, buf'[d] = p.rest,
         context'[d] = [state |-> p.state, request |-> p.request],
         UNCHANGED <<tpvars, asked, link, pending, wire, seen, sentChunks>>
  PROVE  ConnInv(d)'
<1>1. PICK n : n = Done(d)
  OBVIOUS
<1>2. /\ Done(d)' = n /\ Frames(d)' = Frames(d) /\ ConnInv(d)
      /\ \A i : Answered(d, i)' <=> Answered(d, i)
  BY <1>1 DEF IInv, Done, Frames, Answered
<1>3. /\ p.more /\ Stands(d, p.state, p.request, n + 1, u, 1) /\ Linked(d, u)
      /\ p.rest = <<>>
  BY <1>1 DEF Got, Outcome
<1>4. /\ context'[d].state = p.state /\ context'[d].request = p.request
  OBVIOUS
<1>5. Stands(d, p.state, p.request, n + 1, u, 1)' /\ Linked(d, u)'
  BY <1>3, StandsStill
<1>6. Reading(d)'
  BY <1>2, <1>3, <1>4, <1>5 DEF Reading
<1>7. Heard(d)' /\ Asked(d)'
  BY <1>1, <1>2 DEF ConnInv, Heard, Asked, Whole
<1>8. PoolKeeps(d, n)
  BY PoolSame
<1>9. ASSUME d \notin Garbled PROVE Writing(d)'
  <2>1. Chatting(d)' = Chatting(d)
    BY <1>1, <1>2 DEF Chatting
  <2>2. Rests(d) => Rests(d)'
    BY <1>1, <1>2, <1>8 DEF Rests, PoolKeeps
  <2>3. Streams(d) => Streams(d)'
    BY <1>1, <1>2, <1>8, <2>1 DEF Streams, PoolKeeps
  <2>4. Owes(d) => Owes(d)'
    BY <1>1, <1>2, <1>8, <2>1 DEF Owes, PoolKeeps
  <2> QED
    BY <1>1, <1>2, <1>9, <2>1, <2>2, <2>3, <2>4 DEF ConnInv, Writing
<1>10. Framed(d)'
  BY <1>1, <1>2 DEF ConnInv, Framed
<1> QED
  BY <1>6, <1>7, <1>9, <1>10 DEF ConnInv

(* The request is refused, and the server's side of the connection ends.   *)
LEMMA Refused ==
  ASSUME IInv, NEW d \in Conn, NEW p, NEW u, Got(d, p, u), In(d)' = u,
         p.state \notin {"all", "aborted"}, ~p.ok, link[d] # "gone",
         context'[d] = [state |-> p.state, request |-> p.request],
         Write(d, Len(asked[d]), "refused"), Shutdown(d),
         UNCHANGED <<asked, seen>>
  PROVE  ConnInv(d)'
<1>1. PICK n : n = Done(d) + 1
  OBVIOUS
<1>2. /\ HttpTypes /\ ConnInv(d) /\ Done(d)' = Done(d) /\ Done(d) \in Nat
      /\ Len(asked[d]) \in Nat
  BY DEF IInv, Done, HttpTypes
<1>3. /\ Linked(d, u) /\ n \in 1..Len(asked[d]) /\ asked[d][n] \in Malformed
      /\ \/ Awaits(d, p.state, p.request, n, u, 1)
         \/ CutOff(d, p.state, p.request, n, u, 1)
  BY <1>1 DEF Got, Outcome
<1>4. link'[d] \in {"shut", "gone"}
  BY <1>2 DEF Shutdown, HttpTypes
<1>5. n = Len(asked[d])
  <2>1. asked[d][n] \in Wants[d]
    BY <1>2, <1>3 DEF ConnInv, Asked
  <2>2. d \notin Hasty
    BY <1>3, <2>1, HttpAssumption DEF Good, Malformed
  <2>3. Len(asked[d]) <= n
    BY <1>1, <1>2, <2>2 DEF ConnInv, Asked
  <2> QED
    BY <1>2, <1>3, <2>3
<1>6. PICK f : f = [req |-> n, part |-> "refused"]
  OBVIOUS
<1>7. /\ f \in Frame /\ f.req = n /\ f.part = "refused"
      /\ wire'[d] = (IF link[d] = "open" THEN Append(wire[d], f) ELSE wire[d])
      /\ \A i : Answered(d, i) => Answered(d, i)'
  <2>1. Writes(d, f)
    BY <1>2, <1>5, <1>6, WriteTypes
  <2>2. f.req = n /\ f.part = "refused"
    BY <1>6
  <2> QED
    BY <2>1, <2>2 DEF Writes
<1>8. Linked(d, u)' /\ Stands(d, p.state, p.request, n, u, 1)'
  <2>1. Linked(d, u)'
    BY <1>3 DEF Linked, After
  <2>2. Awaits(d, p.state, p.request, n, u, 1) =>
          Awaits(d, p.state, p.request, n, u, 1)'
    BY DEF Awaits, Begun, Due
  <2>3. CutOff(d, p.state, p.request, n, u, 1) =>
          CutOff(d, p.state, p.request, n, u, 1)'
    BY DEF CutOff
  <2> QED
    BY <1>3, <1>4, <2>1, <2>2, <2>3 DEF Stands
<1>9. Reading(d)'
  BY <1>1, <1>2, <1>4, <1>8 DEF Reading
<1>10. Heard(d)' /\ Asked(d)'
  BY <1>2, <1>7 DEF ConnInv, Heard, Asked, Whole
<1>11. ASSUME d \notin Garbled PROVE InTurn(wire'[d])
  <2>1. CASE link[d] = "open"
    <3>1. /\ Rests(d) /\ Frames(d) = wire[d] /\ InTurn(wire[d])
          /\ NoneBeyond(wire[d], Done(d))
      BY <1>1, <1>3, <1>11, <2>1, AtRest
    <3>2. wire'[d] = Append(wire[d], f)
      BY <1>7, <2>1
    <3> QED
      BY <1>1, <1>2, <1>7, <3>1, <3>2, AnswerNext
  <2>2. CASE link[d] # "open"
    BY <1>2, <1>7, <1>11, <2>2 DEF ConnInv, Writing
  <2> QED
    BY <2>1, <2>2
<1>12. Framed(d)' /\ (d \notin Garbled => Writing(d)')
  BY <1>4, <1>11 DEF Framed, Writing
<1> QED
  BY <1>9, <1>10, <1>12 DEF ConnInv

(* A handler is called: what it reads, and what the parser waits for next. *)
LEMMA Handles ==
  ASSUME IInv, NEW d \in Conn, NEW p, NEW u, Got(d, p, u), In(d)' = u,
         p.state = "all", buf'[d] = p.rest,
         link[d] # "gone", link'[d] \in {link[d], "shut"},
         context'[d] = Reset(p.request),
         seen' = [seen EXCEPT ![d] = Append(seen[d], p.request)],
         asked' = asked, \A i : Answered(d, i) => Answered(d, i)'
  PROVE  Reading(d)' /\ Heard(d)' /\ Asked(d)' /\ Done(d)' = Done(d) + 1
<1>1. PICK n, r : n = Done(d) + 1 /\ r = p.request
  OBVIOUS
<1>2. /\ HttpTypes /\ ConnInv(d) /\ Done(d) \in Nat /\ Len(asked[d]) \in Nat
      /\ seen[d] \in Seq(Req)
  BY DEF IInv, Done, HttpTypes
<1>3. /\ p \in Parsing /\ u \in Seq(Piece) /\ Linked(d, u) /\ n \in 1..Len(asked[d])
      /\ Whole(d, r, n) /\ Ready(d, n + 1, u, 1)
      /\ u = <<>> => p.rest = <<>>
  BY <1>1 DEF Got, Outcome
<1>4. r \in Req
  BY <1>1, <1>3 DEF Parsing
<1>5. PICK s : s = Append(seen[d], r)
  OBVIOUS
<1>6. /\ Len(s) = n /\ s[n] = r /\ \A i \in 1..Done(d) : s[i] = seen[d][i]
      /\ seen'[d] = s
  <2>1. seen'[d] = s
    BY <1>1, <1>2, <1>5 DEF HttpTypes
  <2> QED
    BY <1>1, <1>2, <1>4, <1>5, <2>1, AppendProperties DEF Done
<1>7. Done(d)' = n
  BY <1>6 DEF Done
<1>8. Reading(d)'
  <2>1. PICK x : x = Reset(r)
    OBVIOUS
  <2>2. /\ x.state = "line" /\ x.request.line = 0 /\ x.request.header = 0
        /\ x.request.body < n + 1
    <3>1. r.body \in Nat /\ r.body <= n
      BY <1>1, <1>2, <1>3, <1>4 DEF Whole, Req
    <3>2. /\ x.state = "line" /\ x.request.line = 0 /\ x.request.header = 0
          /\ x.request.body = r.body
      BY <1>4, <2>1 DEF Reset, Req
    <3> QED
      BY <1>1, <1>2, <3>1, <3>2
  <2>3. Linked(d, u)'
    BY <1>3 DEF Linked, After
  <2>4. Stands(d, x.state, x.request, n + 1, u, 1)'
    <3>1. Begun(d, x.state, x.request, n + 1)'
      BY <2>2 DEF Begun
    <3>2. Due(d, x.state, x.request, n + 1)' = <<FirstPart(asked[d][n + 1]), n + 1>>
      BY <2>2 DEF Due
    <3>3. Awaits(d, x.state, x.request, n + 1, u, 1)'
      BY <1>3, <2>2, <3>1, <3>2 DEF Awaits, Ready
    <3> QED
      BY <3>3 DEF Stands
  <2>5. ASSUME d \notin Hasty PROVE p.rest = <<>>
    <3>1. Len(asked[d]) <= n
      BY <1>1, <1>2, <2>5 DEF ConnInv, Asked
    <3>2. ASSUME u # <<>> PROVE FALSE
      <4>1. 1 \in 1..Len(u) /\ 1 <= Len(u)
        BY <1>3, <3>2, EmptySeq
      <4>2. u[1] = <<FirstPart(asked[d][n + 1]), n + 1>>
        BY <1>3, <4>1 DEF Ready
      <4>3. u[1][2] \in 1..Len(asked[d]) /\ u[1][2] = n + 1
        BY <1>3, <4>1, <4>2 DEF Linked
      <4> QED
        BY <1>1, <1>2, <3>1, <4>3
    <3> QED
      BY <1>3, <3>2
  <2>6. context'[d] = x
    BY <1>1, <2>1
  <2> QED
    BY <1>7, <2>3, <2>4, <2>5, <2>6 DEF Reading
<1>9. Heard(d)'
  <2>1. ASSUME NEW i \in 1..n PROVE Whole(d, s[i], i)
    <3>1. CASE i = n
      BY <1>3, <1>6, <3>1
    <3>2. CASE i \in 1..Done(d)
      BY <1>2, <1>6, <3>2 DEF ConnInv, Heard
    <3> QED
      BY <1>1, <1>2, <3>1, <3>2
  <2>2. \A i \in 1..n : Whole(d, s[i], i)'
    BY <2>1 DEF Whole
  <2> QED
    BY <1>3, <1>6, <1>7, <2>2 DEF Heard
<1>10. Asked(d)'
  BY <1>1, <1>2, <1>7 DEF ConnInv, Asked
<1> QED
  BY <1>1, <1>7, <1>8, <1>9, <1>10

(* What is written is of the request that the handler was called with.     *)
LEMMA HandledIsFramed ==
  ASSUME HttpTypes, NEW d \in Conn, Framed(d), Done(d)' = Done(d) + 1,
         NEW f \in Frame, f.req = Done(d) + 1,
         wire'[d] = wire[d] \/ (link[d] = "open" /\ wire'[d] = Append(wire[d], f)),
         link'[d] \in {link[d], "shut"}, pending' = pending
  PROVE  Framed(d)'
<1>1. PICK n, s, t : n = Done(d) /\ s = wire[d] /\ t = pending[d]
  OBVIOUS
<1>2. n \in Nat /\ s \in Seq(Frame) /\ t \in Seq(Frame)
  BY <1>1 DEF HttpTypes, Done
<1>3. ASSUME NEW x \in Seq(Frame), NoneBeyond(x, n) PROVE NoneBeyond(x, n + 1)
  <2>1. ASSUME NEW i \in 1..Len(x) PROVE x[i].req <= n + 1
    <3>1. x[i] \in Frame /\ x[i].req <= n
      BY <1>3 DEF NoneBeyond
    <3>2. x[i].req \in Nat
      BY <3>1 DEF Frame
    <3> QED
      BY <1>2, <3>1, <3>2
  <2> QED
    BY <2>1 DEF NoneBeyond
<1>4. ASSUME NoneBeyond(s, n) PROVE NoneBeyond(Append(s, f), n + 1)
  <2>1. PICK v : v = Append(s, f)
    OBVIOUS
  <2>2. /\ Len(s) \in Nat /\ Len(v) = Len(s) + 1 /\ v[Len(s) + 1] = f
        /\ \A i \in 1..Len(s) : v[i] = s[i]
    BY <1>2, <2>1, AppendProperties
  <2>3. NoneBeyond(s, n + 1)
    BY <1>2, <1>3, <1>4
  <2>4. f.req <= n + 1
    BY <1>1, <1>2
  <2>5. NoneBeyond(v, n + 1)
    BY <2>2, <2>3, <2>4 DEF NoneBeyond
  <2> QED
    BY <2>1, <2>5
<1>5. CASE link[d] = "open"
  <2>1. NoneBeyond(s, n) /\ NoneBeyond(t, n)
    BY <1>1, <1>5 DEF Framed
  <2>2. NoneBeyond(s, n + 1) /\ NoneBeyond(t, n + 1) /\ NoneBeyond(Append(s, f), n + 1)
    BY <1>2, <1>3, <1>4, <2>1
  <2> QED
    BY <1>1, <2>2 DEF Framed
<1>6. CASE link[d] # "open"
  BY <1>6 DEF Framed
<1> QED
  BY <1>5, <1>6

(* An answer that is sent at once,                                         *)
LEMMA AnswersAtOnce ==
  ASSUME IInv, NEW d \in Conn, NEW n, n = Done(d) + 1, n \in 1..Len(asked[d]),
         Done(d)' = n, Write(d, n, "full"), link'[d] \in {link[d], "shut"},
         UNCHANGED <<tpvars, pending, sentChunks>>
  PROVE  Framed(d)' /\ (d \notin Garbled => Writing(d)')
<1>1. /\ HttpTypes /\ ConnInv(d) /\ Done(d) \in Nat /\ n \in Nat
  BY DEF IInv, Done, HttpTypes
<1>2. PICK f : f = [req |-> n, part |-> "full"]
  OBVIOUS
<1>3. /\ f \in Frame /\ f.req = n /\ f.part = "full"
      /\ wire'[d] = (IF link[d] = "open" THEN Append(wire[d], f) ELSE wire[d])
  <2>1. Writes(d, f)
    BY <1>1, <1>2, WriteTypes
  <2>2. f.req = n /\ f.part = "full"
    BY <1>2
  <2> QED
    BY <2>1, <2>2 DEF Writes
<1>4. ASSUME d \notin Garbled, link[d] # "open" PROVE Writing(d)'
  BY <1>1, <1>3, <1>4 DEF ConnInv, Writing
<1>5. ASSUME d \notin Garbled, link[d] = "open" PROVE Writing(d)'
  <2>1. PICK s : s = Append(wire[d], f)
    OBVIOUS
  <2>2. /\ pending[d] = <<>> /\ Rests(d) /\ Frames(d) = wire[d]
        /\ InTurn(wire[d]) /\ NoneBeyond(wire[d], Done(d))
    BY <1>5, AtRest
  <2>3. InTurn(s) /\ Newest(s) = f /\ NoneBeyond(s, n)
    BY <1>1, <1>3, <2>1, <2>2, AnswerNext
  <2>4. s \in Seq(Frame) /\ wire'[d] = s
    BY <1>1, <1>3, <1>5, <2>1 DEF HttpTypes
  <2>5. Frames(d)' = s
    BY <2>2, <2>4, ConcatEmptySeq DEF Frames
  <2>6. NoTask(d)'
    BY <2>2, PoolSame DEF Rests, PoolKeeps
  <2>7. Rests(d)'
    BY <1>3, <2>3, <2>5, <2>6 DEF Rests, Complete
  <2> QED
    BY <2>2, <2>3, <2>4, <2>5, <2>7 DEF Writing
<1>6. Framed(d)'
  BY <1>1, <1>3, HandledIsFramed DEF ConnInv
<1> QED
  BY <1>4, <1>5, <1>6

(* and one that a worker will stream.                                      *)
LEMMA AnswersLater ==
  ASSUME IInv, NEW d \in Conn, NEW n, n = Done(d) + 1, n \in 1..Len(asked[d]),
         asked[d][n] = "chat", Done(d)' = n, Defer(d, n), asked' = asked,
         UNCHANGED <<pending, sentChunks>>
  PROVE  Framed(d)' /\ (d \notin Garbled => Writing(d)')
<1>1. /\ HttpTypes /\ PoolTypes /\ ConnInv(d) /\ Done(d) \in Nat /\ n \in Nat
      /\ Len(asked[d]) \in Nat
  BY DEF IInv, Done, HttpTypes
<1>2. wire' = wire /\ link' = link /\ Enqueue(<<d, n>>)
  BY DEF Defer
<1>3. ASSUME d \notin Garbled, link[d] # "open" PROVE Writing(d)'
  BY <1>1, <1>2, <1>3 DEF ConnInv, Writing
<1>4. ASSUME d \notin Garbled, link[d] = "open" PROVE Writing(d)'
  <2>1. /\ pending[d] = <<>> /\ Rests(d) /\ Frames(d) = wire[d]
        /\ InTurn(wire[d]) /\ NoneBeyond(wire[d], Done(d))
    BY <1>4, AtRest
  <2>2. n = Len(asked[d])
    <3>1. ASSUME n \in 1..(Len(asked[d]) - 1) PROVE FALSE
      <4>1. Answered(d, n) /\ Writing(d)
        BY <1>1, <1>4, <3>1 DEF ConnInv, Asked
      <4>2. n <= Done(d)
        BY <1>1, <1>4, <4>1, AnsweredIsDone
      <4> QED
        BY <1>1, <4>2
    <3> QED
      BY <1>1, <3>1
  <2>3. Frames(d)' = wire[d]
    BY <1>2, <2>1 DEF Frames
  <2>4. Chatting(d)'
    BY <1>1, <2>2 DEF Chatting
  <2>5. Waits(d, n)'
    BY <1>1, <1>2, <2>1, PoolGrows DEF Rests
  <2>6. n - 1 = Done(d)
    BY <1>1
  <2>7. Owes(d)'
    BY <2>1, <2>3, <2>4, <2>5, <2>6 DEF Owes, Rests
  <2>8. NoneBeyond(wire[d], n)
    <3>1. wire[d] \in Seq(Frame)
      BY <1>1 DEF HttpTypes
    <3>2. ASSUME NEW i \in 1..Len(wire[d]) PROVE wire[d][i].req <= n
      <4>1. wire[d][i] \in Frame /\ wire[d][i].req <= Done(d)
        BY <2>1, <3>1 DEF NoneBeyond
      <4>2. wire[d][i].req \in Nat
        BY <4>1 DEF Frame
      <4> QED
        BY <1>1, <4>1, <4>2
    <3> QED
      BY <3>2 DEF NoneBeyond
  <2> QED
    BY <1>2, <2>1, <2>3, <2>7, <2>8 DEF Writing
<1>5. Framed(d)'
  <2>1. PICK f : f = [req |-> n, part |-> "full"]
    OBVIOUS
  <2>2. f \in Frame /\ f.req = Done(d) + 1
    BY <1>1, <2>1 DEF Frame
  <2> QED
    BY <1>1, <1>2, <2>2, HandledIsFramed DEF ConnInv
<1> QED
  BY <1>3, <1>4, <1>5

(* A segment comes; the request is incomplete, refused, answered at once   *)
(* or deferred.                                                            *)
LEMMA OnMessageIsSafe ==
  ASSUME IInv, NEW d \in Conn, NEW k \in 1..Len(transit[d]), OnMessage(d, k)
  PROVE  IInv'
<1>1. PICK p : p = Parse(d, buf[d] \o SubSeq(transit[d], 1, k))
  OBVIOUS
<1>2. PICK u, n : /\ u = p.rest \o SubSeq(transit[d], k + 1, Len(transit[d]))
                  /\ n = Done(d) + 1
  OBVIOUS
<1>3. /\ HttpTypes /\ PoolTypes /\ NoTaskStranded /\ ConnInv(d)
      /\ \A w \in Worker : sentChunks[w] > 0 => worker[w] = "busy"
  BY DEF IInv
<1>4. /\ Got(d, p, u) /\ In(d)' = u /\ buf'[d] = p.rest
      /\ transit' \in [Conn -> Seq(Piece)] /\ buf' \in [Conn -> Seq(Piece)]
      /\ \A c \in Conn : c # d => transit'[c] = transit[c] /\ buf'[c] = buf[c]
  <2>1. Taken(d, p, u)
    BY <1>1, <1>2, SegmentTaken
  <2> QED
    BY <2>1 DEF Taken
<1>5. /\ link[d] # "gone" /\ UNCHANGED <<asked, pending, sentChunks>> /\ p \in Parsing
      /\ p.state # "aborted"
  BY <1>1, <1>4 DEF OnMessage, Got
<1>6. CASE p.state # "all" /\ p.ok
  <2>1. /\ context' = [context EXCEPT ![d] = [state |-> p.state, request |-> p.request]]
        /\ UNCHANGED <<wire, link, tpvars, seen>>
    BY <1>1, <1>6 DEF OnMessage
  <2>2. [state |-> p.state, request |-> p.request]
          \in [state : {"line", "headers", "body", "aborted"}, request : Req]
    BY <1>5, <1>6 DEF Parsing
  <2>3. /\ context' \in [Conn -> [state : {"line", "headers", "body", "aborted"}, request : Req]]
        /\ context'[d] = [state |-> p.state, request |-> p.request]
        /\ \A c \in Conn : c # d => context'[c] = context[c]
    BY <1>3, <2>1, <2>2 DEF HttpTypes
  <2>4. HttpTypes'
    BY <1>3, <1>4, <1>5, <2>1, <2>3 DEF HttpTypes
  <2>5. ConnInv(d)'
    BY <1>4, <1>5, <1>6, <2>1, <2>3, WaitsOn
  <2>6. ASSUME NEW c \in Conn, c # d PROVE ConnInv(c)'
    <3>1. Aside(c)
      BY <1>4, <1>5, <2>1, <2>3, <2>6 DEF Aside
    <3> QED
      BY <1>5, <2>1, <3>1, PoolSame, AsideIsSafe DEF IInv
  <2>7. /\ PoolTypes' /\ NoTaskStranded'
        /\ \A v \in Worker : sentChunks'[v] > 0 => worker'[v] = "busy"
    BY <1>3, <1>5, <2>1 DEF PoolTypes, NoTaskStranded, tpvars
  <2>8. KnownTasks'
    BY <1>3, <2>1, <2>4, KnownSame DEF IInv
  <2> QED
    BY <2>4, <2>5, <2>6, <2>7, <2>8 DEF IInv
<1>7. CASE p.state # "all" /\ ~p.ok
  <2>1. /\ context' = [context EXCEPT ![d] = [state |-> p.state, request |-> p.request]]
        /\ UNCHANGED <<tpvars, seen>>
        /\ Write(d, Len(asked[d]), "refused") /\ Shutdown(d)
    BY <1>1, <1>7 DEF OnMessage
  <2>2. [state |-> p.state, request |-> p.request]
          \in [state : {"line", "headers", "body", "aborted"}, request : Req]
    BY <1>5, <1>7 DEF Parsing
  <2>3. /\ context' \in [Conn -> [state : {"line", "headers", "body", "aborted"}, request : Req]]
        /\ context'[d] = [state |-> p.state, request |-> p.request]
        /\ \A c \in Conn : c # d => context'[c] = context[c]
    BY <1>3, <2>1, <2>2 DEF HttpTypes
  <2>4. Len(asked[d]) \in Nat
    BY <1>3 DEF HttpTypes
  <2>5. wire' \in [Conn -> Seq(Frame)] /\ \A c \in Conn : c # d => wire'[c] = wire[c]
    <3>1. Writes(d, [req |-> Len(asked[d]), part |-> "refused"])
      BY <1>3, <2>1, <2>4, WriteTypes
    <3> QED
      BY <3>1 DEF Writes
  <2>6. /\ link' \in [Conn -> {"open", "shut", "gone"}]
        /\ \A c \in Conn : c # d => link'[c] = link[c]
    BY <1>3, <2>1 DEF HttpTypes, Shutdown
  <2>7. HttpTypes'
    BY <1>3, <1>4, <1>5, <2>1, <2>3, <2>5, <2>6 DEF HttpTypes
  <2>8. ConnInv(d)'
    BY <1>4, <1>5, <1>7, <2>1, <2>3, Refused
  <2>9. ASSUME NEW c \in Conn, c # d PROVE ConnInv(c)'
    <3>1. Aside(c)
      BY <1>4, <1>5, <2>1, <2>3, <2>5, <2>6, <2>9 DEF Aside
    <3> QED
      BY <1>5, <2>1, <3>1, PoolSame, AsideIsSafe DEF IInv
  <2>10. /\ PoolTypes' /\ NoTaskStranded'
         /\ \A v \in Worker : sentChunks'[v] > 0 => worker'[v] = "busy"
    BY <1>3, <1>5, <2>1 DEF PoolTypes, NoTaskStranded, tpvars
  <2>11. KnownTasks'
    BY <1>3, <2>1, <2>7, KnownSame DEF IInv
  <2> QED
    BY <2>7, <2>8, <2>9, <2>10, <2>11 DEF IInv
<1>8. CASE p.state = "all"
  <2>1. n \in 1..Len(asked[d]) /\ p.request.line = n /\ p.request \in Req
    BY <1>2, <1>4, <1>5, <1>8 DEF Got, Outcome, Whole, Parsing
  <2>2. n \in Nat /\ Len(asked[d]) \in Nat
    BY <1>3, <2>1 DEF HttpTypes
  <2>3. /\ seen' = [seen EXCEPT ![d] = Append(seen[d], p.request)]
        /\ context' = [context EXCEPT ![d] = Reset(p.request)]
        /\ \/ asked[d][n] = "chat" /\ Defer(d, n)
           \/ /\ Write(d, n, "full") /\ UNCHANGED tpvars
              /\ Shutdown(d) \/ UNCHANGED link
    BY <1>1, <1>8, <2>1 DEF OnMessage, OnRequest, AnswerNow
  <2>4. Reset(p.request) \in [state : {"line", "headers", "body", "aborted"}, request : Req]
    <3>1. [p.request EXCEPT !.line = 0, !.header = 0] \in Req
      BY <2>1 DEF Req
    <3> QED
      BY <3>1 DEF Reset
  <2>5. /\ context' \in [Conn -> [state : {"line", "headers", "body", "aborted"}, request : Req]]
        /\ context'[d] = Reset(p.request)
        /\ \A c \in Conn : c # d => context'[c] = context[c]
    BY <1>3, <2>3, <2>4 DEF HttpTypes
  <2>6. /\ seen' \in [Conn -> Seq(Req)]
        /\ \A c \in Conn : c # d => seen'[c] = seen[c]
    BY <1>3, <2>1, <2>3, AppendProperties DEF HttpTypes
  <2>7. /\ wire' \in [Conn -> Seq(Frame)] /\ \A c \in Conn : c # d => wire'[c] = wire[c]
        /\ \A i : Answered(d, i) => Answered(d, i)'
    <3>1. CASE Defer(d, n)
      BY <1>3, <3>1 DEF Defer, HttpTypes, Answered
    <3>2. CASE Write(d, n, "full")
      <4>1. Writes(d, [req |-> n, part |-> "full"])
        BY <1>3, <2>2, <3>2, WriteTypes
      <4> QED
        BY <4>1 DEF Writes
    <3> QED
      BY <2>3, <3>1, <3>2
  <2>8. /\ link' \in [Conn -> {"open", "shut", "gone"}]
        /\ \A c \in Conn : c # d => link'[c] = link[c]
        /\ link'[d] \in {link[d], "shut"}
    BY <1>3, <2>3 DEF HttpTypes, Shutdown, Defer
  <2>9. HttpTypes'
    BY <1>3, <1>4, <1>5, <2>5, <2>6, <2>7, <2>8 DEF HttpTypes
  <2>10. Reading(d)' /\ Heard(d)' /\ Asked(d)' /\ Done(d)' = n
    BY <1>2, <1>4, <1>5, <1>8, <2>3, <2>5, <2>7, <2>8, Handles
  <2>13. \A c \in Conn : Done(c) <= Done(c)'
    <3>1. ASSUME NEW c \in Conn, c # d PROVE Done(c) <= Done(c)'
      <4>1. Done(c)' = Done(c) /\ Done(c) \in Nat
        BY <1>3, <2>6, <3>1 DEF HttpTypes, Done
      <4> QED
        BY <4>1
    <3>2. Done(d) <= Done(d)'
      <4>1. Done(d) \in Nat
        BY <1>3 DEF HttpTypes, Done
      <4> QED
        BY <1>2, <2>10, <4>1
    <3> QED
      BY <3>1, <3>2
  <2>11. CASE asked[d][n] = "chat" /\ Defer(d, n)
    <3>1. Enqueue(<<d, n>>) /\ <<d, n>> \in Task
      BY <2>2, <2>11 DEF Defer, Task
    <3>2. PoolTypes' /\ NoTaskStranded'
      BY <1>3, <3>1, EnqueueIsSafe
    <3>3. \A v \in Worker : sentChunks'[v] > 0 => worker'[v] = "busy"
      BY <1>3, <1>5, <3>1 DEF Enqueue
    <3>4. Framed(d)' /\ (d \notin Garbled => Writing(d)')
      BY <1>2, <1>5, <2>1, <2>10, <2>11, AnswersLater
    <3>5. ASSUME NEW c \in Conn, c # d PROVE ConnInv(c)'
      <4>1. Aside(c)
        BY <1>4, <1>5, <2>5, <2>6, <2>7, <2>8, <3>5 DEF Aside
      <4>2. PoolKeeps(c, Done(c))
        <5>1. PICK m : m = Done(c)
          OBVIOUS
        <5>2. /\ NoTask(c) => NoTask(c)'
              /\ Waits(c, m) => Waits(c, m)'
              /\ \A w \in Worker : Serves(w, c, m) => Serves(w, c, m)'
          BY <1>3, <2>2, <3>1, <3>5, PoolGrows
        <5>3. PoolKeeps(c, m)
          BY <1>5, <5>2 DEF PoolKeeps
        <5> QED
          BY <5>1, <5>3
      <4> QED
        BY <4>1, <4>2, AsideIsSafe DEF IInv
    <3>6. KnownTasks'
      <4>1. n <= Done(d)'
        BY <2>2, <2>10
      <4> QED
        BY <1>3, <2>2, <2>9, <2>13, <3>1, <4>1, KnownGrows DEF IInv
    <3> QED
      BY <2>9, <2>10, <3>2, <3>3, <3>4, <3>5, <3>6 DEF IInv, ConnInv
  <2>12. CASE Write(d, n, "full") /\ UNCHANGED tpvars
    <3>1. /\ PoolTypes' /\ NoTaskStranded'
          /\ \A v \in Worker : sentChunks'[v] > 0 => worker'[v] = "busy"
      BY <1>3, <1>5, <2>12 DEF PoolTypes, NoTaskStranded, tpvars
    <3>2. Framed(d)' /\ (d \notin Garbled => Writing(d)')
      BY <1>2, <1>5, <2>1, <2>8, <2>10, <2>12, AnswersAtOnce
    <3>3. ASSUME NEW c \in Conn, c # d PROVE ConnInv(c)'
      <4>1. Aside(c)
        BY <1>4, <1>5, <2>5, <2>6, <2>7, <2>8, <3>3 DEF Aside
      <4> QED
        BY <1>5, <2>12, <4>1, PoolSame, AsideIsSafe DEF IInv
    <3>4. KnownTasks'
      BY <1>3, <2>9, <2>12, <2>13, KnownStays DEF IInv
    <3> QED
      BY <2>9, <2>10, <3>1, <3>2, <3>3, <3>4 DEF IInv, ConnInv
  <2> QED
    BY <2>3, <2>11, <2>12
<1> QED
  BY <1>6, <1>7, <1>8

(* A request line comes where a method is set: the process ends. *)
LEMMA AssertionFailsIsSafe ==
  ASSUME IInv, NEW d \in Conn, NEW k \in 1..Len(transit[d]), AssertionFails(d, k)
  PROVE  IInv'
<1>1. PICK p : p = Parse(d, buf[d] \o SubSeq(transit[d], 1, k))
  OBVIOUS
<1>2. PICK u : u = p.rest \o SubSeq(transit[d], k + 1, Len(transit[d]))
  OBVIOUS
<1>3. link[d] # "gone" /\ Abort(d, p)
  BY <1>1 DEF AssertionFails
<1>4. Got(d, p, u)
  BY <1>1, <1>2, <1>3, Arrives DEF IInv, ConnInv
<1> QED
  BY <1>3, <1>4, AbortIsSafe DEF Got

-----------------------------------------------------------------------------
(* Every step of the clients, the loop and the workers keeps the invariant. *)
LEMMA StepIsSafe ==
  ASSUME IInv, [Next]_vars
  PROVE  IInv'
<1>1. ASSUME NEW c \in Conn, Loop(c) PROVE IInv'
  BY <1>1, DoPendingFunctorIsSafe, OnMessageIsSafe, AssertionFailsIsSafe DEF Loop
<1>2. ASSUME NEW c \in Conn, Leave(c) PROVE IInv'
  BY <1>2, LeaveIsSafe
<1>3. ASSUME NEW c \in Conn, NEW kind \in Wants[c], Ask(c, kind) PROVE IInv'
  BY <1>3, AskIsSafe
<1>4. ASSUME NEW w \in Worker, Work(w) PROVE IInv'
  BY <1>4, StreamBeginsIsSafe, StreamGoesOnIsSafe, StreamStopsIsSafe, PoolStepIsSafe
     DEF Work
<1>5. CASE NotifyOne /\ UNCHANGED hvars
  BY <1>5, PoolStepIsSafe
<1>6. CASE UNCHANGED vars
  <2>1. UNCHANGED <<tpvars, hvars>>
    BY <1>6 DEF vars
  <2>2. HttpTypes' /\ PoolTypes' /\ NoTaskStranded'
    BY <2>1 DEF IInv, HttpTypes, PoolTypes, NoTaskStranded, tpvars, hvars
  <2>3. \A c : Aside(c)
    BY <2>1 DEF hvars, Aside
  <2>4. \A c \in Conn : ConnInv(c)'
    BY <2>1, <2>3, PoolSame, AsideIsSafe DEF IInv, hvars
  <2>5. \A w \in Worker : sentChunks'[w] > 0 => worker'[w] = "busy"
    BY <2>1 DEF IInv, tpvars, hvars
  <2>6. KnownTasks'
    BY <2>1, <2>2, KnownSame DEF IInv, hvars
  <2> QED
    BY <2>2, <2>4, <2>5, <2>6 DEF IInv
<1> QED
  BY <1>1, <1>2, <1>3, <1>4, <1>5, <1>6 DEF Next

(***************************************************************************)
(* The parser, the handlers, the pool and the loop stay as IInv has them,  *)
(* with everything of its type.                                            *)
(***************************************************************************)
THEOREM Inductive == Spec => []IInv
<1>1. Init => IInv
  BY StartIsSafe
<1>2. IInv /\ [Next]_vars => IInv'
  BY StepIsSafe
<1> QED
  BY <1>1, <1>2, PTL DEF Spec

(***************************************************************************)
(* The frames written to a client are whole answers, one for each request, *)
(* in the order of the requests: however many workers there are, a chat's  *)
(* stream and the loop's own answers are never interleaved.  It is proved  *)
(* of every connection whose chats meet UTF-8 texts only, whatever the     *)
(* other connections meet.                                                 *)
(***************************************************************************)
THEOREM AnswersStayInTurn == Spec => []AnswersInTurn
<1>1. IInv => AnswersInTurn
  <2>1. SUFFICES ASSUME IInv, NEW c \in Conn \ Garbled, NEW i \in 1..Len(wire[c])
                 PROVE  Follows(IF i = 1 THEN NoFrame ELSE wire[c][i - 1], wire[c][i])
    BY DEF AnswersInTurn, Follows, NoFrame
  <2> QED
    BY <2>1 DEF IInv, ConnInv, Writing, InTurn
<1> QED
  BY <1>1, Inductive, PTL

(***************************************************************************)
(* However the bytes are cut into segments, a handler is called with the   *)
(* line and the headers of one request, once for each request, and with    *)
(* its body; where it has no body, with none or with one of an earlier     *)
(* request of the connection, as reset() leaves it.                        *)
(***************************************************************************)
THEOREM RequestsAreTheirOwn == Spec => []RequestIsItsOwn
<1>1. IInv => RequestIsItsOwn
  <2>1. SUFFICES ASSUME IInv, NEW c \in Conn, NEW i \in 1..Len(seen[c])
                 PROVE  LET r == seen[c][i]
                        IN  /\ r.header \in {0, r.line}
                            /\ IF asked[c][r.line] \in {"form", "chat"}
                               THEN r.body = r.line ELSE r.body < r.line
                            /\ \A j \in 1..(i - 1) : seen[c][j].line < r.line
    BY DEF RequestIsItsOwn
  <2>2. \A j \in 1..Len(seen[c]) : Whole(c, seen[c][j], j)
    BY <2>1 DEF IInv, ConnInv, Heard, Done
  <2>3. Len(seen[c]) \in Nat
    BY <2>1 DEF IInv, HttpTypes
  <2>4. ASSUME NEW j \in 1..(i - 1) PROVE seen[c][j].line < seen[c][i].line
    <3>1. j \in 1..Len(seen[c]) /\ j < i
      BY <2>1, <2>3
    <3>2. seen[c][j].line = j /\ seen[c][i].line = i
      BY <2>1, <2>2, <3>1 DEF Whole
    <3> QED
      BY <3>1, <3>2
  <2> QED
    BY <2>1, <2>2, <2>4 DEF Whole
<1> QED
  BY <1>1, Inductive, PTL

(***************************************************************************)
(* No wake-up of the business pool is lost, with any number of workers.    *)
(***************************************************************************)
THEOREM NoTaskIsStranded == Spec => []NoTaskStranded
<1>1. IInv => NoTaskStranded
  BY DEF IInv
<1> QED
  BY <1>1, Inductive, PTL

(***************************************************************************)
(* A client that waits has its answers once nothing of it is on its way,   *)
(* however its requests were cut into segments, except to a request whose  *)
(* length is below 0, and where a failure's text may not be UTF-8.         *)
(***************************************************************************)
THEOREM QuietMeansAnswered == Spec => []AnsweredWhenQuiet
<1>1. IInv => AnsweredWhenQuiet
  <2>1. SUFFICES ASSUME IInv, NEW c \in Conn, c \notin Hasty, c \notin Garbled,
                        link[c] = "open", Quiet(c), NEW n \in 1..Len(asked[c]),
                        asked[c][n] # "negative_length"
                 PROVE  Answered(c, n)
    BY DEF AnsweredWhenQuiet
  <2>2. HttpTypes /\ ConnInv(c) /\ Writing(c) /\ Len(asked[c]) \in Nat
    <3>1. HttpTypes /\ ConnInv(c)
      BY <2>1 DEF IInv
    <3>2. Writing(c)
      BY <2>1, <3>1 DEF ConnInv
    <3>3. asked[c] \in Seq(Kinds)
      BY <3>1 DEF HttpTypes
    <3> QED
      BY <3>1, <3>2, <3>3
  <2>3. buf[c] = <<>> /\ transit[c] = <<>> /\ pending[c] = <<>> /\ ~Owes(c) /\ ~Streams(c)
    BY <2>1, <2>2 DEF ConnInv, Reading, Quiet, Owes, Streams, Waits, Serves
  <2>4. CASE n \in 1..(Len(asked[c]) - 1)
    BY <2>1, <2>2, <2>4 DEF ConnInv, Asked
  <2>5. CASE n = Len(asked[c])
    <3>1. Done(c) = n
      <4>1. In(c) = <<>>
        BY <2>3 DEF In
      <4>2. Stands(c, context[c].state, context[c].request, Done(c) + 1, <<>>, 1)
        BY <2>1, <2>2, <4>1 DEF ConnInv, Reading
      <4>3. ~Stuck(c, context[c].state, context[c].request, Done(c) + 1, <<>>, 1)
        BY <2>1, <2>5 DEF Stuck
      <4>4. Done(c) + 1 = Len(asked[c]) + 1
        BY <2>1, <4>2, <4>3 DEF Stands, Awaits
      <4> QED
        BY <2>2, <2>5, <4>4 DEF Done, HttpTypes
    <3>2. Rests(c)
      BY <2>1, <2>2, <2>3 DEF Writing
    <3>3. wire[c] \in Seq(Frame) /\ Frames(c) = wire[c]
      BY <2>2, <2>3, ConcatEmptySeq DEF HttpTypes, Frames
    <3>4. /\ Newest(wire[c]).part \in Complete /\ Newest(wire[c]).req = n /\ n # 0
      BY <2>1, <3>1, <3>2, <3>3 DEF Rests
    <3>5. wire[c] # <<>>
      BY <3>4 DEF Newest, NoFrame
    <3>6. Len(wire[c]) \in 1..Len(wire[c])
      BY <3>3, <3>5, EmptySeq
    <3> QED
      BY <3>4, <3>5, <3>6 DEF Newest, Answered
  <2> QED
    BY <2>1, <2>2, <2>4, <2>5
<1> QED
  BY <1>1, Inductive, PTL
=============================================================================
