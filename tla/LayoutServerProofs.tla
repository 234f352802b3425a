------------------------- MODULE LayoutServerProofs -------------------------
(***************************************************************************)
(* Proofs about LayoutServer, for every file and path, all ranges in the   *)
(* file, and any number of lines.                                          *)
(***************************************************************************)
EXTENDS LayoutServer, WellFoundedInduction, TLAPS

-----------------------------------------------------------------------------
(* The invariant.                                                          *)

\* No more lines are on their way than were sent.
Types == TypeOK /\ Len(wire) <= Len(sent)

\* A client that reset its connection before it got anything will get nothing.
Gone == client = "reset" /\ body = 0

BeforeRequest == {"start", "accept", "request"}
AfterAnswer == {"write", "written", "close", "exited"}

\* Until the first line is read nothing is known of the request.
Untouched ==
  /\ pc \in BeforeRequest =>
       /\ wire = sent /\ buf = Line("unset") /\ uri = <<>>
       /\ offset = 0 /\ end = 0
  /\ client = "none" => sent = <<>>
  /\ pc = "start" => client = "none"

\* Only the first line is a request, only the last one ends the headers.
RequestFirst ==
  \A n \in DOMAIN sent :
    /\ sent[n].kind = "request" => n = 1
    /\ sent[n].kind = "blank" => n = Len(sent)
    /\ sent[n].kind \in {"header", "edge", "ran", "range", "open"} => n # 1

\* Later, the path is the one of the request, if there was any.
PathRead ==
  pc \notin BeforeRequest =>
    \/ sent # <<>> /\ (sent[1].kind = "request" => uri = sent[1].uri)
    \/ sent = <<>> /\ client # "open"

\* The status is the one for that path; nothing is delivered without 200.
StatusOfPath ==
  /\ pc \in {"write", "written", "close"} => status # 0
  /\ status # 0 => pc \in AfterAnswer /\ status = StatusFor(FileName(uri))
  /\ body > 0 => status = 200 /\ pc \in {"close", "exited"}
  /\ body <= Deliverable

\* A client that goes on after its first line has sent a request.
HasRequest == Len(sent) > 1 => sent[1].kind = "request"

NoEdge == \A n \in DOMAIN sent : sent[n].kind # "edge"
Read == Len(sent) - Len(wire)

\* Without a line that fills the buffer, the lines are read as they were sent,
\* and the last one read is in the buffer.
InOrder ==
  /\ \A n \in DOMAIN wire : wire[n] = sent[Read + n]
  /\ buf = IF Read = 0 THEN Line("unset") ELSE sent[Read]
  /\ pc = "headers" /\ Read = 0 => sent = <<>> /\ client # "open"
  /\ pc \in AfterAnswer => wire = <<>> /\ (Ended \/ (sent = <<>> /\ client # "open"))

IsRange(line) == line.kind \in {"range", "open"}
RangesRead == {n \in 1 .. Read : IsRange(sent[n])}
RanSince(n) == \E k \in 1 .. Read : k > n /\ sent[k].kind = "ran"
EndRead(last) == IF last # 0 THEN last + 1 ELSE IF status = 200 THEN FileSize ELSE 0

\* The only range read, if any, is the one in force.
RangeRead ==
  /\ RangesRead = {} => offset = 0 /\ (status = 0 => end = 0)
  /\ \A n \in RangesRead :
       RangesRead = {n} =>
         /\ offset = sent[n].first
         /\ status \in {0, 200} /\ ~RanSince(n) => end = EndRead(sent[n].last)

\* A long name has gone over it.
Overwritten == pc \in AfterAnswer /\ uri # <<>> /\ Overlong(uri)

Delivers ==
  /\ Untouched /\ RequestFirst /\ PathRead /\ StatusOfPath /\ HasRequest
  /\ NoEdge => InOrder /\ (Overwritten \/ RangeRead)

IInv == Types /\ (Gone \/ Delivers)

-----------------------------------------------------------------------------
(* Lines and their types.                                                  *)

\* What a line of each kind holds.
LEMMA LineKinds ==
  ASSUME NEW line \in Lines
  PROVE  /\ line.kind \in {"request", "header", "edge", "ran", "range", "open", "blank", "part"}
         /\ line.kind = "request" => line.uri \in Uris
         /\ IsRange(line) => line.first \in 0 .. FileSize /\ line.last \in 0 .. FileSize
         /\ line.kind = "open" => line.last = 0
         /\ line.kind = "blank" => line = Line("blank")
         /\ line \in RequestLines <=> line.kind = "request"
         /\ line \in HeaderLines <=> line.kind \in {"header", "edge", "ran", "range", "open"}
<1> USE DEF IsRange
<1>1. CASE line \in RequestLines
  BY <1>1 DEF RequestLines, HeaderLines, Request, Line, Range, OpenRange
<1>2. CASE \E r \in Ranges : line \in {Range(r[1], r[2]), OpenRange(r[1])}
  <2>1. PICK r \in Ranges : line \in {Range(r[1], r[2]), OpenRange(r[1])}
    BY <1>2
  <2>2. r[1] \in 0 .. FileSize /\ r[2] \in 0 .. FileSize /\ 0 \in 0 .. FileSize
    BY LayoutAssumption
  <2>3. /\ line.kind \in {"range", "open"} /\ line.first = r[1] /\ line.last \in {r[2], 0}
        /\ line.kind = "open" => line.last = 0
    BY <2>1 DEF Range, OpenRange
  <2>4. line \in HeaderLines
    BY <2>1, Zenon DEF HeaderLines
  <2>5. line \notin RequestLines
    BY <2>3 DEF RequestLines, Request
  <2> QED
    BY <2>2, <2>3, <2>4, <2>5
<1>3. CASE line \in {Line("header"), Line("edge"), Line("ran"), Line("blank"), Line("part")}
  BY <1>3 DEF Line, HeaderLines, RequestLines, Request, Range, OpenRange
<1> QED
  BY <1>1, <1>2, <1>3 DEF Lines, HeaderLines

\* The server's own lines are lines.
LEMMA LinesMade ==
  /\ Line("header") \in Lines /\ Line("blank") \in Lines
  /\ Line("header").kind = "header" /\ Line("blank").kind = "blank"
  /\ Line("unset").kind = "unset"
BY DEF Lines, HeaderLines, Line

\* Two sequences, one after the other.
LEMMA Joined ==
  ASSUME NEW S, NEW s \in Seq(S), NEW t \in Seq(S)
  PROVE  s \o t \in Seq(S) /\ Len(s \o t) = Len(s) + Len(t)
OBVIOUS

\* No line is left, or those that were on their way.
LEMMA LinesLeft ==
  ASSUME Types, wire' = wire \/ wire' = <<>>
  PROVE  wire' \in Seq(Lines) /\ Len(wire') <= Len(sent) /\ Len(wire') <= MaxLines
<1>1. CASE wire' = wire
  BY <1>1 DEF Types, TypeOK
<1>2. CASE wire' = <<>>
  <2>1. wire' \in Seq(Lines) /\ Len(wire') = 0
    BY <1>2
  <2>2. Len(sent) \in Nat
    BY DEF Types, TypeOK
  <2> QED
    BY <2>1, <2>2, LayoutAssumption
<1> QED
  BY <1>1, <1>2

\* Taking a line from the wire, or finding it empty.
LEMMA ReadLineType ==
  ASSUME Types, ReadLine
  PROVE  /\ buf' \in Lines \cup {Line("unset")}
         /\ wire' \in Seq(Lines) /\ Len(wire') <= Len(wire)
         /\ wire # <<>> =>
              /\ wire[1] \in Lines
              /\ wire[1].kind # "edge" =>
                   /\ buf' = wire[1] /\ Len(wire') = Len(wire) - 1
                   /\ \A n \in DOMAIN wire' : wire'[n] = wire[n + 1]
         /\ wire = <<>> => client \in {"closed", "reset"} /\ UNCHANGED <<buf, wire>>
<1>1. CASE wire = <<>>
  <2>1. client \in {"closed", "reset"} /\ UNCHANGED <<buf, wire>>
    BY <1>1 DEF ReadLine
  <2> QED
    BY <1>1, <2>1 DEF Types, TypeOK
<1>2. CASE wire # <<>> /\ Head(wire).kind # "edge"
  <2>1. buf' = Head(wire) /\ wire' = Tail(wire)
    BY <1>2 DEF ReadLine
  <2>2. /\ wire \in Seq(Lines) /\ Len(wire) \in Nat \ {0}
        /\ Head(wire) = wire[1] /\ wire[1] \in Lines
    BY <1>2 DEF Types, TypeOK
  <2>3. /\ wire' \in Seq(Lines) /\ Len(wire') = Len(wire) - 1
        /\ \A n \in DOMAIN wire' : wire'[n] = wire[n + 1]
    BY <2>1, <2>2
  <2>4. Len(wire') <= Len(wire) /\ buf' \in Lines
    BY <2>1, <2>2, <2>3
  <2> QED
    BY <1>2, <2>1, <2>2, <2>3, <2>4
<1>3. CASE wire # <<>> /\ Head(wire).kind = "edge"
  <2> DEFINE blank == <<Line("blank")>>
  <2>1. buf' = Line("header") /\ wire' = blank \o Tail(wire)
    BY <1>3 DEF ReadLine
  <2>2. blank \in Seq(Lines) /\ Len(blank) = 1
    BY LinesMade
  <2> DEFINE rest == Tail(wire)
  <2>3. /\ wire[1] = Head(wire) /\ wire[1] \in Lines
        /\ rest \in Seq(Lines) /\ Len(rest) = Len(wire) - 1 /\ Len(wire) \in Nat
    BY <1>3 DEF Types, TypeOK
  <2>4. wire' = blank \o rest
    BY <2>1
  <2> HIDE DEF blank, rest
  <2>5. wire' \in Seq(Lines) /\ Len(wire') = Len(blank) + Len(rest)
    BY <2>2, <2>3, <2>4, Joined
  <2>6. Len(wire') <= Len(wire)
    <3>1. Len(wire') = 1 + (Len(wire) - 1)
      BY <2>2, <2>3, <2>5
    <3> QED
      BY <2>3, <3>1
  <2>7. buf' \in Lines
    BY <2>1, LinesMade
  <2> QED
    BY <1>3, <2>3, <2>5, <2>6, <2>7
<1> QED
  BY <1>1, <1>2, <1>3

\* The types of what the server writes, and what a line makes of the end.
LEMMA EndType ==
  ASSUME Types, NEW line \in Lines, IsRange(line) \/ line.kind = "ran"
  PROVE  /\ EndOf(line) \in 0 .. MaxEnd
         /\ line.kind = "range" => EndOf(line) = IF line.last # 0 THEN line.last + 1 ELSE 0
         /\ line.kind # "range" /\ end = 0 => EndOf(line) = 0
<1>1. line.kind = "range" => line.last \in 0 .. FileSize
  BY LineKinds DEF IsRange
<1>2. FileSize \in Nat /\ end \in 0 .. FileSize + 1
  BY LayoutAssumption DEF MaxEnd, Types, TypeOK
<1>3. CASE line.kind = "range"
  BY <1>1, <1>2, <1>3 DEF EndOf, MaxEnd
<1>4. CASE line.kind # "range"
  BY <1>2, <1>4 DEF EndOf, MaxEnd
<1> QED
  BY <1>3, <1>4

\* No more is delivered than the file has, and nothing past the end of the range.
LEMMA DeliverableType ==
  ASSUME Types
  PROVE  /\ Deliverable \in 0 .. FileSize
         /\ Deliverable > 0 => offset + Deliverable <= end
BY LayoutAssumption DEF Deliverable, MaxEnd, Types, TypeOK

\* Every step keeps the types.
LEMMA TypesStep ==
  ASSUME Types, [Next]_vars
  PROVE  Types'
<1> USE LayoutAssumption
<1>1. CASE Connect
  BY <1>1 DEF Connect, serverVars, Types, TypeOK
<1>2. ASSUME NEW line \in Lines, Send(line) PROVE Types'
  <2>1. /\ wire' = Append(wire, line) /\ sent' = Append(sent, line) /\ Len(sent) < MaxLines
        /\ UNCHANGED <<serverVars, client>>
    BY <1>2, Zenon DEF Send
  <2>2. /\ wire' \in Seq(Lines) /\ sent' \in Seq(Lines)
        /\ Len(sent') <= MaxLines /\ Len(wire') <= Len(sent')
    BY <2>1 DEF Types, TypeOK
  <2> QED
    BY <2>1, <2>2 DEF serverVars, Types, TypeOK
<1>3. CASE Hangup
  <2>1. wire' = wire \/ wire' = <<>>
    BY <1>3 DEF Hangup
  <2>2. wire' \in Seq(Lines) /\ Len(wire') <= Len(sent) /\ Len(wire') <= MaxLines
    BY <2>1, LinesLeft
  <2>3. client' \in {"closed", "reset"} /\ UNCHANGED <<serverVars, sent>>
    BY <1>3 DEF Hangup
  <2> QED
    BY <2>2, <2>3 DEF serverVars, Types, TypeOK
<1>4. CASE Listen \/ Accept \/ Exit
  BY <1>4 DEF Listen, Accept, Exit, Types, TypeOK
<1>5. CASE ReadRequest
  <2>1. ReadLine
    BY <1>5, Zenon DEF ReadRequest
  <2>2. uri' \in Uris \cup {<<>>}
    BY <1>5, <2>1, ReadLineType, LineKinds, LinesMade DEF ReadRequest, Types, TypeOK
  <2> QED
    BY <1>5, <2>1, <2>2, ReadLineType DEF ReadRequest, Types, TypeOK
<1>6. CASE ReadHeader
  <2>1. ReadLine
    BY <1>6, Zenon DEF ReadHeader
  <2>2. IsRange(buf') \/ buf'.kind = "ran" => buf' \in Lines
    BY <2>1, ReadLineType, LinesMade DEF IsRange
  <2>3. offset' \in 0 .. FileSize /\ end' \in 0 .. MaxEnd
    BY <1>6, <2>2, LineKinds, EndType DEF ReadHeader, IsRange, Types, TypeOK
  <2> QED
    BY <1>6, <2>1, <2>3, ReadLineType DEF ReadHeader, Types, TypeOK
<1>7. CASE Answer
  <2>1. uri' \in Uris \cup {<<>>}
    BY <1>7 DEF Answer, Types, TypeOK
  <2>2. status' \in {200, 400, 404}
    BY <1>7 DEF Answer, StatusFor
  <2>3. offset' \in 0 .. FileSize /\ end' \in 0 .. MaxEnd
    <3>1. offset' \in 0 .. FileSize
      BY <1>7 DEF Answer, Types, TypeOK
    <3>2. PICK e \in 0 .. MaxEnd : end' = IF status' = 200 /\ e = 0 THEN FileSize ELSE e
      BY <1>7 DEF Answer, Types, TypeOK
    <3>3. FileSize \in 0 .. MaxEnd
      BY DEF MaxEnd
    <3> QED
      BY <3>1, <3>2, <3>3
  <2> QED
    BY <1>7, <2>1, <2>2, <2>3 DEF Answer, Types, TypeOK
<1>8. CASE Write
  BY <1>8 DEF Write, AfterWrite, Types, TypeOK
<1>9. CASE Serve
  BY <1>9, DeliverableType DEF Serve, Types, TypeOK
<1>10. CASE UNCHANGED vars
  BY <1>10 DEF vars, serverVars, Types, TypeOK
<1> QED
  BY <1>1, <1>2, <1>3, <1>4, <1>5, <1>6, <1>7, <1>8, <1>9, <1>10 DEF Next, Server

\* The state always has its type.
THEOREM TypeCorrect == Spec => []TypeOK
<1>1. Init => Types
  BY LayoutAssumption, LinesMade DEF Init, Types, TypeOK, MaxEnd
<1>2. Types => TypeOK
  BY DEF Types
<1> QED
  BY <1>1, <1>2, TypesStep, PTL DEF Spec

-----------------------------------------------------------------------------
(* Paths.                                                                  *)

\* A set of numbers that is not empty has a least one.
LEMMA SmallestOf ==
  ASSUME NEW T \in SUBSET Nat, T # {}
  PROVE  \E m \in T : \A k \in T : m <= k
<1> DEFINE R == OpToRel(<, Nat)
<1>1. \A k, m \in Nat : k < m => <<k, m>> \in R
  BY DEF OpToRel
<1>2. IsWellFoundedOn(R, Nat)
  BY NatLessThanWellFounded
<1> HIDE DEF R
<1>3. PICK m \in T : \A k \in T : ~(<<k, m>> \in R)
  BY <1>2, WFMin
<1>4. ASSUME NEW k \in T PROVE m <= k
  <2>1. k \in Nat /\ m \in Nat /\ ~(<<k, m>> \in R)
    BY <1>3
  <2>2. ~(k < m)
    BY <1>1, <2>1, Zenon
  <2> QED
    BY <2>1, <2>2
<1> QED
  BY <1>4

\* Before keeps what comes before the first such token, and only that.
LEMMA BeforeCuts ==
  ASSUME NEW token, NEW p \in Seq(Tokens)
  PROVE  \E n \in 0 .. Len(p) :
           /\ \A k \in 1 .. n : p[k] # token
           /\ n < Len(p) => p[n + 1] = token
           /\ Before(token, p) = SubSeq(p, 1, n)
<1> DEFINE Cut(n) == (\A k \in 1 .. n : p[k] # token) /\ (n < Len(p) => p[n + 1] = token)
<1>1. \E n \in 0 .. Len(p) : Cut(n)
  <2> DEFINE Q == {k \in 1 .. Len(p) : p[k] = token}
  <2>1. CASE Q = {}
    <3>1. Len(p) \in 0 .. Len(p) /\ Cut(Len(p))
      BY <2>1
    <3> QED
      BY <3>1
  <2>2. CASE Q # {}
    <3>1. Q \in SUBSET Nat
      OBVIOUS
    <3>2. PICK m \in Q : \A k \in Q : m <= k
      <4> HIDE DEF Q
      <4> QED
        BY <2>2, <3>1, SmallestOf
    <3>3. m - 1 \in 0 .. Len(p) /\ Cut(m - 1)
      BY <3>2
    <3> QED
      BY <3>3
  <2> QED
    BY <2>1, <2>2
<1> DEFINE n == CHOOSE n \in 0 .. Len(p) : Cut(n)
<1>2. n \in 0 .. Len(p) /\ Cut(n)
  <2> HIDE DEF Cut
  <2> QED
    BY <1>1
<1>3. Before(token, p) = SubSeq(p, 1, n)
  BY DEF Before
<1> HIDE DEF n
<1> QED
  BY <1>2, <1>3

\* What decodes to ".".
LEMMA DecodesToDot ==
  ASSUME NEW p \in Seq(Tokens)
  PROVE  Decoded(p) = <<".">> <=>
           Len(p) > 0 /\ p[1] \in Dot /\ (Len(p) > 1 => p[2] = "%zz")
<1> DEFINE d == Decoded(p)
<1>1. PICK n \in 0 .. Len(p) :
        /\ \A k \in 1 .. n : p[k] # "%zz"
        /\ n < Len(p) => p[n + 1] = "%zz"
        /\ Before("%zz", p) = SubSeq(p, 1, n)
  BY BeforeCuts, Zenon
<1>2. DOMAIN Before("%zz", p) = 1 .. n
  BY <1>1
<1>3. d = [k \in 1 .. n |-> IF p[k] = "%2e" THEN "." ELSE p[k]]
  BY <1>2 DEF Decoded
<1>4. ASSUME d = <<".">> PROVE Len(p) > 0 /\ p[1] \in Dot /\ (Len(p) > 1 => p[2] = "%zz")
  <2>1. DOMAIN d = 1 .. 1 /\ d[1] = "."
    BY <1>4
  <2>2. n = 1
    BY <1>3, <2>1
  <2> QED
    BY <1>1, <1>3, <2>1, <2>2 DEF Dot
<1>5. ASSUME Len(p) > 0, p[1] \in Dot, Len(p) > 1 => p[2] = "%zz" PROVE d = <<".">>
  <2>1. p[1] # "%zz"
    BY <1>5 DEF Dot
  <2>2. n = 1
    BY <1>1, <1>5, <2>1
  <2>3. d = [k \in 1 .. 1 |-> IF p[k] = "%2e" THEN "." ELSE p[k]]
    BY <1>3, <2>2
  <2>4. \A k \in 1 .. 1 : (IF p[k] = "%2e" THEN "." ELSE p[k]) = "."
    BY <1>5 DEF Dot
  <2> QED
    BY <2>3, <2>4
<1> QED
  BY <1>4, <1>5

\* A sequence of one element.
LEMMA Single ==
  ASSUME NEW S, NEW s \in Seq(S), NEW x
  PROVE  s = <<x>> <=> Len(s) = 1 /\ s[1] = x
OBVIOUS

\* A path is taken for the layout's exactly if it stands for it, or is cut to it.
LEMMA FileNameOfLayout ==
  ASSUME NEW u \in Uris
  PROVE  FileName(u) = <<".">> <=> StandsForLayout(u) \/ CutToDot(u)
<1> DEFINE slash == "/"
           query == "?"
           zero == "%zz"
           dot == "."
<1>1. u \in Seq(Tokens) /\ Len(u) \in Nat \ {0} /\ Head(u) = u[1]
  BY LayoutAssumption
<1>2. FileName(u) = IF u[1] # slash THEN Decoded(u)
                    ELSE IF Len(u) = 1 THEN Decoded(<<dot>>)
                    ELSE Decoded(Before(query, Tail(u)))
  BY <1>1, Zenon DEF FileName, PathIn
<1>3. StandsForLayout(u) \/ CutToDot(u) <=>
        \/ u = <<slash>>
        \/ Len(u) = 1 /\ u[1] \in Dot
        \/ Len(u) > 1 /\ u[1] = slash /\ u[2] \in Dot /\ (Len(u) > 2 => u[3] = query)
        \/ Len(u) > 1 /\ u[1] \in Dot /\ u[2] = zero
        \/ Len(u) > 2 /\ u[1] = slash /\ u[2] \in Dot /\ u[3] = zero
  BY Zenon DEF StandsForLayout, CutToDot
<1>4. \A p \in Seq(Tokens) :
        /\ Decoded(p) = <<dot>> <=> Len(p) > 0 /\ p[1] \in Dot /\ (Len(p) > 1 => p[2] = zero)
        /\ \E n \in 0 .. Len(p) :
             /\ \A k \in 1 .. n : p[k] # query
             /\ n < Len(p) => p[n + 1] = query
             /\ Before(query, p) = SubSeq(p, 1, n)
  BY DecodesToDot, BeforeCuts, Zenon
<1>5. slash \notin Dot /\ query \notin Dot /\ query # zero
  BY DEF Dot
<1>6. Decoded(<<dot>>) = <<dot>>
  <2> DEFINE p == <<dot>>
  <2>1. p \in Seq(Tokens) /\ Len(p) = 1 /\ p[1] \in Dot
    BY DEF Tokens, Dot
  <2> HIDE DEF p
  <2>2. Decoded(p) = <<dot>>
    BY <1>4, <2>1
  <2> QED
    BY <2>2 DEF p
<1> DEFINE stands == StandsForLayout(u) \/ CutToDot(u)
<1> SUFFICES FileName(u) = <<dot>> <=> stands
  OBVIOUS
<1> HIDE DEF slash, query, zero, dot, stands
<1>7. u = <<slash>> <=> Len(u) = 1 /\ u[1] = slash
  BY <1>1, Single
<1>8. stands <=>
        \/ u = <<slash>>
        \/ Len(u) = 1 /\ u[1] \in Dot
        \/ Len(u) > 1 /\ u[1] = slash /\ u[2] \in Dot /\ (Len(u) > 2 => u[3] = query)
        \/ Len(u) > 1 /\ u[1] \in Dot /\ u[2] = zero
        \/ Len(u) > 2 /\ u[1] = slash /\ u[2] \in Dot /\ u[3] = zero
  BY <1>3 DEF stands
<1>9. CASE u[1] # slash
  BY <1>1, <1>2, <1>4, <1>7, <1>8, <1>9
<1>10. CASE u[1] = slash /\ Len(u) = 1
  BY <1>2, <1>6, <1>7, <1>8, <1>10
<1>11. CASE u[1] = slash /\ Len(u) # 1
  <2> DEFINE p == Tail(u)
  <2>1. /\ p \in Seq(Tokens) /\ Len(p) = Len(u) - 1 /\ Len(p) \in Nat \ {0}
        /\ p[1] = u[2] /\ (Len(u) > 2 => p[2] = u[3])
    BY <1>1, <1>11
  <2>2. FileName(u) = Decoded(Before(query, p))
    BY <1>2, <1>11
  <2>3. stands <=> \/ p[1] \in Dot /\ (Len(p) > 1 => p[2] = query)
                   \/ p[1] \in Dot /\ Len(p) > 1 /\ p[2] = zero
    BY <1>1, <1>5, <1>7, <1>8, <1>11, <2>1
  <2> HIDE DEF p
  <2>4. PICK n \in 0 .. Len(p) :
          /\ \A k \in 1 .. n : p[k] # query
          /\ n < Len(p) => p[n + 1] = query
          /\ Before(query, p) = SubSeq(p, 1, n)
    BY <1>4, <2>1
  <2> DEFINE before == Before(query, p)
  <2>5. /\ before \in Seq(Tokens) /\ Len(before) = n
        /\ (n > 0 => before[1] = p[1]) /\ (n > 1 => before[2] = p[2])
    BY <2>1, <2>4
  <2>6. FileName(u) = <<dot>> <=>
          Len(before) > 0 /\ before[1] \in Dot /\ (Len(before) > 1 => before[2] = zero)
    BY <1>4, <2>2, <2>5
  <2> HIDE DEF before
  <2>7. FileName(u) = <<dot>> <=> n > 0 /\ p[1] \in Dot /\ (n > 1 => p[2] = zero)
    BY <2>4, <2>5, <2>6
  <2>8. CASE n = 0
    BY <1>5, <2>1, <2>3, <2>4, <2>7, <2>8
  <2>9. CASE n = 1
    BY <1>5, <2>1, <2>3, <2>4, <2>7, <2>9
  <2>10. CASE n > 1
    BY <2>1, <2>3, <2>4, <2>7, <2>10
  <2> QED
    BY <2>4, <2>8, <2>9, <2>10
<1> QED
  BY <1>1, <1>9, <1>10, <1>11

-----------------------------------------------------------------------------
(* The steps of the invariant.                                             *)

\* The lengths of what was sent, of what was read and of what was not.
LEMMA Sizes ==
  ASSUME Types
  PROVE  /\ Read \in 0 .. Len(sent) /\ Len(wire) \in Nat /\ Len(sent) \in Nat
         /\ DOMAIN sent = 1 .. Len(sent) /\ DOMAIN wire = 1 .. Len(wire)
         /\ Len(wire) = Len(sent) - Read
         /\ wire = <<>> <=> Read = Len(sent)
         /\ wire = <<>> <=> Len(wire) = 0
         /\ sent = <<>> <=> Len(sent) = 0
         /\ \A n \in 1 .. Len(sent) : sent[n] \in Lines
BY DEF Read, Types, TypeOK

\* What Send adds.
LEMMA SendAdds ==
  ASSUME Types, NEW line \in Lines, Send(line)
  PROVE  /\ Len(sent') = Len(sent) + 1 /\ sent'[Len(sent) + 1] = line
         /\ \A n \in 1 .. Len(sent) : sent'[n] = sent[n]
         /\ Len(wire') = Len(wire) + 1 /\ wire'[Len(wire) + 1] = line
         /\ \A n \in 1 .. Len(wire) : wire'[n] = wire[n]
         /\ Read' = Read
<1>1. wire' = Append(wire, line) /\ sent' = Append(sent, line)
  BY Zenon DEF Send
<1>2. wire \in Seq(Lines) /\ sent \in Seq(Lines)
  BY DEF Types, TypeOK
<1> QED
  BY <1>1, <1>2 DEF Read

\* Who was gone stays so.
LEMMA GoneStep ==
  ASSUME Gone, [Next]_vars
  PROVE  Gone'
BY DEF Gone, Next, Server, Connect, Send, Hangup, Listen, Accept, ReadRequest, ReadHeader,
       Answer, Write, Serve, Exit, vars, serverVars

\* Every step keeps the parts of the invariant: first, what is not known before
\* the request line is read.
LEMMA UntouchedStep ==
  ASSUME Types, Delivers, [Next]_vars, ~Gone'
  PROVE  Untouched'
<1> USE DEF BeforeRequest
<1>1. Untouched
  BY DEF Delivers
<1>2. CASE Connect
  BY <1>1, <1>2 DEF Untouched, Connect, serverVars
<1>3. ASSUME NEW line \in Lines, Send(line) PROVE Untouched'
  <2>1. /\ wire' = Append(wire, line) /\ sent' = Append(sent, line) /\ client = "open"
        /\ UNCHANGED <<pc, buf, uri, offset, end, client>>
    BY <1>3 DEF Send, serverVars
  <2> QED
    BY <1>1, <2>1 DEF Untouched
<1>4. CASE Hangup
  <2>1. body = 0 => client' = "closed" /\ wire' = wire
    BY <1>4 DEF Hangup, Gone, serverVars
  <2>2. pc \in BeforeRequest => body = 0
    BY DEF Delivers, StatusOfPath, Types, TypeOK
  <2>3. client = "open" /\ client' # "none" /\ UNCHANGED <<pc, buf, uri, offset, end, sent>>
    BY <1>4 DEF Hangup, serverVars
  <2> QED
    BY <1>1, <2>1, <2>2, <2>3 DEF Untouched
<1>5. CASE Listen
  BY <1>1, <1>5 DEF Untouched, Listen
<1>6. CASE Accept
  BY <1>1, <1>6 DEF Untouched, Accept
<1>7. CASE ReadRequest \/ ReadHeader \/ Answer \/ Write \/ Serve \/ Exit
  <2>1. pc' \notin BeforeRequest /\ UNCHANGED <<client, sent>>
    BY <1>7 DEF ReadRequest, ReadHeader, Answer, Write, AfterWrite, Serve, Exit
  <2> QED
    BY <1>1, <2>1 DEF Untouched
<1>8. CASE UNCHANGED vars
  BY <1>1, <1>8 DEF Untouched, vars, serverVars
<1> QED
  BY <1>2, <1>3, <1>4, <1>5, <1>6, <1>7, <1>8 DEF Next, Server

\* The client sends one request, and nothing after the blank line.
LEMMA RequestFirstStep ==
  ASSUME Types, Delivers, [Next]_vars
  PROVE  RequestFirst'
<1>1. RequestFirst
  BY DEF Delivers
<1>2. ASSUME NEW line \in Lines, Send(line) PROVE RequestFirst'
  <2>1. /\ Len(sent) \in Nat /\ Len(sent') = Len(sent) + 1 /\ sent'[Len(sent) + 1] = line
        /\ \A n \in 1 .. Len(sent) : sent'[n] = sent[n]
    BY <1>2, SendAdds, Sizes
  <2>2. DOMAIN sent' = 1 .. Len(sent) + 1 /\ DOMAIN sent = 1 .. Len(sent)
    <3>1. Types'
      BY TypesStep
    <3> QED
      BY <2>1, <3>1 DEF Types, TypeOK
  <2>3. /\ line.kind = "request" => sent = <<>>
        /\ line.kind \in {"header", "edge", "ran", "range", "open"} => sent # <<>>
    BY <1>2, LineKinds DEF Send
  <2>4. \A n \in 1 .. Len(sent) : sent[n].kind # "blank"
    <3>1. ~Ended
      BY <1>2 DEF Send
    <3> QED
      BY <1>1, <2>1, <2>2, <3>1, Sizes DEF Ended, RequestFirst
  <2>5. ASSUME NEW n \in 1 .. Len(sent)
        PROVE  /\ sent'[n].kind = "request" => n = 1
               /\ sent'[n].kind = "blank" => n = Len(sent')
               /\ sent'[n].kind \in {"header", "edge", "ran", "range", "open"} => n # 1
    BY <1>1, <2>1, <2>2, <2>4 DEF RequestFirst
  <2>6. ASSUME NEW n \in {Len(sent) + 1}
        PROVE  /\ sent'[n].kind = "request" => n = 1
               /\ sent'[n].kind = "blank" => n = Len(sent')
               /\ sent'[n].kind \in {"header", "edge", "ran", "range", "open"} => n # 1
    BY <2>1, <2>3, Sizes
  <2> QED
    BY <2>1, <2>2, <2>5, <2>6 DEF RequestFirst
<1>3. CASE sent' = sent
  BY <1>1, <1>3 DEF RequestFirst
<1> QED
  BY <1>2, <1>3 DEF Next, Server, Connect, Hangup, Listen, Accept, ReadRequest, ReadHeader,
     Answer, Write, Serve, Exit, vars, serverVars

\* Behind its first line the client sends headers only if that was a request.
LEMMA HasRequestStep ==
  ASSUME Types, Delivers, [Next]_vars
  PROVE  HasRequest'
<1>1. HasRequest /\ RequestFirst
  BY DEF Delivers
<1>2. ASSUME NEW line \in Lines, Send(line) PROVE HasRequest'
  <2>1. /\ Len(sent) \in Nat /\ Len(sent') = Len(sent) + 1
        /\ \A n \in 1 .. Len(sent) : sent'[n] = sent[n]
    BY <1>2, SendAdds, Sizes
  <2>2. CASE Len(sent) = 1
    <3>1. ~Ended
      BY <1>2 DEF Send
    <3>2. sent[1] \in Lines /\ sent[1].kind \notin {"blank", "part"}
      BY <2>2, <3>1, Sizes DEF Ended
    <3>3. sent[1].kind \notin {"header", "edge", "ran", "range", "open"}
      BY <1>1, <2>2, Sizes DEF RequestFirst
    <3> QED
      BY <2>1, <2>2, <3>2, <3>3, LineKinds DEF HasRequest
  <2>3. CASE Len(sent) = 0
    BY <2>1, <2>3 DEF HasRequest
  <2>4. CASE Len(sent) > 1
    <3>1. sent'[1] = sent[1]
      BY <2>1, <2>4
    <3> QED
      BY <1>1, <2>4, <3>1 DEF HasRequest
  <2>5. Len(sent) = 0 \/ Len(sent) = 1 \/ Len(sent) > 1
    <3>1. \A n \in Nat : n = 0 \/ n = 1 \/ n > 1
      OBVIOUS
    <3>2. Len(sent) \in Nat
      BY <2>1
    <3> QED
      BY <3>1, <3>2, Zenon
  <2> QED
    BY <2>2, <2>3, <2>4, <2>5, Zenon
<1>3. CASE sent' = sent
  BY <1>1, <1>3 DEF HasRequest
<1> QED
  BY <1>2, <1>3 DEF Next, Server, Connect, Hangup, Listen, Accept, ReadRequest, ReadHeader,
     Answer, Write, Serve, Exit, vars, serverVars

\* Before the first line is read the types leave nothing to the buffer; after
\* it the buffer holds that line.
LEMMA FirstLineRead ==
  ASSUME Types, Delivers, ReadRequest
  PROVE  /\ pc' = "headers" /\ UNCHANGED <<sent, client, offset, end, status, body>>
         /\ wire = sent /\ Read = 0
         /\ \/ /\ sent # <<>> /\ Read' = 1 /\ buf' = sent[1]
               /\ \A n \in DOMAIN wire' : wire'[n] = sent[n + 1]
               /\ sent[1].kind = "request" => uri' = sent[1].uri
            \/ /\ sent = <<>> /\ client # "open" /\ Read' = 0
               /\ wire' = <<>> /\ buf' = Line("unset")
<1>1. pc = "request" /\ pc' = "headers" /\ UNCHANGED <<sent, client, offset, end, status, body>>
  BY Zenon DEF ReadRequest
<1>2. ReadLine /\ uri' = IF buf'.kind = "request" THEN buf'.uri ELSE uri
  BY Zenon DEF ReadRequest
<1>3. wire = sent /\ buf = Line("unset")
  BY <1>1 DEF Delivers, Untouched, BeforeRequest
<1>4. Read = 0
  BY <1>3, Sizes DEF Read
<1>5. CASE wire = <<>>
  <2>1. client \in {"closed", "reset"} /\ UNCHANGED <<buf, wire>>
    BY <1>2, <1>5, ReadLineType
  <2> QED
    BY <1>1, <1>3, <1>4, <1>5, <2>1 DEF Read
<1>6. CASE wire # <<>>
  <2>1. wire[1].kind # "edge"
    BY <1>3, <1>6, Sizes DEF Delivers, RequestFirst
  <2>2. /\ buf' = wire[1] /\ Len(wire') = Len(wire) - 1
        /\ \A n \in DOMAIN wire' : wire'[n] = wire[n + 1]
    BY <1>2, <1>6, <2>1, ReadLineType
  <2>3. Read' = 1
    BY <1>1, <1>3, <2>2, Sizes DEF Read
  <2> QED
    BY <1>1, <1>2, <1>3, <1>4, <1>6, <2>2, <2>3
<1> QED
  BY <1>5, <1>6

\* The path stays the one of the request.
LEMMA PathReadStep ==
  ASSUME Types, Delivers, [Next]_vars
  PROVE  PathRead'
<1> USE DEF BeforeRequest
<1>1. PathRead
  BY DEF Delivers
<1>2. ASSUME NEW line \in Lines, Send(line) PROVE PathRead'
  <2>1. client = "open" /\ UNCHANGED <<pc, uri>>
    BY <1>2 DEF Send, serverVars
  <2>2. sent # <<>> => sent' # <<>> /\ sent'[1] = sent[1]
    <3>1. ASSUME sent # <<>> PROVE 1 \in 1 .. Len(sent) /\ Len(sent') # 0
      BY <1>2, <3>1, Sizes, SendAdds
    <3> QED
      BY <1>2, <3>1, SendAdds
  <2> QED
    BY <1>1, <2>1, <2>2 DEF PathRead
<1>3. CASE Connect \/ Accept
  BY <1>3 DEF Connect, Accept, serverVars, PathRead
<1>4. CASE Listen
  BY <1>4 DEF Listen, PathRead, Delivers, Untouched
<1>5. CASE ReadRequest
  BY <1>5, FirstLineRead DEF PathRead
<1>6. CASE Answer
  <2>1. /\ pc = "headers" /\ UNCHANGED <<sent, client>>
        /\ uri # <<>> => uri' = uri
    BY <1>6 DEF Answer
  <2>2. sent # <<>> /\ sent[1].kind = "request" => uri # <<>>
    <3>1. ASSUME sent # <<>>, sent[1].kind = "request" PROVE uri \in Uris
      <4>1. uri = sent[1].uri
        BY <1>1, <2>1, <3>1 DEF PathRead
      <4>2. sent[1] \in Lines
        BY <3>1, Sizes
      <4> QED
        BY <3>1, <4>1, <4>2, LineKinds
    <3> QED
      BY <3>1, LayoutAssumption
  <2> QED
    BY <1>1, <2>1, <2>2 DEF PathRead
<1>7. CASE ReadHeader \/ Write \/ Serve \/ Exit \/ Hangup \/ UNCHANGED vars
  <2>1. /\ UNCHANGED <<sent, uri>> /\ (client # "open" => client' # "open")
        /\ pc' \notin BeforeRequest => pc \notin BeforeRequest
    BY <1>7 DEF ReadHeader, Write, Serve, Exit, Hangup, serverVars, vars
  <2> QED
    BY <1>1, <2>1 DEF PathRead
<1> QED
  BY <1>2, <1>3, <1>4, <1>5, <1>6, <1>7 DEF Next, Server

\* The status stays the one of the path.
LEMMA StatusOfPathStep ==
  ASSUME Types, Delivers, [Next]_vars
  PROVE  StatusOfPath'
<1> USE DEF AfterAnswer
<1>1. /\ StatusOfPath
      /\ Deliverable' \in 0 .. FileSize
  <2>1. offset' \in 0 .. FileSize /\ end' \in 0 .. FileSize + 1
    BY TypesStep DEF Types, TypeOK, MaxEnd
  <2> DEFINE from == offset'
             to == end'
             asked == IF from >= to \/ from >= FileSize THEN 0
                      ELSE IF to < FileSize THEN to - from ELSE FileSize - from
  <2>2. asked \in 0 .. FileSize
    <3> HIDE DEF from, to
    <3>1. FileSize \in Nat
      BY LayoutAssumption
    <3>2. from \in 0 .. FileSize /\ to \in 0 .. FileSize + 1
      BY <2>1 DEF from, to
    <3> QED
      BY <3>1, <3>2
  <2>3. Deliverable' = asked
    BY DEF Deliverable
  <2> QED
    BY <2>2, <2>3 DEF Delivers
<1>2. ASSUME UNCHANGED <<pc, file, uri, offset, end, status, body>> PROVE StatusOfPath'
  BY <1>1, <1>2 DEF StatusOfPath, StatusFor, Deliverable
<1>3. ASSUME pc \notin AfterAnswer, UNCHANGED <<status, body>>,
             pc' \notin {"write", "written", "close"}
      PROVE  StatusOfPath'
  <2>1. status = 0 /\ body = 0
    BY <1>1, <1>3 DEF StatusOfPath, Types, TypeOK
  <2> QED
    BY <1>1, <1>3, <2>1 DEF StatusOfPath
<1>4. CASE Connect \/ Hangup \/ UNCHANGED vars \/ \E line \in Lines : Send(line)
  BY <1>2, <1>4 DEF Connect, Hangup, Send, vars, serverVars
<1>5. CASE Listen \/ Accept \/ ReadRequest \/ ReadHeader
  BY <1>3, <1>5 DEF Listen, Accept, ReadRequest, ReadHeader
<1>6. CASE Answer
  <2>1. pc' = "write" /\ UNCHANGED <<file, body>> /\ status' = StatusFor(FileName(uri'))
    BY <1>6, Zenon DEF Answer
  <2>2. body = 0
    BY <1>1, <1>6 DEF Answer, StatusOfPath, Types, TypeOK
  <2>3. status' # 0 /\ status' = StatusFor(FileName(uri))'
    BY <2>1 DEF StatusFor
  <2> QED
    BY <1>1, <2>1, <2>2, <2>3 DEF StatusOfPath
<1>7. CASE Write \/ Exit
  <2>1. /\ pc \in AfterAnswer /\ pc' \in AfterAnswer
        /\ UNCHANGED <<file, uri, offset, end, status, body>>
        /\ body > 0 => pc' \in {"close", "exited"}
        /\ status # 0 \/ pc' \notin {"write", "written", "close"}
    BY <1>1, <1>7 DEF Write, AfterWrite, Exit, StatusOfPath
  <2> QED
    BY <1>1, <2>1 DEF StatusOfPath, StatusFor, Deliverable
<1>8. CASE Serve
  <2>1. /\ status = 200 /\ pc' = "close" /\ body' \in 0 .. Deliverable
        /\ UNCHANGED <<file, uri, offset, end, status>>
    BY <1>8 DEF Serve
  <2> QED
    BY <1>1, <1>8, <2>1, DeliverableType DEF Serve, StatusOfPath, StatusFor, Deliverable
<1> QED
  BY <1>4, <1>5, <1>6, <1>7, <1>8 DEF Next, Server

\* A header line is read, or the end of the connection is found.
LEMMA HeaderRead ==
  ASSUME Types, Delivers, NoEdge, InOrder, ReadHeader
  PROVE  /\ pc = "headers" /\ pc' = "headers" /\ buf.kind # "blank"
         /\ UNCHANGED <<sent, client, status, body>>
         /\ offset' = IF IsRange(buf') THEN buf'.first ELSE offset
         /\ end' = IF IsRange(buf') \/ buf'.kind = "ran" THEN EndOf(buf') ELSE end
         /\ \/ /\ wire # <<>> /\ Read' = Read + 1 /\ Read + 1 \in 1 .. Len(sent)
               /\ buf' = sent[Read + 1]
               /\ \A n \in DOMAIN wire' : wire'[n] = wire[n + 1] /\ n + 1 \in DOMAIN wire
            \/ wire = <<>> /\ client # "open" /\ Read' = Read /\ UNCHANGED <<buf, wire>>
<1>1. /\ pc = "headers" /\ pc' = "headers" /\ ~Blank(buf) /\ ReadLine
      /\ UNCHANGED <<sent, client, status, body>>
      /\ offset' = IF IsRange(buf') THEN buf'.first ELSE offset
      /\ end' = IF IsRange(buf') \/ buf'.kind = "ran" THEN EndOf(buf') ELSE end
  <2>1. /\ pc = "headers" /\ pc' = "headers" /\ ~Blank(buf) /\ ReadLine
        /\ UNCHANGED <<sent, client, status, body>>
        /\ offset' = IF buf'.kind \in {"range", "open"} THEN buf'.first ELSE offset
        /\ end' = IF buf'.kind \in {"range", "open", "ran"} THEN EndOf(buf') ELSE end
    BY Zenon DEF ReadHeader
  <2> QED
    BY <2>1 DEF IsRange
<1>2. CASE wire = <<>>
  <2>1. client \in {"closed", "reset"} /\ UNCHANGED <<buf, wire>>
    BY <1>1, <1>2, ReadLineType
  <2>2. Read' = Read
    BY <1>1, <2>1 DEF Read
  <2> QED
    BY <1>1, <1>2, <2>1, <2>2 DEF Blank
<1>3. CASE wire # <<>>
  <2>1. Read + 1 \in 1 .. Len(sent) /\ 1 \in DOMAIN wire
    BY <1>3, Sizes
  <2>2. wire[1] = sent[Read + 1] /\ wire[1].kind # "edge"
    BY <2>1, Sizes DEF InOrder, NoEdge
  <2>3. /\ buf' = wire[1] /\ Len(wire') = Len(wire) - 1
        /\ wire' \in Seq(Lines)
        /\ \A n \in DOMAIN wire' : wire'[n] = wire[n + 1]
    BY <1>1, <1>3, <2>2, ReadLineType
  <2>4. Read' = Read + 1
    <3>1. Read' = Len(sent) - (Len(wire) - 1)
      BY <1>1, <2>3 DEF Read
    <3> QED
      BY <3>1, Sizes
  <2>5. \A n \in DOMAIN wire' : n + 1 \in DOMAIN wire
    BY <2>3, Sizes
  <2> QED
    BY <1>1, <1>3, <2>1, <2>2, <2>3, <2>4, <2>5 DEF Blank
<1> QED
  BY <1>2, <1>3

\* When the answer is made, the client has said all it will say.
LEMMA AllRead ==
  ASSUME Types, Delivers, NoEdge, InOrder, Answer
  PROVE  wire = <<>> /\ (Ended \/ (sent = <<>> /\ client # "open"))
<1>1. pc = "headers" /\ (buf.kind = "blank" \/ buf.kind = "unset")
  BY DEF Answer, Blank
<1>2. CASE Read = 0
  BY <1>1, <1>2, Sizes DEF InOrder
<1>3. CASE Read # 0
  <2>1. Read \in 1 .. Len(sent) /\ buf = sent[Read] /\ buf \in Lines
    BY <1>3, Sizes DEF InOrder
  <2>2. buf.kind = "blank"
    BY <1>1, <2>1, LineKinds
  <2>3. Read = Len(sent)
    BY <2>1, <2>2, Sizes DEF Delivers, RequestFirst
  <2> QED
    BY <2>1, <2>2, <2>3, Sizes DEF Ended
<1> QED
  BY <1>2, <1>3

\* Lines are read in the order they were sent.
LEMMA InOrderStep ==
  ASSUME Types, Delivers, NoEdge, InOrder, [Next]_vars, ~Gone'
  PROVE  InOrder'
<1> USE DEF BeforeRequest, AfterAnswer
<1>1. ASSUME NEW line \in Lines, Send(line) PROVE InOrder'
  <2>1. client = "open" /\ ~Ended /\ UNCHANGED <<pc, buf, client>>
    BY <1>1 DEF Send, serverVars
  <2>2. pc \notin AfterAnswer /\ ~(pc = "headers" /\ Read = 0)
    BY <2>1 DEF InOrder
  <2>3. Read' = Read /\ buf' = IF Read' = 0 THEN Line("unset") ELSE sent'[Read']
    BY <1>1, <2>1, Sizes, SendAdds DEF InOrder
  <2>4. ASSUME NEW n \in DOMAIN wire' PROVE wire'[n] = sent'[Read' + n]
    <3>1. n \in 1 .. Len(wire) + 1
      <4>1. Types' /\ Len(wire') = Len(wire) + 1
        BY <1>1, TypesStep, SendAdds
      <4>2. DOMAIN wire' = 1 .. Len(wire')
        BY <4>1 DEF Types, TypeOK
      <4> QED
        BY <4>1, <4>2
    <3>2. CASE n = Len(wire) + 1
      <4>1. wire'[n] = line /\ Read' + n = Len(sent) + 1 /\ sent'[Len(sent) + 1] = line
        <5>1. Read + (Len(wire) + 1) = Len(sent) + 1
          BY Sizes
        <5> QED
          BY <1>1, <2>3, <3>2, <5>1, SendAdds
      <4> QED
        BY <4>1
    <3>3. CASE n # Len(wire) + 1
      <4>1. n \in DOMAIN wire /\ Read + n \in 1 .. Len(sent)
        BY <3>1, <3>3, Sizes
      <4> QED
        BY <1>1, <2>3, <4>1, SendAdds DEF InOrder
    <3> QED
      BY <3>2, <3>3
  <2> QED
    BY <2>1, <2>2, <2>3, <2>4 DEF InOrder
<1>2. CASE Connect
  <2>1. pc = "accept" /\ UNCHANGED <<pc, buf, wire, sent>>
    BY <1>2 DEF Connect, serverVars
  <2> QED
    BY <2>1 DEF InOrder, Read
<1>3. CASE Hangup
  <2>1. client' # "open" /\ UNCHANGED <<pc, buf, sent, body>>
    BY <1>3 DEF Hangup, serverVars
  <2>2. wire' = wire
    <3>1. CASE client' = "closed"
      BY <1>3, <3>1 DEF Hangup
    <3>2. CASE client' = "reset"
      <4>1. body > 0
        BY <2>1, <3>2 DEF Gone, Types, TypeOK
      <4>2. wire = <<>> /\ wire' \in {wire, <<>>}
        BY <1>3, <4>1 DEF Hangup, InOrder, Delivers, StatusOfPath
      <4> QED
        BY <4>2
    <3> QED
      BY <1>3, <3>1, <3>2 DEF Hangup
  <2> QED
    BY <2>1, <2>2 DEF InOrder, Read, Ended
<1>4. CASE Listen \/ Accept
  <2>1. pc' \in {"accept", "request"} \/ (pc = "start" /\ pc' = "exited")
    BY <1>4 DEF Listen, Accept
  <2>2. pc = "start" => wire = <<>> /\ sent = <<>> /\ client # "open"
    BY DEF Delivers, Untouched
  <2>3. UNCHANGED <<buf, wire, sent, client>>
    BY <1>4 DEF Listen, Accept
  <2> QED
    BY <2>1, <2>2, <2>3 DEF InOrder, Read
<1>5. CASE ReadRequest
  <2>1. Read' = 0 \/ Read' = 1
    BY <1>5, FirstLineRead
  <2>2. CASE Read' = 1
    BY <1>5, <2>2, FirstLineRead DEF InOrder
  <2>3. CASE Read' = 0
    BY <1>5, <2>3, FirstLineRead DEF InOrder
  <2> QED
    BY <2>1, <2>2, <2>3
<1>6. CASE ReadHeader
  <2>1. CASE wire = <<>>
    <3>1. UNCHANGED <<buf, wire, sent, client>> /\ pc = "headers" /\ pc' = "headers"
      BY <1>6, <2>1, HeaderRead
    <3>2. Read' = Read
      BY <3>1 DEF Read
    <3> QED
      BY <3>1, <3>2 DEF InOrder
  <2>2. CASE wire # <<>>
    <3>1. /\ pc' = "headers" /\ sent' = sent /\ Read' = Read + 1 /\ Read + 1 \in 1 .. Len(sent)
          /\ buf' = sent[Read + 1]
          /\ \A n \in DOMAIN wire' : wire'[n] = wire[n + 1] /\ n + 1 \in DOMAIN wire
      BY <1>6, <2>2, HeaderRead
    <3>2. Types' /\ DOMAIN wire' \subseteq Nat
      BY TypesStep DEF Types, TypeOK
    <3>3. ASSUME NEW n \in DOMAIN wire' PROVE wire'[n] = sent'[Read' + n]
      <4>1. wire[n + 1] = sent[Read + (n + 1)]
        BY <3>1 DEF InOrder
      <4>2. Read + (n + 1) = (Read + 1) + n
        BY <3>2, Sizes
      <4> QED
        BY <3>1, <4>1, <4>2
    <3>4. Read' # 0
      BY <3>1, Sizes
    <3> QED
      BY <3>1, <3>3, <3>4 DEF InOrder
  <2> QED
    BY <2>1, <2>2
<1>7. CASE Answer
  <2>1. pc' = "write" /\ UNCHANGED <<buf, wire, sent, client>>
    BY <1>7, Zenon DEF Answer
  <2> QED
    BY <1>7, <2>1, AllRead DEF InOrder, Read, Ended
<1>8. CASE Write \/ Serve \/ Exit \/ UNCHANGED vars
  <2>1. /\ UNCHANGED <<buf, wire, sent, client>>
        /\ pc' = pc \/ (pc \in AfterAnswer /\ pc' \in AfterAnswer)
    BY <1>8 DEF Write, AfterWrite, Serve, Exit, vars, serverVars
  <2> QED
    BY <2>1 DEF InOrder, Read, Ended
<1> QED
  BY <1>1, <1>2, <1>3, <1>4, <1>5, <1>6, <1>7, <1>8 DEF Next, Server

\* What counts for the range stays as it is.
LEMMA RangeKept ==
  ASSUME Types, RangeRead, Read' = Read, \A n \in 1 .. Read : sent'[n] = sent[n],
         UNCHANGED <<offset, end, status>>
  PROVE  RangeRead'
<1>1. /\ RangesRead' = RangesRead /\ \A n \in RangesRead : sent'[n] = sent[n]
      /\ \A n \in RangesRead : RanSince(n)' <=> RanSince(n)
  BY Sizes DEF RangesRead, RanSince, IsRange
<1> QED
  BY <1>1 DEF RangeRead, EndRead

\* A header is read, or the last one is found in the buffer again.
LEMMA RangeReadHeader ==
  ASSUME Types, Delivers, NoEdge, InOrder, RangeRead, ReadHeader
  PROVE  RangeRead'
<1>1. /\ UNCHANGED <<sent, status>>
      /\ offset' = IF IsRange(buf') THEN buf'.first ELSE offset
      /\ end' = IF IsRange(buf') \/ buf'.kind = "ran" THEN EndOf(buf') ELSE end
  BY HeaderRead
<1>2. status = 0
  BY HeaderRead DEF Delivers, StatusOfPath, AfterAnswer
<1>3. /\ buf' \in Lines => (buf'.kind = "range" => EndOf(buf') = EndRead(buf'.last))
      /\ buf' \in Lines /\ buf'.kind \in {"open", "ran"} /\ end = 0 => EndOf(buf') = 0
      /\ buf' \in Lines /\ buf'.kind = "open" => EndRead(buf'.last) = 0
  BY <1>2, EndType, LineKinds DEF EndRead, IsRange
<1>4. CASE wire = <<>>
  <2>1. Read' = Read /\ buf' = buf
    BY <1>4, HeaderRead
  <2>2. /\ RangesRead' = RangesRead
        /\ \A n \in RangesRead : RanSince(n)' <=> RanSince(n)
    BY <1>1, <2>1 DEF RangesRead, RanSince, IsRange
  <2>3. CASE ~IsRange(buf) /\ buf.kind # "ran"
    BY <1>1, <2>1, <2>3, RangeKept
  <2>4. CASE IsRange(buf) \/ buf.kind = "ran"
    <3>1. Read \in 1 .. Len(sent) /\ buf = sent[Read] /\ buf \in Lines
      <4>1. Read # 0
        BY <2>4, LinesMade DEF InOrder, IsRange
      <4> QED
        BY <4>1, Sizes DEF InOrder
    <3>2. CASE buf.kind = "ran"
      <4>1. ~IsRange(buf) /\ Read \notin RangesRead
        BY <3>1, <3>2 DEF IsRange, RangesRead
      <4>2. \A n \in RangesRead : RanSince(n)
        BY <3>1, <3>2, <4>1 DEF RangesRead, RanSince
      <4>3. RangesRead = {} => EndOf(buf') = 0
        BY <1>2, <1>3, <2>1, <3>1, <3>2 DEF RangeRead
      <4>4. offset' = offset /\ (RangesRead = {} => end' = 0)
        BY <1>1, <2>1, <3>2, <4>1, <4>3
      <4> QED
        BY <1>1, <2>2, <4>2, <4>4 DEF RangeRead
    <3>3. CASE IsRange(buf)
      <4>1. Read \in RangesRead
        BY <3>1, <3>3 DEF RangesRead
      <4>2. offset' = buf.first /\ end' = EndOf(buf')
        BY <1>1, <2>1, <3>3
      <4>3. ASSUME NEW n \in RangesRead, RangesRead = {n}
            PROVE  offset' = sent[n].first /\ (~RanSince(n) => end' = EndRead(sent[n].last))
        <5>1. n = Read /\ sent[n] = buf
          BY <3>1, <4>1, <4>3
        <5>2. ~RanSince(n) => end = EndRead(buf.last)
          BY <1>2, <4>3, <5>1 DEF RangeRead
        <5>3. CASE buf.kind = "range"
          BY <1>3, <2>1, <3>1, <4>2, <5>1, <5>3
        <5>4. CASE buf.kind = "open"
          BY <1>3, <2>1, <3>1, <4>2, <5>1, <5>2, <5>4
        <5> QED
          BY <3>3, <5>3, <5>4 DEF IsRange
      <4> QED
        BY <1>1, <2>2, <4>1, <4>3 DEF RangeRead, EndRead
    <3> QED
      BY <2>4, <3>2, <3>3
  <2> QED
    BY <2>3, <2>4
<1>5. CASE wire # <<>>
  <2>1. Read' = Read + 1 /\ Read + 1 \in 1 .. Len(sent) /\ buf' = sent[Read + 1]
    BY <1>5, HeaderRead
  <2>2. buf' \in Lines /\ Read \in Nat
    BY <2>1, Sizes
  <2>3. \A n \in RangesRead : RanSince(n) => RanSince(n)'
    BY <1>1, <2>1, <2>2 DEF RanSince
  <2>4. CASE ~IsRange(buf') /\ buf'.kind # "ran"
    <3>1. RangesRead' = RangesRead
      BY <1>1, <2>1, <2>2, <2>4 DEF RangesRead, IsRange
    <3> QED
      BY <1>1, <2>3, <2>4, <3>1 DEF RangeRead, EndRead
  <2>5. CASE buf'.kind = "ran"
    <3>1. ~IsRange(buf')
      BY <2>5 DEF IsRange
    <3>2. RangesRead' = RangesRead
      BY <1>1, <2>1, <2>2, <3>1 DEF RangesRead, IsRange
    <3>3. \A n \in RangesRead : RanSince(n)'
      BY <1>1, <2>1, <2>2, <2>5 DEF RanSince, RangesRead
    <3>4. offset' = offset /\ (RangesRead = {} => end' = 0)
      BY <1>1, <1>2, <1>3, <2>2, <2>5, <3>1 DEF RangeRead
    <3> QED
      BY <1>1, <3>2, <3>3, <3>4 DEF RangeRead
  <2>6. CASE IsRange(buf')
    <3>1. RangesRead' = RangesRead \cup {Read + 1} /\ Read + 1 \notin RangesRead
      BY <1>1, <2>1, <2>2, <2>6 DEF RangesRead, IsRange
    <3>2. ASSUME NEW n, RangesRead' = {n}
          PROVE  offset' = sent[n].first /\ end' = EndRead(sent[n].last)
      <4>1. n = Read + 1 /\ RangesRead = {}
        BY <3>1, <3>2
      <4>2. end = 0 /\ sent[n] = buf' /\ offset' = buf'.first /\ end' = EndOf(buf')
        BY <1>1, <1>2, <2>1, <2>6, <4>1 DEF RangeRead
      <4>3. CASE buf'.kind = "range"
        BY <1>3, <2>2, <4>2, <4>3
      <4>4. CASE buf'.kind = "open"
        BY <1>3, <2>2, <4>2, <4>4
      <4> QED
        BY <2>6, <4>3, <4>4 DEF IsRange
    <3> QED
      BY <1>1, <3>1, <3>2 DEF RangeRead, EndRead
  <2> QED
    BY <2>4, <2>5, <2>6
<1> QED
  BY <1>4, <1>5

\* The one range stays in force until the file is delivered, unless a long name
\* goes over it.
LEMMA RangeReadStep ==
  ASSUME Types, Delivers, NoEdge, InOrder, Overwritten \/ RangeRead, [Next]_vars, ~Gone'
  PROVE  Overwritten' \/ RangeRead'
<1> USE DEF AfterAnswer
<1>1. CASE Overwritten
  <2>1. pc' \in AfterAnswer /\ uri' = uri
    BY <1>1 DEF Overwritten, Next, Server, Connect, Send, Hangup, Listen, Accept, ReadRequest,
       ReadHeader, Answer, Write, AfterWrite, Serve, Exit, vars, serverVars
  <2> QED
    BY <1>1, <2>1 DEF Overwritten, Overlong
<1>2. ASSUME NEW line \in Lines, Send(line), RangeRead PROVE RangeRead'
  <2>1. UNCHANGED <<offset, end, status>>
    BY <1>2 DEF Send, serverVars
  <2> QED
    BY <1>2, <2>1, SendAdds, Sizes, RangeKept
<1>3. CASE Hangup /\ RangeRead
  <2>1. UNCHANGED <<pc, buf, sent, body, offset, end, status>>
    BY <1>3 DEF Hangup, serverVars
  <2>2. wire' = wire
    <3>1. CASE client' = "closed"
      BY <1>3, <3>1 DEF Hangup
    <3>2. CASE client' = "reset"
      <4>1. body > 0
        BY <2>1, <3>2 DEF Gone, Types, TypeOK
      <4>2. wire = <<>> /\ wire' \in {wire, <<>>}
        BY <1>3, <4>1 DEF Hangup, InOrder, Delivers, StatusOfPath
      <4> QED
        BY <4>2
    <3> QED
      BY <1>3, <3>1, <3>2 DEF Hangup
  <2> QED
    BY <1>3, <2>1, <2>2, RangeKept DEF Read
<1>4. CASE ReadRequest
  <2>1. offset = 0 /\ end = 0 /\ UNCHANGED <<sent, offset, end, status>>
    BY <1>4, FirstLineRead DEF ReadRequest, Delivers, Untouched, BeforeRequest
  <2>2. Read' \in {0, 1} /\ (Read' = 1 => ~IsRange(sent[1]))
    <3>1. Read' = 0 \/ (Read' = 1 /\ sent # <<>>)
      BY <1>4, FirstLineRead
    <3>2. sent # <<>> => ~IsRange(sent[1])
      BY Sizes DEF Delivers, RequestFirst, IsRange
    <3> QED
      BY <3>1, <3>2
  <2>3. RangesRead' = {}
    BY <2>1, <2>2 DEF RangesRead, IsRange
  <2> QED
    BY <2>1, <2>3 DEF RangeRead
<1>5. CASE Answer /\ ~Overlong(uri') /\ RangeRead
  <2>1. /\ UNCHANGED <<sent, wire, offset>> /\ pc = "headers"
        /\ end' = IF status' = 200 /\ end = 0 THEN FileSize ELSE end
    BY <1>5 DEF Answer
  <2>2. status = 0 /\ status' # 0
    BY <1>5, <2>1 DEF Answer, StatusFor, Delivers, StatusOfPath
  <2>3. RangesRead' = RangesRead /\ \A n \in RangesRead : RanSince(n)' <=> RanSince(n)
    BY <2>1 DEF RangesRead, Read, RanSince, IsRange
  <2>4. ASSUME NEW n \in RangesRead, RangesRead = {n}
        PROVE  /\ offset' = sent[n].first
               /\ status' = 200 /\ ~RanSince(n) => end' = EndRead(sent[n].last)'
    <3>1. offset = sent[n].first /\ (~RanSince(n) => end = EndRead(sent[n].last))
      BY <1>5, <2>2, <2>4 DEF RangeRead
    <3>2. sent[n].last \in 0 .. FileSize
      <4>1. sent[n] \in Lines /\ IsRange(sent[n])
        BY Sizes DEF RangesRead
      <4> QED
        BY <4>1, LineKinds
    <3> QED
      BY <2>1, <2>2, <3>1, <3>2 DEF EndRead
  <2> QED
    <3>1. RangesRead' = {} => offset' = 0 /\ (status' = 0 => end' = 0)
      BY <1>5, <2>1, <2>2, <2>3 DEF RangeRead
    <3>2. ASSUME NEW n \in RangesRead', RangesRead' = {n}, status' \in {0, 200}, ~RanSince(n)'
          PROVE  offset' = sent'[n].first /\ end' = EndRead(sent[n].last)'
      BY <2>1, <2>2, <2>3, <2>4, <3>2
    <3>3. ASSUME NEW n \in RangesRead', RangesRead' = {n} PROVE offset' = sent'[n].first
      BY <2>1, <2>3, <2>4, <3>3
    <3> QED
      BY <3>1, <3>2, <3>3, Zenon DEF RangeRead
<1>6. CASE Answer /\ Overlong(uri')
  <2>1. pc' = "write"
    BY <1>6, Zenon DEF Answer
  <2>2. uri' # <<>>
    BY <1>6, LayoutAssumption DEF Answer
  <2> QED
    BY <1>6, <2>1, <2>2 DEF Overwritten, Overlong
<1>7. CASE RangeRead /\ (Connect \/ Listen \/ Accept \/ Write \/ Serve \/ Exit \/ UNCHANGED vars)
  <2>1. UNCHANGED <<wire, sent, offset, end, status>>
    BY <1>7 DEF Connect, Listen, Accept, Write, Serve, Exit, vars, serverVars
  <2>2. Read' = Read
    BY <2>1 DEF Read
  <2> QED
    BY <1>7, <2>1, <2>2, RangeKept
<1> QED
  BY <1>1, <1>2, <1>3, <1>4, <1>5, <1>6, <1>7, RangeReadHeader DEF Next, Server

\* Every step keeps the invariant.
LEMMA IInvStep ==
  ASSUME IInv, [Next]_vars
  PROVE  IInv'
<1>1. Types /\ Types'
  BY TypesStep DEF IInv
<1>2. CASE Gone
  BY <1>1, <1>2, GoneStep DEF IInv
<1>3. CASE Delivers /\ ~Gone'
  <2>1. NoEdge' => NoEdge
    <3>1. ASSUME NEW line \in Lines, Send(line) PROVE NoEdge' => NoEdge
      <4>1. Len(sent') = Len(sent) + 1 /\ \A n \in 1 .. Len(sent) : sent'[n] = sent[n]
        BY <1>1, <3>1, SendAdds
      <4>2. DOMAIN sent' = 1 .. Len(sent') /\ DOMAIN sent = 1 .. Len(sent) /\ Len(sent) \in Nat
        BY <1>1 DEF Types, TypeOK
      <4> QED
        BY <4>1, <4>2 DEF NoEdge
    <3>2. CASE sent' = sent
      BY <3>2 DEF NoEdge
    <3> QED
      BY <3>1, <3>2 DEF Next, Server, Connect, Hangup, Listen, Accept, ReadRequest, ReadHeader,
         Answer, Write, Serve, Exit, vars, serverVars
  <2>2. NoEdge' => InOrder' /\ (Overwritten' \/ RangeRead')
    BY <1>1, <1>3, <2>1, InOrderStep, RangeReadStep DEF Delivers
  <2> QED
    BY <1>1, <1>3, <2>2, UntouchedStep, RequestFirstStep, PathReadStep, StatusOfPathStep, HasRequestStep
       DEF IInv, Delivers
<1> QED
  BY <1>1, <1>2, <1>3 DEF IInv

\* The server starts in the invariant.
LEMMA IInvInit ==
  ASSUME Init
  PROVE  IInv
<1>1. Types
  BY LayoutAssumption, LinesMade DEF Init, Types, TypeOK, MaxEnd
<1>2. Read = 0 /\ RangesRead = {} /\ Deliverable = 0
  BY DEF Init, Read, RangesRead, Deliverable
<1>3. Untouched /\ RequestFirst /\ PathRead /\ StatusOfPath /\ HasRequest /\ InOrder /\ RangeRead
  BY <1>2 DEF Init, Untouched, RequestFirst, PathRead, StatusOfPath, HasRequest, InOrder, RangeRead,
     BeforeRequest, AfterAnswer
<1> QED
  BY <1>1, <1>3 DEF IInv, Delivers

\* The layout goes to those who asked for it, or for what an escape cuts to its
\* name, and to those who asked for it it is not refused.
THEOREM LayoutOnRequestAlways == Spec => []LayoutOnRequest
<1>1. ASSUME IInv PROVE LayoutOnRequest
  <2> SUFFICES ASSUME NEW n \in Sent("request")
               PROVE  /\ body > 0 => StandsForLayout(sent[n].uri) \/ CutToDot(sent[n].uri)
                      /\ status = 400 /\ client # "reset" =>
                           ~StandsForLayout(sent[n].uri) \/ file = "directory"
    BY DEF LayoutOnRequest
  <2>1. Types /\ n \in 1 .. Len(sent) /\ sent[n].kind = "request" /\ sent[n] \in Lines
    BY <1>1, Sizes DEF IInv, Sent
  <2>2. CASE Gone
    BY <2>2 DEF Gone
  <2>3. CASE Delivers /\ status # 0
    <3>1. pc \in AfterAnswer /\ status = StatusFor(FileName(uri))
      BY <2>3 DEF Delivers, StatusOfPath
    <3>2. n = 1 /\ sent # <<>>
      BY <2>1, <2>3, Sizes DEF Delivers, RequestFirst
    <3>3. uri = sent[n].uri /\ uri \in Uris
      BY <2>1, <2>3, <3>1, <3>2, LineKinds
         DEF Delivers, PathRead, AfterAnswer, BeforeRequest
    <3>4. FileName(uri) = <<".">> <=> StandsForLayout(sent[n].uri) \/ CutToDot(sent[n].uri)
      BY <3>3, FileNameOfLayout
    <3>5. /\ status = 200 => FileName(uri) = <<".">>
          /\ status = 400 => FileName(uri) # <<".">> \/ file \notin {"missing", "regular"}
      <4> DEFINE asked == FileName(uri) = <<".">>
      <4>1. status = IF ~asked THEN 400
                     ELSE IF file = "missing" THEN 404 ELSE IF file = "regular" THEN 200 ELSE 400
        BY <3>1, Zenon DEF StatusFor
      <4> HIDE DEF asked
      <4>2. (status = 200 => asked) /\ (status = 400 => ~asked \/ file \notin {"missing", "regular"})
        BY <4>1
      <4> QED
        BY <4>2 DEF asked
    <3>6. body > 0 => status = 200
      BY <2>3 DEF Delivers, StatusOfPath
    <3> QED
      BY <2>1, <3>4, <3>5, <3>6 DEF Types, TypeOK
  <2>4. CASE Delivers /\ status = 0
    BY <2>4 DEF Delivers, StatusOfPath
  <2> QED
    BY <1>1, <2>2, <2>3, <2>4 DEF IInv
<1> QED
  BY <1>1, IInvInit, IInvStep, PTL DEF Spec

\* Whoever asks for one range, with a last byte other than 0 and no other line
\* beginning with "Ran" behind it, in lines and with a name that the buffers hold,
\* gets no byte outside of it.
THEOREM RangeHonouredAlways == Spec => []RangeHonoured
<1>1. ASSUME IInv PROVE RangeHonoured
  <2> SUFFICES ASSUME NEW i \in RangeLines, body > 0, RangeLines = {i}, Sent("edge") = {},
                      \A n \in Sent("request") : ~Overlong(sent[n].uri)
               PROVE  /\ offset = sent[i].first
                      /\ sent[i].last # 0 /\ (\A n \in Sent("ran") : n < i) =>
                           offset + body - 1 <= sent[i].last
    BY DEF RangeHonoured
  <2>1. Types /\ Delivers
    BY <1>1 DEF IInv, Gone
  <2>2. NoEdge
    BY <2>1, Sizes DEF NoEdge, Sent
  <2>3. status = 200 /\ pc \in {"close", "exited"} /\ body <= Deliverable
    BY <2>1 DEF Delivers, StatusOfPath
  <2>4. i \in 1 .. Len(sent) /\ sent[i] \in Lines /\ IsRange(sent[i])
    BY <2>1, Sizes DEF RangeLines, Sent, IsRange
  <2>5. ~Overwritten
    <3>1. i # 1
      BY <2>1, <2>4, Sizes DEF Delivers, RequestFirst, IsRange
    <3>2. 1 \in 1 .. Len(sent) /\ sent[1].kind = "request" /\ sent # <<>>
      BY <2>1, <2>4, <3>1, Sizes DEF Delivers, HasRequest
    <3>3. uri = sent[1].uri /\ ~Overlong(sent[1].uri)
      BY <2>1, <2>3, <3>2 DEF Delivers, PathRead, BeforeRequest, Sent
    <3> QED
      BY <3>3 DEF Overwritten
  <2>6. InOrder /\ RangeRead
    BY <2>1, <2>2, <2>5 DEF Delivers
  <2>7. Read = Len(sent)
    BY <2>1, <2>3, <2>6, Sizes DEF InOrder, AfterAnswer
  <2>8. RangesRead = {i}
    BY <2>7 DEF RangesRead, RangeLines, Sent, IsRange
  <2>9. /\ offset = sent[i].first
        /\ ~RanSince(i) => end = EndRead(sent[i].last)
    BY <2>3, <2>6, <2>8 DEF RangeRead
  <2>10. body \in Nat /\ Deliverable \in Nat /\ offset \in Nat /\ offset + Deliverable <= end
    BY <2>1, <2>3, DeliverableType DEF Types, TypeOK
  <2>11. sent[i].last \in Nat
    BY <2>4, LineKinds
  <2>12. ASSUME sent[i].last # 0, \A n \in Sent("ran") : n < i
         PROVE  offset + body - 1 <= sent[i].last
    <3>1. ~RanSince(i)
      BY <2>4, <2>7, <2>12 DEF RanSince, Sent
    <3>2. end = sent[i].last + 1
      BY <2>9, <2>12, <3>1 DEF EndRead
    <3> QED
      BY <2>3, <2>10, <2>11, <3>2
  <2> QED
    BY <2>9, <2>12
<1> QED
  BY <1>1, IInvInit, IInvStep, PTL DEF Spec
=============================================================================
