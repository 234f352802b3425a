----------------------------- MODULE RioProofs -----------------------------
(***************************************************************************)
(* Proofs about Rio, for all bytes and every size of the two buffers: the  *)
(* buffers are not overrun, and the lines are those of the stream.         *)
(***************************************************************************)
EXTENDS Rio, TLAPS

-----------------------------------------------------------------------------
(* Sequences.                                                              *)

\* Appending an element, cutting out a part, and joining two sequences.
LEMMA Appended ==
  ASSUME NEW S, NEW s \in Seq(S), NEW e \in S
  PROVE  /\ Append(s, e) \in Seq(S) /\ Len(Append(s, e)) = Len(s) + 1
         /\ DOMAIN Append(s, e) = 1 .. Len(s) + 1
         /\ \A k \in 1 .. Len(s) : Append(s, e)[k] = s[k]
         /\ Append(s, e)[Len(s) + 1] = e
OBVIOUS

LEMMA Cut ==
  ASSUME NEW S, NEW s \in Seq(S), NEW m \in 1 .. Len(s) + 1, NEW n \in m - 1 .. Len(s)
  PROVE  /\ SubSeq(s, m, n) \in Seq(S) /\ Len(SubSeq(s, m, n)) = n + 1 - m
         /\ \A k \in 1 .. n + 1 - m : SubSeq(s, m, n)[k] = s[m + k - 1]
OBVIOUS

LEMMA Joined ==
  ASSUME NEW S, NEW s \in Seq(S), NEW t \in Seq(S)
  PROVE  /\ s \o t \in Seq(S) /\ Len(s \o t) = Len(s) + Len(t)
         /\ \A k \in 1 .. Len(s) : (s \o t)[k] = s[k]
         /\ \A k \in 1 .. Len(t) : (s \o t)[Len(s) + k] = t[k]
OBVIOUS

\* What is done to the end of the second of two sequences that are joined is
\* done to the whole.
LEMMA JoinAppended ==
  ASSUME NEW S, NEW s \in Seq(S), NEW t \in Seq(S), NEW e \in S
  PROVE  s \o Append(t, e) = Append(s \o t, e)
OBVIOUS

LEMMA JoinCut ==
  ASSUME NEW S, NEW s \in Seq(S), NEW t \in Seq(S), NEW n \in 0 .. Len(t)
  PROVE  /\ s \o SubSeq(t, 1, n) = SubSeq(s \o t, 1, Len(s) + n)
         /\ Len(s) + n \in 0 .. Len(s \o t)
OBVIOUS

\* An element that moves from one sequence to the one before, or is cut off
\* with it.
LEMMA JoinMoved ==
  ASSUME NEW S, NEW s \in Seq(S), NEW e \in S, NEW t \in Seq(S)
  PROVE  s \o (<<e>> \o t) = Append(s, e) \o t
OBVIOUS

LEMMA JoinTaken ==
  ASSUME NEW S, NEW s \in Seq(S), NEW t \in Seq(S)
  PROVE  /\ SubSeq(s \o t, 1, Len(s)) = s
         /\ SubSeq(s \o t, Len(s) + 1, Len(s \o t)) = t
OBVIOUS

LEMMA JoinedThree ==
  ASSUME NEW S, NEW s \in Seq(S), NEW t \in Seq(S), NEW r \in Seq(S)
  PROVE  (s \o t) \o r = s \o (t \o r)
OBVIOUS

\* The positions in three segments, one after the other.
LEMMA Segments ==
  ASSUME NEW a \in Nat, NEW b \in Nat, NEW c \in Nat, NEW k \in 1 .. a + b + c
  PROVE  \/ k \in 1 .. a
         \/ \E i \in 1 .. b : k = a + i
         \/ \E j \in 1 .. c : k = a + b + j
<1>1. CASE k > a /\ k <= a + b
  <2>1. k - a \in 1 .. b /\ k = a + (k - a)
    BY <1>1
  <2> QED
    BY <2>1
<1>2. CASE k > a + b
  <2>1. k - a - b \in 1 .. c /\ k = a + b + (k - a - b)
    BY <1>2
  <2> QED
    BY <2>1
<1> QED
  BY <1>1, <1>2

\* Equal elements make equal sequences.
LEMMA Same ==
  ASSUME NEW S, NEW s \in Seq(S), NEW t \in Seq(S), Len(s) = Len(t),
         \A k \in 1 .. Len(s) : s[k] = t[k]
  PROVE  s = t
OBVIOUS

-----------------------------------------------------------------------------
(* Types.                                                                  *)

\* No line is as long as the caller's buffer.
LEMMA LinesTyped ==
  ASSUME TypeOK, NEW line \in Seq(Byte), Len(line) < MAXLINE,
         lines' = lines \/ lines' = Append(lines, line)
  PROVE  lines' \in Seq(Seq(Byte)) /\ \A n \in DOMAIN lines' : Len(lines'[n]) < MAXLINE
<1>1. lines \in Seq(Seq(Byte)) /\ \A n \in DOMAIN lines : Len(lines[n]) < MAXLINE
  BY DEF TypeOK
<1>2. CASE lines' = lines
  BY <1>1, <1>2
<1>3. CASE lines' = Append(lines, line)
  <2>1. /\ lines' \in Seq(Seq(Byte)) /\ DOMAIN lines' = 1 .. Len(lines) + 1
        /\ \A k \in 1 .. Len(lines) : lines'[k] = lines[k]
        /\ lines'[Len(lines) + 1] = line
    BY <1>1, <1>3, Appended
  <2>2. DOMAIN lines = 1 .. Len(lines) /\ Len(lines) \in Nat
    BY <1>1
  <2>3. ASSUME NEW n \in DOMAIN lines' PROVE Len(lines'[n]) < MAXLINE
    BY <1>1, <2>1, <2>2
  <2> QED
    BY <2>1, <2>3
<1> QED
  BY <1>2, <1>3

\* Every step keeps the types: a byte is copied only while some are left in
\* the internal buffer, and only to a line that is not full.
LEMMA TypeStep ==
  ASSUME TypeOK, [Next]_vars
  PROVE  TypeOK'
<1> USE RioAssumption
<1>1. ASSUME NEW b \in Byte, Arrive(b) PROVE TypeOK'
  <2>1. wire' \in Seq(Byte) /\ sent' \in 0 .. MaxBytes
    BY <1>1, Appended DEF Arrive, TypeOK
  <2> QED
    BY <1>1, <2>1 DEF Arrive, rio, TypeOK
<1>2. CASE Hangup
  <2>1. wire' \in Seq(Byte) /\ conn' \in {"closed", "reset"}
    BY <1>2, Cut DEF Hangup, TypeOK
  <2> QED
    BY <1>2, <2>1 DEF Hangup, rio, TypeOK
<1>3. CASE Refill
  <2>1. PICK n \in 1 .. RIO_BUFSIZE :
          /\ n <= Len(wire)
          /\ rio_buf' = [k \in 1 .. RIO_BUFSIZE |-> IF k <= n THEN wire[k] ELSE rio_buf[k]]
          /\ rio_cnt' = n
          /\ wire' = SubSeq(wire, n + 1, Len(wire))
    BY <1>3 DEF Refill
  <2>2. wire' \in Seq(Byte)
    BY <2>1, Cut DEF TypeOK
  <2>3. rio_buf' \in [1 .. RIO_BUFSIZE -> Byte]
    BY <2>1 DEF TypeOK
  <2>4. rio_bufptr' = 1 /\ UNCHANGED <<conn, sent, usrbuf, lines>>
    BY <1>3 DEF Refill, StartPtr
  <2> QED
    BY <2>1, <2>2, <2>3, <2>4 DEF TypeOK
<1>4. CASE Interrupted
  BY <1>4 DEF Interrupted, TypeOK
<1>5. CASE ReadError
  BY <1>5 DEF ReadError, TypeOK
<1>6. CASE CopyByte
  <2> DEFINE c == rio_buf[rio_bufptr]
             line == Append(usrbuf, c)
  <2>1. /\ rio_bufptr \in 1 .. RIO_BUFSIZE /\ rio_bufptr' = rio_bufptr + 1
        /\ rio_cnt' = rio_cnt - 1 /\ rio_cnt' \in -1 .. RIO_BUFSIZE + 1 - rio_bufptr'
        /\ UNCHANGED <<wire, conn, sent, rio_buf>>
    BY <1>6 DEF CopyByte, TypeOK
  <2>2. line \in Seq(Byte) /\ Len(line) = Len(usrbuf) + 1 /\ Len(usrbuf) \in Nat
    <3>1. c \in Byte
      BY <2>1 DEF TypeOK
    <3> QED
      BY <3>1, Appended DEF TypeOK
  <2>3. IF LineEnds(Len(usrbuf) + 1, c)
        THEN lines' = Append(lines, line) /\ usrbuf' = <<>>
        ELSE usrbuf' = line /\ UNCHANGED lines
    BY <1>6 DEF CopyByte
  <2> HIDE DEF line
  <2>4. usrbuf' \in Seq(Byte) /\ Len(usrbuf') + 1 < MAXLINE
    <3>1. CASE LineEnds(Len(usrbuf) + 1, c)
      BY <2>3, <3>1
    <3>2. CASE ~LineEnds(Len(usrbuf) + 1, c)
      <4>1. usrbuf' = line /\ ~(Len(usrbuf) + 1 + 1 >= MAXLINE)
        BY <2>3, <3>2 DEF LineEnds
      <4> QED
        BY <2>2, <4>1
    <3> QED
      BY <3>1, <3>2
  <2>5. lines' \in Seq(Seq(Byte)) /\ \A n \in DOMAIN lines' : Len(lines'[n]) < MAXLINE
    <3>1. Len(line) < MAXLINE
      BY <2>2 DEF TypeOK
    <3>2. lines' = lines \/ lines' = Append(lines, line)
      BY <2>3
    <3> QED
      BY <2>2, <3>1, <3>2, LinesTyped
  <2> QED
    BY <2>1, <2>4, <2>5 DEF TypeOK
<1>7. CASE EndOfFile
  <2>1. lines' = Append(lines, usrbuf) /\ usrbuf' = <<>> /\ rio_cnt' = 0
        /\ UNCHANGED <<wire, conn, sent, rio_buf, rio_bufptr>>
    BY <1>7 DEF EndOfFile
  <2>2. lines' \in Seq(Seq(Byte)) /\ \A n \in DOMAIN lines' : Len(lines'[n]) < MAXLINE
    <3>1. usrbuf \in Seq(Byte) /\ Len(usrbuf) < MAXLINE
      BY DEF TypeOK
    <3> QED
      BY <2>1, <3>1, LinesTyped
  <2> QED
    BY <2>1, <2>2 DEF TypeOK
<1>8. CASE UNCHANGED vars
  BY <1>8 DEF vars, rio, TypeOK
<1> QED
  BY <1>1, <1>2, <1>3, <1>4, <1>5, <1>6, <1>7, <1>8 DEF Next, Reader

\* The internal buffer is never read past its end, nor the caller's written
\* past its last byte but one.
THEOREM TypeCorrect == Spec => []TypeOK
<1>1. Init => TypeOK
  BY RioAssumption DEF Init, TypeOK
<1> QED
  BY <1>1, TypeStep, PTL DEF Spec

-----------------------------------------------------------------------------
(* The lines of the stream.                                                *)

Unread == usrbuf \o Buffered \o wire
BufLen == IF rio_cnt < 0 THEN 0 ELSE rio_cnt

\* The bytes of the stream that are in no line yet, and where they are.
LEMMA BufferedBytes ==
  TypeOK =>
    /\ BufLen \in Nat
    /\ Buffered \in Seq(Byte) /\ Len(Buffered) = BufLen
    /\ \A k \in 1 .. BufLen : Buffered[k] = rio_buf[rio_bufptr + k - 1]
<1> SUFFICES ASSUME TypeOK
             PROVE  /\ BufLen \in Nat
                    /\ Buffered \in Seq(Byte) /\ Len(Buffered) = BufLen
                    /\ \A k \in 1 .. BufLen : Buffered[k] = rio_buf[rio_bufptr + k - 1]
  OBVIOUS
<1>1. BufLen \in Nat
  BY RioAssumption DEF BufLen, TypeOK
<1>2. \A k \in 1 .. BufLen : rio_buf[rio_bufptr + k - 1] \in Byte
  BY RioAssumption DEF BufLen, TypeOK
<1>3. Buffered = [k \in 1 .. BufLen |-> rio_buf[rio_bufptr + k - 1]]
  BY DEF Buffered, BufLen
<1> QED
  BY <1>1, <1>2, <1>3

\* They are the line so far, the internal buffer and the wire, in this order.
LEMMA UnreadBytes ==
  TypeOK =>
    /\ Len(usrbuf) \in Nat /\ Len(wire) \in Nat /\ BufLen \in Nat
    /\ Unread \in Seq(Byte) /\ Len(Unread) = Len(usrbuf) + BufLen + Len(wire)
    /\ \A k \in 1 .. Len(usrbuf) : Unread[k] = usrbuf[k]
    /\ \A k \in 1 .. BufLen : Unread[Len(usrbuf) + k] = rio_buf[rio_bufptr + k - 1]
    /\ \A k \in 1 .. Len(wire) : Unread[Len(usrbuf) + BufLen + k] = wire[k]
<1> SUFFICES ASSUME TypeOK
             PROVE  /\ Len(usrbuf) \in Nat /\ Len(wire) \in Nat /\ BufLen \in Nat
                    /\ Unread \in Seq(Byte) /\ Len(Unread) = Len(usrbuf) + BufLen + Len(wire)
                    /\ \A k \in 1 .. Len(usrbuf) : Unread[k] = usrbuf[k]
                    /\ \A k \in 1 .. BufLen :
                         Unread[Len(usrbuf) + k] = rio_buf[rio_bufptr + k - 1]
                    /\ \A k \in 1 .. Len(wire) : Unread[Len(usrbuf) + BufLen + k] = wire[k]
  OBVIOUS
<1>1. usrbuf \in Seq(Byte) /\ wire \in Seq(Byte)
  BY DEF TypeOK
<1> DEFINE b == Buffered
           ub == usrbuf \o b
           u == ub \o wire
<1>2. /\ BufLen \in Nat /\ b \in Seq(Byte) /\ Len(b) = BufLen
      /\ \A k \in 1 .. BufLen : b[k] = rio_buf[rio_bufptr + k - 1]
  BY BufferedBytes
<1>3. Unread = u
  BY DEF Unread
<1> HIDE DEF b
<1>4. /\ ub \in Seq(Byte) /\ Len(ub) = Len(usrbuf) + Len(b)
      /\ \A k \in 1 .. Len(usrbuf) : ub[k] = usrbuf[k]
      /\ \A k \in 1 .. Len(b) : ub[Len(usrbuf) + k] = b[k]
  <2>1. usrbuf \in Seq(Byte) /\ b \in Seq(Byte)
    BY <1>1, <1>2
  <2> QED
    BY <2>1
<1> HIDE DEF ub
<1>5. /\ u \in Seq(Byte) /\ Len(u) = Len(ub) + Len(wire)
      /\ \A k \in 1 .. Len(ub) : u[k] = ub[k]
      /\ \A k \in 1 .. Len(wire) : u[Len(ub) + k] = wire[k]
  <2>1. ub \in Seq(Byte) /\ wire \in Seq(Byte)
    BY <1>1, <1>4
  <2> QED
    BY <2>1
<1>6. Len(usrbuf) \in Nat /\ Len(wire) \in Nat
  BY <1>1
<1> HIDE DEF u
<1>7. Len(u) = Len(usrbuf) + BufLen + Len(wire)
  BY <1>2, <1>4, <1>5, <1>6
<1>8. ASSUME NEW k \in 1 .. Len(usrbuf) PROVE u[k] = usrbuf[k]
  BY <1>2, <1>4, <1>5, <1>6
<1>9. ASSUME NEW k \in 1 .. BufLen PROVE u[Len(usrbuf) + k] = rio_buf[rio_bufptr + k - 1]
  <2>1. Len(usrbuf) + k \in 1 .. Len(ub) /\ k \in 1 .. Len(b)
    BY <1>2, <1>4, <1>6
  <2> QED
    BY <1>2, <1>4, <1>5, <2>1
<1>10. ASSUME NEW k \in 1 .. Len(wire) PROVE u[Len(usrbuf) + BufLen + k] = wire[k]
  BY <1>2, <1>4, <1>5
<1> QED
  BY <1>2, <1>3, <1>5, <1>6, <1>7, <1>8, <1>9, <1>10

\* The same after a step.
LEMMA UnreadNext ==
  ASSUME TypeOK, [Next]_vars
  PROVE  /\ Len(usrbuf') \in Nat /\ Len(wire') \in Nat /\ BufLen' \in Nat
         /\ Unread' \in Seq(Byte) /\ Len(Unread') = Len(usrbuf') + BufLen' + Len(wire')
         /\ \A k \in 1 .. Len(usrbuf') : Unread'[k] = usrbuf'[k]
         /\ \A k \in 1 .. BufLen' : Unread'[Len(usrbuf') + k] = rio_buf'[rio_bufptr' + k - 1]
         /\ \A k \in 1 .. Len(wire') : Unread'[Len(usrbuf') + BufLen' + k] = wire'[k]
<1>1. TypeOK'
  BY TypeStep
<1>2. (TypeOK =>
         /\ Len(usrbuf) \in Nat /\ Len(wire) \in Nat /\ BufLen \in Nat
         /\ Unread \in Seq(Byte) /\ Len(Unread) = Len(usrbuf) + BufLen + Len(wire)
         /\ \A k \in 1 .. Len(usrbuf) : Unread[k] = usrbuf[k]
         /\ \A k \in 1 .. BufLen : Unread[Len(usrbuf) + k] = rio_buf[rio_bufptr + k - 1]
         /\ \A k \in 1 .. Len(wire) : Unread[Len(usrbuf) + BufLen + k] = wire[k])'
  BY UnreadBytes, PTL
<1> QED
  BY <1>1, <1>2

\* The line so far has no end in it.
Unended == \A k \in DOMAIN usrbuf : usrbuf[k] # Newline

\* The safety part of Lines!Spec.
LinesSafety == Lines!Init /\ [][Lines!Next]_(Lines!vars)

-----------------------------------------------------------------------------
(* The steps of LineReader, in terms of the bytes that are unread.         *)

EndAt(n) == Unread[n] = Newline \/ n = MAXLINE - 1

\* A byte comes, the connection ends, a line is returned, an error is.
LEMMA BytesArrive ==
  ASSUME NEW b \in Byte, conn = "open", Unread' = Append(Unread, b), UNCHANGED <<conn, lines>>
  PROVE  Lines!Next
BY Zenon DEF Lines!Next, Lines!Arrive, Unread

LEMMA BytesEnd ==
  ASSUME conn = "open", lines' = lines,
         \/ conn' = "closed" /\ Unread' = Unread
         \/ conn' = "reset" /\ \E n \in 0 .. Len(Unread) : Unread' = SubSeq(Unread, 1, n)
  PROVE  Lines!Next
BY Zenon DEF Lines!Next, Lines!Close, Lines!Reset, Unread

LEMMA LineTaken ==
  ASSUME NEW n \in 1 .. Len(Unread),
         EndAt(n) \/ (conn = "closed" /\ n = Len(Unread)), \A k \in 1 .. n - 1 : ~EndAt(k),
         lines' = Append(lines, SubSeq(Unread, 1, n)),
         Unread' = SubSeq(Unread, n + 1, Len(Unread)), conn' = conn
  PROVE  Lines!Next
BY Zenon DEF Lines!Next, Lines!NextLine, Lines!EndsLine, EndAt, Unread

LEMMA ErrorReported ==
  ASSUME conn = "reset", \A n \in 1 .. Len(Unread) : ~EndAt(n),
         conn' = "closed", Unread' = <<>>, lines' = lines
  PROVE  Lines!Next
BY Zenon DEF Lines!Next, Lines!Fail, Lines!EndsLine, EndAt, Unread

LEMMA NothingSeen ==
  ASSUME UNCHANGED <<Unread, conn, lines>>
  PROVE  UNCHANGED Lines!vars
BY DEF Lines!vars, Unread

-----------------------------------------------------------------------------
(* The steps of the reader.                                                *)

\* A sequence is given by its length and its elements.
LEMMA SameUnread ==
  ASSUME TypeOK, [Next]_vars, NEW s \in Seq(Byte), Len(Unread') = Len(s),
         \A k \in 1 .. Len(s) : Unread'[k] = s[k]
  PROVE  Unread' = s
BY UnreadNext, Same

\* The line so far stays without an end.
LEMMA UnendedStep ==
  ASSUME TypeOK, Unended, [Next]_vars
  PROVE  Unended'
<1>1. CASE CopyByte
  <2> DEFINE c == rio_buf[rio_bufptr]
             ends == LineEnds(Len(usrbuf) + 1, c)
  <2>1. IF ends THEN usrbuf' = <<>> ELSE usrbuf' = Append(usrbuf, c)
    BY <1>1, Zenon DEF CopyByte
  <2>3. c = Newline => ends
    BY DEF LineEnds
  <2>2. c \in Byte /\ usrbuf \in Seq(Byte)
    BY <1>1, RioAssumption DEF CopyByte, TypeOK
  <2> HIDE DEF c, ends
  <2> QED
    BY <2>1, <2>2, <2>3 DEF Unended
<1>2. CASE usrbuf' \in {usrbuf, <<>>}
  BY <1>2 DEF Unended
<1> QED
  BY <1>1, <1>2 DEF Next, Reader, Arrive, Hangup, Refill, Interrupted, ReadError, EndOfFile, vars

\* With nothing in the internal buffer, what is unread begins with the line so
\* far, which has no end.
LEMMA EmptyBuffer ==
  ASSUME TypeOK, Unended, rio_cnt <= 0
  PROVE  /\ BufLen = 0
         /\ \A k \in 1 .. Len(usrbuf) : ~EndAt(k)
         /\ wire = <<>> => Len(Unread) = Len(usrbuf) /\ Unread = usrbuf
<1>1. BufLen = 0
  BY DEF BufLen, TypeOK
<1>2. usrbuf \in Seq(Byte) /\ Len(usrbuf) + 1 < MAXLINE /\ Len(usrbuf) \in Nat
  BY DEF TypeOK
<1>3. ASSUME NEW k \in 1 .. Len(usrbuf) PROVE ~EndAt(k)
  BY <1>2, UnreadBytes, RioAssumption DEF EndAt, Unended
<1>4. ASSUME wire = <<>> PROVE Len(Unread) = Len(usrbuf) /\ Unread = usrbuf
  <2>1. /\ Unread \in Seq(Byte) /\ Len(Unread) = Len(usrbuf)
        /\ \A k \in 1 .. Len(usrbuf) : Unread[k] = usrbuf[k]
    BY <1>1, <1>2, <1>4, UnreadBytes
  <2> QED
    BY <1>2, <2>1, Same
<1> QED
  BY <1>1, <1>3, <1>4

\* A refill moves bytes from the wire to the internal buffer, and none is lost.
LEMMA RefillStep ==
  ASSUME TypeOK, [Next]_vars, Refill
  PROVE  Unread' = Unread
<1>1. PICK n \in 1 .. RIO_BUFSIZE :
        /\ n <= Len(wire)
        /\ rio_buf' = [k \in 1 .. RIO_BUFSIZE |-> IF k <= n THEN wire[k] ELSE rio_buf[k]]
        /\ rio_cnt' = n
        /\ wire' = SubSeq(wire, n + 1, Len(wire))
  BY DEF Refill
<1>2. rio_bufptr' = 1 /\ usrbuf' = usrbuf /\ BufLen = 0
  BY DEF Refill, StartPtr, BufLen, TypeOK
<1>3. BufLen' = n
  BY <1>1, RioAssumption DEF BufLen
<1>4. /\ Len(wire') = Len(wire) - n /\ wire \in Seq(Byte) /\ Len(wire) \in Nat
      /\ \A k \in 1 .. Len(wire) - n : wire'[k] = wire[n + k]
  BY <1>1 DEF TypeOK
<1>5. /\ Len(usrbuf) \in Nat /\ Unread \in Seq(Byte) /\ Len(Unread) = Len(usrbuf) + Len(wire)
      /\ \A k \in 1 .. Len(usrbuf) : Unread[k] = usrbuf[k]
      /\ \A k \in 1 .. Len(wire) : Unread[Len(usrbuf) + k] = wire[k]
  BY <1>2, <1>4, UnreadBytes
<1>6. /\ Len(Unread') = Len(usrbuf) + n + (Len(wire) - n)
      /\ \A k \in 1 .. Len(usrbuf) : Unread'[k] = usrbuf[k]
      /\ \A k \in 1 .. n : Unread'[Len(usrbuf) + k] = rio_buf'[k]
      /\ \A k \in 1 .. Len(wire) - n : Unread'[Len(usrbuf) + n + k] = wire'[k]
  <2>1. Len(Unread') = Len(usrbuf) + n + (Len(wire) - n)
    BY <1>2, <1>3, <1>4, UnreadNext
  <2>2. \A k \in 1 .. Len(usrbuf) : Unread'[k] = usrbuf[k]
    BY <1>2, UnreadNext
  <2>3. ASSUME NEW k \in 1 .. n PROVE Unread'[Len(usrbuf) + k] = rio_buf'[k]
    <3>1. rio_bufptr' + k - 1 = k
      BY <1>2
    <3>2. Unread'[Len(usrbuf') + k] = rio_buf'[rio_bufptr' + k - 1]
      BY <1>3, UnreadNext
    <3> QED
      BY <1>2, <3>1, <3>2
  <2>4. \A k \in 1 .. Len(wire) - n : Unread'[Len(usrbuf) + n + k] = wire'[k]
    BY <1>2, <1>3, <1>4, UnreadNext
  <2> QED
    BY <2>1, <2>2, <2>3, <2>4
<1>7. ASSUME NEW i \in 1 .. n PROVE Unread'[Len(usrbuf) + i] = Unread[Len(usrbuf) + i]
  <2>1. rio_buf'[i] = wire[i] /\ i \in 1 .. Len(wire)
    BY <1>1, <1>4, RioAssumption
  <2> QED
    BY <1>5, <1>6, <2>1
<1>8. ASSUME NEW j \in 1 .. Len(wire) - n
      PROVE  Unread'[Len(usrbuf) + n + j] = Unread[Len(usrbuf) + n + j]
  <2>1. Unread'[Len(usrbuf) + n + j] = wire[n + j]
    BY <1>4, <1>6
  <2>2. n + j \in 1 .. Len(wire) /\ Len(usrbuf) + n + j = Len(usrbuf) + (n + j)
    BY <1>4, <1>5
  <2> QED
    BY <1>5, <2>1, <2>2
<1>9. Len(Unread') = Len(Unread)
  BY <1>4, <1>5, <1>6
<1>10. ASSUME NEW k \in 1 .. Len(Unread) PROVE Unread'[k] = Unread[k]
  <2> DEFINE a == Len(usrbuf)
             c == Len(wire) - n
  <2>1. a \in Nat /\ n \in Nat /\ c \in Nat /\ k \in 1 .. a + n + c
    <3>1. n \in Nat /\ n <= Len(wire)
      BY <1>1, RioAssumption
    <3>2. Len(wire) \in Nat /\ Len(usrbuf) \in Nat /\ Len(Unread) = Len(usrbuf) + Len(wire)
      BY <1>4, <1>5
    <3> QED
      BY <3>1, <3>2
  <2> HIDE DEF a, c
  <2>2. \/ k \in 1 .. a
        \/ \E i \in 1 .. n : k = a + i
        \/ \E j \in 1 .. c : k = a + n + j
    BY <2>1, Segments
  <2> USE DEF a, c
  <2> QED
    BY <1>5, <1>6, <1>7, <1>8, <2>2
<1> QED
  BY <1>5, <1>9, <1>10, SameUnread

\* A byte that arrives is the last one of the stream.
LEMMA ArriveStep ==
  ASSUME TypeOK, [Next]_vars, NEW b \in Byte, Arrive(b)
  PROVE  Lines!Next
<1> DEFINE p == usrbuf \o Buffered
<1>1. usrbuf \in Seq(Byte) /\ Buffered \in Seq(Byte) /\ wire \in Seq(Byte)
  BY BufferedBytes DEF TypeOK
<1>2. p \in Seq(Byte)
  BY <1>1, Joined
<1>3. Unread = p \o wire /\ Unread' = p \o Append(wire, b)
  BY DEF Arrive, rio, Unread, Buffered
<1> HIDE DEF p
<1>4. Unread' = Append(Unread, b)
  BY <1>1, <1>2, <1>3, JoinAppended
<1> QED
  BY <1>4, BytesArrive DEF Arrive

\* A reset loses no byte that is in one of the reader's buffers.
LEMMA HangupStep ==
  ASSUME TypeOK, [Next]_vars, Hangup
  PROVE  Lines!Next
<1> DEFINE p == usrbuf \o Buffered
<1>1. usrbuf \in Seq(Byte) /\ Buffered \in Seq(Byte) /\ wire \in Seq(Byte)
  BY BufferedBytes DEF TypeOK
<1>2. p \in Seq(Byte)
  BY <1>1, Joined
<1>3. Unread = p \o wire /\ Unread' = p \o wire'
  BY DEF Hangup, rio, Unread, Buffered
<1> HIDE DEF p
<1>4. conn = "open" /\ lines' = lines
  BY DEF Hangup
<1>5. CASE conn' = "closed" /\ wire' = wire
  BY <1>3, <1>4, <1>5, BytesEnd
<1>6. CASE conn' = "reset" /\ \E n \in 0 .. Len(wire) : wire' = SubSeq(wire, 1, n)
  <2>1. PICK n \in 0 .. Len(wire) : wire' = SubSeq(wire, 1, n)
    BY <1>6
  <2>2. /\ Unread' = SubSeq(Unread, 1, Len(p) + n)
        /\ Len(p) + n \in 0 .. Len(Unread)
    BY <1>1, <1>2, <1>3, <2>1, JoinCut
  <2> QED
    BY <1>4, <1>6, <2>2, BytesEnd
<1> QED
  BY <1>5, <1>6 DEF Hangup

\* read() interrupted or failing: nothing was in the internal buffer, and
\* nothing is.
LEMMA InterruptedStep ==
  ASSUME TypeOK, [Next]_vars, Interrupted
  PROVE  Unread' = Unread
<1>1. BufLen = 0 /\ BufLen' = 0 /\ UNCHANGED <<usrbuf, wire>>
  BY DEF Interrupted, BufLen, TypeOK
<1>2. /\ Unread \in Seq(Byte) /\ Len(Unread') = Len(Unread)
      /\ Len(Unread) = Len(usrbuf) + Len(wire) /\ Len(usrbuf) \in Nat /\ Len(wire) \in Nat
  BY <1>1, UnreadBytes, UnreadNext
<1>3. ASSUME NEW k \in 1 .. Len(Unread) PROVE Unread'[k] = Unread[k]
  <2>1. CASE k \in 1 .. Len(usrbuf)
    BY <1>1, <2>1, UnreadBytes, UnreadNext
  <2>2. CASE \E j \in 1 .. Len(wire) : k = Len(usrbuf) + 0 + j
    BY <1>1, <2>2, UnreadBytes, UnreadNext
  <2> DEFINE a == Len(usrbuf)
             c == Len(wire)
  <2>3. a \in Nat /\ c \in Nat /\ k \in 1 .. a + 0 + c
    BY <1>2
  <2> HIDE DEF a, c
  <2>4. \/ k \in 1 .. a
        \/ \E i \in 1 .. 0 : k = a + i
        \/ \E j \in 1 .. c : k = a + 0 + j
    BY <2>3, Segments
  <2> USE DEF a, c
  <2> QED
    BY <2>1, <2>2, <2>4
<1> QED
  BY <1>2, <1>3, SameUnread

\* An error interrupts a line that has no end yet.
LEMMA ReadErrorStep ==
  ASSUME TypeOK, Unended, [Next]_vars, ReadError
  PROVE  Lines!Next
<1>1. /\ rio_cnt <= 0 /\ conn = "reset" /\ wire = <<>>
      /\ conn' = "closed" /\ rio_cnt' = -1 /\ usrbuf' = <<>> /\ wire' = <<>> /\ lines' = lines
  BY DEF ReadError
<1>2. Len(Unread) = Len(usrbuf) /\ \A n \in 1 .. Len(usrbuf) : ~EndAt(n)
  BY <1>1, EmptyBuffer
<1>3. \A n \in 1 .. Len(Unread) : ~EndAt(n)
  BY <1>2
<1>4. Unread' = <<>>
  <2>1. BufLen' = 0
    BY <1>1 DEF BufLen
  <2>2. Unread' \in Seq(Byte) /\ Len(Unread') = 0
    BY <1>1, <2>1, UnreadNext
  <2> QED
    BY <2>2
<1> QED
  BY <1>1, <1>3, <1>4, ErrorReported

\* The last line is what there is when the connection ends.
LEMMA EndOfFileStep ==
  ASSUME TypeOK, Unended, [Next]_vars, EndOfFile
  PROVE  Lines!Next
<1>1. /\ rio_cnt <= 0 /\ conn = "closed" /\ wire = <<>> /\ usrbuf # <<>>
      /\ conn' = conn /\ rio_cnt' = 0 /\ lines' = Append(lines, usrbuf)
      /\ usrbuf' = <<>> /\ wire' = <<>>
  BY DEF EndOfFile
<1>2. /\ Len(Unread) = Len(usrbuf) /\ Unread = usrbuf
      /\ \A n \in 1 .. Len(usrbuf) : ~EndAt(n)
  BY <1>1, EmptyBuffer
<1>3. Unread' = <<>>
  <2>1. BufLen' = 0
    BY <1>1 DEF BufLen
  <2>2. Unread' \in Seq(Byte) /\ Len(Unread') = 0
    BY <1>1, <2>1, UnreadNext
  <2> QED
    BY <2>2
<1> DEFINE n == Len(usrbuf)
<1>4. n \in 1 .. Len(Unread) /\ n = Len(Unread)
  BY <1>1, <1>2 DEF TypeOK
<1>5. SubSeq(Unread, 1, n) = usrbuf /\ SubSeq(Unread, n + 1, Len(Unread)) = <<>>
  BY <1>2 DEF TypeOK
<1>6. \A k \in 1 .. n - 1 : ~EndAt(k)
  BY <1>2, <1>4
<1>7. lines' = Append(lines, SubSeq(Unread, 1, n))
  BY <1>1, <1>5
<1>8. Unread' = SubSeq(Unread, n + 1, Len(Unread))
  BY <1>3, <1>5
<1> HIDE DEF n
<1> QED
  BY <1>1, <1>4, <1>6, <1>7, <1>8, LineTaken

\* A byte leaves the internal buffer at its front.
LEMMA BufferAdvances ==
  ASSUME TypeOK, [Next]_vars, CopyByte
  PROVE  /\ rio_buf[rio_bufptr] \in Byte
         /\ Buffered' \in Seq(Byte)
         /\ Buffered = <<rio_buf[rio_bufptr]>> \o Buffered'
<1> DEFINE c == rio_buf[rio_bufptr]
           s == <<c>> \o Buffered'
<1>1. /\ rio_cnt \in Nat \ {0} /\ BufLen = rio_cnt /\ BufLen' = rio_cnt - 1
      /\ rio_bufptr \in 1 .. RIO_BUFSIZE /\ rio_bufptr' = rio_bufptr + 1 /\ rio_buf' = rio_buf
  BY RioAssumption DEF CopyByte, BufLen, TypeOK
<1>2. c \in Byte
  BY <1>1 DEF TypeOK
<1>3. (/\ BufLen \in Nat
       /\ Buffered \in Seq(Byte) /\ Len(Buffered) = BufLen
       /\ \A k \in 1 .. BufLen : Buffered[k] = rio_buf[rio_bufptr + k - 1])'
  <2>1. TypeOK'
    BY TypeStep
  <2>2. (TypeOK =>
           /\ BufLen \in Nat
           /\ Buffered \in Seq(Byte) /\ Len(Buffered) = BufLen
           /\ \A k \in 1 .. BufLen : Buffered[k] = rio_buf[rio_bufptr + k - 1])'
    BY BufferedBytes, PTL
  <2> QED
    BY <2>1, <2>2
<1>4. \A k \in 1 .. rio_cnt - 1 : Buffered'[k] = rio_buf[rio_bufptr + k]
  <2>1. ASSUME NEW k \in 1 .. rio_cnt - 1 PROVE Buffered'[k] = rio_buf[rio_bufptr + k]
    <3>1. rio_bufptr' + k - 1 = rio_bufptr + k
      BY <1>1
    <3>2. Buffered'[k] = rio_buf'[rio_bufptr' + k - 1]
      BY <1>1, <1>3
    <3> QED
      BY <1>1, <3>1, <3>2
  <2> QED
    BY <2>1
<1>5. /\ Buffered \in Seq(Byte) /\ Len(Buffered) = rio_cnt
      /\ \A k \in 1 .. rio_cnt : Buffered[k] = rio_buf[rio_bufptr + k - 1]
  BY <1>1, BufferedBytes
<1>6. /\ s \in Seq(Byte) /\ Len(s) = rio_cnt /\ s[1] = c
      /\ \A k \in 1 .. rio_cnt - 1 : s[1 + k] = Buffered'[k]
  <2> DEFINE one == <<c>>
             rest == Buffered'
  <2>1. one \in Seq(Byte) /\ Len(one) = 1 /\ one[1] = c
    BY <1>2
  <2>2. rest \in Seq(Byte) /\ Len(rest) = rio_cnt - 1
    BY <1>1, <1>3
  <2>3. s = one \o rest
    OBVIOUS
  <2> DEFINE both == one \o rest
  <2> HIDE DEF one, rest, s, c
  <2>4. /\ both \in Seq(Byte) /\ Len(both) = Len(one) + Len(rest)
        /\ \A k \in 1 .. Len(one) : both[k] = one[k]
        /\ \A k \in 1 .. Len(rest) : both[Len(one) + k] = rest[k]
    <3>1. one \in Seq(Byte) /\ rest \in Seq(Byte)
      BY <2>1, <2>2
    <3> QED
      BY <3>1
  <2>5. s = both
    BY <2>3
  <2> HIDE DEF both
  <2>6. Len(s) = rio_cnt /\ s[1] = c /\ s \in Seq(Byte)
    BY <1>1, <2>1, <2>2, <2>4, <2>5
  <2>7. \A k \in 1 .. rio_cnt - 1 : s[1 + k] = rest[k]
    BY <2>1, <2>2, <2>4, <2>5
  <2> QED
    BY <2>6, <2>7 DEF rest
<1> HIDE DEF s
<1>7. ASSUME NEW k \in 1 .. rio_cnt PROVE Buffered[k] = s[k]
  <2>1. CASE k = 1
    BY <1>1, <1>5, <1>6, <2>1
  <2>2. CASE k # 1
    <3>1. k - 1 \in 1 .. rio_cnt - 1 /\ 1 + (k - 1) = k /\ rio_bufptr + (k - 1) = rio_bufptr + k - 1
      BY <1>1, <2>2
    <3>2. s[k] = Buffered'[k - 1]
      BY <1>6, <3>1
    <3> QED
      BY <1>4, <1>5, <3>1, <3>2
  <2> QED
    BY <2>1, <2>2
<1>8. Buffered = s
  BY <1>5, <1>6, <1>7, Same
<1> QED
  BY <1>2, <1>3, <1>8 DEF s

\* A byte that is copied stays unread until it ends a line; then the line is
\* the first of the stream.
LEMMA CopyByteStep ==
  ASSUME TypeOK, Unended, [Next]_vars, CopyByte
  PROVE  Lines!Next \/ UNCHANGED Lines!vars
<1> DEFINE c == rio_buf[rio_bufptr]
           line == Append(usrbuf, c)
           left == Buffered' \o wire
           n == Len(usrbuf) + 1
<1>1. /\ usrbuf \in Seq(Byte) /\ wire \in Seq(Byte) /\ Len(usrbuf) \in Nat
      /\ Len(usrbuf) + 1 < MAXLINE /\ MAXLINE \in Nat
  BY RioAssumption DEF TypeOK
<1>2. c \in Byte /\ Buffered' \in Seq(Byte) /\ Buffered = <<c>> \o Buffered'
  BY BufferAdvances
<1>3. wire' = wire /\ conn' = conn
  BY DEF CopyByte
<1>4. IF LineEnds(n, c)
      THEN lines' = Append(lines, line) /\ usrbuf' = <<>>
      ELSE usrbuf' = line /\ UNCHANGED lines
  BY DEF CopyByte
<1> DEFINE rest == Buffered'
<1>5. Unread = (usrbuf \o (<<c>> \o rest)) \o wire
  BY <1>2, Zenon DEF Unread
<1>6. Unread' = (usrbuf' \o rest) \o wire
  BY <1>3, Zenon DEF Unread
<1>7. left = rest \o wire /\ rest \in Seq(Byte)
  BY <1>2
<1> HIDE DEF c, rest, left
<1>8. line \in Seq(Byte) /\ Len(line) = n /\ line[n] = c /\ \A k \in 1 .. n - 1 : line[k] = usrbuf[k]
  BY <1>1, <1>2, Appended
<1>9. left \in Seq(Byte)
  BY <1>1, <1>7, Joined
<1>10. Unread = line \o left /\ Unread = (line \o rest) \o wire
  <2>1. usrbuf \o (<<c>> \o rest) = line \o rest
    <3>1. usrbuf \in Seq(Byte) /\ c \in Byte /\ rest \in Seq(Byte)
      BY <1>1, <1>2, <1>7
    <3> QED
      BY <3>1, JoinMoved
  <2> HIDE DEF line
  <2>2. (line \o rest) \o wire = line \o (rest \o wire)
    <3>1. line \in Seq(Byte) /\ rest \in Seq(Byte) /\ wire \in Seq(Byte)
      BY <1>1, <1>7, <1>8
    <3> QED
      BY <3>1, JoinedThree
  <2> QED
    BY <1>5, <1>7, <2>1, <2>2
<1>11. CASE ~LineEnds(n, c)
  <2>1. Unread' = Unread /\ lines' = lines
    BY <1>4, <1>6, <1>10, <1>11
  <2> QED
    BY <1>3, <2>1, NothingSeen
<1>12. CASE LineEnds(n, c)
  <2>1. lines' = Append(lines, line) /\ usrbuf' = <<>>
    BY <1>4, <1>12
  <2> HIDE DEF line
  <2>2. /\ Len(Unread) = n + Len(left) /\ Len(left) \in Nat
        /\ \A k \in 1 .. n : Unread[k] = line[k]
    <3> DEFINE both == line \o left
    <3>1. line \in Seq(Byte) /\ left \in Seq(Byte)
      BY <1>8, <1>9
    <3> HIDE DEF n
    <3>2. /\ Len(both) = Len(line) + Len(left) /\ Len(left) \in Nat
          /\ \A k \in 1 .. Len(line) : both[k] = line[k]
      BY <3>1
    <3> HIDE DEF both
    <3>3. Unread = both /\ Len(line) = n
      BY <1>8, <1>10 DEF both
    <3> QED
      BY <3>2, <3>3
  <2>3. SubSeq(Unread, 1, n) = line /\ SubSeq(Unread, n + 1, Len(Unread)) = left
    BY <1>8, <1>9, <1>10, JoinTaken
  <2>4. Unread' = left
    <3>1. <<>> \o rest = rest
      BY <1>7
    <3> QED
      BY <1>6, <1>7, <2>1, <3>1
  <2>5. n \in 1 .. Len(Unread)
    BY <1>1, <2>2
  <2>6. EndAt(n)
    <3>1. Unread[n] = c
      BY <1>1, <1>8, <2>2
    <3>2. c = Newline \/ n = MAXLINE - 1
      BY <1>1, <1>12 DEF LineEnds
    <3> QED
      BY <3>1, <3>2 DEF EndAt
  <2>7. ASSUME NEW k \in 1 .. n - 1 PROVE ~EndAt(k)
    <3>1. Unread[k] = usrbuf[k] /\ usrbuf[k] # Newline
      BY <1>1, <1>8, <2>2 DEF Unended
    <3>2. k # MAXLINE - 1
      BY <1>1
    <3> QED
      BY <3>1, <3>2 DEF EndAt
  <2>8. /\ lines' = Append(lines, SubSeq(Unread, 1, n))
        /\ Unread' = SubSeq(Unread, n + 1, Len(Unread))
    BY <2>1, <2>3, <2>4
  <2> HIDE DEF n
  <2> QED
    BY <1>3, <2>5, <2>6, <2>7, <2>8, LineTaken
<1> QED
  BY <1>11, <1>12

\* Every step of the reader, the client and the network is one of LineReader,
\* or nothing that it sees.
LEMMA LinesStep ==
  ASSUME TypeOK, Unended, [Next]_vars
  PROVE  [Lines!Next]_(Lines!vars)
<1>1. CASE \E b \in Byte : Arrive(b)
  BY <1>1, ArriveStep
<1>2. CASE Hangup
  BY <1>2, HangupStep
<1>3. CASE Interrupted
  <2>1. UNCHANGED <<Unread, conn, lines>>
    BY <1>3, InterruptedStep DEF Interrupted
  <2> QED
    BY <2>1, NothingSeen
<1>4. CASE Refill
  <2>1. UNCHANGED <<Unread, conn, lines>>
    BY <1>4, RefillStep DEF Refill
  <2> QED
    BY <2>1, NothingSeen
<1>5. CASE ReadError
  BY <1>5, ReadErrorStep
<1>6. CASE CopyByte
  BY <1>6, CopyByteStep
<1>7. CASE EndOfFile
  BY <1>7, EndOfFileStep
<1>8. CASE UNCHANGED vars
  <2>1. UNCHANGED <<Unread, conn, lines>>
    BY <1>8 DEF vars, rio, Unread, Buffered
  <2> QED
    BY <2>1, NothingSeen
<1> QED
  BY <1>1, <1>2, <1>3, <1>4, <1>5, <1>6, <1>7, <1>8 DEF Next, Reader

\* However read() spreads the bytes over its calls, the lines rio_readlineb
\* returns are those of the stream, for all bytes and every size of the two
\* buffers: the safety part of ReadsLines.
THEOREM ReadsLinesSafely == Spec => LinesSafety
<1>1. Init => Unended
  BY DEF Init, Unended
<1>2. Init => Lines!Init
  <2> SUFFICES ASSUME Init PROVE Lines!Init
    OBVIOUS
  <2>1. TypeOK
    BY RioAssumption DEF Init, TypeOK
  <2>2. Unread \in Seq(Byte) /\ Len(Unread) = 0
    BY <2>1, UnreadBytes DEF Init, BufLen
  <2>3. Unread = <<>>
    BY <2>2
  <2> QED
    BY <2>3 DEF Init, Lines!Init, Unread
<1>3. Spec => []TypeOK
  BY TypeCorrect
<1> QED
  BY <1>1, <1>2, <1>3, UnendedStep, LinesStep, PTL DEF Spec, LinesSafety
=============================================================================
