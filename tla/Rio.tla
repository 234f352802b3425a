-------------------------------- MODULE Rio --------------------------------
(***************************************************************************)
(* The buffered reader of tools/touchosc_layout_server/tosrv.c, byte by    *)
(* byte: rio_read refills an internal buffer with what read() delivers, be *)
(* it as little as one byte, and rio_readlineb copies from it to a line.   *)
(* The caller reads line after line.  LayoutServer uses whole lines.       *)
(***************************************************************************)
EXTENDS Integers, Sequences

CONSTANTS
  Byte, Newline,
  MAXLINE,     \* size of the caller's buffer
  RIO_BUFSIZE, \* size of the internal buffer
  MaxBytes     \* bound: bytes the client sends

ASSUME RioAssumption ==
  /\ Newline \in Byte
  /\ MAXLINE \in Nat \ {0, 1}
  /\ RIO_BUFSIZE \in Nat \ {0}
  /\ MaxBytes \in Nat

VARIABLES
  wire,       \* bytes that have arrived and were not read
  conn,       \* "open", "closed" or "reset"
  sent,       \* number of bytes sent
  rio_buf, rio_bufptr, rio_cnt, \* rio_t
  usrbuf,     \* the line so far; the loop's n is Len(usrbuf) + 1
  lines       \* history: what the calls have returned

rio == <<rio_buf, rio_bufptr, rio_cnt>>
vars == <<wire, conn, sent, rio, usrbuf, lines>>

\* rio_readinitb; the buffer itself is uninitialized.
Init ==
  /\ wire = <<>> /\ conn = "open" /\ sent = 0
  /\ rio_buf \in [1 .. RIO_BUFSIZE -> Byte] /\ rio_bufptr = 1 /\ rio_cnt = 0
  /\ usrbuf = <<>> /\ lines = <<>>

-----------------------------------------------------------------------------
(* The client and the network.                                             *)

Arrive(b) ==
  /\ conn = "open"
  /\ sent < MaxBytes
  /\ wire' = Append(wire, b) /\ sent' = sent + 1
  /\ UNCHANGED <<conn, rio, usrbuf, lines>>

Hangup ==
  /\ conn = "open"
  /\ \/ conn' = "closed" /\ UNCHANGED wire
     \/ conn' = "reset" /\ \E n \in 0 .. Len(wire) : wire' = SubSeq(wire, 1, n)
  /\ UNCHANGED <<sent, rio, usrbuf, lines>>

-----------------------------------------------------------------------------
(* rio_read: refill, while there is nothing in the buffer.                 *)

\* Mutant: the buffer is refilled from its start, the pointer stays.
StartPtrKept == rio_bufptr

\* Where the unread bytes begin after a refill.
StartPtr == 1

Refill ==
  /\ rio_cnt <= 0
  /\ \E n \in 1 .. RIO_BUFSIZE :
       /\ n <= Len(wire)
       /\ rio_buf' = [k \in 1 .. RIO_BUFSIZE |-> IF k <= n THEN wire[k] ELSE rio_buf[k]]
       /\ rio_cnt' = n
       /\ wire' = SubSeq(wire, n + 1, Len(wire))
  /\ rio_bufptr' = StartPtr
  /\ UNCHANGED <<conn, sent, usrbuf, lines>>

\* read() is interrupted by a signal and called again.
Interrupted ==
  /\ rio_cnt <= 0
  /\ rio_cnt' = -1
  /\ UNCHANGED <<wire, conn, sent, rio_buf, rio_bufptr, usrbuf, lines>>

\* read() reports the error of the connection, once.
ReadError ==
  /\ rio_cnt <= 0
  /\ conn = "reset" /\ wire = <<>>
  /\ conn' = "closed"
  /\ rio_cnt' = -1
  /\ usrbuf' = <<>>
  /\ UNCHANGED <<wire, sent, rio_buf, rio_bufptr, lines>>

-----------------------------------------------------------------------------
(* rio_readlineb.                                                          *)

\* Mutant: the loop runs for n <= maxlen.
LineEndsLate(n, c) == c = Newline \/ n + 1 > MAXLINE

\* for (n = 1; n < maxlen; n++) ... if (c == '\n') break
LineEnds(n, c) == c = Newline \/ n + 1 >= MAXLINE

CopyByte ==
  /\ rio_cnt > 0
  /\ rio_bufptr' = rio_bufptr + 1 /\ rio_cnt' = rio_cnt - 1
  /\ LET c == rio_buf[rio_bufptr] IN
       IF LineEnds(Len(usrbuf) + 1, c)
       THEN lines' = Append(lines, Append(usrbuf, c)) /\ usrbuf' = <<>>
       ELSE usrbuf' = Append(usrbuf, c) /\ UNCHANGED lines
  /\ UNCHANGED <<wire, conn, sent, rio_buf>>

\* read() returned 0 and some data was read before.
EndOfFile ==
  /\ rio_cnt <= 0
  /\ conn = "closed" /\ wire = <<>>
  /\ usrbuf # <<>>
  /\ rio_cnt' = 0
  /\ lines' = Append(lines, usrbuf) /\ usrbuf' = <<>>
  /\ UNCHANGED <<wire, conn, sent, rio_buf, rio_bufptr>>

Reader == Refill \/ ReadError \/ CopyByte \/ EndOfFile
Next == (\E b \in Byte : Arrive(b)) \/ Hangup \/ Interrupted \/ Reader

\* read() returns when there is something to read.
Spec == Init /\ [][Next]_vars /\ WF_vars(Reader)

-----------------------------------------------------------------------------
(* Properties.                                                             *)

\* What is in the internal buffer and was not copied.
Buffered == [k \in 1 .. IF rio_cnt < 0 THEN 0 ELSE rio_cnt |-> rio_buf[rio_bufptr + k - 1]]

\* The state has its type: the internal buffer is never read past its end,
\* nor the caller's buffer written past its last byte but one.
TypeOK ==
  /\ wire \in Seq(Byte) /\ sent \in 0 .. MaxBytes
  /\ conn \in {"open", "closed", "reset"}
  /\ rio_buf \in [1 .. RIO_BUFSIZE -> Byte]
  /\ rio_bufptr \in 1 .. RIO_BUFSIZE + 1
  /\ rio_cnt \in -1 .. RIO_BUFSIZE + 1 - rio_bufptr
  /\ usrbuf \in Seq(Byte) /\ Len(usrbuf) + 1 < MAXLINE
  /\ lines \in Seq(Seq(Byte)) /\ \A n \in DOMAIN lines : Len(lines[n]) < MAXLINE

\* However the bytes are spread over calls of read(), refills of the buffer and
\* interruptions, the lines rio_readlineb returns are those of the stream: no
\* byte is lost, repeated or left in the buffer, a line without an end comes
\* with the end of the connection, and a complete line does not wait for more.
Lines == INSTANCE LineReader WITH unread <- usrbuf \o Buffered \o wire
ReadsLines == Lines!Spec
=============================================================================
