----------------------------- MODULE LineReader -----------------------------
(***************************************************************************)
(* What parse_request (tools/touchosc_layout_server/tosrv.c) relies on when*)
(* it calls rio_readlineb over and over: the bytes of the connection come  *)
(* back in order, cut into lines that end with a newline, at the limit of  *)
(* the caller's buffer, or with the connection.  This is an abstract       *)
(* specification; Rio implements it.                                       *)
(***************************************************************************)
EXTENDS Naturals, Sequences

CONSTANTS
  Byte, Newline,
  MAXLINE   \* size of the caller's buffer, one byte of it for the final 0

VARIABLES
  unread,   \* bytes that have arrived and are in no line yet
  conn,     \* "open", "closed" in good order, or "reset"
  lines     \* what the calls have returned

vars == <<unread, conn, lines>>

Init == unread = <<>> /\ conn = "open" /\ lines = <<>>

Arrive(b) ==
  /\ conn = "open"
  /\ unread' = Append(unread, b)
  /\ UNCHANGED <<conn, lines>>

Close == conn = "open" /\ conn' = "closed" /\ UNCHANGED <<unread, lines>>

\* Whatever has not reached the reader's own buffers may be lost.
Reset ==
  /\ conn = "open"
  /\ conn' = "reset"
  /\ \E n \in 0 .. Len(unread) : unread' = SubSeq(unread, 1, n)
  /\ UNCHANGED lines

EndsLine(n) == unread[n] = Newline \/ n = MAXLINE - 1

NextLine ==
  /\ \E n \in 1 .. Len(unread) :
       /\ EndsLine(n) \/ (conn = "closed" /\ n = Len(unread))
       /\ \A k \in 1 .. n - 1 : ~EndsLine(k)
       /\ lines' = Append(lines, SubSeq(unread, 1, n))
       /\ unread' = SubSeq(unread, n + 1, Len(unread))
  /\ UNCHANGED conn

\* An error is reported once; the line it interrupts is dropped.
Fail ==
  /\ conn = "reset"
  /\ \A n \in 1 .. Len(unread) : ~EndsLine(n)
  /\ unread' = <<>>
  /\ conn' = "closed"
  /\ UNCHANGED lines

Next == (\E b \in Byte : Arrive(b)) \/ Close \/ Reset \/ NextLine \/ Fail

\* A line that is complete is returned: no call waits for more than its line.
Spec == Init /\ [][Next]_vars /\ WF_vars(NextLine)
=============================================================================
