---------------------------- MODULE LayoutServer ----------------------------
(***************************************************************************)
(* tools/touchosc_layout_server/tosrv.c: a server that accepts one         *)
(* connection, reads one HTTP request line by line, delivers the layout    *)
(* file if "/" was asked for, and quits.                                   *)
(*                                                                         *)
(* A line is abstracted to its kind (Rio has the bytes), a path to a       *)
(* sequence of Tokens.  The client is any program: it sends lines, may end *)
(* the connection at any moment, or stay silent for good.                  *)
(***************************************************************************)
EXTENDS Naturals, Sequences

CONSTANTS
  FileSize, \* bytes in the layout file
  AnswerSize, \* pieces in which the status line and the headers may go out
  Uris,     \* paths a client may ask for
  Ranges,   \* pairs of a first and a last byte a client may ask for
  MaxLines  \* bound: lines a client sends

\* "%zz" stands for an escape that decodes to a zero byte: "%00", one without
\* hex digits, or one that the end of the path cuts short (what url_decode then
\* copies from behind the path comes after the zero).  "long" is text that
\* does not fit into the 512 bytes of filename, but into the whole record (a
\* longer one would leave the record, and the model); "x" is any other.
Tokens == {"/", ".", "?", "%2e", "%zz", "x", "long"}

ASSUME LayoutAssumption ==
  /\ FileSize \in Nat \ {0} /\ AnswerSize \in Nat \ {0}
  /\ MaxLines \in Nat \ {0}
  /\ Uris \subseteq Seq(Tokens) \ {<<>>}
  /\ Ranges \subseteq (0 .. FileSize) \X (0 .. FileSize)

VARIABLES
  pc,       \* where the server is
  file,     \* what the name given on the command line stands for
  buf,      \* the line in parse_request's buffer; "unset" is uninitialized
  uri,      \* what was scanned from the request line; <<>> is uninitialized
  offset, end, \* of the range
  status,   \* of the answer, 0 before it
  nleft,    \* pieces of the answer that writen has not written
  body,     \* bytes of the layout delivered
  client,   \* "none", "open", "closed" or "reset"
  wire,     \* lines sent and not read
  sent      \* history: every line the client has sent

serverVars == <<pc, file, buf, uri, offset, end, status, nleft, body>>
vars == <<serverVars, client, wire, sent>>

Range(first, last) == [kind |-> "range", first |-> first, last |-> last]
OpenRange(first) == [kind |-> "open", first |-> first, last |-> 0]
Line(kind) == [kind |-> kind, first |-> 0, last |-> 0]

Request(u) == [kind |-> "request", uri |-> u]

\* Of a request line, only its path counts; "part" is not ended by a newline, so
\* it is the last; "edge" is a header whose newline is byte MAXLINE; "ran"
\* begins with "Ran" and is no range.
RequestLines == {Request(u) : u \in Uris}
HeaderLines == {Line("header"), Line("edge"), Line("ran")}
               \cup {Range(r[1], r[2]) : r \in Ranges}
               \cup {OpenRange(r[1]) : r \in Ranges}
Lines == RequestLines \cup HeaderLines \cup {Line("blank"), Line("part")}

Init ==
  /\ pc = "start" /\ file \in {"regular", "directory", "missing"}
  /\ buf = Line("unset") /\ uri = <<>> /\ offset = 0 /\ end = 0
  /\ status = 0 /\ nleft = 0 /\ body = 0
  /\ client = "none" /\ wire = <<>> /\ sent = <<>>

-----------------------------------------------------------------------------
(* The client.                                                             *)

Connect ==
  /\ pc = "accept"
  /\ client = "none"
  /\ client' = "open"
  /\ UNCHANGED <<serverVars, wire, sent>>

Ended == sent # <<>> /\ sent[Len(sent)].kind \in {"blank", "part"}

Send(line) ==
  /\ client = "open"
  /\ Len(sent) < MaxLines
  /\ ~Ended
  /\ sent = <<>> => line \notin HeaderLines
  /\ sent # <<>> => line \notin RequestLines
  /\ wire' = Append(wire, line) /\ sent' = Append(sent, line)
  /\ UNCHANGED <<serverVars, client>>

\* A client that gives up; with a reset the lines under way may be lost.
Hangup ==
  /\ client = "open"
  /\ \/ client' = "closed" /\ UNCHANGED wire
     \/ client' = "reset" /\ wire' = <<>>
  /\ UNCHANGED <<serverVars, sent>>

-----------------------------------------------------------------------------
(* The server.                                                             *)

\* main: chdir and open_listenfd; when a step of them fails, there is no server.
Listen ==
  /\ pc = "start"
  /\ pc' \in {"accept", "exited"}
  /\ UNCHANGED <<file, buf, uri, offset, end, status, nleft, body, client, wire, sent>>

Accept ==
  /\ pc = "accept"
  /\ client # "none"
  /\ pc' = "request"
  /\ UNCHANGED <<file, buf, uri, offset, end, status, nleft, body, client, wire, sent>>

\* rio_readlineb: the next line, of a line that is too long its first part;
\* at the end of the connection, or after an error, the buffer keeps what was
\* in it.  Nothing happens as long as the client may still send.
ReadLine ==
  IF wire # <<>>
  THEN IF Head(wire).kind = "edge"
       THEN buf' = Line("header") /\ wire' = <<Line("blank")>> \o Tail(wire)
       ELSE /\ Head(wire).kind = "part" => client # "open"
            /\ buf' = Head(wire) /\ wire' = Tail(wire)
  ELSE client \in {"closed", "reset"} /\ UNCHANGED <<buf, wire>>

\* The first line.  sscanf leaves uri alone unless there is one to scan.
ReadRequest ==
  /\ pc = "request"
  /\ ReadLine
  /\ uri' = IF buf'.kind = "request" THEN buf'.uri ELSE uri
  /\ pc' = "headers"
  /\ UNCHANGED <<file, offset, end, status, nleft, body, client, sent>>

\* Mutant: the end is counted up twice.
EndOfTwice(line) ==
  IF line.kind = "range" /\ line.last # 0 THEN line.last + 2 ELSE end

\* "if (req->end != 0) req->end++", on every line that begins with "Ran", also
\* when no end was scanned, and again whenever the line is found in the buffer
\* again.  Past the end of the file (MaxEnd) all values do the same.
MaxEnd == FileSize + 1
EndOf(line) ==
  LET scanned == IF line.kind = "range" THEN line.last ELSE end IN
  IF scanned = 0 THEN 0 ELSE IF scanned < MaxEnd THEN scanned + 1 ELSE MaxEnd

\* The condition of the loop; an uninitialized buffer may look like either.
Blank(line) == line.kind = "blank"

ReadHeader ==
  /\ pc = "headers"
  /\ ~Blank(buf)
  /\ ReadLine
  /\ offset' = IF buf'.kind \in {"range", "open"} THEN buf'.first ELSE offset
  /\ end' = IF buf'.kind \in {"range", "open", "ran"} THEN EndOf(buf') ELSE end
  /\ UNCHANGED <<pc, file, uri, status, nleft, body, client, sent>>

\* What comes before the first such token.
Before(token, p) ==
  LET n == CHOOSE n \in 0 .. Len(p) :
             /\ \A k \in 1 .. n : p[k] # token
             /\ n < Len(p) => p[n + 1] = token
  IN SubSeq(p, 1, n)

\* url_decode; a zero byte ends the name.
Decoded(p) ==
  [k \in DOMAIN Before("%zz", p) |-> IF p[k] = "%2e" THEN "." ELSE p[k]]

\* The rest of parse_request: a path that begins with "/" loses it and its
\* query; nothing after the "/" stands for the directory.
PathIn(u) ==
  IF Head(u) # "/" THEN u
  ELSE IF Len(u) = 1 THEN <<".">> ELSE Before("?", Tail(u))

\* Mutant: the query is cut off after decoding, from every path.
FileNameOfAny(u) == IF u = <<"/">> THEN <<".">> ELSE Before("?", Decoded(u))

FileName(u) == Decoded(PathIn(u))

\* url_decode is told that filename has MAXLINE bytes: a long name goes over
\* offset and end, which follow it in the record.
Overlong(u) == \E k \in DOMAIN PathIn(u) : PathIn(u)[k] = "long"

\* process: anything but "." is an error.
StatusFor(filename) ==
  IF filename # <<".">> THEN 400
  ELSE IF file = "missing" THEN 404 ELSE IF file = "regular" THEN 200 ELSE 400

\* An uninitialized uri may hold any path.
Answer ==
  /\ pc = "headers"
  /\ Blank(buf) \/ buf.kind = "unset"
  /\ uri' \in IF uri = <<>> THEN Uris ELSE {uri}
  /\ status' = StatusFor(FileName(uri'))
  /\ offset' \in IF Overlong(uri') THEN 0 .. FileSize ELSE {offset}
  /\ \E e \in IF Overlong(uri') THEN 0 .. MaxEnd ELSE {end} :
       end' = IF status' = 200 /\ e = 0 THEN FileSize ELSE e
  /\ pc' = "write" /\ nleft' = AnswerSize
  /\ UNCHANGED <<file, buf, body, client, wire, sent>>

\* Mutant: what write() took is taken for all.
AfterWriteShort == "written"

\* writen goes on as long as something is left.
AfterWrite == IF nleft' > 0 THEN "write" ELSE "written"

\* Each write() may take less than it is given.  An error ends writen; SIGPIPE is
\* ignored, and so is the result of writen.
Write ==
  /\ pc = "write"
  /\ \/ /\ client # "reset"
        /\ nleft' \in 0 .. nleft - 1
        /\ pc' = AfterWrite
     \/ /\ client # "open"
        /\ pc' = "written"
        /\ UNCHANGED nleft
  /\ UNCHANGED <<file, buf, uri, offset, end, status, body, client, wire, sent>>

\* Mutant: the size of the file is taken for no limit.
DeliverableUnlimited == IF offset >= end THEN 0 ELSE end - offset

\* serve_static calls sendfile once; it may deliver less than it is asked for.
Deliverable == IF offset >= end \/ offset >= FileSize THEN 0
               ELSE IF end < FileSize THEN end - offset ELSE FileSize - offset
Serve ==
  /\ pc = "written"
  /\ status = 200
  /\ \E n \in 0 .. Deliverable :
       /\ n > 0 => client # "reset"
       /\ n = 0 => Deliverable = 0 \/ client # "open"
       /\ body' = n
  /\ pc' = "close"
  /\ UNCHANGED <<file, buf, uri, offset, end, status, nleft, client, wire, sent>>

Exit ==
  /\ pc = "close" \/ (pc = "written" /\ status # 200)
  /\ pc' = "exited"
  /\ UNCHANGED <<file, buf, uri, offset, end, status, nleft, body, client, wire, sent>>

Server == Listen \/ Accept \/ ReadRequest \/ ReadHeader \/ Answer \/ Write \/ Serve \/ Exit
Next == Connect \/ Hangup \/ Server \/ \E line \in Lines : Send(line)

\* The server is scheduled, and no client stays silent for good: TCP ends its
\* connection at the latest when the machine behind it is gone.
Spec == Init /\ [][Next]_vars /\ WF_vars(Server)
FairSpec == Spec /\ WF_vars(Hangup)

-----------------------------------------------------------------------------
(* Properties.                                                             *)

\* The state has its type.
TypeOK ==
  /\ pc \in {"start", "accept", "request", "headers", "write", "written", "close", "exited"}
  /\ file \in {"regular", "directory", "missing"}
  /\ buf \in Lines \cup {Line("unset")}
  /\ uri \in Uris \cup {<<>>}
  /\ offset \in 0 .. FileSize
  /\ end \in 0 .. MaxEnd
  /\ status \in {0, 200, 400, 404}
  /\ nleft \in 0 .. AnswerSize /\ body \in 0 .. FileSize
  /\ client \in {"none", "open", "closed", "reset"}
  /\ wire \in Seq(Lines) /\ sent \in Seq(Lines)
  /\ Len(sent) <= MaxLines /\ Len(wire) <= MaxLines

Sent(kind) == {n \in 1 .. Len(sent) : sent[n].kind = kind}

\* The paths that stand for the layout: "/", and "." in either spelling, after
\* a "/" also with a query.
Dot == {".", "%2e"}
StandsForLayout(u) ==
  \/ u = <<"/">>
  \/ Len(u) = 1 /\ u[1] \in Dot
  \/ Len(u) > 1 /\ u[1] = "/" /\ u[2] \in Dot /\ (Len(u) > 2 => u[3] = "?")

\* Other paths that get it all the same: the "." is followed by an escape that
\* ends the name, and by anything.
CutToDot(u) ==
  \/ Len(u) > 1 /\ u[1] \in Dot /\ u[2] = "%zz"
  \/ Len(u) > 2 /\ u[1] = "/" /\ u[2] \in Dot /\ u[3] = "%zz"

\* A client gets the layout only if it asked for it, or for a path that an
\* escape cuts to "."; one that asked for it, and did not lose its request in a
\* reset, is not refused it.  A first line without a path leaves the choice to
\* uninitialized memory.
LayoutOnRequest ==
  \A n \in Sent("request") :
    /\ body > 0 => StandsForLayout(sent[n].uri) \/ CutToDot(sent[n].uri)
    /\ status = 400 /\ client # "reset" =>
         ~StandsForLayout(sent[n].uri) \/ file = "directory"

\* A client that sends one range gets no byte outside of it, with the exceptions
\* of the code: a name that goes over the range; a header line that fills the
\* buffer, behind which a range may not be read; a last byte of 0, taken for no
\* end at all ("bytes=0-0" gets the whole file); and another line beginning with
\* "Ran" behind the range, which moves its end on by one.
RangeLines == Sent("range") \cup Sent("open")
RangeHonoured ==
  \A i \in RangeLines :
    /\ body > 0 /\ RangeLines = {i} /\ Sent("edge") = {}
    /\ \A n \in Sent("request") : ~Overlong(sent[n].uri)
    =>
      /\ offset = sent[i].first
      /\ sent[i].last # 0 /\ (\A n \in Sent("ran") : n < i) =>
           offset + body - 1 <= sent[i].last

\* A client that sends a complete request and stays gets the whole status line
\* and headers, in as many pieces as they may go out, and the server quits.
CompleteRequestEnds ==
  (sent # <<>> /\ sent[Len(sent)].kind = "blank" /\ client = "open") ~>
    ((pc = "exited" /\ nleft = 0) \/ client # "open")

\* "tosrv will quit after one process cycle (no matter if it was successful
\* or not)".  (Refuted: at the end of the connection the loop over the header
\* lines finds the last line in its buffer again and again.)
QuitsAfterOneCycle == pc = "request" ~> pc = "exited"
=============================================================================
