------------------------------ MODULE HttpConn ------------------------------
(***************************************************************************)
(* What one connection of an HttpServer does with its bytes, from the      *)
(* moment it is established to the moment it begins to close: the reads of *)
(* TcpConnection::handleRead, the parser that is given whatever a read     *)
(* left in mReadBuffer (HttpRequest::processRead), the response, the       *)
(* writes of sendMessage, which may stop half way, and the closing that    *)
(* WriteComplete decides.  TcpServer has the rest of a connection's life.  *)
(*                                                                         *)
(* A cell stands for the text of a line, a carriage return, a line feed or *)
(* a byte of a body; a line is read from the cells before its CR LF, and   *)
(* cells behind the first go on with its text.                             *)
(* The loop is the connection's own: poll, at most one event, the tasks.   *)
(* The peer, the socket's two queues (sndbuf is the size of one) and epoll *)
(* with EPOLLET are external; a write to a socket that was reset fails.    *)
(***************************************************************************)
EXTENDS FixedBuffer, Integers, SequencesExt

CONSTANTS Streams,   \* what a peer may send (bound)
          Replies,   \* what HttpCallback may put in a response (bound)
          sndbuf,    \* cells the socket takes before EAGAIN (bound)
          None       \* a reply without a file

\* atol of a Content-length, which may have a sign.
LengthOf == [len0 |-> 0, len2 |-> 2, len4 |-> 4, minus1 |-> -1]

\* Connection: keep-isAlive is "keep", with any other value it is "close".
Connection == {"keep", "close"}

Cell == {"get", "badline", "other", "b", "cr", "lf", "nul"} \cup Connection \cup DOMAIN LengthOf

-----------------------------------------------------------------------------
(* The files of replies.                                                   *)

\* FileSystem::Open of a path: stat, the permission for others, open.
Open(path) ==
    CASE ~path.exists -> "NO_FILE"
      [] path.exists /\ ~path.othersRead -> "CANNOT_ACCESS"
      [] path.exists /\ path.othersRead /\ path.directory -> "IS_DIR"
      [] OTHER -> IF path.opens THEN "IS_FILE" ELSE "CANNOT_ACCESS"

\* What setFile hands on: nothing unless the file was mapped.
FileOf(reply) ==
    IF reply.path # None /\ Open(reply.path) = "IS_FILE" THEN reply.path.content ELSE <<>>

\* onMessageCallback sets 200 before HttpCallback; openFile sets 400 at its
\* end, whatever Open returned and also over the 403 and 404 set before.
StatusOf(reply) == IF reply.path = None THEN "200" ELSE "400"

OutCell ==
    {"200", "400"} \cup (UNION {Range(r.body) \cup Range(FileOf(r)) : r \in Replies})

ASSUME StreamsAssumption == \A s \in Streams : s \in Seq(Cell \ {"nul"})

\* A reply and a file are sequences of cells, none of them a status line.
ASSUME RepliesAssumption ==
    \A r \in Replies :
        /\ DOMAIN r = {"isAlive", "body", "path"} /\ r.isAlive \in BOOLEAN
        /\ r.body \in Seq(Range(r.body))
        /\ r.path # None =>
              /\ DOMAIN r.path = {"exists", "othersRead", "directory", "opens", "content"}
              /\ {r.path.exists, r.path.othersRead, r.path.directory, r.path.opens}
                    \subseteq BOOLEAN
              /\ r.path.content \in Seq(Range(r.path.content))
        /\ {"200", "400"} \cap (Range(r.body) \cup Range(FileOf(r))) = {}

ASSUME SndbufAssumption == sndbuf \in Nat \ {0}

\* HttpResponse::HttpResponse, but for the status, which is set before use.
NewResponse == [isAlive |-> TRUE, body |-> <<>>, path |-> None]

VARIABLES
    stream, sent, fin, reset,   \* the peer: its bytes, how many it sent, FIN, RST
    received,                   \* how many of them recv returned
    outq, got,                  \* sent to the peer: on the way, arrived
    ready,                      \* the descriptor is on epoll's ready list
    interest,                   \* mEvent: in and out carry EPOLLET, et is it alone
    state, mAlive,
    mReadBuffer, mWriteBuffer,
    file,                       \* m_iv[1]
    mCheckIndex, mCheckState, contentLength, reqAlive,   \* HttpRequest
    resp,                       \* HttpResponse
    pc, queue, batch,           \* the loop
    consumed, answers           \* history: cells the parser took off the
                                \* buffer; everything that was to be sent

peerVars == <<stream, sent, fin, reset, got>>
request == <<mCheckIndex, mCheckState, contentLength, reqAlive, consumed>>
input == <<mReadBuffer, received, request>>
output == <<mWriteBuffer, file, outq, answers>>
life == <<state, interest, mAlive>>
tasks == <<queue, batch>>
vars == <<peerVars, input, output, life, tasks, resp, ready, pc>>

TypeOK ==
    /\ stream \in Streams /\ received \in 0 .. sent /\ sent \in 0 .. Len(stream)
    /\ {fin, reset, ready, mAlive, reqAlive} \subseteq BOOLEAN
    /\ outq \in Seq(OutCell) /\ Len(outq) <= sndbuf
    /\ got \in Seq(OutCell) /\ answers \in Seq(OutCell) /\ file \in Seq(OutCell)
    /\ interest \in {"in", "out", "et", "none"}
    /\ state \in {"CONNECTED", "CLOSING"}
    /\ mReadBuffer \in Buffers(Cell) /\ InBounds(mReadBuffer)
    /\ mWriteBuffer \in Buffers(OutCell) /\ InBounds(mWriteBuffer)
    /\ mCheckIndex \in 0 .. Len(mReadBuffer.data)
    /\ mCheckState \in {"REQUEST", "HEADER", "BODY", "SUCCESS"}
    /\ contentLength \in Range(LengthOf) /\ consumed \in 0 .. received
    /\ resp \in Replies \cup {NewResponse}
    /\ pc \in {"poll", "read", "hup", "parse", "bad", "get",
               "sendInLoop", "handleWrite", "EnableWrite", "doTask", "task", "terminated"}
    /\ {queue, batch} \subseteq Seq({"writeComplete", "handleClose"})

\* Established has enabled reading and connectedCb made a new HttpContext.
\* mAlive is not initialized, and not read before onMessage sets it.
Init ==
    /\ stream \in Streams /\ sent = 0 /\ received = 0 /\ fin = FALSE /\ reset = FALSE
    /\ outq = <<>> /\ got = <<>> /\ answers = <<>> /\ file = <<>>
    /\ interest = "in" /\ ready = FALSE
    /\ state = "CONNECTED" /\ mAlive \in BOOLEAN
    /\ mReadBuffer = NewBuffer /\ mWriteBuffer = NewBuffer
    /\ mCheckIndex = 0 /\ mCheckState = "REQUEST"
    /\ contentLength = 0 /\ reqAlive = FALSE /\ consumed = 0
    /\ resp = NewResponse
    /\ pc = "poll" /\ queue = <<>> /\ batch = <<>>

Least(m, n) == IF m < n THEN m ELSE n

-----------------------------------------------------------------------------
(* The peer and the kernel.                                                *)

PeerSends(n) ==
    /\ ~fin /\ ~reset /\ state = "CONNECTED"
    /\ sent + n <= Len(stream)
    /\ sent' = sent + n
    /\ ready' = (ready \/ interest = "in")
    /\ UNCHANGED <<stream, fin, reset, got, input, output, life, tasks, resp, pc>>

\* A change of the socket's state puts the descriptor on the ready list
\* whatever the interest; Poll then looks what there is to report.
PeerFinishes ==
    /\ ~fin /\ ~reset /\ sent = Len(stream) /\ state = "CONNECTED"
    /\ fin' = TRUE /\ ready' = TRUE
    /\ UNCHANGED <<stream, sent, reset, got, input, output, life, tasks, resp, pc>>

PeerResets ==
    /\ ~reset /\ state = "CONNECTED"
    /\ reset' = TRUE /\ ready' = TRUE
    /\ UNCHANGED <<stream, sent, fin, got, input, output, life, tasks, resp, pc>>

PeerReads ==
    /\ ~reset /\ outq # <<>>
    /\ got' = got \o outq /\ outq' = <<>>
    /\ ready' = (ready \/ interest = "out")
    /\ UNCHANGED <<stream, sent, fin, reset, input, mWriteBuffer, file, answers,
                   life, tasks, resp, pc>>

-----------------------------------------------------------------------------
(* The loop.                                                               *)

Readable == received < sent \/ fin \/ reset
Writable == Len(outq) < sndbuf \/ reset

\* What epoll_wait reports and which branch HandleEventWithGuard takes: a
\* reset is EPOLLHUP and EPOLLERR, and EPOLLIN too where reading is enabled.
\* TcpConnection sets no errorCallback: that branch does nothing.
Poll ==
    /\ pc = "poll" /\ ready /\ state = "CONNECTED"
    /\ ready' = FALSE
    /\ pc' = CASE interest = "in" /\ Readable -> IF reset THEN "doTask" ELSE "read"
               [] interest # "in" /\ reset -> "hup"
               [] interest = "out" /\ Writable /\ ~reset -> "handleWrite"
               [] OTHER -> "doTask"
    /\ UNCHANGED <<peerVars, input, output, life, tasks, resp>>

\* QueueInLoop has written to the wakeup descriptor.
PollWakeup ==
    /\ pc = "poll" /\ queue # <<>>
    /\ pc' = "doTask"
    /\ UNCHANGED <<peerVars, input, output, life, tasks, resp, ready>>

handleClose == state' = "CLOSING" /\ interest' = "none" /\ UNCHANGED mAlive

doTask ==
    /\ pc = "doTask"
    /\ batch' = queue /\ queue' = <<>> /\ pc' = "task"
    /\ UNCHANGED <<peerVars, input, output, life, resp, ready>>

EndTasks ==
    /\ pc = "task" /\ batch = <<>>
    /\ pc' = "poll"
    /\ UNCHANGED <<peerVars, input, output, life, tasks, resp, ready>>

\* Fault: WriteComplete closes the connections to be kept.
Fault_WriteComplete ==
    /\ pc = "task" /\ batch # <<>> /\ Head(batch) = "writeComplete"
    /\ batch' = Tail(batch)
    /\ queue' = IF mAlive THEN Append(queue, "handleClose") ELSE queue
    /\ UNCHANGED <<peerVars, input, output, life, resp, ready, pc>>

\* HttpServer::WriteCompleteCallback and TcpServer::Close, which finds the
\* connection in connMap as long as it has not begun to close.
WriteComplete ==
    /\ pc = "task" /\ batch # <<>> /\ Head(batch) = "writeComplete"
    /\ batch' = Tail(batch)
    /\ queue' = IF mAlive THEN queue ELSE Append(queue, "handleClose")
    /\ UNCHANGED <<peerVars, input, output, life, resp, ready, pc>>

CloseTask ==
    /\ pc = "task" /\ batch # <<>> /\ Head(batch) = "handleClose"
    /\ batch' = Tail(batch) /\ handleClose
    /\ UNCHANGED <<peerVars, input, output, queue, resp, ready, pc>>

HangUp ==
    /\ pc = "hup" /\ pc' = "doTask" /\ handleClose
    /\ UNCHANGED <<peerVars, input, output, tasks, resp, ready>>

-----------------------------------------------------------------------------
(* Reading and parsing.                                                    *)

\* TcpConnection::handleRead and FixedBuffer::readFd.  A full buffer counts
\* as an end of the stream, and an end of the stream or an error that the
\* last recv meets hides what the earlier ones returned.
handleRead ==
    /\ pc = "read"
    /\ LET n == Least(avail(mReadBuffer), sent - received)
           failed == received + n = sent /\ n < avail(mReadBuffer) /\ (fin \/ reset)
       IN /\ mReadBuffer' = IF n = 0 THEN mReadBuffer
                            ELSE Receive(mReadBuffer,
                                         SubSeq(stream, received + 1, received + n))
          /\ received' = received + n
          /\ IF n = 0 \/ failed THEN handleClose /\ pc' = "doTask"
                                ELSE pc' = "parse" /\ UNCHANGED life
    /\ UNCHANGED <<peerVars, request, output, tasks, resp, ready>>

\* The first CR or LF behind index; 0: there is none.
LineBreak(data, index) ==
    SelectInSubSeq(data, index + 1, Len(data), LAMBDA c : c \in {"cr", "lf"})

\* HttpRequest::parseLine on the content of the buffer: how it ended, the
\* new mCheckIndex, and the content, where a CR LF became two NULs.
parseLine(data, index) ==
    LET i == LineBreak(data, index)
        Result(line, at) == [line |-> line, index |-> at, data |-> data]
        Ok(j) == [line |-> "OK", index |-> j,
                  data |-> [data EXCEPT ![j - 1] = "nul", ![j] = "nul"]]
    IN IF i = 0 THEN Result("OPEN", Len(data))
       ELSE IF data[i] = "cr"
       THEN IF i = Len(data) THEN Result("OPEN", i - 1)
            ELSE IF data[i + 1] = "lf" THEN Ok(i + 1) ELSE Result("BAD", i - 1)
       ELSE IF i > 2 /\ data[i - 1] = "cr" THEN Ok(i) ELSE Result("BAD", i - 1)

Scan == parseLine(mReadBuffer.data, mCheckIndex)

\* The line that Scan found, without its end.
Text == SubSeq(Scan.data, 1, Scan.index - 2)

Parsing(line, checkState) ==
    /\ pc = "parse" /\ mReadBuffer.data # <<>>
    /\ Scan.line = line /\ mCheckState = checkState

\* Fault: the next line is looked for behind the length of this one.
Fault_TakeLine ==
    /\ mReadBuffer' = readPtrMove([mReadBuffer EXCEPT !.data = Scan.data], Scan.index)
    /\ consumed' = consumed + Scan.index /\ mCheckIndex' = Scan.index

\* The parser takes the line off the buffer, or leaves the buffer as it is.
TakeLine ==
    /\ mReadBuffer' = readPtrMove([mReadBuffer EXCEPT !.data = Scan.data], Scan.index)
    /\ consumed' = consumed + Scan.index /\ mCheckIndex' = 0

Stay ==
    /\ mReadBuffer' = [mReadBuffer EXCEPT !.data = Scan.data]
    /\ mCheckIndex' = Scan.index /\ UNCHANGED consumed

AroundParser == UNCHANGED <<peerVars, received, output, life, tasks, resp, ready>>

\* NO_REQUEST: everything is used up, or the line is not complete.
NoRequest ==
    /\ pc = "parse" /\ pc' = "doTask"
    /\ \/ mReadBuffer.data = <<>> /\ UNCHANGED <<mReadBuffer, request>>
       \/ /\ \E s \in {"REQUEST", "HEADER", "SUCCESS"} : Parsing("OPEN", s)
          /\ Stay /\ UNCHANGED <<mCheckState, contentLength, reqAlive>>
    /\ AroundParser

BadLine ==
    /\ Parsing("BAD", mCheckState)
    /\ pc' = "bad" /\ Stay
    /\ UNCHANGED <<mCheckState, contentLength, reqAlive>> /\ AroundParser

parseRequest ==
    /\ Parsing("OK", "REQUEST")
    /\ IF Text = <<"get">> THEN TakeLine /\ mCheckState' = "HEADER" /\ UNCHANGED pc
                           ELSE Stay /\ pc' = "bad" /\ UNCHANGED mCheckState
    /\ UNCHANGED <<contentLength, reqAlive>> /\ AroundParser

\* Which header a line is.
Names(line, headers) == line # <<>> /\ line[1] \in headers

\* Fault: only the value that keeps the connection is looked for.
Fault_Keeps(line) == reqAlive \/ line = <<"keep">>

\* Every Connection header decides anew.
Keeps(line) == line = <<"keep">>

parseHeader ==
    /\ Parsing("OK", "HEADER") /\ TakeLine
    /\ CASE Text = <<>> ->
              /\ mCheckState' = IF contentLength # 0 THEN "BODY" ELSE "SUCCESS"
              /\ pc' = IF contentLength # 0 THEN pc ELSE "get"
              /\ UNCHANGED <<contentLength, reqAlive>>
         [] Names(Text, Connection) ->
              reqAlive' = Keeps(Text) /\ UNCHANGED <<mCheckState, contentLength, pc>>
         [] Names(Text, DOMAIN LengthOf) ->
              /\ contentLength' = LengthOf[Text[1]]
              /\ UNCHANGED <<mCheckState, reqAlive, pc>>
         [] OTHER -> UNCHANGED <<mCheckState, contentLength, reqAlive, pc>>
    /\ AroundParser

\* Fault: the last byte of the body is not waited for.
Fault_Enough(index) == index + 1 >= contentLength

\* parseContent: how far the scan for a line has come is taken for how much
\* of the body there is.  A negative length is always reached; body.assign then
\* throws length_error, which nobody catches: the process ends.
Enough(index) == index >= contentLength

parseContent ==
    /\ \E line \in {"OK", "OPEN"} : Parsing(line, "BODY")
    /\ Stay
    /\ CASE ~Enough(Scan.index) -> pc' = "doTask" /\ UNCHANGED mCheckState
         [] Enough(Scan.index) /\ contentLength < 0 ->
              pc' = "terminated" /\ UNCHANGED mCheckState
         [] OTHER -> mCheckState' = "SUCCESS" /\ pc' = "get"
    /\ UNCHANGED <<contentLength, reqAlive>> /\ AroundParser

\* After a request: no case of the switch, and Init() leaves the state.
AfterSuccess ==
    /\ Parsing("OK", "SUCCESS") /\ Stay
    /\ UNCHANGED <<mCheckState, contentLength, reqAlive, pc>> /\ AroundParser

-----------------------------------------------------------------------------
(* Answering and writing.                                                  *)

\* HttpResponse::appendToBuffer: the status line and the headers, the body.
appendToBuffer(b, status, body) == append(append(b, <<status>>), body)

\* What a change from b to c has added.
Added(b, c) == SubSeq(c.data, Len(b.data) + 1, Len(c.data))

\* The response still has what an earlier request has put in it.
BadRequest ==
    /\ pc = "bad" /\ pc' = "sendInLoop"
    /\ mAlive' = FALSE
    /\ mWriteBuffer' = appendToBuffer(mWriteBuffer, "400", resp.body)
    /\ answers' = answers \o Added(mWriteBuffer, mWriteBuffer')
    /\ UNCHANGED <<peerVars, input, file, outq, state, interest, tasks, resp, ready>>

\* onMessageCallback for GET_REQUEST; HttpRequest::Init resets mCheckIndex.
GetRequest ==
    /\ pc = "get" /\ pc' = "sendInLoop"
    /\ resp' \in Replies
    /\ mWriteBuffer' = appendToBuffer(mWriteBuffer, StatusOf(resp'), resp'.body)
    /\ file' = FileOf(resp')
    /\ answers' = answers \o Added(mWriteBuffer, mWriteBuffer') \o file'
    /\ mAlive' = (resp'.isAlive /\ reqAlive)
    /\ mCheckIndex' = 0
    /\ UNCHANGED <<peerVars, mReadBuffer, received, mCheckState, contentLength,
                   reqAlive, consumed, outq, state, interest, tasks, ready>>

Sending == pc \in {"sendInLoop", "handleWrite"}

Pending == mWriteBuffer.data \o file

\* Fault: the file begins again.
Fault_Advance(n) == file

\* The second part of the iovec after n bytes of the two were written.
Advance(n) == SubSeq(file, (n - Len(mWriteBuffer.data)) + 1, Len(file))

\* One turn of sendMessage's loop: the socket takes n cells.
writev(n) ==
    /\ Sending /\ ~reset
    /\ n <= Len(Pending) /\ Len(outq) + n <= sndbuf
    /\ outq' = outq \o SubSeq(Pending, 1, n)
    /\ IF n > Len(mWriteBuffer.data)
       THEN mWriteBuffer' = NewBuffer /\ file' = Advance(n)
       ELSE mWriteBuffer' = readPtrMove(mWriteBuffer, n) /\ UNCHANGED file
    /\ UNCHANGED <<peerVars, input, answers, life, tasks, resp, ready, pc>>

\* EAGAIN: handleWrite waits for the next event, sendInLoop asks for one.
WouldBlock ==
    /\ Sending /\ ~reset /\ Pending # <<>> /\ Len(outq) = sndbuf
    /\ pc' = IF pc = "sendInLoop" THEN "EnableWrite" ELSE "doTask"
    /\ UNCHANGED <<peerVars, input, output, life, tasks, resp, ready>>

\* Fault: nothing asks for EPOLLOUT.
Fault_EnableWrite ==
    /\ pc = "EnableWrite" /\ pc' = "doTask"
    /\ UNCHANGED <<peerVars, input, output, life, tasks, resp, ready>>

\* epoll_ctl looks whether the descriptor is ready for the new interest,
\* which no longer includes EPOLLIN.
EnableWrite ==
    /\ pc = "EnableWrite" /\ pc' = "doTask"
    /\ interest' = "out" /\ ready' = (ready \/ Writable)
    /\ UNCHANGED <<peerVars, input, output, state, mAlive, tasks, resp>>

\* Fault: EAGAIN counts as having written everything.
Fault_AllSent ==
    /\ Sending /\ ~reset /\ (Pending = <<>> \/ Len(outq) = sndbuf)
    /\ queue' = Append(queue, "writeComplete")
    /\ interest' = IF pc = "handleWrite" THEN "et" ELSE interest
    /\ pc' = "doTask"
    /\ UNCHANGED <<peerVars, input, output, state, mAlive, batch, resp, ready>>

\* Everything is written.  DisableWrite leaves EPOLLET alone.
AllSent ==
    /\ Sending /\ ~reset /\ Pending = <<>>
    /\ queue' = Append(queue, "writeComplete")
    /\ interest' = IF pc = "handleWrite" THEN "et" ELSE interest
    /\ pc' = "doTask"
    /\ UNCHANGED <<peerVars, input, output, state, mAlive, batch, resp, ready>>

WriteFails ==
    /\ Sending /\ reset
    /\ file' = <<>> /\ handleClose /\ pc' = "doTask"
    /\ UNCHANGED <<peerVars, input, mWriteBuffer, outq, answers, tasks, resp, ready>>

-----------------------------------------------------------------------------
LoopStep ==
    \/ Poll \/ PollWakeup \/ doTask \/ EndTasks \/ WriteComplete \/ CloseTask
    \/ HangUp \/ handleRead \/ NoRequest \/ BadLine \/ parseRequest
    \/ parseHeader \/ parseContent \/ AfterSuccess \/ BadRequest \/ GetRequest
    \/ (\E n \in 1 .. sndbuf : writev(n)) \/ WouldBlock
    \/ EnableWrite \/ AllSent \/ WriteFails

PeerStep ==
    \/ (\E n \in 1 .. Len(stream) : PeerSends(n))
    \/ PeerFinishes \/ PeerResets \/ PeerReads

Next == LoopStep \/ PeerStep

Spec == Init /\ [][Next]_vars

\* The loop runs; a peer that began a request sends the rest of it, and a
\* peer takes what arrives.  Neither has to finish or to reset.
FairSpec ==
    /\ Spec /\ WF_vars(LoopStep) /\ WF_vars(PeerReads)
    /\ WF_vars(\E n \in 1 .. Len(stream) : PeerSends(n))

-----------------------------------------------------------------------------
(* What a request is, told from the bytes of a prefix p of the stream and  *)
(* not from how they arrived.                                              *)

LineEnds(p) == {i \in 2 .. Len(p) : p[i - 1] = "cr" /\ p[i] = "lf"}

LineBefore(p, e) ==
    SubSeq(p, Max({d \in LineEnds(p) : d < e} \cup {0}) + 1, e - 2)

\* The end of the empty line after the headers; 0: not there yet.
HeadEnd(p) ==
    LET Blank == {e \in LineEnds(p) : LineBefore(p, e) = <<>>}
    IN IF Blank = {} THEN 0 ELSE Min(Blank)

HeadLines(p) == {e \in LineEnds(p) : HeadEnd(p) = 0 \/ e < HeadEnd(p)}

\* Of several lines that are one of these headers the last counts; <<>>: none is.
LinesNaming(p, headers) == {e \in HeadLines(p) : Names(LineBefore(p, e), headers)}

LastLine(p, headers) ==
    IF LinesNaming(p, headers) = {} THEN <<>>
    ELSE LineBefore(p, Max(LinesNaming(p, headers)))

BodyLength(p) ==
    LET line == LastLine(p, DOMAIN LengthOf)
    IN IF line = <<>> THEN 0 ELSE LengthOf[line[1]]

KeptAlive(p) == LastLine(p, Connection) = <<"keep">>

\* Every CR and LF belongs to a CR LF, the last CR possibly to one to come,
\* and the first line is a request line.
WellFormed(p) ==
    /\ \A i \in DOMAIN p :
          /\ p[i] = "cr" /\ i < Len(p) => p[i + 1] = "lf"
          /\ p[i] = "lf" => i > 1 /\ p[i - 1] = "cr"
    /\ LineEnds(p) # {} => LineBefore(p, Min(LineEnds(p))) = <<"get">>

Complete(p) ==
    /\ HeadEnd(p) # 0 /\ WellFormed(SubSeq(p, 1, HeadEnd(p)))
    /\ BodyLength(p) \in 0 .. Len(p) - HeadEnd(p)

Arrived == SubSeq(stream, 1, received)

\* The lines that were taken off: the head so far, or all of it.
Taken == SubSeq(stream, 1, consumed)

-----------------------------------------------------------------------------
(* Properties.                                                             *)

\* Moving the content of the buffer, taking lines off it and reading on
\* neither lose, repeat nor reorder a byte: the buffer holds what arrived
\* and was not consumed, with NULs where there were line ends.
InputIntact ==
    /\ Len(mReadBuffer.data) = received - consumed
    /\ \A i \in DOMAIN mReadBuffer.data :
          \/ mReadBuffer.data[i] = stream[consumed + i]
          \/ mReadBuffer.data[i] = "nul" /\ stream[consumed + i] \in {"cr", "lf"}

\* What the parser has made of the bytes when the loop waits again is decided
\* by the bytes alone, wherever they were cut into reads: its state, what it
\* has taken off, and the length and the Connection that were given last.
ParserAgrees ==
    pc = "poll" /\ state = "CONNECTED" /\ answers = <<>> =>
        /\ WellFormed(SubSeq(Arrived, 1, consumed))
        /\ consumed = IF HeadEnd(Arrived) # 0 THEN HeadEnd(Arrived)
                                              ELSE Max(LineEnds(Arrived) \cup {0})
        /\ contentLength = BodyLength(Arrived)
        /\ reqAlive = KeptAlive(Arrived)
        /\ mCheckState = IF LineEnds(Arrived) = {} THEN "REQUEST"
                         ELSE IF HeadEnd(Arrived) = 0 THEN "HEADER" ELSE "BODY"

\* A request is answered with 200 only when the whole of it is there, body
\* included, and with 400 only when something in it is wrong, or the whole of
\* it is there and its reply opened a file (HttpResponse.cpp:61).  Only a right
\* head with a negative length ends the process.
AnswerIsDue ==
    /\ "200" \in Range(answers) => Complete(Arrived)
    /\ "400" \in Range(answers) =>
          ~WellFormed(Arrived) \/ (Complete(Arrived) /\ resp.path # None)
    /\ pc = "terminated" =>
          HeadEnd(Arrived) # 0 /\ WellFormed(Taken) /\ BodyLength(Arrived) < 0

\* Through partial writes, EAGAIN and the change from the buffer to the file,
\* what the peer gets is what was to be sent, in order and once.
OutputIntact == ~reset => got \o outq \o Pending = answers

\* A connection that the peer has not reset begins to close only when its
\* answer has been written to the socket.  Between WriteComplete and the
\* handleClose it has queued one more read may be handled: only the 400 that
\* this read gets for wrong bytes behind the first answer can be cut short.
CutAnswer ==
    /\ ~WellFormed(Arrived)
    /\ \E i \in 2 .. Len(answers) :
          answers[i] = "400" /\ Len(Pending) <= (Len(answers) - i) + 1

NotCutShort == state = "CLOSING" /\ ~reset /\ Pending # <<>> => CutAnswer

\* The server itself closes a connection only after an answer that is not to
\* keep it, or because the buffer is full of what it waits to understand.
KeptOpen ==
    state = "CLOSING" /\ ~fin /\ ~reset =>
        (answers # <<>> /\ ~mAlive) \/ avail(mReadBuffer) = 0

\* A connection is closed neither too early for what has been promised nor
\* without a reason.
ClosedInTime == NotCutShort /\ KeptOpen

-----------------------------------------------------------------------------
(* The inductive invariant: why the properties above hold.                 *)

\* Where the loop can be, by the interest, the state and the tasks: it reads
\* only while nothing is left to be written.
ControlInv ==
    /\ state = "CLOSING" <=> interest = "none"
    /\ pc \in {"read", "parse", "bad", "get", "sendInLoop", "EnableWrite"} => interest = "in"
    /\ pc = "read" => Readable
    /\ pc = "handleWrite" => interest = "out"
    /\ pc = "hup" => reset
    /\ interest = "in" /\ pc \notin {"sendInLoop", "EnableWrite"} => Pending = <<>>
    /\ batch # <<>> => pc = "task"
    /\ "writeComplete" \in Range(queue) => pc = "doTask"
    /\ "writeComplete" \in Range(queue) \cup Range(batch) => Pending = <<>>
    /\ interest \in {"out", "et"} \/ pc \in {"sendInLoop", "EnableWrite"} => answers # <<>>

\* What the scan has passed: no end of a line, and NULs where a CR LF was.
ScanInv ==
    LET data == mReadBuffer.data IN
    /\ \A i \in 1 .. mCheckIndex : data[i] \notin {"cr", "lf"}
    /\ \A i \in DOMAIN data : data[i] = "nul" =>
          \/ /\ stream[consumed + i] = "cr" /\ stream[consumed + i + 1] = "lf"
             /\ i < Len(data) /\ data[i + 1] = "nul"
          \/ /\ stream[consumed + i] = "lf" /\ stream[(consumed + i) - 1] = "cr"
             /\ i > 1 /\ data[i - 1] = "nul"
    /\ \A i \in DOMAIN data :
          data[i] = "nul" /\ mCheckState = "REQUEST" => i <= mCheckIndex /\ ~WellFormed(Arrived)
    /\ mCheckState = "HEADER" => "nul" \notin Range(data)

HeadInv ==
    /\ mCheckState = "REQUEST" <=> consumed = 0
    /\ consumed # 0 => consumed \in LineEnds(Arrived)
    /\ WellFormed(Taken)
    /\ HeadEnd(Taken) = IF mCheckState \in {"BODY", "SUCCESS"} THEN consumed ELSE 0
    /\ contentLength = BodyLength(Taken)
    /\ reqAlive = KeptAlive(Taken)
    /\ mCheckState = "BODY" => contentLength # 0
    /\ mCheckState = "SUCCESS" => contentLength \in 0 .. received - consumed

\* A request that was refused: every further line is refused too.
Stuck ==
    /\ mReadBuffer.data # <<>>
    /\ Scan.line = "BAD" \/ (mCheckState = "REQUEST" /\ "nul" \in Range(mReadBuffer.data))

AnswerInv ==
    /\ pc = "bad" => ~WellFormed(Arrived)
    /\ pc = "bad" \/ answers # <<>> => mCheckState = "SUCCESS" \/ Stuck
    /\ mCheckState = "REQUEST" /\ "nul" \in Range(mReadBuffer.data) =>
          pc = "bad" \/ answers # <<>>
    /\ pc = "get" => mCheckState = "SUCCESS" /\ answers = <<>>
    /\ pc = "terminated" => mCheckState = "BODY" /\ contentLength < 0
    /\ mCheckState = "SUCCESS" => pc = "get" \/ answers # <<>>
    /\ "200" \in Range(answers) => mCheckState = "SUCCESS"
    /\ "400" \in Range(answers) =>
          ~WellFormed(Arrived) \/ (mCheckState = "SUCCESS" /\ resp.path # None)
    /\ state = "CONNECTED" /\ answers = <<>> /\ pc \notin {"parse", "bad", "get"} =>
          mCheckState = "BODY" \/ LineEnds(Arrived) \subseteq 1 .. consumed

\* Whoever has been told to close the connection has written its answer.
CloseInv ==
    /\ queue # <<>> \/ batch # <<>> => answers # <<>>
    /\ "handleClose" \in Range(queue) \cup Range(batch) =>
          ~mAlive /\ (~reset /\ Pending # <<>> => CutAnswer)

IInv ==
    /\ TypeOK /\ InputIntact /\ OutputIntact /\ ControlInv /\ ScanInv /\ HeadInv
    /\ AnswerInv /\ CloseInv /\ NotCutShort /\ KeptOpen

-----------------------------------------------------------------------------
(* Liveness, and a promise that is not kept.                               *)

\* The head, or all that there is without an end of it.
HeadPart(p) == IF HeadEnd(p) = 0 THEN p ELSE SubSeq(p, 1, HeadEnd(p))

\* A complete request with no line break behind its head gets an answer, and
\* all of it, and one that is wrong up to the end of its head gets a 400, from
\* a peer that stays, when the stream fits the buffer.
Answered ==
    IF WellFormed(HeadPart(stream)) THEN answers # <<>> /\ got = answers
                                    ELSE got # <<>> /\ Head(got) = "400"

Answerable ==
    /\ Len(stream) <= kBufferSize
    /\ WellFormed(HeadPart(stream)) =>
          /\ Complete(stream)
          /\ {"cr", "lf"} \cap Range(SubSeq(stream, HeadEnd(stream) + 1, Len(stream))) = {}

EveryRequestIsAnswered == Answerable => ([](~fin /\ ~reset) => <>Answered)

\* A connection that is not to be kept alive is closed after its answer.
ClosedWhenDone == (answers # <<>> /\ ~mAlive) ~> (state = "CLOSING" \/ reset)

\* TcpConnection.h:55-56, 收到对端FIN包后，直接关闭连接: the peer's FIN closes
\* the connection.  After a write that had to wait, DisableWrite leaves the
\* connection deaf: interest is EPOLLET alone and no read ever sees the FIN.
FinCloses == fin ~> (state = "CLOSING" \/ reset)
=============================================================================
