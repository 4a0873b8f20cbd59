-------------------------------- MODULE Logger --------------------------------
(***************************************************************************)
(* base/Logger and base/LogStream.  A LOG_ statement makes a Logger, whose *)
(* constructor puts the head of the line in a FixedBuffer of its own, the  *)
(* operators << add the operands, and the destructor adds a newline and    *)
(* gives the whole to stdout with one fwrite.  What does not fit is left   *)
(* out without a word: a text if it does not fit, a number as soon as less *)
(* than kMaxNumericSize is left, the newline if the buffer is full.        *)
(*                                                                         *)
(* stdio (external) appends atomically and writes out when it likes, at    *)
(* the latest in exit(); mFlush is never called, so an abort may lose any  *)
(* part of the end.  A cell is a character of a number, or stands for one  *)
(* of a text.                                                              *)
(***************************************************************************)
EXTENDS FixedBuffer, Integers, SequencesExt

CONSTANTS Threads,
          Statements,        \* what a thread may log (bound)
          MaxLines,          \* statements a thread executes (bound)
          kMaxNumericSize,   \* 32 in the code
          Null

Levels == <<"TRACE", "DEBUG", "INFO", "WARN", "ERROR">>
Rank(l) == SelectInSeq(Levels, LAMBDA m : m = l)

VARIABLES
    gLogLevel,     \* set once, from the environment
    mBuffer,       \* of the Logger of each thread
    todo,          \* the operands still to be put there, Null outside a line
    stdout,        \* all that stdio has been given
    \* History: what each operand of the line has added, the lines that were
    \* given to stdout (of the nth statement of a thread), the statements each
    \* thread has begun, and whether a number was written past a buffer's end.
    added, lines, begun, overrun

vars == <<gLogLevel, mBuffer, todo, stdout, added, lines, begun, overrun>>

-----------------------------------------------------------------------------
(* LogStream.cpp: numbers as text.                                         *)

\* The operators / and % of C++ round to zero.
Quot(i, n) == IF i < 0 THEN -((-i) \div n) ELSE i \div n
Rem(i, n) == i - n * Quot(i, n)

\* zero[lsd] for lsd in -9 .. 9.
digits == <<"9", "8", "7", "6", "5", "4", "3", "2", "1", "0",
            "1", "2", "3", "4", "5", "6", "7", "8", "9">>
zero(lsd) == digits[lsd + 10]

digitsHex == <<"0", "1", "2", "3", "4", "5", "6", "7", "8", "9",
               "A", "B", "C", "D", "E", "F">>

\* The digits of i from the last to the first: a do-while loop, so one at
\* least.  The sign of i is kept, also that of the least integer.
LowFirst[i \in Int] ==
    <<zero(Rem(i, 10))>> \o (IF Quot(i, 10) # 0 THEN LowFirst[Quot(i, 10)] ELSE <<>>)

LowFirstHex[i \in Nat] ==
    <<digitsHex[(i % 16) + 1]>> \o (IF i \div 16 # 0 THEN LowFirstHex[i \div 16] ELSE <<>>)

\* Fault: a while loop.
Fault_convert(value) ==
    IF value = 0 THEN <<>>
    ELSE Reverse(LowFirst[value] \o (IF value < 0 THEN <<"-">> ELSE <<>>))

convert(value) ==
    Reverse(LowFirst[value] \o (IF value < 0 THEN <<"-">> ELSE <<>>))

convertHex(value) == Reverse(LowFirstHex[value])

-----------------------------------------------------------------------------
(* The operators <<.                                                       *)

Text(cells) == [kind |-> "text", of |-> cells]
Integer(v) == [kind |-> "integer", of |-> v]
Pointer(v) == [kind |-> "pointer", of |-> v]
Double(cells) == [kind |-> "double", of |-> cells]   \* what snprintf makes of it

Numeric(op) == op.kind # "text"

Formatted(op) ==
    CASE op.kind = "text" -> IF op.of = Null THEN <<"(", "n", "u", "l", "l", ")">>
                                             ELSE op.of
      [] op.kind = "integer" -> convert(op.of)
      [] op.kind = "pointer" -> <<"0", "x">> \o convertHex(op.of)
      [] op.kind = "double" -> op.of

\* Fault: a number is written as soon as something is free.
Fault_Room(b) == avail(b) > 0

Room(b) == avail(b) >= kMaxNumericSize

\* Numbers are written at mWritePtr, with a NUL behind them, then added.
put(b, op) ==
    IF ~Numeric(op) THEN append(b, Formatted(op))
    ELSE IF Room(b) THEN add(b, Formatted(op)) ELSE b

Overruns(b, op) == Numeric(op) /\ Room(b) /\ Len(Formatted(op)) + 1 > Tailroom(b)

\* What the change from b to c has added.
Added(b, c) == SubSeq(c.data, Len(b.data) + 1, Len(c.data))

\* FileName::get: what follows the last slash; null if there is none.
get(name) ==
    LET i == SelectLastInSeq(name, LAMBDA c : c = "/")
    IN IF i = 0 THEN Null ELSE SubSeq(name, i + 1, Len(name))

\* What the constructor of Logger puts on every line: the time, the thread
\* and the words between the parts are texts like the others, one cell for
\* those before the level and one for those after the number.
LineHead(st) ==
    <<Text(<<"time">>), Text(<<st.level>>), Text(get(st.file)),
      Integer(st.line), Text(<<" ">>)>>

OperandsOf(st) == LineHead(st) \o st.operands

Newline == Text(<<"\n">>)

-----------------------------------------------------------------------------
Operands == {Newline} \cup (UNION {Range(OperandsOf(st)) : st \in Statements})

\* What stdout is made of.
Cells == UNION {Range(Formatted(op)) : op \in Operands}

ASSUME BoundAssumption == MaxLines \in Nat
ASSUME NullAssumption == Null \notin Seq(Operands)

ASSUME StatementsAssumption ==
    \A st \in Statements : /\ st.level \in Range(Levels) /\ st.line \in Nat
                           /\ st.operands \in Seq(Operands)

ASSUME OperandsAssumption ==
    \A op \in Operands :
        CASE op.kind = "text" -> op.of = Null \/ op.of \in Seq(Range(op.of))
          [] op.kind = "integer" -> op.of \in Int
          [] op.kind = "pointer" -> op.of \in Nat
          [] op.kind = "double" -> op.of \in Seq(Range(op.of))
          [] OTHER -> FALSE

\* Every number fits: of the 32 bytes a 64-bit one takes 21 at most.
ASSUME NumericAssumption ==
    /\ kMaxNumericSize \in Nat
    /\ \A op \in Operands : Numeric(op) => Len(Formatted(op)) < kMaxNumericSize

Init ==
    /\ gLogLevel \in {"TRACE", "DEBUG", "INFO"}
    /\ mBuffer = [t \in Threads |-> NewBuffer]
    /\ todo = [t \in Threads |-> Null]
    /\ stdout = <<>>
    /\ added = [t \in Threads |-> <<>>]
    /\ lines = <<>> /\ begun = [t \in Threads |-> <<>>]
    /\ overrun = FALSE

\* The macros LOG_TRACE and LOG_DEBUG look at the level, the others do not.
Enabled(level) ==
    \/ level \notin {"TRACE", "DEBUG"}
    \/ Rank(gLogLevel) <= Rank(level)

BeginLine(t, st) ==
    /\ todo[t] = Null
    /\ Len(begun[t]) < MaxLines
    /\ begun' = [begun EXCEPT ![t] = Append(@, st)]
    /\ IF Enabled(st.level)
       THEN todo' = [todo EXCEPT ![t] = OperandsOf(st)]
       ELSE UNCHANGED todo
    /\ UNCHANGED <<gLogLevel, mBuffer, stdout, added, lines, overrun>>

InLine(t) == todo[t] # Null

Put(t) ==
    /\ InLine(t) /\ todo[t] # <<>>
    /\ LET op == todo[t][1] IN
       /\ mBuffer' = [mBuffer EXCEPT ![t] = put(@, op)]
       /\ added' = [added EXCEPT ![t] =
                      Append(@, [op |-> op, cells |-> Added(mBuffer[t], put(mBuffer[t], op))])]
       /\ overrun' = (overrun \/ Overruns(mBuffer[t], op))
    /\ todo' = [todo EXCEPT ![t] = Tail(@)]
    /\ UNCHANGED <<gLogLevel, stdout, lines, begun>>

\* Fault: fwrite is given the buffer from its start to its end.
Fault_Output(b) == b.data \o [i \in 1 .. avail(b) |-> "garbage"]

\* mOutput(readPtr, used).
Output(b) == b.data

\* ~LogStream, at the end of the statement.
EndLine(t) ==
    /\ InLine(t) /\ todo[t] = <<>>
    /\ LET b == put(mBuffer[t], Newline) IN
       /\ stdout' = stdout \o Output(b)
       /\ lines' = Append(lines,
             [thread |-> t, nth |-> Len(begun[t]),
              added |-> Append(added[t],
                               [op |-> Newline, cells |-> Added(mBuffer[t], b)])])
    /\ mBuffer' = [mBuffer EXCEPT ![t] = NewBuffer]
    /\ added' = [added EXCEPT ![t] = <<>>]
    /\ todo' = [todo EXCEPT ![t] = Null]
    /\ UNCHANGED <<gLogLevel, begun, overrun>>

Next ==
    \/ \E t \in Threads : Put(t) \/ EndLine(t) \/ \E st \in Statements : BeginLine(t, st)

Spec == Init /\ [][Next]_vars

-----------------------------------------------------------------------------
(* What a line should be.                                                  *)

\* The number that a text in base 10 or 16 stands for, by Horner's rule, and
\* what makes it the usual text of that number.
Digit == [d \in Range(digitsHex) |-> SelectInSeq(digitsHex, LAMBDA e : e = d) - 1]

Horner(base, s) ==
    LET value[n \in 0 .. Len(s)] ==
            IF n = 0 THEN 0 ELSE base * value[n - 1] + Digit[s[n]]
    IN value[Len(s)]

Numeral(base, s, v) ==
    /\ s # <<>>
    /\ s[1] = "0" => Len(s) = 1
    /\ \A i \in DOMAIN s : s[i] \in DOMAIN Digit /\ Digit[s[i]] < base
    /\ Horner(base, s) = v

Reads(s, v) ==
    IF v >= 0 THEN Numeral(10, s, v)
    ELSE s # <<>> /\ s[1] = "-" /\ Numeral(10, Tail(s), -v)

ReadsHex(s, v) == \E h \in {SubSeq(s, 3, Len(s))} : s = <<"0", "x">> \o h /\ Numeral(16, h, v)

\* An operand as the line should have it.
Shown(p) ==
    CASE p.op.kind = "integer" -> Reads(p.cells, p.op.of)
      [] p.op.kind = "pointer" -> ReadsHex(p.cells, p.op.of)
      [] OTHER -> p.cells = Formatted(p.op)

\* What the operands of a line need, what they were, and what they came to.
Length(parts) ==
    LET sum[n \in 0 .. Len(parts)] ==
            IF n = 0 THEN 0 ELSE sum[n - 1] + Len(Formatted(parts[n].op))
    IN sum[Len(parts)]

Ops(parts) == [i \in DOMAIN parts |-> parts[i].op]

AllCells(parts) == FlattenSeq([i \in DOMAIN parts |-> parts[i].cells])

Whole(parts) ==
    /\ \A i \in DOMAIN parts : parts[i].cells = <<>> \/ Shown(parts[i])
    /\ Length(parts) + kMaxNumericSize <= kBufferSize => \A i \in DOMAIN parts : Shown(parts[i])

-----------------------------------------------------------------------------
(* Properties.                                                             *)

\* A line has the operands of its statement in their order, each whole or not
\* at all, numbers of every size read as what they are, it has all of them if
\* it leaves room for one number more, and no number is written past the end
\* of the buffer.
LinesAreWhole ==
    /\ ~overrun
    /\ \A n \in DOMAIN lines :
          LET line == lines[n] IN
          /\ Whole(line.added)
          /\ Ops(line.added) = OperandsOf(begun[line.thread][line.nth]) \o <<Newline>>

\* Logger.h:8, fwrite() 是原子操作: the output is the lines one after the
\* other, unmixed, those of a thread in its order, and the level filters
\* those that it should (Logger.h:13-19) and no others.
OutputInOrder ==
    /\ stdout = FlattenSeq([n \in DOMAIN lines |-> AllCells(lines[n].added)])
    /\ \A m, n \in DOMAIN lines :
          m < n /\ lines[m].thread = lines[n].thread => lines[m].nth < lines[n].nth
    /\ \A t \in Threads, k \in 1 .. MaxLines :
          (\E n \in DOMAIN lines : lines[n].thread = t /\ lines[n].nth = k) <=>
             /\ k \in DOMAIN begun[t] /\ Rank(gLogLevel) <= Rank(begun[t][k].level)
             /\ k = Len(begun[t]) => ~InLine(t)

-----------------------------------------------------------------------------
(* The inductive invariant: why the properties above hold.                 *)

Part == [op : Operands, cells : Seq(Cells)]

\* The types of the variables.
TypeOK ==
    /\ gLogLevel \in {"TRACE", "DEBUG", "INFO"}
    /\ mBuffer \in [Threads -> Buffers(Cells)]
    /\ todo \in [Threads -> Seq(Operands) \cup {Null}]
    /\ stdout \in Seq(Cells)
    /\ added \in [Threads -> Seq(Part)]
    /\ lines \in Seq([thread : Threads, nth : 1 .. MaxLines, added : Seq(Part)])
    /\ begun \in [Threads -> Seq(Statements)]
    /\ \A t \in Threads : Len(begun[t]) <= MaxLines
    /\ overrun \in BOOLEAN

\* The buffer of a thread is what has been added of its line, which is no
\* more than the operands need, and what is left of the line is to come.
LineInv ==
    \A t \in Threads :
        /\ mBuffer[t].at = 0 /\ InBounds(mBuffer[t])
        /\ mBuffer[t].data = AllCells(added[t]) /\ Whole(added[t])
        /\ Len(mBuffer[t].data) <= Length(added[t])
        /\ IF InLine(t)
           THEN /\ begun[t] # <<>> /\ Enabled(Last(begun[t]).level)
                /\ Ops(added[t]) \o todo[t] = OperandsOf(Last(begun[t]))
           ELSE added[t] = <<>>

IInv == TypeOK /\ LineInv /\ LinesAreWhole /\ OutputInOrder
=============================================================================
