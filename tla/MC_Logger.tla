------------------------------ MODULE MC_Logger ------------------------------
(***************************************************************************)
(* A small instance of Logger: integers of 8 bits, pointers of 4, a        *)
(* kMaxNumericSize they need all but one of, and lines that leave room,    *)
(* that have none for a text, for a number, for the newline.               *)
(***************************************************************************)
EXTENDS Logger

\* A cell each for the parts of a path and the words of a text.
Path == <<"dir", "/", "a.cpp">>
Plain == <<"b.cpp">>
Words(n) == Text([i \in 1 .. n |-> "w"])

Line(level, name, num, operands) ==
    [level |-> level, file |-> name, line |-> num, operands |-> operands]

MCStatements ==
    {Line("TRACE", Path, 7, <<Integer(-128), Words(1)>>),
     Line("DEBUG", Plain, 10, <<Pointer(15), Pointer(0)>>),
     Line("INFO", Path, 0, <<Integer(0), Integer(127), Integer(-1), Integer(10), Words(1)>>),
     Line("WARN", Path, 9, <<Words(15), Integer(1), Words(1)>>),
     Line("ERROR", Path, 9, <<Words(18), Integer(1), Text(Null), Words(1)>>)}
=============================================================================
