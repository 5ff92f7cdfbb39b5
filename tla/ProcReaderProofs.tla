-------------------------- MODULE ProcReaderProofs --------------------------
(***************************************************************************)
(* The reading loop, for files of any number of lines of any length.       *)
(***************************************************************************)
EXTENDS ProcReader, TLAPS

ReaderTypeOK ==
    /\ file \in Seq(Nat) /\ match \in Nat /\ gone \in BOOLEAN
    /\ line \in 0..(Len(file) + 1) /\ eof \in BOOLEAN /\ fail \in BOOLEAN
    /\ buffer \in Nat /\ parsed \in Seq(Nat)
    /\ at \in {"test", "getline", "parse", "done"}

\* The line that getline has handed over and that the parser has not yet seen.
Pending == IF at = "parse" /\ buffer # 0 THEN {buffer} ELSE {}

PassedLines == {i \in Visible : i < line}

(***************************************************************************)
(* LinesInOrder is not inductive: it does not say how far the stream is.   *)
(* The strengthening says that the parser has seen exactly the lines the   *)
(* stream has passed but for the one in buffer, which is the last of them; *)
(* that eofbit stands for the end of the file; why a loop has ended; and   *)
(* what makes a stream fail before its end.                                *)
(***************************************************************************)
SeenInv ==
    /\ ParsedLines = PassedLines \ Pending
    /\ at = "parse" /\ buffer # 0 => buffer = line - 1 /\ buffer \in Visible

OrderInv == \A j, k \in 1..Len(parsed) : j < k => parsed[j] < parsed[k]

EndInv ==
    /\ eof => line = Len(file) + 1
    /\ at = "getline" => ~eof
    /\ at = "done" => eof \/ (parsed # <<>> /\ parsed[Len(parsed)] = match)

FailInv == fail => eof \/ gone \/ ~Fits

ReaderInv == ReaderTypeOK /\ SeenInv /\ OrderInv /\ EndInv /\ FailInv

\* Nothing has been read at first.
LEMMA ReaderInvInit == ReaderInit => ReaderInv
  <1> SUFFICES ASSUME ReaderInit PROVE ReaderInv
    OBVIOUS
  <1>1. ReaderTypeOK
    <2>1. file \in Seq(Nat) /\ match \in Nat
      BY ReaderAssumption DEF ReaderInit
    <2>2. 0 \in 0..(Len(file) + 1) /\ <<>> \in Seq(Nat)
      BY <2>1
    <2> QED
      BY <2>1, <2>2, Zenon DEF ReaderInit, ReaderTypeOK
  <1>2. ParsedLines = {} /\ PassedLines = {} /\ Pending = {}
    BY <1>1 DEF ReaderInit, ReaderTypeOK, ParsedLines, PassedLines, Visible, Pending
  <1> QED
    BY <1>1, <1>2 DEF ReaderInit, ReaderInv, SeenInv, OrderInv, EndInv, FailInv

\* The steps that take no line leave what the parser has seen.
LEMMA ReaderInvIdle ==
    ASSUME ReaderInv, UNCHANGED <<file, match, parsed>>,
           Test \/ Underflow \/ GetlineFailed \/ ProcessExits \/ UNCHANGED readerVars
    PROVE  ReaderInv'
  <1> USE DEF ReaderInv
  <1>1. ReaderTypeOK'
    <2>1. file' \in Seq(Nat) /\ match' \in Nat /\ parsed' \in Seq(Nat) /\ Len(file) \in Nat
      BY DEF ReaderTypeOK
    <2>2. gone' \in BOOLEAN /\ eof' \in BOOLEAN /\ fail' \in BOOLEAN
      BY DEF Test, Underflow, GetlineFailed, ProcessExits, readerVars, ReaderTypeOK
    <2>3. /\ line' \in 0..(Len(file) + 1) /\ buffer' \in Nat
          /\ at' \in {"test", "getline", "parse", "done"}
      BY <2>1 DEF Test, Underflow, GetlineFailed, ProcessExits, readerVars, ReaderTypeOK
    <2> QED
      BY <2>1, <2>2, <2>3 DEF ReaderTypeOK
  <1>2. Visible' = Visible /\ ParsedLines' = ParsedLines
    BY DEF Visible, ParsedLines
  <1>3. PassedLines' = PassedLines
    BY <1>2 DEF Test, Underflow, GetlineFailed, ProcessExits, readerVars, ReaderTypeOK,
                PassedLines, Visible
  <1>4. /\ Pending' = Pending
        /\ (at = "parse" /\ buffer # 0)' => at = "parse" /\ UNCHANGED <<buffer, line>>
    BY DEF Test, Underflow, GetlineFailed, ProcessExits, readerVars, Pending
  <1>5. SeenInv'
    BY <1>2, <1>3, <1>4 DEF SeenInv
  <1>6. EndInv'
    BY DEF Test, Underflow, GetlineFailed, ProcessExits, readerVars, EndInv, ReaderTypeOK
  <1>7. FailInv'
    <2>1. Fits' = Fits
      BY DEF Fits
    <2> QED
      BY <2>1 DEF Test, Underflow, GetlineFailed, ProcessExits, readerVars, FailInv, ReaderTypeOK
  <1> QED
    BY <1>1, <1>5, <1>6, <1>7 DEF OrderInv

\* getline passes one line, which becomes the pending one unless it is blank.
LEMMA ReaderInvGetline ==
    ASSUME ReaderInv, Getline
    PROVE  ReaderInv'
  <1> USE DEF ReaderInv
  <1>1. /\ line \in 1..Len(file) /\ Len(file) \in Nat /\ file[line] \in Nat
        /\ UNCHANGED <<file, match, gone, eof, parsed>>
        /\ line' = line + 1 /\ at = "getline" /\ at' = "parse"
        /\ buffer' = IF file[line] = 0 THEN 0 ELSE line
    BY DEF Getline, ReaderTypeOK
  <1>2. ReaderTypeOK'
    BY <1>1 DEF Getline, ReaderTypeOK
  <1>3. Visible' = Visible /\ ParsedLines' = ParsedLines
    BY <1>1 DEF Visible, ParsedLines
  <1>4. ParsedLines = PassedLines
    BY <1>1 DEF SeenInv, Pending
  <1>5. PassedLines' = PassedLines \cup ({line} \cap Visible)
    BY <1>1, <1>3 DEF PassedLines, Visible
  <1>6. line \notin PassedLines
    BY <1>1 DEF PassedLines
  <1>7. (buffer' # 0 <=> line \in Visible) /\ (buffer' # 0 => buffer' = line)
    BY <1>1 DEF Visible
  <1>8. Pending' = {line} \cap Visible
    BY <1>1, <1>7 DEF Pending
  <1>9. SeenInv'
    BY <1>1, <1>3, <1>4, <1>5, <1>6, <1>7, <1>8 DEF SeenInv
  <1>10. FailInv'
    <2>1. fail' => file[line] >= Size
      BY DEF Getline
    <2>2. file[line] >= Size => ~Fits
      BY <1>1 DEF Fits, Size
    <2>3. Fits' = Fits
      BY <1>1 DEF Fits
    <2> QED
      BY <2>1, <2>2, <2>3 DEF FailInv
  <1> QED
    BY <1>1, <1>2, <1>9, <1>10 DEF OrderInv, EndInv, ReaderTypeOK

\* The parser takes the pending line.
LEMMA ReaderInvParse ==
    ASSUME ReaderInv, ParseLine
    PROVE  ReaderInv'
  <1> USE DEF ReaderInv
  <1>1. /\ at = "parse" /\ at' \in {"done", "test"}
        /\ UNCHANGED <<file, match, gone, line, eof, fail, buffer>>
        /\ parsed' = IF buffer = 0 THEN parsed ELSE Append(parsed, buffer)
    BY DEF ParseLine
  <1>2. ReaderTypeOK'
    BY <1>1 DEF ReaderTypeOK
  <1>3. Visible' = Visible /\ PassedLines' = PassedLines /\ Pending' = {}
    BY <1>1 DEF Visible, PassedLines, Pending
  <1>4. FailInv'
    BY <1>1 DEF FailInv, Fits
  <1>5. CASE buffer = 0
    <2>1. parsed' = parsed /\ ParsedLines' = ParsedLines /\ Pending = {} /\ at' = "test"
      BY <1>1, <1>5 DEF ParsedLines, Pending, ParseLine
    <2> QED
      BY <1>1, <1>2, <1>3, <1>4, <2>1 DEF SeenInv, OrderInv, EndInv
  <1>6. CASE buffer # 0
    <2>1. /\ parsed \in Seq(Nat) /\ buffer \in Nat /\ Len(parsed) \in Nat
          /\ parsed' = Append(parsed, buffer) /\ Pending = {buffer}
          /\ buffer = line - 1 /\ buffer \in Visible /\ line \in Nat
      BY <1>1, <1>6 DEF SeenInv, Pending, ReaderTypeOK
    <2>2. /\ Len(parsed') = Len(parsed) + 1 /\ parsed'[Len(parsed) + 1] = buffer
          /\ \A k \in 1..Len(parsed) : parsed'[k] = parsed[k]
      BY <2>1
    <2>3. 1..Len(parsed') = (1..Len(parsed)) \cup {Len(parsed) + 1}
      BY <2>1, <2>2
    <2>4. ParsedLines' = ParsedLines \cup {buffer}
      BY <2>2, <2>3 DEF ParsedLines
    <2>5. buffer \in PassedLines
      BY <2>1 DEF PassedLines, Visible
    <2>6. ParsedLines' = PassedLines'
      BY <1>3, <2>1, <2>4, <2>5 DEF SeenInv
    <2>7. \A k \in 1..Len(parsed) : parsed[k] < buffer
      <3>1. \A p \in ParsedLines : p < line /\ p # line - 1 /\ p \in Int
        BY <2>1 DEF SeenInv, PassedLines, Visible
      <3>2. \A k \in 1..Len(parsed) : parsed[k] \in ParsedLines
        BY DEF ParsedLines
      <3> QED
        BY <2>1, <3>1, <3>2
    <2>8. OrderInv'
      BY <2>1, <2>2, <2>3, <2>7 DEF OrderInv
    <2>9. EndInv'
      BY <1>1, <1>6, <2>1, <2>2 DEF EndInv, ParseLine
    <2> QED
      BY <1>1, <1>2, <1>3, <1>4, <2>6, <2>8, <2>9 DEF SeenInv
  <1> QED
    BY <1>5, <1>6

\* Every step preserves the invariant.
LEMMA ReaderInvNext == ReaderInv /\ [ReaderNext]_readerVars => ReaderInv'
  BY ReaderInvIdle, ReaderInvGetline, ReaderInvParse
     DEF ReaderNext, ReaderStep, Test, Underflow, GetlineFailed, ProcessExits, readerVars

\* The invariant holds in every reachable state.
LEMMA ReaderInvAlways == ReaderSpec => []ReaderInv
  BY ReaderInvInit, ReaderInvNext, PTL DEF ReaderSpec

\* Every parser behind the loop gets the lines of its file in order, none twice
\* and none left out, for every file and wherever the process exits.
THEOREM ReadsLinesInOrder == ReaderSpec => []LinesInOrder
  <1>1. ReaderInv => LinesInOrder
    <2> SUFFICES ASSUME ReaderInv PROVE LinesInOrder
      OBVIOUS
    <2> USE DEF ReaderInv
    <2>1. ParsedLines \subseteq Visible
      BY DEF SeenInv, PassedLines
    <2>2. ASSUME NEW i \in Visible, NEW p \in ParsedLines, i < p PROVE i \in ParsedLines
      <3>1. i \in Nat /\ p \in Nat /\ line \in Nat
        BY <2>1, <2>2 DEF Visible, ReaderTypeOK
      <3>2. p < line /\ p \notin Pending /\ \A b \in Pending : b = line - 1
        BY <2>2 DEF SeenInv, PassedLines, Pending
      <3> QED
        BY <2>2, <3>1, <3>2 DEF SeenInv, PassedLines
    <2>3. ASSUME at = "done", eof PROVE ParsedLines = Visible
      <3>1. PassedLines = Visible
        BY <2>3 DEF EndInv, PassedLines, Visible, ReaderTypeOK
      <3> QED
        BY <2>3, <3>1 DEF SeenInv, Pending
    <2> QED
      BY <2>1, <2>2, <2>3 DEF LinesInOrder, OrderInv, EndInv
  <1> QED
    BY <1>1, ReaderInvAlways, PTL

\* Every step comes closer to the end of the loop, unless the process has exited or
\* a line does not fit the buffer: these are the only ways to spin.
THEOREM ReaderAdvances == ReaderSpec => ReadAdvances
  <1> DEFINE Advances == ReaderStep => \/ Remaining' < Remaining /\ Remaining' >= 0
                                       \/ Spinning' /\ (gone \/ ~Fits)
  <1>1. ReaderInv /\ ReaderInv' /\ [ReaderNext]_readerVars => [Advances]_readerVars
    <2> SUFFICES ASSUME ReaderInv, ReaderInv', ReaderStep PROVE Advances
      BY DEF ReaderNext
    <2>0. /\ Ahead \in Nat /\ Ahead' \in Nat
          /\ eof \in BOOLEAN /\ eof' \in BOOLEAN
      <3>1. ReaderTypeOK => Ahead \in Nat /\ eof \in BOOLEAN
        BY DEF ReaderTypeOK, Ahead
      <3>2. ReaderTypeOK' => Ahead' \in Nat /\ eof' \in BOOLEAN
        BY DEF ReaderTypeOK, Ahead
      <3> QED
        BY <3>1, <3>2 DEF ReaderInv
    <2> USE DEF ReaderInv, EndInv
    <2>1. CASE Test
      <3>1. Ahead' = Ahead
        BY <2>1 DEF Test, Ahead
      <3> QED
        BY <2>0, <2>1, <3>1 DEF Test, Remaining
    <2>2. CASE Underflow
      <3>1. CASE line = 0 /\ ~gone
        <4>1. Ahead' = Ahead - 1 /\ UNCHANGED <<eof, at>> /\ at = "getline"
          BY <2>2, <3>1 DEF Underflow, Ahead, ReaderTypeOK
        <4> QED
          BY <2>0, <4>1 DEF Remaining
      <3>2. CASE gone
        BY <2>2, <3>2 DEF Underflow, Spinning
      <3>3. CASE line # 0 /\ ~gone
        <4>1. Ahead' = Ahead /\ ~eof /\ eof' /\ at = "getline" /\ at' = "parse"
          BY <2>2, <3>3 DEF Underflow, Ahead
        <4> QED
          BY <2>0, <4>1 DEF Remaining
      <3> QED
        BY <3>1, <3>2, <3>3
    <2>3. CASE Getline
      <3>1. Ahead' = Ahead - 1 /\ UNCHANGED eof /\ ~eof /\ at = "getline" /\ at' = "parse"
        BY <2>3 DEF Getline, Ahead, ReaderTypeOK
      <3> QED
        BY <2>0, <3>1 DEF Remaining
    <2>4. CASE GetlineFailed
      BY <2>4 DEF GetlineFailed, Spinning, FailInv
    <2>5. CASE ParseLine
      <3>1. /\ Ahead' = Ahead /\ UNCHANGED eof /\ at = "parse"
            /\ at' = "test" \/ at' = "done"
        BY <2>5 DEF ParseLine, Ahead
      <3> QED
        BY <2>0, <3>1 DEF Remaining
    <2> QED
      BY <2>1, <2>2, <2>3, <2>4, <2>5 DEF ReaderStep
  <1> QED
    BY <1>1, ReaderInvAlways, PTL DEF ReadAdvances, ReaderSpec

\* And nothing ends the spinning: a file whose process has exited, or with a
\* line longer than the buffer, keeps the caller in the loop for ever.
THEOREM FailedReadSpins == ReaderSpec => [](Spinning => []Spinning)
  <1>1. Spinning /\ [ReaderNext]_readerVars => Spinning'
    <2> SUFFICES ASSUME Spinning, [ReaderNext]_readerVars PROVE Spinning'
      OBVIOUS
    <2> USE DEF Spinning
    <2>1. CASE Test
      BY <2>1 DEF Test
    <2>2. CASE Underflow \/ Getline
      BY <2>2 DEF Underflow, Getline
    <2>3. CASE GetlineFailed
      BY <2>3 DEF GetlineFailed
    <2>4. CASE ParseLine
      BY <2>4 DEF ParseLine
    <2>5. CASE UNCHANGED <<match, eof, fail, buffer, at>>
      <3>1. Spinning' = Spinning
        BY <2>5
      <3> QED
        BY <3>1
    <2>6. CASE ProcessExits \/ UNCHANGED readerVars
      BY <2>5, <2>6 DEF ProcessExits, readerVars
    <2> QED
      BY <2>1, <2>2, <2>3, <2>4, <2>6 DEF ReaderNext, ReaderStep
  <1> QED
    BY <1>1, PTL DEF ReaderSpec
=============================================================================
