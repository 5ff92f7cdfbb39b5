----------------------------- MODULE ProcReader -----------------------------
(***************************************************************************)
(* The loop with which every file of /proc is read:                        *)
(*     while (!s.eof()) { s.getline(buffer, 1024); ... }                   *)
(* on an fstream that has been opened.  The file is a sequence of line     *)
(* lengths.  Its stream buffer is filled by read calls: the first one      *)
(* brings the whole file, the next one reports the end, and each of them   *)
(* fails once the process the file describes has exited.                   *)
(***************************************************************************)
EXTENDS Integers, Sequences

CONSTANTS
    Contents,   \* the files, sequences of line lengths without the newline
    Matching,   \* line numbers at which the loop may be left with a break
    MayExit     \* the file describes a process, which may exit

Size == 1024    \* the buffer given to getline

ASSUME ReaderAssumption ==
    Contents \subseteq Seq(Nat) /\ Matching \subseteq Nat /\ MayExit \in BOOLEAN

VARIABLES
    file,       \* the contents being read
    match,      \* the line whose sscanf leads to a break, 0 for none
    gone,       \* the process has exited
    line,       \* the next line in the stream buffer; 0 before the first read
    eof, fail,  \* eofbit; failbit or badbit
    buffer,     \* the line in buffer, 0 when it is the empty string
    parsed,     \* history: the lines that reached the parser
    at          \* "test", "getline", "parse" or "done"

readerVars == <<file, match, gone, line, eof, fail, buffer, parsed, at>>

ReaderInit ==
    /\ file \in Contents /\ match \in Matching
    /\ gone = FALSE /\ line = 0 /\ eof = FALSE /\ fail = FALSE
    /\ buffer = 0 /\ parsed = <<>> /\ at = "test"

\* Seeded fault: the end of the file is not tested.
TestDropped ==
    /\ at = "test"
    /\ at' = "getline"
    /\ UNCHANGED <<file, match, gone, line, eof, fail, buffer, parsed>>

\* while (!s.eof())
Test ==
    /\ at = "test"
    /\ at' = IF eof THEN "done" ELSE "getline"
    /\ UNCHANGED <<file, match, gone, line, eof, fail, buffer, parsed>>

\* The stream buffer is empty: read brings the file, or nothing, or an error.
\* A failed read sets badbit and leaves the empty string, the end of the file
\* sets eofbit.
Underflow ==
    /\ at = "getline" /\ ~fail /\ (line = 0 \/ line > Len(file))
    /\ line' = IF line = 0 /\ ~gone THEN 1 ELSE line
    /\ IF line = 0 /\ ~gone
       THEN UNCHANGED <<eof, fail, buffer, at>>
       ELSE eof' = ~gone /\ fail' = TRUE /\ buffer' = 0 /\ at' = "parse"
    /\ UNCHANGED <<file, match, gone, parsed>>

\* getline takes a line out of the stream buffer; one of Size characters or
\* more is cut off and sets failbit.
Getline ==
    /\ at = "getline" /\ ~fail /\ line \in 1..Len(file)
    /\ buffer' = IF file[line] = 0 THEN 0 ELSE line
    /\ fail' = (file[line] >= Size)
    /\ line' = line + 1
    /\ at' = "parse"
    /\ UNCHANGED <<file, match, gone, eof, parsed>>

\* getline on a stream that is not good only empties the buffer.
GetlineFailed ==
    /\ at = "getline" /\ fail
    /\ buffer' = 0
    /\ at' = "parse"
    /\ UNCHANGED <<file, match, gone, line, eof, fail, parsed>>

\* Seeded fault: a blank line is parsed too.
ParseLineBlank ==
    /\ at = "parse"
    /\ parsed' = Append(parsed, buffer)
    /\ at' = IF buffer # 0 /\ buffer = match THEN "done" ELSE "test"
    /\ UNCHANGED <<file, match, gone, line, eof, fail, buffer>>

\* An empty buffer is skipped, any other is given to sscanf.
ParseLine ==
    /\ at = "parse"
    /\ parsed' = IF buffer = 0 THEN parsed ELSE Append(parsed, buffer)
    /\ at' = IF buffer # 0 /\ buffer = match THEN "done" ELSE "test"
    /\ UNCHANGED <<file, match, gone, line, eof, fail, buffer>>

ProcessExits ==
    /\ MayExit /\ ~gone
    /\ gone' = TRUE
    /\ UNCHANGED <<file, match, line, eof, fail, buffer, parsed, at>>

ReaderStep == Test \/ Underflow \/ Getline \/ GetlineFailed \/ ParseLine

ReaderNext == ReaderStep \/ ProcessExits

ReaderSpec == ReaderInit /\ [][ReaderNext]_readerVars /\ WF_readerVars(ReaderStep)
-----------------------------------------------------------------------------
\* The lines that a reader should see: all that are not blank.
Visible == {i \in 1..Len(file) : file[i] > 0}

ParsedLines == {parsed[k] : k \in 1..Len(parsed)}

Fits == \A i \in 1..Len(file) : file[i] < Size

\* The parser gets the lines of the file in order, none of them twice and none
\* left out, and the loop only ends at the end of the file or at the match.
LinesInOrder ==
    /\ \A j, k \in 1..Len(parsed) : j < k => parsed[j] < parsed[k]
    /\ ParsedLines \subseteq Visible
    /\ \A i \in Visible, p \in ParsedLines : i < p => i \in ParsedLines
    /\ at = "done" => \/ ParsedLines = Visible
                      \/ parsed # <<>> /\ parsed[Len(parsed)] = match

\* The stream has failed before its end and the line in buffer, if there is
\* one, is not the match: eof() will never be true.
Spinning == at # "done" /\ fail /\ ~eof /\ (at = "parse" /\ buffer # 0 => buffer # match)

\* What is left to do: lines in the file, the read that reports the end, and
\* the rest of the iteration.
Ahead == Len(file) + 1 - line

Remaining ==
    4 * Ahead + (IF eof THEN 0 ELSE 8)
      + (CASE at = "parse" -> 4 [] at = "test" -> 3 [] at = "getline" -> 2 [] OTHER -> 0)

\* Every step of the loop comes closer to its end, unless the process has exited
\* or a line does not fit the buffer: nothing else makes the loop spin.
ReadAdvances ==
    [][ReaderStep => \/ Remaining' < Remaining /\ Remaining' >= 0
                     \/ Spinning' /\ (gone \/ ~Fits)]_readerVars

\* The loop ends for a file whose lines all fit the buffer and whose process
\* does not exit meanwhile.
GoodReadsEnd == Fits /\ []~gone => <>(at = "done")

\* The loop ends for whatever file: CaptureUpdate comes back from each of them.
ReaderTerminates == <>(at = "done")
=============================================================================
