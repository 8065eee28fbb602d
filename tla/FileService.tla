----------------------------- MODULE FileService -----------------------------
(***************************************************************************)
(* A request of the agent to read or write a text file (FSService of       *)
(* src/src/soulacp/services/fs_service.py).  A worker thread checks the    *)
(* path, opens it and works on it in steps, while other requests and       *)
(* other programs change files and exchange what the path names; the       *)
(* request waits for the thread as OwnedAwait has it.  A text is a         *)
(* sequence of characters of one byte; "bad" does not decode.  The path is *)
(* one that resolve_path accepted.                                         *)
(***************************************************************************)
EXTENDS OwnedAwait, Naturals, Sequences

CONSTANTS
    Objects,     \* what a directory entry can name
    Nothing,     \* not one of them
    Requests,    \* records: a kind, and its line and limit or its content
    NoLimit,
    Contents,    \* contents that others give to a file
    Chunk,       \* the size of a raw read, at least 1
    CharLimit,   \* MAX_READ_CHARS
    ByteLimit,   \* MAX_FILE_BYTES
    LineLimit,   \* MAX_LINE_LIMIT
    WriteLimit,  \* MAX_WRITE_BYTES
    MaxChanges   \* bound on what others do

VARIABLES
    request,
    entry,       \* the object the path names
    kind, data,  \* of every object
    stage,       \* where the thread is
    before,      \* the object that lstat() saw
    file,        \* the object that is open
    position,    \* in it
    buffer,      \* decoded and not yet taken
    ended,       \* whether the end of the file was read
    line,        \* line_number
    taken,       \* lines in "selected"
    selected,    \* their text
    failure,     \* why the thread failed
    alone,       \* history: nobody else changed the file since it was opened
    changes

fileVars == <<entry, kind, data, alone, changes>>
readVars == <<buffer, ended, line, taken, selected>>
threadVars == <<stage, before, file, position, failure>>
vars == <<awaitVars, request, fileVars, readVars, threadVars>>

Least(S) == CHOOSE i \in S : \A j \in S : i <= j

FileInit ==
    /\ request \in Requests
    /\ entry \in Objects \cup {Nothing}
    /\ kind \in [Objects -> {"file", "directory", "other"}]
    /\ \E text \in Contents : data = [x \in Objects |-> IF x = entry /\ kind[x] = "file" THEN text ELSE <<>>]
    /\ stage = "call" /\ before = Nothing /\ file = Nothing /\ position = 0 /\ failure = "none"
    /\ buffer = <<>> /\ ended = FALSE /\ line = 0 /\ taken = 0 /\ selected = <<>>
    /\ alone = TRUE /\ changes = 0
Init == AwaitInit /\ helper = "shielded" /\ FileInit

-----------------------------------------------------------------------------
(* Lines, as the text layer finds them *)

\* A line ends after a line feed, or a carriage return without one; a carriage
\* return at the end of what was read is not decided yet.
EndsLine(text, i) ==
    \/ text[i] = "lf"
    \/ text[i] = "cr" /\ (i < Len(text) => text[i + 1] # "lf")

\* Mutant of LineEnds: the last carriage return ends a line at once.
LineEndsEarly(text, final) == {i \in 1 .. Len(text) : EndsLine(text, i)}
LineEnds(text, final) ==
    {i \in 1 .. Len(text) : EndsLine(text, i) /\ (i = Len(text) /\ text[i] = "cr" => final)}

\* The length of the next line, or 0 if more has to be read for it.
NextLine ==
    IF LineEnds(buffer, ended) # {} THEN Least(LineEnds(buffer, ended))
    ELSE IF ended THEN Len(buffer) ELSE 0

-----------------------------------------------------------------------------
(* The request, before its thread *)

Reading == request.kind = "read"
StartLine == IF request.line = 0 THEN 1 ELSE request.line

Refused ==
    \/ Reading /\ request.limit # NoLimit /\ request.limit > LineLimit
    \/ ~Reading /\ Len(request.text) > WriteLimit

Calls ==
    /\ stage = "call"
    /\ IF Refused
       THEN /\ stage' = "over" /\ work' = "error" /\ at' = "over" /\ outcome' = "error"
            /\ UNCHANGED <<helper, asked, woken, thrown, expired, cancelled, cut>>
       ELSE stage' = "check" /\ UNCHANGED awaitVars
    /\ UNCHANGED <<request, fileVars, readVars, before, file, position, failure>>

-----------------------------------------------------------------------------
(* The thread *)

Unawaited == UNCHANGED <<helper, asked, at, woken, thrown, expired, cancelled, outcome, cut>>
Goes(to) == stage' = to /\ UNCHANGED <<failure, awaitVars>>
Fails(why) == stage' = "over" /\ failure' = why /\ work' = "error" /\ Unawaited
Succeeds == stage' = "over" /\ UNCHANGED failure /\ work' = "ok" /\ Unawaited

\* _open_regular: lstat().
Checks ==
    /\ stage = "check"
    /\ IF entry = Nothing
       THEN /\ IF Reading THEN Fails("missing") ELSE Goes("open")
            /\ UNCHANGED before
       ELSE /\ IF kind[entry] = "file" THEN Goes("open") ELSE Fails("resource")
            /\ before' = entry
    /\ UNCHANGED <<request, fileVars, readVars, file, position>>

\* _open_regular: open() and fstat().
\* Mutant of Opened: what is open is not compared with what was checked.
OpenedAny == before # Nothing /\ entry # Nothing /\ kind[entry] = "file"
Opened == before # Nothing /\ entry = before
Opens ==
    /\ stage = "open"
    /\ \/ Opened /\ file' = entry /\ Goes("head") /\ UNCHANGED <<entry, kind, data>>
       \/ /\ before # Nothing /\ ~Opened
          /\ Fails("changed") /\ UNCHANGED <<entry, kind, data, file>>
       \/ /\ before = Nothing /\ entry # Nothing     \* O_EXCL
          /\ Fails("changed") /\ UNCHANGED <<entry, kind, data, file>>
       \/ /\ before = Nothing /\ entry = Nothing
          /\ \E x \in Objects :
               /\ entry' = x /\ file' = x
               /\ kind' = [kind EXCEPT ![x] = "file"] /\ data' = [data EXCEPT ![x] = <<>>]
          /\ Goes("head")
    /\ UNCHANGED <<request, readVars, before, position, alone, changes>>

\* _read_resolved: fstat(), and a limit of no lines.
Sizes ==
    /\ stage = "head" /\ Reading
    /\ IF Len(data[file]) > ByteLimit THEN Fails("limit")
       ELSE IF request.limit = 0 THEN Succeeds ELSE Goes("body")
    /\ UNCHANGED <<request, fileVars, readVars, before, file, position>>

\* _BoundedRawReader.readinto: one byte more than is left is asked for.
Budget == ByteLimit - position
Asked == IF Chunk <= Budget + 1 THEN Chunk ELSE Budget + 1
Got ==
    LET rest == Len(data[file]) - position
    IN IF rest <= 0 THEN 0 ELSE IF rest < Asked THEN rest ELSE Asked

Piece == SubSeq(data[file], position + 1, position + Got)

\* The text layer reads until it has a line.
Full == request.limit # NoLimit /\ taken >= request.limit
ReadsMore ==
    /\ stage = "body" /\ Reading /\ ~Full /\ NextLine = 0 /\ ~ended
    /\ IF Got > Budget THEN Fails("limit") /\ UNCHANGED <<position, buffer, ended>>
       ELSE IF \E i \in 1 .. Got : Piece[i] = "bad"
       THEN Fails("encoding") /\ UNCHANGED <<position, buffer, ended>>
       ELSE /\ Goes("body")
            /\ position' = position + Got /\ buffer' = buffer \o Piece /\ ended' = (Got = 0)
    /\ UNCHANGED <<request, fileVars, line, taken, selected, before, file>>

\* Mutant of TooLong: one character too many is returned.
TooLongLate(text) == Len(selected) + Len(text) > CharLimit + 1
TooLong(text) == Len(selected) + Len(text) > CharLimit
TakesLine ==
    /\ stage = "body" /\ Reading /\ ~Full /\ NextLine > 0
    /\ buffer' = SubSeq(buffer, NextLine + 1, Len(buffer)) /\ line' = line + 1
    /\ ended' = FALSE      \* the next line asks again
    /\ LET text == SubSeq(buffer, 1, NextLine) IN
         IF line + 1 < StartLine THEN Goes("body") /\ UNCHANGED <<taken, selected>>
         ELSE IF TooLong(text) THEN Fails("limit") /\ UNCHANGED <<taken, selected>>
         ELSE Goes("body") /\ selected' = selected \o text /\ taken' = taken + 1
    /\ UNCHANGED <<request, fileVars, before, file, position>>

ReadEnds ==
    /\ stage = "body" /\ Reading /\ (Full \/ (NextLine = 0 /\ ended))
    /\ Succeeds
    /\ UNCHANGED <<request, fileVars, readVars, before, file, position>>

\* _write_resolved.
Truncates ==
    /\ stage = "head" /\ ~Reading
    /\ data' = [data EXCEPT ![file] = <<>>] /\ Goes("body")
    /\ UNCHANGED <<request, entry, kind, alone, changes, readVars, before, file, position>>

\* What is beyond the end of the file is filled up.
Filled(text, length) == [i \in 1 .. length |-> IF i <= Len(text) THEN text[i] ELSE "nul"]
Overwrites(text, from, piece) ==
    LET base == Filled(text, IF Len(text) < from THEN from ELSE Len(text))
    IN SubSeq(base, 1, from) \o piece \o SubSeq(base, from + Len(piece) + 1, Len(base))

WritesSome ==
    /\ stage = "body" /\ ~Reading /\ position < Len(request.text)
    /\ \/ \E end \in position + 1 .. Len(request.text) :
            /\ data' = [data EXCEPT
                 ![file] = Overwrites(@, position, SubSeq(request.text, position + 1, end))]
            /\ position' = end /\ Goes("body")
       \/ Fails("device") /\ UNCHANGED <<data, position>>
    /\ UNCHANGED <<request, entry, kind, alone, changes, readVars, before, file>>

WriteEnds ==
    /\ stage = "body" /\ ~Reading /\ position = Len(request.text)
    /\ Succeeds
    /\ UNCHANGED <<request, fileVars, readVars, before, file, position>>

ThreadStep ==
    \/ Checks \/ Opens \/ Sizes \/ ReadsMore \/ TakesLine \/ ReadEnds
    \/ Truncates \/ WritesSome \/ WriteEnds

-----------------------------------------------------------------------------
(* Other requests and other programs *)

\* The path is given another object, as an editor does that saves by renaming.
Exchanges ==
    /\ changes < MaxChanges /\ changes' = changes + 1
    /\ entry' \in (Objects \cup {Nothing}) \ {entry}
    /\ UNCHANGED <<awaitVars, request, kind, data, alone, readVars, threadVars>>

Rewrites ==
    /\ changes < MaxChanges /\ changes' = changes + 1
    /\ \E x \in Objects, text \in Contents :
         /\ kind[x] = "file" /\ data' = [data EXCEPT ![x] = text]
         /\ alone' = (alone /\ x # file)
    /\ UNCHANGED <<awaitVars, request, entry, kind, readVars, threadVars>>

Awaits == stage # "call" /\ AwaitStep /\ UNCHANGED <<request, fileVars, readVars, threadVars>>

Next == Calls \/ ThreadStep \/ Exchanges \/ Rewrites \/ Awaits

Spec == Init /\ [][Next]_vars

-----------------------------------------------------------------------------
(* Properties *)

\* What the lines of a text are, and the characters of those that were asked for.
Bounds(text) == {i \in 1 .. Len(text) : EndsLine(text, i) \/ i = Len(text)}
LineOf(text, i) == 1 + Len(SelectSeq([j \in 1 .. Len(text) |-> j], LAMBDA j : j < i /\ j \in Bounds(text)))
Wanted(text) ==
    LET positions == SelectSeq([j \in 1 .. Len(text) |-> j],
            LAMBDA j : /\ LineOf(text, j) >= StartLine
                       /\ request.limit # NoLimit => LineOf(text, j) < StartLine + request.limit)
    IN [i \in 1 .. Len(positions) |-> text[positions[i]]]

\* README.md:891-896: a read that succeeds returned the lines that were asked
\* for, all of them and nothing else, and one that fails for a limit had to; a
\* write that succeeds left its text; none touched another file than the one
\* that was checked.  Others may have changed the file meanwhile, and then a
\* read that succeeds still keeps its limits.
FileTextTrue ==
    /\ file # Nothing /\ before # Nothing => file = before
    /\ stage = "over" /\ work = "ok" /\ Reading =>
         Len(selected) <= CharLimit /\ position <= ByteLimit /\ (request.limit # NoLimit => taken <= request.limit)
    /\ stage = "over" /\ alone /\ file # Nothing /\ Reading =>
         /\ work = "ok" => selected = Wanted(data[file])
         /\ failure = "limit" => Len(data[file]) > ByteLimit \/ Len(Wanted(data[file])) > CharLimit
    /\ stage = "over" /\ alone /\ ~Reading /\ work = "ok" => data[file] = request.text
=============================================================================
