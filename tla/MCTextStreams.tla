--------------------------- MODULE MCTextStreams ---------------------------
(***************************************************************************)
(* Small instances, side by side, of the modules that put text together    *)
(* from pieces: TerminalOutput with every chunk of up to three bytes of    *)
(* characters of one, two and three bytes, cut anywhere; CursorStream with *)
(* every kind of agent; FileService with texts that have every kind of     *)
(* line end.  And of OwnedAwait, with both of its helpers.                 *)
(***************************************************************************)
EXTENDS TerminalOutput, TLC

CONSTANTS
    Pieces, MaxEvents, MaxRogue, EventLimit, ChunkLimit,
    x1, x2, Objects, Nothing, Requests, NoLimit, Contents, Chunk,
    CharLimit, ByteLimit, LineLimit, WriteLimit, MaxChanges

VARIABLES
    part,          \* which of them runs
    style, agent, said, wire, written, open, text, chunks, stamped, events, at, outcome,
    request, entry, kind, data, alone, changes, buffer, ended, line, taken, selected,
    stage, before, file, position, failure,
    helper, work, asked, caller, woken, thrown, expired, cancelled, ending, cut

Symmetric == Permutations(Objects)
AllChunks == UNION {[1 .. n -> 0 .. 3] : n \in 1 .. 3}
AllTexts ==
    {<<>>} \cup [1 .. 3 -> {"x", "cr", "lf"}]
        \cup {<<"lf", "x", "lf", "bad">>, <<"x", "cr", "lf", "x">>, <<"x", "x", "x", "x", "x">>}
AllRequests ==
    [kind : {"read"}, line : 0 .. 2, limit : {0, 1, 2, NoLimit}]
        \cup {[kind |-> "read", line |-> 1, limit |-> LineLimit + 1]}
        \cup [kind : {"write"}, text : {<<>>, <<"x">>, <<"x", "lf">>, <<"x", "x", "x", "x">>}]

Stream == INSTANCE CursorStream
Files == INSTANCE FileService WITH at <- caller, outcome <- ending

streamVars == <<style, agent, said, wire, written, open, text, chunks, stamped, events, at, outcome>>
ownVars == <<request, entry, kind, data, alone, changes, buffer, ended, line, taken, selected,
             stage, before, file, position, failure>>
awaitVars == <<helper, work, asked, caller, woken, thrown, expired, cancelled, ending, cut>>

\* The parts that do not run.
NoTerminal == Init /\ limit = 0
NoStream == Stream!Init /\ style = "plain"
NoFiles ==
    /\ Files!FileInit /\ entry = Nothing /\ kind = [x \in Objects |-> "file"]
    /\ request = [kind |-> "write", text |-> <<>>]
NoAwait == Files!AwaitInit /\ helper = "timed"

TextInit ==
    \/ part = "terminal" /\ Init /\ NoStream /\ NoFiles /\ NoAwait
    \/ part = "stream" /\ NoTerminal /\ Stream!Init /\ NoFiles /\ NoAwait
    \/ part = "files" /\ NoTerminal /\ NoStream /\ Files!Init
    \/ part = "await" /\ NoTerminal /\ NoStream /\ NoFiles /\ Files!AwaitInit
TextNext ==
    \/ part = "terminal" /\ Next /\ UNCHANGED <<part, streamVars, ownVars, awaitVars>>
    \/ part = "stream" /\ Stream!Next /\ UNCHANGED <<part, vars, ownVars, awaitVars>>
    \/ part = "files" /\ Files!Next /\ UNCHANGED <<part, vars, streamVars>>
    \/ part = "await" /\ Files!AwaitNext /\ UNCHANGED <<part, vars, streamVars, ownVars>>
TextSpec == TextInit /\ [][TextNext]_<<part, vars, streamVars, ownVars, awaitVars>>

StreamWhole == Stream!StreamWhole
OwnedToTheEnd == Files!OwnedToTheEnd

\* What the host services give the agent as text: the output of a terminal is
\* the longest run of its last characters, and what is read from a file the
\* lines that were asked for.
HostTextTrue == WholeCharacters /\ Files!FileTextTrue
=============================================================================
