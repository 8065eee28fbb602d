--------------------------- MODULE TerminalOutput ---------------------------
(***************************************************************************)
(* The captured output of a terminal (_capture_output, _trim_output and    *)
(* get_output of src/src/soulacp/services/terminal_service.py).  Chunks of *)
(* bytes arrive cut anywhere, and the last bytes under the limit are kept. *)
(* A byte is the first of a character of some length or continues one.     *)
(***************************************************************************)
EXTENDS Naturals, Sequences

CONSTANTS
    Limits,       \* values of outputByteLimit
    Chunks,       \* the chunks that read() may return
    MaxChunks     \* bound on their number

ASSUME OutputAssumption == Limits \subseteq Nat /\ MaxChunks \in Nat

VARIABLES
    limit,             \* output_byte_limit
    sent,              \* everything the process wrote that was read
    output, truncated,
    reads

vars == <<limit, sent, output, truncated, reads>>

\* A byte that continues a character carries 0, a first byte its length.
Continues(b) == b = 0

\* Every variable keeps its type, and the output its limit.
TypeOK ==
    /\ limit \in Limits /\ sent \in Seq(Nat) /\ output \in Seq(Nat) /\ Len(output) <= limit
    /\ truncated \in BOOLEAN /\ reads \in 0 .. MaxChunks

Init == limit \in Limits /\ sent = <<>> /\ output = <<>> /\ truncated = FALSE /\ reads = 0

\* The suffix after the leading bytes that continue a character.
\* Mutant of Whole: nothing is dropped.
WholeAlready(bytes) == bytes
Whole(bytes) ==
    LET starts == {i \in 1 .. Len(bytes) : ~Continues(bytes[i])}
    IN IF starts = {} THEN <<>> ELSE SubSeq(bytes, CHOOSE i \in starts : \A j \in starts : i <= j, Len(bytes))

\* Mutant of Trimmed: one byte too many is kept.
TrimmedLate(bytes) ==
    IF Len(bytes) <= limit + 1 THEN bytes
    ELSE Whole(SubSeq(bytes, Len(bytes) - limit + 1, Len(bytes)))
Trimmed(bytes) ==
    IF Len(bytes) <= limit THEN bytes
    ELSE Whole(SubSeq(bytes, Len(bytes) - limit + 1, Len(bytes)))

\* Mutants of Read: the output is trimmed before the chunk is added, or the flag tells only whether the last chunk was cut.
ReadAfter ==
    /\ reads < MaxChunks /\ reads' = reads + 1 /\ UNCHANGED limit
    /\ \E chunk \in Chunks :
         /\ sent' = sent \o chunk
         /\ output' = Trimmed(output) \o chunk
         /\ truncated' = (truncated \/ Len(output \o chunk) > limit)
ReadLast ==
    /\ reads < MaxChunks /\ reads' = reads + 1 /\ UNCHANGED limit
    /\ \E chunk \in Chunks :
         /\ sent' = sent \o chunk
         /\ output' = Trimmed(output \o chunk)
         /\ truncated' = (Len(output \o chunk) > limit)
Read ==
    /\ reads < MaxChunks /\ reads' = reads + 1 /\ UNCHANGED limit
    /\ \E chunk \in Chunks :
         /\ sent' = sent \o chunk
         /\ output' = Trimmed(output \o chunk)
         /\ truncated' = (truncated \/ Len(output \o chunk) > limit)

Next == Read
Spec == Init /\ [][Next]_vars

-----------------------------------------------------------------------------
(* Properties *)

\* Trimming after every chunk shows what trimming the whole output once would
\* show, wherever the chunks were cut; get_output() ignores the bytes that
\* continue no character.
TrimmedOnce == Whole(output) = Whole(Trimmed(sent))

\* The caller is told that output is missing exactly when some is.
TruncatedTrue == truncated <=> output # sent

\* Where the process writes characters, the last of which may still be arriving,
\* the output is the longest run of the last ones that fits the limit.
Characters(bytes) ==
    /\ bytes # <<>> => ~Continues(bytes[1])
    /\ \A i, k \in 1 .. Len(bytes) :
          ~Continues(bytes[i]) /\ i < k /\ k <= i + bytes[i] =>
              (Continues(bytes[k]) <=> k < i + bytes[i])
Starts == {i \in 1 .. Len(sent) + 1 : i = Len(sent) + 1 \/ ~Continues(sent[i])}
WholeCharacters ==
    Characters(sent) =>
        \E i \in Starts :
            /\ output = SubSeq(sent, i, Len(sent)) /\ Len(output) <= limit
            /\ \A j \in Starts : j < i => Len(sent) - j + 1 > limit
=============================================================================
