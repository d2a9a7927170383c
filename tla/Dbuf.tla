-------------------------------- MODULE Dbuf --------------------------------
(***************************************************************************)
(* The queues of a connection, byte by byte: dbuf_put and dbuf_delete over *)
(* a chain of blocks, extract_one_line that takes one line out of what     *)
(* recv() brought, in whatever pieces, and send_queued_write that takes as *)
(* much of the first block as send() accepts.                              *)
(***************************************************************************)
EXTENDS Integers, Sequences, SequencesExt

CONSTANTS
    BlockSize,  \* DBUF_BLOCK_SIZE
    MaxLine,    \* IRCD_BUFSIZE - 2
    Letter,     \* bytes of a line other than spaces
    MaxBytes    \* bound: bytes that go through a queue

ASSUME DbufAssumption == {BlockSize, MaxLine} \subseteq Nat \ {0} /\ MaxBytes \in Nat

VARIABLES
    use,        \* "recv": buf_recvq; "send": buf_sendq
    blocks,     \* the chain of blocks, each a sequence of bytes
    stream,     \* history: the bytes put in
    out         \* history: the lines, or the bytes, taken out

dbufVars == <<use, blocks, stream, out>>

Byte == Letter \cup {"space", "eol"}

DbufTypeOK ==
    /\ use \in {"recv", "send"}
    /\ blocks \in Seq(Seq(Byte)) /\ stream \in Seq(Byte)
    /\ out \in Seq(Seq(Byte))

-----------------------------------------------------------------------------
(* dbuf.c *)

Put(q, b) ==
    IF q = <<>> \/ Len(Last(q)) = BlockSize THEN Append(q, <<b>>)
    ELSE [q EXCEPT ![Len(q)] = Append(@, b)]

DbufPut(q, data) ==
    LET at[i \in 0..Len(data)] == IF i = 0 THEN q ELSE Put(at[i - 1], data[i])
    IN at[Len(data)]

\* One round: a whole block, or the beginning of one.
DeleteFirst(q, count) ==
    IF count = 0 THEN [blocks |-> q, count |-> 0]
    ELSE IF count < Len(Head(q))
         THEN [blocks |-> <<SubSeq(Head(q), count + 1, Len(Head(q)))>> \o Tail(q), count |-> 0]
    ELSE [blocks |-> Tail(q), count |-> count - Len(Head(q))]

DbufDelete(q, count) ==
    LET at[i \in 0..Len(q)] == IF i = 0 THEN [blocks |-> q, count |-> count]
                               ELSE DeleteFirst(at[i - 1].blocks, at[i - 1].count)
    IN at[Len(q)].blocks

\* What the blocks hold, one after the other.
Bytes(q) ==
    LET at[i \in 0..Len(q)] == IF i = 0 THEN <<>> ELSE at[i - 1] \o q[i]
    IN at[Len(q)]

-----------------------------------------------------------------------------
(* extract_one_line *)

\* The three phases over the bytes of the queue: skip what is empty, copy the
\* line, skip what is empty after it (2); the next line's first byte ends the scan
\* (3).
ScanByte(s, c) ==
    IF s.phase = 3 THEN s
    ELSE IF c = "eol" \/ (c = "space" /\ s.phase # 1) THEN
           [s EXCEPT !.empty = @ + 1, !.phase = IF @ = 1 THEN 2 ELSE @]
    ELSE IF s.phase = 2 THEN [s EXCEPT !.phase = 3]
    ELSE [s EXCEPT !.phase = 1, !.size = @ + 1,
                   !.line = IF s.size < MaxLine THEN Append(@, c) ELSE @]

NotScanned == [phase |-> 0, line |-> <<>>, size |-> 0, empty |-> 0]

Scan(bytes) ==
    LET at[i \in 0..Len(bytes)] == IF i = 0 THEN NotScanned ELSE ScanByte(at[i - 1], bytes[i])
    IN at[Len(bytes)]

\* Mutant: what was scanned is deleted, the beginning of a line too.
TakenAll(scan) == scan.size + scan.empty

\* A line that is not ended yet stays in the queue; what was empty before it
\* does not.
Taken(scan) == IF scan.phase >= 2 THEN scan.size + scan.empty ELSE scan.empty

-----------------------------------------------------------------------------

\* iorecv_default, or iosend_default: bytes come in.
Arrive ==
    /\ \E n \in 1..(MaxBytes - Len(stream)) :
         \E data \in [1..n -> IF use = "recv" THEN Byte ELSE Letter] :
           /\ blocks' = DbufPut(blocks, data)
           /\ stream' = stream \o data
    /\ UNCHANGED <<use, out>>

ExtractOneLine ==
    /\ use = "recv"
    /\ LET scan == Scan(Bytes(blocks)) IN
       /\ blocks' = DbufDelete(blocks, Taken(scan))
       /\ out' = IF scan.phase >= 2 THEN Append(out, scan.line) ELSE out
    /\ UNCHANGED <<use, stream>>

\* One send() of send_queued_write: part of the first block, or all.
SendFirstBlock ==
    /\ use = "send" /\ blocks # <<>>
    /\ \E retlen \in 1..Len(Head(blocks)) :
         /\ out' = Append(out, SubSeq(Head(blocks), 1, retlen))
         /\ blocks' = DbufDelete(blocks, retlen)
    /\ UNCHANGED <<use, stream>>

DbufInit == use \in {"recv", "send"} /\ blocks = <<>> /\ stream = <<>> /\ out = <<>>

DbufNext == Arrive \/ ExtractOneLine \/ SendFirstBlock

DbufSpec == DbufInit /\ [][DbufNext]_dbufVars

-----------------------------------------------------------------------------

\* What a line is, byte by byte, whatever the pieces it came in: the bytes up to
\* an end of line without the spaces before them, if there are any, cut at MaxLine.
NoLine == [lines |-> <<>>, line |-> <<>>]

Read(s, b) ==
    IF b = "eol" THEN IF s.line = <<>> THEN s
                      ELSE [lines |-> Append(s.lines, s.line), line |-> <<>>]
    ELSE IF b = "space" /\ s.line = <<>> THEN s
    ELSE [s EXCEPT !.line = IF Len(@) < MaxLine THEN Append(@, b) ELSE @]

AllRead(bytes) ==
    LET at[i \in 0..Len(bytes)] == IF i = 0 THEN NoLine ELSE Read(at[i - 1], bytes[i])
    IN at[Len(bytes)]

Lines(bytes) == AllRead(bytes).lines

\* However recv() cuts the stream and whenever a line is taken, the lines are
\* those of the stream, each once and in order; and what send() has taken with
\* what is queued is what was to be sent (extract_one_line, dbuf_put,
\* dbuf_delete).
StreamKept ==
    IF use = "recv" THEN out \o Lines(Bytes(blocks)) = Lines(stream)
                  ELSE Bytes(out) \o Bytes(blocks) = stream
=============================================================================
