-------------------------- MODULE PipelineFraming --------------------------
(***************************************************************************)
(* The frame accumulator of Pipeline::out_async_recv (core/pipeline.cpp):  *)
(* each read appends its bytes to out_read_data, and the loop takes whole  *)
(* frames off its front until PipelineRequest::parse needs more bytes (-1) *)
(* or finds a frame that is no frame (-2, the pipeline is destroyed).      *)
(*                                                                         *)
(* PipelineRequest is not in this tree; its wire format is the spec's:     *)
(* <cmd:u8> <session-id:u32-BE> <length:u16-BE> <data[length]>.  Bytes are *)
(* numbers in 0..255.  The server's byte stream is the encoding of a       *)
(* sequence of frames, cut into reads of any size from 1 to MaxRead.       *)
(***************************************************************************)
EXTENDS Naturals, Sequences, SequencesExt

CONSTANTS
    Streams,   \* the frame sequences the server may send
    MaxRead    \* the most bytes one async_read_some returns

\* PipelineRequest::Command and its wire code; anything else is unknown.
CmdCode == [CONNECT |-> 1, DATA |-> 2, ACK |-> 3, CLOSE |-> 4, ICMP |-> 5]
Cmds    == DOMAIN CmdCode
BadCode == 9                       \* a command byte parse does not know

\* Big-endian fixed-width integers, as generate writes and parse reads them.
U16BE(n) == <<(n \div 256) % 256, n % 256>>
U32BE(n) == <<(n \div 16777216) % 256, (n \div 65536) % 256, (n \div 256) % 256, n % 256>>
FromBE(bs) == FoldLeft(LAMBDA acc, b : acc * 256 + b, 0, bs)

\* PipelineRequest::generate.  A frame whose cmd is "BAD" stands for bytes
\* with an unknown command code.
Encode(f) ==
    <<IF f.cmd = "BAD" THEN BadCode ELSE CmdCode[f.cmd]>>
        \o U32BE(f.id) \o U16BE(Len(f.data)) \o f.data
EncodeAll(fs) == FlattenSeq([j \in DOMAIN fs |-> Encode(fs[j])])

NoReq == [cmd |-> "NONE", id |-> 0, data |-> <<>>]
CmdOf(c) == CHOOSE k \in Cmds : CmdCode[k] = c

\* Mutant: parse does not reject an unknown command code.
Parse_accepts_unknown(buf) ==
    IF Len(buf) < 7 THEN [ret |-> -1, req |-> NoReq, rest |-> buf]
    ELSE LET n == FromBE(SubSeq(buf, 6, 7)) IN
         IF Len(buf) < 7 + n THEN [ret |-> -1, req |-> NoReq, rest |-> buf]
         ELSE [ret |-> 0,
               req |-> [cmd |-> IF buf[1] \in {CmdCode[k] : k \in Cmds}
                                THEN CmdOf(buf[1]) ELSE "BAD",
                        id |-> FromBE(SubSeq(buf, 2, 5)),
                        data |-> SubSeq(buf, 8, 7 + n)],
               rest |-> SubSeq(buf, 8 + n, Len(buf))]

\* PipelineRequest::parse(out_read_data): -1 needs more bytes, -2 the bytes
\* are no frame, 0 a frame was taken off the front (rest is what is left).
Parse(buf) ==
    IF Len(buf) < 7 THEN [ret |-> -1, req |-> NoReq, rest |-> buf]
    ELSE LET n == FromBE(SubSeq(buf, 6, 7)) IN
         IF buf[1] \notin {CmdCode[k] : k \in Cmds}
         THEN [ret |-> -2, req |-> NoReq, rest |-> buf]
         ELSE IF Len(buf) < 7 + n THEN [ret |-> -1, req |-> NoReq, rest |-> buf]
         ELSE [ret |-> 0,
               req |-> [cmd |-> CmdOf(buf[1]), id |-> FromBE(SubSeq(buf, 2, 5)),
                        data |-> SubSeq(buf, 8, 7 + n)],
               rest |-> SubSeq(buf, 8 + n, Len(buf))]

\* Mutant: an if instead of the while: one frame per read at most.
FrameLoop_one_per_read(buf) ==
    IF buf = <<>> THEN [reqs |-> <<>>, rest |-> <<>>, bad |-> FALSE]
    ELSE LET r == Parse(buf) IN
         CASE r.ret = -1 -> [reqs |-> <<>>, rest |-> buf, bad |-> FALSE]
           [] r.ret = -2 -> [reqs |-> <<>>, rest |-> buf, bad |-> TRUE]
           [] OTHER      -> [reqs |-> <<r.req>>, rest |-> r.rest, bad |-> FALSE]

RECURSIVE FrameLoop_garbage_waits(_)
\* Mutant: -2 is handled like -1: the loop breaks and waits for more bytes.
FrameLoop_garbage_waits(buf) ==
    IF buf = <<>> THEN [reqs |-> <<>>, rest |-> <<>>, bad |-> FALSE]
    ELSE LET r == Parse(buf) IN
         CASE r.ret \in {-1, -2} -> [reqs |-> <<>>, rest |-> buf, bad |-> FALSE]
           [] OTHER      -> LET t == FrameLoop_garbage_waits(r.rest) IN
                            [t EXCEPT !.reqs = <<r.req>> \o @]

\* The while loop over out_read_data: the frames it dispatches, in order,
\* what stays in the accumulator, and whether it destroyed the pipeline.
RECURSIVE FrameLoop(_)
FrameLoop(buf) ==
    IF buf = <<>> THEN [reqs |-> <<>>, rest |-> <<>>, bad |-> FALSE]
    ELSE LET r == Parse(buf) IN
         CASE r.ret = -1 -> [reqs |-> <<>>, rest |-> buf, bad |-> FALSE]
           [] r.ret = -2 -> [reqs |-> <<>>, rest |-> buf, bad |-> TRUE]
           [] OTHER      -> LET t == FrameLoop(r.rest) IN
                            [t EXCEPT !.reqs = <<r.req>> \o @]

VARIABLES
    stream,      \* the frames the server sent
    pos,         \* how many bytes of their encoding the pipeline has read
    acc,         \* out_read_data
    dispatched,  \* the frames the loop has handed on, in order
    destroyed    \* the pipeline has been destroyed

vars == <<stream, pos, acc, dispatched, destroyed>>

Wire == EncodeAll(stream)

Init ==
    /\ stream \in Streams
    /\ pos = 0 /\ acc = <<>> /\ dispatched = <<>> /\ destroyed = FALSE

\* The handler of out_socket.async_read_some: append the bytes read, run
\* the frame loop, and read again unless the loop destroyed the pipeline.
RecvHandler ==
    /\ ~destroyed /\ pos < Len(Wire)
    /\ \E k \in 1..MaxRead :
         LET upto == IF pos + k > Len(Wire) THEN Len(Wire) ELSE pos + k
             r    == FrameLoop(acc \o SubSeq(Wire, pos + 1, upto))
         IN  /\ pos' = upto
             /\ acc' = r.rest
             /\ dispatched' = dispatched \o r.reqs
             /\ destroyed' = r.bad
    /\ UNCHANGED stream

Next == RecvHandler

Spec == Init /\ [][Next]_vars

-----------------------------------------------------------------------------
(* Properties.  The reference: the frames of the stream up to the first    *)
(* one that is no frame.                                                   *)

RECURSIVE GoodPrefix(_)
GoodPrefix(fs) ==
    IF fs = <<>> \/ Head(fs).cmd = "BAD" THEN <<>> ELSE <<Head(fs)>> \o GoodPrefix(Tail(fs))
HasBad(fs) == \E j \in DOMAIN fs : fs[j].cmd = "BAD"

Bytes == 0..255
TypeOK ==
    /\ pos \in 0..Len(Wire) /\ acc \in Seq(Bytes) /\ destroyed \in BOOLEAN
    /\ \A j \in DOMAIN dispatched :
           dispatched[j].cmd \in Cmds /\ dispatched[j].data \in Seq(Bytes)

\* However the byte stream is cut into reads (spec scenario 6: even one
\* byte at a time), the loop dispatches the frames once each and in order,
\* and when every byte has been read it has dispatched all of them and
\* kept nothing back.
FramesReassembled ==
    /\ IsPrefix(dispatched, GoodPrefix(stream))
    /\ (pos = Len(Wire) /\ ~HasBad(stream)) => (dispatched = stream /\ acc = <<>>)

\* Bytes that are no frame destroy the pipeline as soon as their header is
\* in (the spec: an unknown cmd is a hard error), and only then.
GarbageDestroysPipeline ==
    /\ destroyed => HasBad(stream)
    /\ (pos = Len(Wire) /\ HasBad(stream)) => destroyed

=============================================================================
