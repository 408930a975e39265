----------------------------- MODULE FrameCodec -----------------------------
(***************************************************************************)
(* The frame codec (net/frame.hpp, p2p/frame.cpp) over one connection: a   *)
(* writer that calls write_frame, a byte stream that may split and merge   *)
(* what is sent, and a reader that calls read_frame.  A frame is 4 bytes   *)
(* of magic, one of type, 4 of length in big-endian order, and the         *)
(* payload.  No process of the repository calls the codec yet; the caller  *)
(* here closes the connection at the first failure, as frame.hpp's errors  *)
(* suggest.                                                                *)
(***************************************************************************)
EXTENDS Integers, Sequences

CONSTANTS
  Radix,           \* the values of a byte, 256 in the code
  FRAME_MAGIC,     \* the first four bytes of a frame
  MAX_FRAME_LEN,   \* the cap on a payload
  Frames,          \* what callers ask to write, oversize payloads included
  Junk,            \* headers another program may send in place of a frame
  SocketBuffer,    \* how many bytes the connection holds
  MaxFrames,       \* bound on the frames written
  MaxFaults        \* bound on the failures of recv and send

Byte == 0 .. Radix - 1

ASSUME FrameAssumption ==
  /\ Radix \in Nat /\ Radix > 1
  /\ FRAME_MAGIC \in [1 .. 4 -> Byte]
  /\ MAX_FRAME_LEN \in 0 .. Radix * Radix * Radix * Radix - 1
  /\ Frames \subseteq [type : Byte, payload : Seq(Byte)]
  /\ Junk \subseteq [1 .. 9 -> Byte]
  /\ SocketBuffer \in Nat \ {0}
  /\ MaxFrames \in Nat /\ MaxFaults \in Nat

VARIABLES
  wpc,      \* the writer: idle, in one of its two write_all, or closed
  out,      \* the bytes that write_all has left to send
  begun,    \* the frames write_frame has taken up
  acked,    \* for how many of them it returned success
  refused,  \* the result of the last call was a refusal of the payload
  junk,     \* what another program sent instead, <<>> if nothing
  wire,     \* the bytes on their way
  rpc,      \* the reader: idle, in one of its two read_exact, or failed
  buf,      \* the bytes read_exact has so far
  type,     \* the type read from the header
  length,   \* how many bytes the current read_exact is to read
  rerr,     \* the error read_frame returned
  got,      \* the frames it returned
  faults    \* failures so far

writerVars == <<wpc, out, begun, acked, refused, junk>>
readerVars == <<rpc, buf, type, length, rerr, got>>
vars == <<writerVars, wire, readerVars, faults>>

FRAME_HEADER_LEN == 9

(* write_frame's length bytes, most significant first ...                   *)
EncodeLength(n) ==
  <<(n \div (Radix * Radix * Radix)) % Radix, (n \div (Radix * Radix)) % Radix,
    (n \div Radix) % Radix, n % Radix>>

(* Mutant: the last byte is the most significant one.                       *)
DecodeLength_LittleEndian(h) ==
  ((h[9] * Radix + h[8]) * Radix + h[7]) * Radix + h[6]

(* ... and read_frame's reading of them.                                    *)
DecodeLength(h) == ((h[6] * Radix + h[7]) * Radix + h[8]) * Radix + h[9]

Header(f) == FRAME_MAGIC \o <<f.type>> \o EncodeLength(Len(f.payload))

MagicOK(h) == \A i \in 1 .. 4 : h[i] = FRAME_MAGIC[i]

(* Mutant: nothing is refused.                                              *)
Oversize_Never(n) == n < 0

Oversize(n) == n > MAX_FRAME_LEN

(* What another program sends in place of a frame is no frame's header.     *)
ASSUME JunkAssumption ==
  \A h \in Junk : ~MagicOK(h) \/ DecodeLength(h) > MAX_FRAME_LEN

Init ==
  /\ wpc = "idle" /\ out = <<>> /\ begun = <<>> /\ acked = 0
  /\ refused = FALSE /\ junk = <<>>
  /\ wire = <<>>
  /\ rpc = "idle" /\ buf = <<>> /\ type = 0 /\ length = 0 /\ rerr = "none" /\ got = <<>>
  /\ faults = 0

-----------------------------------------------------------------------------
(* The writer.                                                              *)

(* write_frame is called: a payload over the cap is refused and nothing is  *)
(* sent, else write_all of the header begins.                               *)
WriteFrame ==
  /\ wpc = "idle"
  /\ \E f \in Frames :
       IF Oversize(Len(f.payload))
       THEN /\ refused' = TRUE
            /\ UNCHANGED <<wpc, out, begun>>
       ELSE /\ Len(begun) < MaxFrames
            /\ wpc' = "header"
            /\ out' = Header(f)
            /\ begun' = Append(begun, f)
            /\ refused' = FALSE
  /\ UNCHANGED <<acked, junk, wire, readerVars, faults>>

(* One send() of write_all: some of what is left, as the connection has     *)
(* room.                                                                    *)
Send ==
  /\ wpc \in {"header", "payload", "junk"} /\ out # <<>>
  /\ rpc # "failed"
  /\ \E n \in 1 .. Len(out) :
       /\ Len(wire) + n <= SocketBuffer
       /\ wire' = wire \o SubSeq(out, 1, n)
       /\ out' = SubSeq(out, n + 1, Len(out))
  /\ UNCHANGED <<wpc, begun, acked, refused, junk, readerVars, faults>>

(* write_all of the header is done: the payload if there is one, else       *)
(* write_frame returns.                                                     *)
HeaderSent ==
  /\ wpc = "header" /\ out = <<>>
  /\ LET f == begun[Len(begun)] IN
     IF f.payload # <<>>
     THEN wpc' = "payload" /\ out' = f.payload /\ UNCHANGED acked
     ELSE wpc' = "idle" /\ acked' = acked + 1 /\ UNCHANGED out
  /\ UNCHANGED <<begun, refused, junk, wire, readerVars, faults>>

PayloadSent ==
  /\ wpc = "payload" /\ out = <<>>
  /\ wpc' = "idle"
  /\ acked' = acked + 1
  /\ UNCHANGED <<out, begun, refused, junk, wire, readerVars, faults>>

(* send() fails, always once the reader has gone, and the caller closes.    *)
SendFails ==
  /\ wpc \in {"header", "payload", "junk"} /\ out # <<>>
  /\ \/ rpc = "failed" /\ UNCHANGED faults
     \/ rpc # "failed" /\ faults < MaxFaults /\ faults' = faults + 1
  /\ wpc' = "closed"
  /\ out' = <<>>
  /\ UNCHANGED <<begun, acked, refused, junk, wire, readerVars>>

(* The caller is done and closes the connection.                            *)
Close ==
  /\ wpc = "idle"
  /\ wpc' = "closed"
  /\ UNCHANGED <<out, begun, acked, refused, junk, wire, readerVars, faults>>

(* The peer is another program, and sends a header that is no frame's.      *)
SendJunk ==
  /\ wpc = "idle" /\ junk = <<>>
  /\ \E h \in Junk : junk' = h /\ out' = h
  /\ wpc' = "junk"
  /\ UNCHANGED <<begun, acked, refused, wire, readerVars, faults>>

JunkSent ==
  /\ wpc = "junk" /\ out = <<>>
  /\ wpc' = "closed"
  /\ UNCHANGED <<out, begun, acked, refused, junk, wire, readerVars, faults>>

-----------------------------------------------------------------------------
(* The reader.                                                              *)

(* read_frame is called: read_exact of the header begins.                   *)
ReadFrame ==
  /\ rpc = "idle"
  /\ rpc' = "header"
  /\ buf' = <<>>
  /\ length' = FRAME_HEADER_LEN
  /\ UNCHANGED <<writerVars, wire, type, rerr, got, faults>>

(* One recv() of read_exact: some of the bytes there, never past the end of *)
(* what is asked for.                                                       *)
Recv ==
  /\ rpc \in {"header", "body"} /\ Len(buf) < length
  /\ \E n \in 1 .. length - Len(buf) :
       /\ n <= Len(wire)
       /\ buf' = buf \o SubSeq(wire, 1, n)
       /\ wire' = SubSeq(wire, n + 1, Len(wire))
  /\ UNCHANGED <<writerVars, rpc, type, length, rerr, got, faults>>

(* read_frame returns error e.                                              *)
Fail(e) ==
  /\ rpc' = "failed"
  /\ rerr' = e
  /\ buf' = <<>> /\ length' = 0
  /\ UNCHANGED <<type, got>>

(* recv() gives 0: the writer has closed and all of its bytes are read.     *)
RecvClosed ==
  /\ rpc \in {"header", "body"} /\ Len(buf) < length
  /\ wpc = "closed" /\ wire = <<>>
  /\ Fail("SHORT_READ")
  /\ UNCHANGED <<writerVars, wire, faults>>

RecvFails ==
  /\ rpc \in {"header", "body"} /\ Len(buf) < length
  /\ faults < MaxFaults
  /\ faults' = faults + 1
  /\ Fail("IO_ERROR")
  /\ UNCHANGED <<writerVars, wire>>

(* The header is there: magic, then length, and only then a body.           *)
HeaderRead ==
  /\ rpc = "header" /\ Len(buf) = length
  /\ IF ~MagicOK(buf) THEN Fail("BAD_MAGIC")
     ELSE IF Oversize(DecodeLength(buf)) THEN Fail("OVERSIZE")
     ELSE /\ rpc' = "body"
          /\ type' = buf[5]
          /\ length' = DecodeLength(buf)
          /\ buf' = <<>>
          /\ UNCHANGED <<rerr, got>>
  /\ UNCHANGED <<writerVars, wire, faults>>

(* Mutant: one recv is taken for the whole body.                            *)
BodyRead_OneRecv ==
  /\ rpc = "body" /\ (buf # <<>> \/ length = 0)
  /\ got' = Append(got, [type |-> type, payload |-> buf])
  /\ rpc' = "idle"
  /\ buf' = <<>> /\ length' = 0
  /\ UNCHANGED <<writerVars, wire, type, rerr, faults>>

(* The body is there, at once if it is empty: read_frame returns the frame. *)
BodyRead ==
  /\ rpc = "body" /\ Len(buf) = length
  /\ got' = Append(got, [type |-> type, payload |-> buf])
  /\ rpc' = "idle"
  /\ buf' = <<>> /\ length' = 0
  /\ UNCHANGED <<writerVars, wire, type, rerr, faults>>

-----------------------------------------------------------------------------
(* Both ends are done with the connection.                                  *)
Over ==
  /\ wpc = "closed" /\ rpc = "failed"
  /\ UNCHANGED vars

Writing == Send \/ HeaderSent \/ PayloadSent \/ JunkSent
Reading == ReadFrame \/ Recv \/ RecvClosed \/ HeaderRead \/ BodyRead

Next ==
  \/ WriteFrame \/ Writing \/ SendFails \/ Close \/ SendJunk
  \/ Reading \/ RecvFails
  \/ Over

Spec == Init /\ [][Next]_vars

(* A call that has begun goes on, and the reader calls again.               *)
FairSpec == Spec /\ WF_vars(Writing) /\ WF_vars(Reading)

-----------------------------------------------------------------------------
(* Every variable has its type; in particular no more than the cap is ever  *)
(* held for a body (frame.hpp, "Validates magic and length BEFORE           *)
(* allocating the body").                                                   *)
TypeOK ==
  /\ wpc \in {"idle", "header", "payload", "junk", "closed"}
  /\ out \in Seq(Byte) /\ wire \in Seq(Byte) /\ Len(wire) <= SocketBuffer
  /\ begun \in Seq(Frames) /\ acked \in 0 .. Len(begun)
  /\ refused \in BOOLEAN
  /\ junk \in {<<>>} \cup Junk
  /\ rpc \in {"idle", "header", "body", "failed"}
  /\ length \in 0 .. IF rpc = "header" THEN FRAME_HEADER_LEN ELSE MAX_FRAME_LEN
  /\ buf \in Seq(Byte) /\ Len(buf) <= length
  /\ type \in Byte
  /\ rerr \in {"none", "BAD_MAGIC", "OVERSIZE", "SHORT_READ", "IO_ERROR"}
  /\ got \in Seq([type : Byte, payload : Seq(Byte)])
  /\ faults \in 0 .. MaxFaults

(* The codec restores discrete messages from a byte stream that splits and  *)
(* merges them (frame.hpp): FrameChannel is implemented.                    *)
Channel ==
  INSTANCE FrameChannel WITH Frame <- Frames, written <- begun, delivered <- got
FrameChannelSpec == Channel!Spec

(* What an error of read_frame tells (frame.hpp, FrameError): magic and     *)
(* size are only ever the fault of another program, and when such a header  *)
(* or the end of the stream is reported, exactly the frames that were       *)
(* written whole have been returned, none lost and none half.  SHORT_READ   *)
(* is the end of the stream wherever it comes, in a frame or between two.   *)
ErrorsTrue ==
  /\ rerr = "BAD_MAGIC" => junk # <<>> /\ ~MagicOK(junk)
  /\ rerr = "OVERSIZE" => junk # <<>> /\ MagicOK(junk) /\ DecodeLength(junk) > MAX_FRAME_LEN
  /\ rerr \in {"BAD_MAGIC", "OVERSIZE", "SHORT_READ"} => Len(got) = acked

(* SHORT_READ says "peer closed mid-frame" (frame.hpp): the peer had begun  *)
(* a frame, or something else, and not finished it.                         *)
ShortReadMidFrame == rerr = "SHORT_READ" => acked < Len(begun) \/ junk # <<>>

(* A frame that write_frame reported as written arrives, unless recv fails. *)
FramesArrive ==
  \A n \in 1 .. MaxFrames : acked >= n ~> Len(got) >= n \/ rerr = "IO_ERROR"
=============================================================================
