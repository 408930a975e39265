---------------------------- MODULE FrameChannel ----------------------------
(***************************************************************************)
(* What the frame codec promises over one connection (frame.hpp): discrete *)
(* messages.  The reader is given the frames the writer was asked to       *)
(* write, each whole, once and in order, whatever the byte stream did.     *)
(***************************************************************************)
EXTENDS Naturals, Sequences

CONSTANT Frame        \* the frames that may be written

VARIABLES written,    \* the frames write_frame has taken
          delivered   \* the frames read_frame has returned

Init == written = <<>> /\ delivered = <<>>

Write ==
  /\ \E f \in Frame : written' = Append(written, f)
  /\ UNCHANGED delivered

Deliver ==
  /\ Len(delivered) < Len(written)
  /\ delivered' = Append(delivered, written[Len(delivered) + 1])
  /\ UNCHANGED written

Next == Write \/ Deliver

Spec == Init /\ [][Next]_<<written, delivered>>
=============================================================================
