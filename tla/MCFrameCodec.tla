---------------------------- MODULE MCFrameCodec ----------------------------
(* FrameCodec with bytes of two values and payloads of up to two bytes.     *)
EXTENDS FrameCodec

MCMagic == <<1, 0, 1, 1>>

(* Nothing, one byte, the cap, a payload that begins like a frame, and one  *)
(* over the cap.                                                            *)
MCFrames ==
  {[type |-> 1, payload |-> <<>>], [type |-> 0, payload |-> <<1>>],
   [type |-> 1, payload |-> <<1, 0>>], [type |-> 0, payload |-> <<1, 0, 1>>]}

(* Another magic; one byte over the cap; far over it.                       *)
MCJunk ==
  {<<1, 0, 1, 0, 1, 0, 0, 0, 0>>, <<1, 0, 1, 1, 1, 0, 0, 1, 1>>,
   <<1, 0, 1, 1, 1, 1, 0, 0, 1>>}
=============================================================================
