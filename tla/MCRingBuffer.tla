---------------------------- MODULE MCRingBuffer ----------------------------
(***************************************************************************)
(* A buffer of four slots (capacity three), as ring_buffer_create(3) makes *)
(* it, so that both indices wrap around several times.                     *)
(***************************************************************************)
EXTENDS RingBuffer

MCSize == UpToCeiling(3)
=============================================================================
