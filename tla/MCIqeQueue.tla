----------------------------- MODULE MCIqeQueue -----------------------------
(* A small instance of the request ring: one video buffer, one audio buffer *)
(* and the c0 buffer on a ring of three slots, so that it is full and wraps. *)
EXTENDS IqeQueue
CONSTANTS video0, audio0, c0set
MCBuffers == {video0, audio0, c0set}
=============================================================================
