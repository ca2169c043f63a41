----------------------------- MODULE MCNdsScreen -----------------------------
(* Both screens with their four buffers and the c0 buffer.                  *)
EXTENDS NdsScreen
MCBuffers == {Up0, Up1, Down0, Down1, C0}
=============================================================================
