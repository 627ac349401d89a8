---------------------------- MODULE MCLineReader ----------------------------
(* Lines of up to six characters through a buffer of two: they fit, they *)
(* overflow it, and they overflow it twice.                                *)
EXTENDS LineReader
=============================================================================
