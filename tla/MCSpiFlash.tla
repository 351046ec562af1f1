---------------------------- MODULE MCSpiFlash ----------------------------
(* Small instances of SpiFlash for TLC. *)
EXTENDS SpiFlash

MCBuffers == {<<>>, <<{"b0"}, {}, {}>>}
MCOneBuffer == {<<{"b0"}, {}, {}>>}
MCJedecId == <<{}, {"b0"}, {"b0"}>>
=============================================================================
