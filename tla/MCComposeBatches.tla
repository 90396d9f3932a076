-------------------------- MODULE MCComposeBatches ---------------------------
(* Two lines, and the pieces that shorten, lengthen or restore them. *)
EXTENDS ComposeBatches

CONSTANT NL

MCAtoms == {"a", "b", NL}
MCLineEnds == {NL}
MCTexts == {<<"a", NL, "a">>}
MCPieces == {<<>>, <<"a">>, <<NL, "b">>}
=============================================================================
