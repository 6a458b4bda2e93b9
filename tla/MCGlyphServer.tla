---------------------------- MODULE MCGlyphServer ----------------------------
(* Instances of GlyphServer for TLC. *)
EXTENDS GlyphServer, TLC

CONSTANTS g, h, c1, c2

(* One glyph asks for a scope, the others for none. *)
OneScope == [n \in Glyphs |-> IF n = g THEN Scopes ELSE {}]

(* The texts of names and callIds: "a" and "a:b", and "c" and "b:c".  The  *)
(* glyph "a" called with "b:c" and the glyph "a:b" called with "c" have    *)
(* the same dedupe key.                                                    *)
Texts == g :> <<"a">> @@ h :> <<"a", "b">> @@ c1 :> <<"c">> @@ c2 :> <<"b", "c">>

(* Requests are interchangeable: a request's token and callId are drawn at *)
(* random, and no action tells two of them apart.  So are inputs.          *)
Symmetric == Permutations(Requests) \cup Permutations(Inputs)
==============================================================================
