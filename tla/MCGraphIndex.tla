----------------------------- MODULE MCGraphIndex -----------------------------
(***************************************************************************)
(* Small instances of GraphIndex for TLC.                                  *)
(***************************************************************************)
EXTENDS GraphIndex

CONSTANTS d1, d2, c1, c2, shared, x, y, z

\* Two documents with a chunk of their own and one they share.
TwoDocuments(d) == IF d = d1 THEN {c1, shared} ELSE {c2, shared}

\* z is related to x, but never named as an entity.
SomeMentions(c) == IF c = c2 THEN {x} ELSE {x, y}
SomeRelations(c) == IF c = c2 THEN {{x, z}} ELSE {{x, y}}
===============================================================================
