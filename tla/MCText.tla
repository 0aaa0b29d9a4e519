------------------------------- MODULE MCText -------------------------------
(***************************************************************************)
(* Small buffers and, for each kind of text, the bytes at the edges of     *)
(* what the code tells apart.                                              *)
(***************************************************************************)
EXTENDS Text

Edges == [
    line   |-> {NUL, NL, 97, 98},
    choice |-> {NUL, NL, 32, 45, 48, 49, 57, 120},
    name   |-> {Dot, Slash, 97, 127, 128, 143, 144, 159, 160, 191, 192, 193, 194,
                195, 223, 224, 237, 239, 240, 244, 245},
    path   |-> {Dot, 97, 128, 135, 159, 191, 195, 204},
    field  |-> {NL, 31, 32, Quote, Backslash, 97, 255}]

Lengths == [line |-> 7, choice |-> 6, name |-> 4, path |-> 5, field |-> 6]
=============================================================================
