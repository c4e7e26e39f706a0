--------------------------- MODULE MCFixValidate ---------------------------
(***************************************************************************)
(* Every hunk body of up to three lines over two texts, alone, cut in two  *)
(* hunks, with a line that says nothing, under no header, a missing, an    *)
(* outside or a binary target, two headers, or a header inside the hunk,   *)
(* or followed by a rename; against every target file of up to three       *)
(* lines.                                                                  *)
(***************************************************************************)
EXTENDS FixValidate, TLC

Line(tag, text) == [tag |-> tag, text |-> text]
To(path) == Line("+++", path)
Hunk == Line("@@", "")

Texts2 == {"a", "b"}
Bodies == SeqOf([tag : {" ", "-", "+"}, text : Texts2], 3)
ShortBodies == SeqOf([tag : {" ", "-", "+"}, text : Texts2], 2)

MCDiffs ==
    {<< >>}
    \union {<<To("model.sql"), Hunk>> \o body : body \in Bodies}
    \union {<<To(path), Hunk>> \o body :
               path \in {"gone.sql", "../other.sql", "seed.bin"}, body \in ShortBodies}
    \union {<<Hunk>> \o body : body \in ShortBodies}
    \union {<<Hunk, To("model.sql")>> \o body : body \in ShortBodies}
    \union {<<To("model.sql"), Hunk, Line("+", "a"), Hunk>> \o body : body \in ShortBodies}
    \union {<<To("model.sql"), Hunk, Line(" ", "a"), Line("other", "blank")>> \o body :
               body \in ShortBodies}
    \union {<<To("model.sql"), Hunk>> \o body \o <<Line("other", "rename")>> :
               body \in ShortBodies}
    \union {<<To("model.sql"), Hunk>> \o body \o <<To("other.sql"), Hunk>> :
               body \in ShortBodies}

File(inside, binary, lines) == [inside |-> inside, binary |-> binary, lines |-> lines]
MCTrees ==
    {"model.sql" :> File(TRUE, FALSE, lines)
        @@ "../other.sql" :> File(FALSE, FALSE, <<"a", "b">>)
        @@ "seed.bin" :> File(TRUE, TRUE, << >>) :
        lines \in SeqOf(Texts2, 3)}
=============================================================================
