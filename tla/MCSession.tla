----------------------------- MODULE MCSession -----------------------------
EXTENDS Session

At(x, y, w, h) == [x |-> x, y |-> y, w |-> w, h |-> h]
Update(r) == [type |-> "update", n |-> 0, rect |-> r]

AskedDef == {5, 7, 8}
ScreensDef == {[w |-> 2, h |-> 1]}
NewScreensDef == {[w |-> 1, h |-> 3]}
RequestsDef ==
    {Update(At(0, 0, 3, 3)), Update(At(1, 0, 1, 1)), Update(At(2, 0, 1, 3)),
     Msg("format", 1), Msg("format", 3), Msg("encodings", 2),
     Msg("key", 1), Msg("pointer", 1), Msg("text", 1), 
     Msg("text", 3), Msg("unknown", 0)}
=============================================================================
