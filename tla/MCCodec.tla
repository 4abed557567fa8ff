------------------------------ MODULE MCCodec ------------------------------
(* Bounded instances of Codec for TLC. *)
EXTENDS Codec

T(t, a) == Token(t, a, <<>>)
MCTokens == {Token("text", 0, <<"a">>), Token("text", 0, <<"b">>), T("text", Indef),
             T("array", 1), T("array", Indef), T("map", 2), T("map", Indef),
             T("break", 0), T("tag", 0)}
=============================================================================
