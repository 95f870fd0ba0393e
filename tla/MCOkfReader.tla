----------------------------- MODULE MCOkfReader ----------------------------
(* Files for TLC: empty, at the limit and one byte over it, with a longer  *)
(* character at the start, in the middle, across the limit, or broken.     *)
EXTENDS OkfReader

SomeTexts ==
    {<<>>, <<"c">>, <<"f">>, <<"f", "s">>, <<"c", "c">>, <<"c", "f", "s">>,
     <<"c", "c", "c">>, <<"c", "c", "c", "c">>, <<"c", "c", "f", "s">>}
=============================================================================
