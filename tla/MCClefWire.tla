---------------------------- MODULE MCClefWire ----------------------------
EXTENDS ClefWire

\* Two ids that must be renamed, one that need not, and three of the generated
\* form: the first name that is generated, its first suffix, and the second.
SixIds == {<<"illegal", 1, 0>>, <<"illegal", 2, 0>>, <<"plain", 1, 0>>,
           <<"clefq", 0, 0>>, <<"clefq", 0, 2>>, <<"clefq", 1, 0>>}

\* One question with a scale of three points, one without any, the others with
\* two.
MixedPoints == [id \in SixIds |-> CASE id = <<"illegal", 2, 0>> -> 3
                                    [] id = <<"clefq", 1, 0>> -> 1
                                    [] OTHER -> 2]

=============================================================================
