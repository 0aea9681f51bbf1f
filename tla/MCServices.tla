----------------------------- MODULE MCServices -----------------------------
EXTENDS Services

MCClaudeTarget == [c \in {"claude"} |-> "m2"]
MCDefaultModels == <<"m2">>
MCLimit == [login |-> 1, api |-> 2]
MCNames == [size \in {7, 30, 40} |-> CASE size = 7 -> 1 [] size = 30 -> 4 [] size = 40 -> 18]
MCWindow == [login |-> 3, api |-> 2]
=============================================================================
