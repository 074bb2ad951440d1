------------------------------ MODULE MCPrintf ------------------------------
(* Every two items over words at the limits of the digits and of int, and     *)
(* the formats of main.c, rw.c and jump.c.                                    *)
EXTENDS Printf

PrintfChar ==
    {hexdigits[i] : i \in 1 .. 16}
    \cup {"a", "q", "d", "u", "x", "X", "s", "h", "r", "w", "R", "W", "=", ".", ":", "@", "(", ")", "%", "-", "Z"}

Widths == {<<>>, <<"1">>, <<"3">>, <<"0", "4">>}
Values == {0, 9, 10, 15, 16, WordSize \div 2 - 1, WordSize \div 2, WordSize - 1}
Conversion(conv, width, taken) == [conv |-> conv, width |-> width, args |-> taken]
Text(char) == [conv |-> "text", char |-> char, args |-> <<>>]
Items ==
    {Text("a"), Text("7"), Conversion("%", <<>>, <<>>), Conversion("q", <<"2">>, <<>>)}
    \cup {Conversion(conv, w, <<v>>) : conv \in {"d", "u", "X"}, w \in Widths, v \in Values}
    \cup {Conversion("s", <<>>, <<s>>) : s \in {<<>>, <<"r", "w">>}}
    \cup {Conversion("h", <<>>, <<len, <<0, 31, 160>>>>) : len \in {0, 3, WordSize - 1}}

(* "rc: 0x%08X", "=%X..%X: %d", "@%08x (%s)". *)
Rc(v) == <<Text("0"), Text("x"), Conversion("X", <<"0", "8">>, <<v>>)>>
Hash(v, w, b) ==
    <<Text("="), Conversion("X", <<>>, <<v>>), Text("."), Conversion("X", <<>>, <<w>>),
      Text(":"), Conversion("d", <<>>, <<b>>)>>
Jump(v) ==
    <<Text("@"), Conversion("x", <<"0", "8">>, <<v>>), Text("("), Conversion("s", <<>>, <<<<"R", "W">>>>)>>
CallSites ==
    {Rc(v) : v \in Values} \cup {Jump(v) : v \in Values}
    \cup {Hash(v, w, b) : v \in Values, w \in Values, b \in {0, 1}}

PrintfMeanings ==
    [items : {<<i, j>> : i \in Items, j \in Items}, ending : {"whole"}]
    \cup [items : {<<i>> : i \in Items} \cup {<<>>}, ending : {"bare", "width"}]
    \cup [items : CallSites, ending : {"whole"}]
PrintfBehind == <<"Z", "0", NUL>>
=============================================================================
