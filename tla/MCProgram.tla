----------------------------- MODULE MCProgram -----------------------------
EXTENDS Program

Line(form, key, text) == [form |-> form, key |-> key, text |-> text]
Item(key) == Line("item", key, "x")
Alphabet == {Item(k) : k \in DateItems \cup {"digit"}} \cup
            {Line("item", "digit", "y"), Line("bad", "x", "x"), Line("comment", "x", "x")}

GoodLines == <<Item("R"), Item("M"), Item("F"), Item("digit")>>
Plain     == [lump |-> "no", readable |-> TRUE]
File(ls)  == [lines |-> ls, opens |-> TRUE, log |-> Plain]
Good      == File(GoodLines)
Parts     == {[name |-> 1, readable |-> TRUE], [name |-> 2, readable |-> TRUE],
              [name |-> 2, readable |-> FALSE]}
Lumps     == [lump : {"name", "path"}, readable : BOOLEAN, dirReads : BOOLEAN,
              components : {ps \in SUBSET Parts : Cardinality(ps) < 3}, appends : BOOLEAN]

Tree(fs)  == [exists |-> TRUE, special |-> FALSE, emptyDir |-> FALSE, files |-> fs]
NoWhite   == [exists |-> FALSE, opens |-> FALSE, lines |-> <<>>]
Conf(t)   == [tree |-> t, white |-> NoWhite, eval |-> NoWhite]
Text(ls)  == [exists |-> TRUE, opens |-> TRUE, lines |-> ls]

\* Every file of four lines, every good one with a line more, and a sound tree
\* with one thing wrong in each other place.
MCConfigs ==
    {Conf(Tree({File(ls)})) : ls \in [1 .. 4 -> Alphabet]}
    \cup {Conf(Tree({File(InsertAt(GoodLines, i, l))}) ) : i \in 1 .. 5, l \in Alphabet}
    \cup {Conf(Tree({Good, [Good EXCEPT !.log = l]})) : l \in Lumps}
    \cup {Conf(Tree({Good, [Good EXCEPT !.opens = FALSE]})),
          Conf(Tree({Good, [Good EXCEPT !.log.readable = FALSE]})),
          Conf(Tree({})), Conf([Tree({Good}) EXCEPT !.exists = FALSE]),
          Conf([Tree({Good}) EXCEPT !.special = TRUE]),
          Conf([Tree({Good}) EXCEPT !.emptyDir = TRUE])}
    \cup {[Conf(Tree({Good})) EXCEPT !.eval = e] :
            e \in {Text(<<>>), Text(<<Item("SEEN_MANY_STRINGS")>>), Text(<<Item("DIFF")>>),
                   Text(<<Item("TOO_MANY_ATTEMPTS"), Item("TOO_MANY_ATTEMPTS")>>)}}
    \cup {[Conf(Tree({Good})) EXCEPT !.white = w] :
            w \in {Text(<<Item("ip")>>), Text(<<Item("ip"), Item("ip")>>),
                   [Text(<<>>) EXCEPT !.opens = FALSE]}}
=============================================================================
