---------------------------- MODULE MCEvalThread ----------------------------
EXTENDS EvalThread

Hit(n, ip, tm, sev, text) == [n |-> n, ip |-> ip, tm |-> tm, sev |-> sev, text |-> text]

\* "a" hits fast twice, and slowly with the hit at 4, which makes its first too
\* old; the lines of "b" repeat, twice in one second.
MCRows == {Hit(1, "a", 1, 1, "none"), Hit(2, "a", 2, 1, "none"),
           Hit(3, "a", 4, 2, "x"),
           Hit(4, "b", 1, 2, "x"), Hit(5, "b", 1, 2, "x"), Hit(6, "b", 3, 2, "y")}
MCEvalRegexps == {[op |-> "SEEN_MANY_STRINGS", factor |-> 1],
                  [op |-> "TOO_MANY_ATTEMPTS", factor |-> 1]}
=============================================================================
