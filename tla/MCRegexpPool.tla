---------------------------- MODULE MCRegexpPool ----------------------------
(* One regexp of each severity and an IP on either side of the whitelist.  *)
EXTENDS RegexpPool

CONSTANTS r0, r1, good, bad

TwoRegexps == {r0, r1}
OneDrop    == {r0}
TwoIPs     == {good, bad}
GoodIPs    == {good}

Text(t0, t1) == [r \in TwoRegexps |-> IF r = r0 THEN t0 ELSE t1]

\* Lines nothing matches, one regexp matches, or both with different IPs.
FiveTexts == {Text(NoMatch, NoMatch), Text(bad, NoMatch), Text(NoMatch, bad),
              Text(good, NoMatch), Text(good, bad)}
=============================================================================
