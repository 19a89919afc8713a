---------------------------- MODULE MCSqlSpool ----------------------------
(* One table, two writers (one of which exec() does not wait for), a few   *)
(* records and crashes.                                                    *)
EXTENDS SqlSpool

CONSTANTS w1, w2, r1, r2, r3

AllWriters   == {w1, w2}
InputOnly    == {w1}
ThreeRecords == {r1, r2, r3}
TwoRecords   == {r1, r2}

=============================================================================
