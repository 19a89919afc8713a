----------------------------- MODULE RegexpPool -----------------------------
(***************************************************************************)
(* One processingThread, its Workarea and its regexpExecThreads, one per   *)
(* regular expression.  The processing thread takes a line off the belt    *)
(* into a string that the regexp threads read through linePtr; a barrier   *)
(* lets them all start on the line and wait for each other.  They share    *)
(* the Workarea with no mutex (the one of saveIPaddreess is local to each  *)
(* call), so each of its fields is written in a step of its own.           *)
(***************************************************************************)
EXTENDS Integers, Sequences, FiniteSets

CONSTANTS
    Regexps,    \* the regular expressions, one thread each
    Immediate,  \* those of severity '0'
    IPs,        \* what a regexp may capture
    Whitelist,  \* the IPs checkForWhitelist() recognises
    Texts,      \* what a line may be: the IP each regexp captures from it
    MaxLines    \* bound: lines taken off the belt

NoMatch == "no match"   \* the regexp does not match the line

ASSUME PoolAssumption ==
    /\ IsFiniteSet(Regexps) /\ Immediate \subseteq Regexps
    /\ Whitelist \subseteq IPs /\ NoMatch \notin IPs
    /\ Texts \subseteq [Regexps -> IPs \cup {NoMatch}]
    /\ MaxLines \in Nat

Numbers == 1 .. MaxLines
EMPTY   == 0            \* the std::string before the first line
EXIT    == -1           \* the line "EXIT"

VARIABLES
    ppc,        \* where the processing thread is
    line,       \* the string behind linePtr: a line number, EMPTY or EXIT
    text,       \* what the lines taken so far say
    rpc,        \* where each regexp thread is
    hit,        \* m_regexpResults
    loaded,     \* the m_matchCount a thread has loaded in order to add 1
    matchCount, ipAddr, whitelisted,    \* the Workarea
    audt, eval, hist, drop,             \* rows sent to the tables
    seen        \* rows of T100_LinesSeen: line number and matched

work == <<matchCount, ipAddr, whitelisted>>
rows == <<audt, eval, hist, drop>>
vars == <<ppc, line, text, rpc, hit, loaded, matchCount, ipAddr, whitelisted,
          audt, eval, hist, drop, seen>>

\* The constructor leaves m_whitelisted uninitialised.
Init ==
    /\ ppc = "accept" /\ line = EMPTY /\ text = <<>>
    /\ rpc = [r \in Regexps |-> "while"]
    /\ hit = [r \in Regexps |-> FALSE]
    /\ loaded = [r \in Regexps |-> 0]
    /\ matchCount = 0 /\ ipAddr = NoMatch /\ whitelisted \in BOOLEAN
    /\ audt = {} /\ eval = {} /\ hist = {} /\ drop = {}
    /\ seen = {}

-----------------------------------------------------------------------------
(* The barrier: boost::barrier(regexpCount + 1).                           *)

AtBarrier == {"wait1", "wait2"}

\* Mutant: the processing thread does not wait a second time.
ReleaseOnce ==
    /\ ppc \in AtBarrier /\ \A r \in Regexps : rpc[r] \in AtBarrier
    /\ ppc' = IF line = EXIT THEN "notify" ELSE "see"
    /\ rpc' = [r \in Regexps |-> IF rpc[r] = "wait1" THEN "search" ELSE "check"]
    /\ UNCHANGED <<line, text, hit, loaded, work, rows, seen>>

\* The last thread to arrive releases them all.
Release ==
    /\ ppc \in AtBarrier /\ \A r \in Regexps : rpc[r] \in AtBarrier
    /\ ppc' = IF ppc = "wait2" THEN "see"
              ELSE IF line = EXIT THEN "notify" ELSE "wait2"
    /\ rpc' = [r \in Regexps |-> IF rpc[r] = "wait1" THEN "search" ELSE "check"]
    /\ UNCHANGED <<line, text, hit, loaded, work, rows, seen>>

-----------------------------------------------------------------------------
(* The processing thread.                                                  *)

\* acceptFromReadThread(line) assigns to the string the others may be reading.
AcceptLine ==
    /\ ppc = "accept" /\ Len(text) < MaxLines
    /\ \E t \in Texts : text' = Append(text, t)
    /\ line' = Len(text) + 1
    /\ ppc' = "clear"
    /\ UNCHANGED <<rpc, hit, loaded, work, rows, seen>>

AcceptExit ==
    /\ ppc = "accept"
    /\ line' = EXIT
    /\ ppc' = "clear"
    /\ UNCHANGED <<text, rpc, hit, loaded, work, rows, seen>>

\* Mutant: the count is not cleared.
KeepMatchCount ==
    /\ ppc = "clear"
    /\ ppc' = "wait1"
    /\ UNCHANGED <<line, text, rpc, hit, loaded, work, rows, seen>>

ClearMatchCount ==
    /\ ppc = "clear"
    /\ matchCount' = 0
    /\ ppc' = "wait1"
    /\ UNCHANGED <<line, text, rpc, hit, loaded, ipAddr, whitelisted, rows,
                   seen>>

\* Mutant: a line matched twice counts as not matched.
InsertSeenOnce ==
    /\ ppc = "see"
    /\ seen' = seen \cup {[line |-> line, matched |-> matchCount = 1]}
    /\ ppc' = "write"
    /\ UNCHANGED <<line, text, rpc, hit, loaded, work, rows>>

InsertSeen ==
    /\ ppc = "see"
    /\ seen' = seen \cup {[line |-> line, matched |-> matchCount > 0]}
    /\ ppc' = "write"
    /\ UNCHANGED <<line, text, rpc, hit, loaded, work, rows>>

\* writePosOfNextLogline2Read() or writePosOfNextCatchup2Read(): it writes
\* where the reader is (see LogFileCtrl), nothing of this pool.
WritePos ==
    /\ ppc = "write"
    /\ ppc' = "accept"
    /\ UNCHANGED <<line, text, rpc, hit, loaded, work, rows, seen>>

\* notifyExit(), then the regexp threads are joined.
NotifyExit ==
    /\ ppc = "notify"
    /\ ppc' = "join"
    /\ UNCHANGED <<line, text, rpc, hit, loaded, work, rows, seen>>

JoinAll ==
    /\ ppc = "join" /\ \A r \in Regexps : rpc[r] = "left"
    /\ ppc' = "returned"
    /\ UNCHANGED <<line, text, rpc, hit, loaded, work, rows, seen>>

-----------------------------------------------------------------------------
(* A regexp thread.                                                        *)

Goto(r, from, to) == rpc[r] = from /\ rpc' = [rpc EXCEPT ![r] = to]

Captured(r) == text[line][r]

\* while(*linePtr != "EXIT")
While(r) ==
    /\ Goto(r, "while", IF line = EXIT THEN "left" ELSE "wait1")
    /\ UNCHANGED <<ppc, line, text, hit, loaded, work, rows, seen>>

SearchExit(r) ==
    /\ line = EXIT
    /\ Goto(r, "search", "while")
    /\ UNCHANGED <<ppc, line, text, hit, loaded, work, rows, seen>>

\* Mutant: a thread without a match returns.
SearchReturns(r) ==
    /\ rpc[r] = "search" /\ line # EXIT
    /\ hit' = [hit EXCEPT ![r] = Captured(r) # NoMatch]
    /\ Goto(r, "search", IF Captured(r) # NoMatch THEN "save" ELSE "left")
    /\ UNCHANGED <<ppc, line, text, loaded, work, rows, seen>>

Search(r) ==
    /\ rpc[r] = "search" /\ line # EXIT
    /\ hit' = [hit EXCEPT ![r] = Captured(r) # NoMatch]
    /\ Goto(r, "search", IF Captured(r) # NoMatch THEN "save" ELSE "wait2")
    /\ UNCHANGED <<ppc, line, text, loaded, work, rows, seen>>

\* saveIPaddreess(): the four octets, m_matchCount++, m_whitelisted.
SaveIP(r) ==
    /\ Goto(r, "save", "load")
    /\ ipAddr' = Captured(r)
    /\ UNCHANGED <<ppc, line, text, hit, loaded, matchCount, whitelisted, rows,
                   seen>>

LoadCount(r) ==
    /\ Goto(r, "load", "store")
    /\ loaded' = [loaded EXCEPT ![r] = matchCount]
    /\ UNCHANGED <<ppc, line, text, hit, work, rows, seen>>

StoreCount(r) ==
    /\ Goto(r, "store", "white")
    /\ matchCount' = loaded[r] + 1
    /\ loaded' = [loaded EXCEPT ![r] = 0]
    /\ UNCHANGED <<ppc, line, text, hit, ipAddr, whitelisted, rows, seen>>

\* Mutant: the flag is never taken back.
SaveWhiteSticks(r) ==
    /\ Goto(r, "white", "branch")
    /\ whitelisted' = (whitelisted \/ Captured(r) \in Whitelist)
    /\ UNCHANGED <<ppc, line, text, hit, loaded, matchCount, ipAddr, rows, seen>>

SaveWhite(r) ==
    /\ Goto(r, "white", "branch")
    /\ whitelisted' = (Captured(r) \in Whitelist)
    /\ UNCHANGED <<ppc, line, text, hit, loaded, matchCount, ipAddr, rows, seen>>

\* Mutant: the severity is looked at first.
BranchSeverityFirst(r) ==
    /\ Goto(r, "branch", IF r \in Immediate THEN "hist"
                         ELSE IF whitelisted THEN "audt" ELSE "eval")
    /\ UNCHANGED <<ppc, line, text, hit, loaded, work, rows, seen>>

\* isWhitelisted(), then the severity.
Branch(r) ==
    /\ Goto(r, "branch", IF whitelisted THEN "audt"
                         ELSE IF r \in Immediate THEN "hist" ELSE "eval")
    /\ UNCHANGED <<ppc, line, text, hit, loaded, work, rows, seen>>

\* Rows take IP and flags from the Workarea (the multi-match flag is left out);
\* those of Drop take the thread's own IP.
Row(r)  == [line |-> line, regexp |-> r, ip |-> ipAddr]
AuditRow(r) == [line |-> line, regexp |-> r, ip |-> ipAddr,
                white |-> whitelisted]

InsertAudt(r) ==
    /\ Goto(r, "audt", "wait2")
    /\ audt' = audt \cup {AuditRow(r)}
    /\ UNCHANGED <<ppc, line, text, hit, loaded, work, eval, hist, drop, seen>>

InsertEval(r) ==
    /\ Goto(r, "eval", "wait2")
    /\ eval' = eval \cup {Row(r)}
    /\ UNCHANGED <<ppc, line, text, hit, loaded, work, audt, hist, drop, seen>>

InsertHist(r) ==
    /\ Goto(r, "hist", "drop")
    /\ hist' = hist \cup {Row(r)}
    /\ UNCHANGED <<ppc, line, text, hit, loaded, work, audt, eval, drop, seen>>

InsertDrop(r) ==
    /\ Goto(r, "drop", "wait2")
    /\ drop' = drop \cup {[line |-> line, regexp |-> r, ip |-> Captured(r)]}
    /\ UNCHANGED <<ppc, line, text, hit, loaded, work, audt, eval, hist, seen>>

\* After the second barrier nothing keeps the processing thread from going on.
CheckMulti(r) ==
    /\ Goto(r, "check", IF matchCount > 1 /\ hit[r] THEN "multi" ELSE "while")
    /\ UNCHANGED <<ppc, line, text, hit, loaded, work, rows, seen>>

\* Mutant: the row goes to the wrong table.
InsertMultiEval(r) ==
    /\ Goto(r, "multi", "while")
    /\ eval' = eval \cup {Row(r)}
    /\ UNCHANGED <<ppc, line, text, hit, loaded, work, audt, hist, drop, seen>>

InsertMulti(r) ==
    /\ Goto(r, "multi", "while")
    /\ audt' = audt \cup {AuditRow(r)}
    /\ UNCHANGED <<ppc, line, text, hit, loaded, work, eval, hist, drop, seen>>

-----------------------------------------------------------------------------
ProcStep == ClearMatchCount \/ InsertSeen \/ WritePos \/ NotifyExit \/ JoinAll

RegexpStep(r) ==
    \/ While(r) \/ SearchExit(r) \/ Search(r) \/ SaveIP(r) \/ LoadCount(r)
    \/ StoreCount(r) \/ SaveWhite(r) \/ Branch(r) \/ InsertAudt(r)
    \/ InsertEval(r) \/ InsertHist(r) \/ InsertDrop(r) \/ CheckMulti(r)
    \/ InsertMulti(r)

Next == AcceptLine \/ AcceptExit \/ Release \/ ProcStep
        \/ \E r \in Regexps : RegexpStep(r)

Spec == Init /\ [][Next]_vars

(***************************************************************************)
(* Runnable threads run; nothing obliges the belt to carry another line.   *)
(***************************************************************************)
FairSpec == Spec /\ WF_vars(ProcStep) /\ WF_vars(Release)
                 /\ \A r \in Regexps : WF_vars(RegexpStep(r))

-----------------------------------------------------------------------------
TypeOK ==
    /\ ppc \in {"accept", "clear", "wait1", "wait2", "see", "write", "notify",
                "join", "returned"}
    /\ line \in Numbers \cup {EMPTY, EXIT}
    /\ text \in Seq(Texts) /\ Len(text) <= MaxLines
    /\ rpc \in [Regexps -> {"while", "wait1", "search", "save", "load", "store",
                            "white", "branch", "audt", "eval", "hist", "drop",
                            "wait2", "check", "multi", "left"}]
    /\ hit \in [Regexps -> BOOLEAN] /\ loaded \in [Regexps -> Nat]
    /\ matchCount \in 0 .. Cardinality(Regexps)
    /\ ipAddr \in IPs \cup {NoMatch} /\ whitelisted \in BOOLEAN
    /\ \A row \in eval \cup hist \cup drop \cup audt :
          row.line \in Numbers \cup {EXIT} /\ row.regexp \in Regexps
    /\ seen \subseteq [line : Numbers, matched : BOOLEAN]

Matching(n) == {r \in Regexps : text[n][r] # NoMatch}
Taken       == 1 .. Len(text)
Seen        == {row.line : row \in seen}

\* The rows of a line, whatever the table, that regexp r sent before the
\* second barrier.
RowsOf(table, n, r) == {row \in table : row.line = n /\ row.regexp = r}

(***************************************************************************)
(* T100_LinesSeen tells the truth: a line is recorded once, with matched   *)
(* set exactly when some regexp matches it, in spite of the unprotected    *)
(* count and of regexp threads still busy with the line before.            *)
(***************************************************************************)
SeenIsTrue ==
    /\ \A row \in seen : row.matched <=> Matching(row.line) # {}
    /\ \A n \in Numbers : Cardinality({row \in seen : row.line = n}) <= 1

(***************************************************************************)
(* When a line is recorded as seen, every regexp that matches it has sent  *)
(* its row to Audit, Hist or Eval, an immediate one also its row to Drop.  *)
(***************************************************************************)
EvaluatedBeforeSeen ==
    \A n \in Seen : \A r \in Matching(n) :
        \/ RowsOf(audt, n, r) # {}
        \/ RowsOf(eval, n, r) # {} /\ r \notin Immediate
        \/ RowsOf(hist, n, r) # {} /\ RowsOf(drop, n, r) # {} /\ r \in Immediate

(***************************************************************************)
(* Once a line is recorded as seen its verdict is final: no thread still   *)
(* busy behind the second barrier, and no line taken later, sends a row to *)
(* Eval, Hist or Drop in its name (one to Audit may still come).           *)
(***************************************************************************)
RowsFor(table, n) == {row \in table : row.line = n}

SettledStep ==
    \A n \in Seen : /\ RowsFor(eval, n)' = RowsFor(eval, n)
                    /\ RowsFor(hist, n)' = RowsFor(hist, n)
                    /\ RowsFor(drop, n)' = RowsFor(drop, n)

SeenIsSettled == [][SettledStep]_vars

(***************************************************************************)
(* A line that one regexp matches ends up in the table its severity and    *)
(* the whitelist say, with the IP that regexp captured, and in no other    *)
(* but Audit (where a row for the line before may name it by mistake).     *)
(***************************************************************************)
SingleMatchExact ==
    \A n \in Seen, r \in Regexps :
        Matching(n) = {r} =>
            LET ip == text[n][r]
            IN  /\ RowsOf(drop, n, r) =
                     IF r \in Immediate /\ ip \notin Whitelist
                     THEN {[line |-> n, regexp |-> r, ip |-> ip]} ELSE {}
                /\ RowsOf(hist, n, r) = RowsOf(drop, n, r)
                /\ RowsOf(eval, n, r) =
                     IF r \notin Immediate /\ ip \notin Whitelist
                     THEN {[line |-> n, regexp |-> r, ip |-> ip]} ELSE {}
                /\ ip \in Whitelist =>
                     \E row \in RowsOf(audt, n, r) : row.ip = ip /\ row.white

(***************************************************************************)
(* A whitelisted IP is dropped only by a line that another regexp matched  *)
(* too, with another IP: the flag the two threads share is then the        *)
(* other's.                                                                *)
(***************************************************************************)
WhitelistedDropNeedsTwo ==
    \A row \in drop :
        row.ip \in Whitelist =>
            \E r \in Matching(row.line) : text[row.line][r] \notin Whitelist

(***************************************************************************)
(* Every line taken off the belt is recorded as seen.                      *)
(***************************************************************************)
TakenIsSeen == \A n \in Numbers : (Len(text) >= n) ~> (n \in Seen)

(***************************************************************************)
(* LogScanner.cpp:1558: "when *THIS* thread reaches the barrier, the       *)
(* barrier count gets full and all the threads continue executing".        *)
(***************************************************************************)
BarrierFills == (ppc = "wait1") ~> (ppc # "wait1")
=============================================================================
