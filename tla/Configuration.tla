--------------------------- MODULE Configuration ---------------------------
(***************************************************************************)
(* What LogScanner() makes of its configuration before any thread starts:  *)
(* a file for each log under config/logfiles, config/evalregexps.conf and  *)
(* data/whitelist.txt.  m_state is INVALID as long as nothing is wrong and *)
(* the last error afterwards; an error is never taken back.                *)
(*                                                                         *)
(* A line is a record: `form' is "blank", "comment", "item" (letter, TAB,  *)
(* text, from the first column, four bytes or more) or "bad"; `key' is the *)
(* letter of a date item, or "digit" for a regexp; `text' tells texts      *)
(* apart.  `lump' of a log tells where its path has LUMP: "no", "name" (of *)
(* the file) or "path" (above it).                                         *)
(***************************************************************************)
EXTENDS Integers, FiniteSets, SequencesExt

DateItems == {"R", "M", "F"}
Ignored(line) == line.form \in {"blank", "comment"}

-----------------------------------------------------------------------------
(* parseConfOf(): one pass over the lines, then the counts.                *)

Empty == [dates |-> {}, regexps |-> {}, good |-> TRUE]

\* Mutant: only neighbours are compared for a duplicate date item.
ParseLineDup(acc, line) ==
    CASE Ignored(line) -> acc
      [] line.form = "bad" -> [acc EXCEPT !.good = FALSE]
      [] line.form = "item" /\ line.key = "digit" ->
            IF line.text \in acc.regexps THEN [acc EXCEPT !.good = FALSE]
            ELSE [acc EXCEPT !.regexps = @ \cup {line.text}]
      [] OTHER -> [acc EXCEPT !.dates = @ \cup {line.key}]

ParseLine(acc, line) ==
    CASE Ignored(line) -> acc
      [] line.form = "bad" -> [acc EXCEPT !.good = FALSE]
      [] line.form = "item" /\ line.key = "digit" ->
            IF line.text \in acc.regexps THEN [acc EXCEPT !.good = FALSE]
            ELSE [acc EXCEPT !.regexps = @ \cup {line.text}]
      [] OTHER ->
            IF line.key \in acc.dates THEN [acc EXCEPT !.good = FALSE]
            ELSE [acc EXCEPT !.dates = @ \cup {line.key}]

\* A log that has LUMP in its path is made of the files beside it that its
\* name, with LUMP for a wildcard, matches.
LumpContainer(log) ==
    /\ log.lump = "name" /\ log.dirReads
    /\ log.components # {} /\ \A c \in log.components : c.readable
    /\ log.appends

Healthy(log) == log.lump = "no" \/ LumpContainer(log)

parseConfOf(file) ==
    LET res == FoldLeft(ParseLine, Empty, file.lines)
    IN  /\ file.opens /\ res.good
        /\ Cardinality(res.dates) = 3 /\ res.regexps # {}
        /\ Healthy(file.log)

\* What is neither file nor directory is refused; there must be a file.
readDirectoryTree(tree) == ~tree.special /\ tree.files # {}

loadAndParseConfFiles(tree) ==
    ~tree.emptyDir /\ \A f \in tree.files : parseConfOf(f)

\* The log of every container is opened once.
uploadConfiguration(tree) ==
    /\ tree.exists
    /\ readDirectoryTree(tree) /\ loadAndParseConfFiles(tree)
    /\ \A f \in tree.files : f.log.readable

\* uploadWhitelistedIPs(): the file may be missing, no address twice.
uploadWhitelistedIPs(white) ==
    \/ ~white.exists
    \/ /\ white.opens
       /\ LET ips == SelectSeq(white.lines, LAMBDA l : ~Ignored(l))
          IN  \A i, j \in DOMAIN ips : ips[i].text = ips[j].text => i = j

\* uploadEvalRegexps(): op code, factor and regexp, no pair twice; a missing
\* file is but a warning.  `key' is the op code.
uploadEvalRegexps(eval) ==
    \/ ~eval.exists
    \/ LET items == SelectSeq(eval.lines, LAMBDA l : ~Ignored(l))
       IN  /\ eval.opens /\ items # <<>>
           /\ \A i \in DOMAIN items : items[i].form = "item"
                  /\ items[i].key \in {"SEEN_MANY_STRINGS", "TOO_MANY_ATTEMPTS"}
           /\ \A i, j \in DOMAIN items :
                  items[i].key = items[j].key /\ items[i].text = items[j].text => i = j

\* What the two calls of the constructor leave in m_state.
Upload(conf) ==
    IF /\ uploadConfiguration(conf.tree) /\ uploadWhitelistedIPs(conf.white)
       /\ uploadEvalRegexps(conf.eval)
    THEN "INVALID" ELSE "error"

-----------------------------------------------------------------------------
(* The reference: what the README and the headers of the files under       *)
(* config-prod ask of a file, without the order in which it is read.       *)

Lines(file, key) == {i \in DOMAIN file.lines :
                        file.lines[i].form = "item" /\ file.lines[i].key = key}

SoundFile(file) ==
    /\ \A i \in DOMAIN file.lines : file.lines[i].form # "bad"
    /\ \A k \in DateItems : Cardinality(Lines(file, k)) = 1
    /\ Lines(file, "digit") # {}
    /\ \A i, j \in Lines(file, "digit") :
            file.lines[i].text = file.lines[j].text => i = j

SoundLog(log) ==
    /\ log.readable
    /\ log.lump # "no" => log.components # {} /\ \A c \in log.components : c.readable

SoundConf(conf) ==
    /\ conf.tree.exists /\ conf.tree.files # {}
    /\ \A f \in conf.tree.files : SoundFile(f) /\ SoundLog(f.log)
=============================================================================
