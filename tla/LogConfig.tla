----------------------------- MODULE LogConfig ------------------------------
(***************************************************************************)
(* The configuration of log4z: what a configuration file says of each      *)
(* logger, as parseConfigFromString reads it line by line, and the byte    *)
(* sum by which configFromStringImpl tells whether it has changed.         *)
(*                                                                         *)
(* A line is what splitPairString, trimLogConfig and tolower make of it:   *)
(* the start of a section, a field and a value, or neither.                *)
(***************************************************************************)
EXTENDS Integers, SequencesExt

CONSTANTS Bytes(_),    \* the sum of the bytes of a line
          MainSpellings, \* the names of sections that tolower makes "main"
          Numerals,    \* the texts that are numbers, and their values
          LOG4Z_DEFAULT_LIMITSIZE, LOG4Z_DEFAULT_RESERVEDAYS

MainKey == "Main"

\* parseConfigLine takes any spelling of main for the main logger.
Canonical(key) == IF key \in MainSpellings THEN MainKey ELSE key

\* LoggerInfo(): the attributes a new logger has; level 1 is LOG_LEVEL_DEBUG.
LoggerInfo(enable, name) ==
    [enable |-> enable, name |-> name, path |-> "./log/", level |-> 1,
     display |-> TRUE, outfile |-> TRUE, monthdir |-> FALSE, fileline |-> TRUE,
     limitsize |-> LOG4Z_DEFAULT_LIMITSIZE, reservedays |-> LOG4Z_DEFAULT_RESERVEDAYS]

Fields == DOMAIN LoggerInfo(TRUE, MainKey)

Blank              == [kind |-> "blank"]
Section(key)       == [kind |-> "section", key |-> key]
Pair(field, value) == [kind |-> "pair", field |-> field, value |-> value]

LevelNames == [trace |-> 0, all |-> 0, debug |-> 1, info |-> 2, warn |-> 3, warning |-> 3,
               error |-> 4, alarm |-> 5, fatal |-> 6]

Switches == {"display", "outfile", "monthdir", "fileline", "enable"}

\* Whether a pair is understood: reservedays is not among the fields, a level
\* needs a name that is known, and of a switch everything but "false" and "0"
\* is true.
Understood(p) ==
    \/ p.field \in {"path", "name", "limitsize"} \cup Switches
    \/ p.field = "level" /\ p.value \in DOMAIN LevelNames

\* What is not a number is 0 to it.
atoi(text) == IF text \in DOMAIN Numerals THEN Numerals[text] ELSE 0

Meaning(p) ==
    CASE p.field \in Switches -> p.value \notin {"false", "0"}
      [] p.field = "level" -> LevelNames[p.value]
      [] p.field = "limitsize" -> atoi(p.value)
      [] OTHER -> p.value

-----------------------------------------------------------------------------
\* f with v for x, as std::map's insert leaves it.
With(f, x, v) == [y \in DOMAIN f \cup {x} |-> IF y = x THEN v ELSE f[y]]

\* Mutant of parseConfigLine: a section that comes again starts afresh.
parseConfigLineAnew(st, line) ==
    CASE line.kind = "section" ->
            LET k == Canonical(line.key)
            IN  [key |-> k, out |-> With(st.out, k, LoggerInfo(TRUE, k))]
      [] line.kind = "pair" /\ st.key \in DOMAIN st.out /\ Understood(line) ->
            [st EXCEPT !.out[st.key][line.field] = Meaning(line)]
      [] OTHER -> st

\* key is the section of the lines to come, out the loggers seen so far.
parseConfigLine(st, line) ==
    CASE line.kind = "section" ->
            LET k == Canonical(line.key)
            IN  [key |-> k, out |-> IF k \in DOMAIN st.out THEN st.out
                                    ELSE With(st.out, k, LoggerInfo(TRUE, k))]
      [] line.kind = "pair" /\ st.key \in DOMAIN st.out /\ Understood(line) ->
            [st EXCEPT !.out[st.key][line.field] = Meaning(line)]
      [] OTHER -> st

\* What there is after each line.
Parsed(content) ==
    LET st[i \in 0 .. Len(content)] ==
            IF i = 0 THEN [key |-> "", out |-> <<>>] ELSE parseConfigLine(st[i - 1], content[i])
    IN  st

parseConfigFromString(content) == Parsed(content)[Len(content)].out

-----------------------------------------------------------------------------
(* The same, said of a file as a whole.                                    *)

\* Whether line i is one of the section of key: the last one opened before it.
InSection(content, i, key) ==
    \E j \in 1 .. i : /\ content[j].kind = "section" /\ Canonical(content[j].key) = key
                      /\ \A k \in j + 1 .. i : content[k].kind # "section"

\* The lines that set a field of a logger; the last one of them counts.
Settings(content, key, field) ==
    {i \in DOMAIN content : /\ content[i].kind = "pair" /\ content[i].field = field
                            /\ Understood(content[i]) /\ InSection(content, i, key)}

Says(content, key, field) ==
    LET lines == Settings(content, key, field)
    IN  IF lines = {} THEN LoggerInfo(TRUE, key)[field]
        ELSE Meaning(content[CHOOSE i \in lines : \A j \in lines : j <= i])

-----------------------------------------------------------------------------
\* configFromStringImpl's sum: which lines come first does not show in it.
\* Files are too short for it to wrap.
Sums(content) ==
    LET sum[i \in 0 .. Len(content)] == IF i = 0 THEN 0 ELSE sum[i - 1] + Bytes(content[i])
    IN  sum

checksum(content) == Sums(content)[Len(content)]
=============================================================================
