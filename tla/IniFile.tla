------------------------------- MODULE IniFile -------------------------------
(***************************************************************************)
(* IniFileReader and IniSection (ini_file.cpp, ini_file.h).  A reader may  *)
(* parse several files, one after another, into the same sections.  The    *)
(* lines of a file are written from items: a section, a pair in one of the *)
(* three forms of a value, a comment, a blank or a malformed line.         *)
(***************************************************************************)
EXTENDS Strings

CONSTANTS
    Names,       \* the section names and keys: without "=", "]", a leading "[", "#" or
                 \* ";", and with no blank at either end
    Values,
    MaxLines,    \* bound: the lines read
    MaxFiles     \* bound: the calls of Parse

VARIABLES
    m_sections,  \* section name -> key -> value
    m_curr_section,  \* {} for nullptr, or {name}: map nodes do not move
    parsing,     \* inside Parse
    bad,         \* the stream failed: eof is never set, Parse never returns
    lines, files,
    config,      \* history: what the items say, section name -> key -> value
    section,     \* history: the section of this file in force, <<>> before the first
    carried      \* history: a pair before the first section of a later file

readerVars == <<m_sections, m_curr_section>>
historyVars == <<config, section, carried>>
vars == <<readerVars, historyVars, parsing, bad, lines, files>>

\* std::map: operator[] makes the entry it does not find.
Touch(map, key, default) ==
    [k \in DOMAIN map \cup {key} |-> IF k \in DOMAIN map THEN map[k] ELSE default]
Put(map, key, value) ==
    [k \in DOMAIN map \cup {key} |-> IF k = key THEN value ELSE map[k]]
NoValues == [k \in {} |-> <<>>]

-----------------------------------------------------------------------------
\* What a line is written from.

Quote(form) == CASE form = "double" -> <<"\"">> [] form = "single" -> <<"'">> [] OTHER -> <<>>

\* Whether a value can be written in a form.
Writable(value, form) ==
    CASE form = "double" -> ~Contains(value, "\"")
      [] form = "single" -> ~Contains(value, "'")
      [] OTHER -> /\ find(value, {";", "#"}) = 0
                  /\ value # <<>> => /\ Above(Head(value)) /\ Above(Last(value))
                                     /\ Head(value) \notin {"\"", "'"}

Sections == [kind : {"section"}, name : Names]
Pairs ==
    {p \in [kind : {"pair"}, key : Names, value : Values, form : {"plain", "double", "single"},
            gap : {<<>>, <<" ">>, <<" ", " ">>}, comment : {<<>>, <<"#", "'", "=", "\"">>}] :
        Writable(p.value, p.form)}
Ignored == [kind : {"ignored"}, text : {<<>>, <<" ">>, <<"#", "k", "=", "v">>,
                                        <<" ", ";", "[", "k", "]">>, <<"[", "k">>, <<"k", "v">>}]

Written(item) ==
    CASE item.kind = "section" -> <<"[">> \o item.name \o <<"]", " ", ";", "]">>
      [] item.kind = "pair" ->
            item.gap \o item.key \o item.gap \o <<"=">> \o item.gap
            \o Quote(item.form) \o item.value \o Quote(item.form) \o item.gap \o item.comment
      [] OTHER -> item.text

-----------------------------------------------------------------------------
\* TrimValue: what is between quotes, or what is before a comment.
TrimValue(value) ==
    LET new_value == TrimLeft(value)
        closing(quote) == find(Tail(new_value), {quote})
        comment == find(new_value, {";", "#"})
    IN
    CASE new_value = <<>> -> <<>>
      [] new_value # <<>> /\ Head(new_value) \in {"\"", "'"} ->
            IF closing(Head(new_value)) # 0
            THEN SubSeq(new_value, 2, closing(Head(new_value)))
            ELSE TrimRight(new_value)
      [] OTHER -> TrimRight(IF comment = 0 THEN new_value ELSE SubSeq(new_value, 1, comment - 1))

\* The branches of ParseLine.
Leads(line, set) == line # <<>> /\ Head(line) \in set

SectionLine(new_line) ==
    LET pos == find(new_line, {"]"})
        name == SubSeq(new_line, 2, pos - 1)
    IN
    /\ Leads(new_line, {"["}) /\ pos # 0
    /\ m_curr_section' = {name}
    /\ m_sections' = Touch(m_sections, name, NoValues)

\* Mistake: a key seen before keeps its old value.
SetFirst(values, key, value) == Touch(values, key, value)

Set(values, key, value) == Put(values, key, value)

PairLine(new_line) ==
    LET pos == find(new_line, {"="})
        key == TrimRight(SubSeq(new_line, 1, pos - 1))
        value == TrimValue(SubSeq(new_line, pos + 1, Len(new_line)))
        name == IF m_curr_section = {} THEN <<>> ELSE CHOOSE s \in m_curr_section : TRUE
        sections == Touch(m_sections, name, NoValues)
    IN
    /\ ~Leads(new_line, {"#", ";", "["}) /\ pos # 0
    /\ m_curr_section' = {name}
    /\ m_sections' = [sections EXCEPT ![name] = Set(@, key, value)]

IgnoredLine(new_line) ==
    /\ \/ new_line = <<>> \/ Leads(new_line, {"#", ";"})
       \/ Leads(new_line, {"["}) /\ find(new_line, {"]"}) = 0
       \/ ~Leads(new_line, {"["}) /\ find(new_line, {"="}) = 0
    /\ UNCHANGED readerVars

ParseLine(line) ==
    LET new_line == TrimLeft(line) IN
    SectionLine(new_line) \/ PairLine(new_line) \/ IgnoredLine(new_line)

-----------------------------------------------------------------------------
\* What the item says.
Meant(item) ==
    \/ /\ item.kind = "section"
       /\ section' = <<"in", item.name>>
       /\ config' = Touch(config, item.name, NoValues)
       /\ UNCHANGED carried
    \/ /\ item.kind = "pair"
       /\ LET name == IF section = <<>> THEN <<>> ELSE section[2]
              sections == Touch(config, name, NoValues)
          IN config' = [sections EXCEPT ![name] = Put(@, item.key, item.value)]
       /\ carried' = (carried \/ (section = <<>> /\ m_curr_section \notin {{}, {<<>>}}))
       /\ UNCHANGED section
    \/ item.kind = "ignored" /\ UNCHANGED historyVars

Init ==
    /\ m_sections = [s \in {} |-> NoValues] /\ m_curr_section = {}
    /\ config = [s \in {} |-> NoValues] /\ section = <<>> /\ carried = FALSE
    /\ parsing = FALSE /\ bad = FALSE
    /\ lines = 0 /\ files = 0

\* Parse: a file that does not open changes nothing.
ParseBegin ==
    /\ ~parsing /\ files < MaxFiles
    /\ files' = files + 1
    /\ parsing' \in BOOLEAN
    /\ section' = <<>>
    /\ UNCHANGED <<readerVars, config, carried, bad, lines>>

ReadLine ==
    /\ parsing /\ ~bad /\ lines < MaxLines
    /\ lines' = lines + 1
    /\ \E item \in Sections \cup Pairs \cup Ignored : ParseLine(Written(item)) /\ Meant(item)
    /\ UNCHANGED <<parsing, bad, files>>

\* getline meets the end: an empty line is parsed, the loop ends.
ParseEnd ==
    /\ parsing /\ ~bad
    /\ ParseLine(<<>>)
    /\ parsing' = FALSE
    /\ UNCHANGED <<historyVars, bad, lines, files>>

\* A read error sets badbit and not eofbit: getline returns empty lines for ever.
ReadError ==
    /\ parsing
    /\ ParseLine(<<>>)
    /\ bad' = TRUE
    /\ UNCHANGED <<historyVars, parsing, lines, files>>

Next == ParseBegin \/ ReadLine \/ ParseEnd \/ ReadError

Spec == Init /\ [][Next]_vars

(***************************************************************************)
(* The sections hold what the files say (ini_file.cpp:50-135): whatever    *)
(* the blanks, the quotes and the comments, every pair is in the section   *)
(* above it with its last value, no other key or section appears, and a    *)
(* malformed line changes nothing.  A later file whose first pair stands   *)
(* before any section is excepted: it continues the section the file       *)
(* before it ended in.                                                     *)
(***************************************************************************)
ParsedAsWritten == ~carried => m_sections = config
=============================================================================
