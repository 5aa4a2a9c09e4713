----------------------------- MODULE ConfigFile -----------------------------
(* kmlib/km_helper.cpp: getConfigElement_string on a file, which is a        *)
(* sequence of lines as fgets returns them.  A character is a class of its   *)
(* own: " " (also a tab), "n", another letter or digit, "#", a sign below    *)
(* '0' as "." and "," are, and the end of line.                              *)
EXTENDS Integers, Sequences

NL == "\n"
Blank == {" ", NL}              \* not above ' '
Text == {"n", "a", "b", "1"}    \* from '0' on
Signs == {"#", ".", ","}        \* above ' ', below '0'

None == <<"NULL">>

(* s up to the first character of a set.                                     *)
Upto(s, set) ==
    IF \E i \in DOMAIN s : s[i] \in set
    THEN SubSeq(s, 1, (CHOOSE i \in DOMAIN s : s[i] \in set /\ \A j \in 1 .. i - 1 : s[j] \notin set) - 1)
    ELSE s

From(s, i) == SubSeq(s, i, Len(s))

(* A line that begins with a blank is cut at its first letter n: the code    *)
(* compares with 'n' where it means '\n', and keeps the end of line.         *)
cleanStr(s) ==
    IF s[1] \notin Blank THEN Upto(s, {NL})
    ELSE IF \E i \in DOMAIN s : s[i] \in Text
         THEN Upto(From(s, CHOOSE i \in DOMAIN s :
                               s[i] \in Text /\ \A j \in 1 .. i - 1 : s[j] \notin Text), {"n"})
         ELSE None

(* The name ends at the first character below '0', without one there is none.*)
Name(s) == IF \E i \in DOMAIN s : s[i] \notin Text THEN Upto(s, Blank \cup Signs) ELSE None

(* Mutant: the value ends at the end of the line.                            *)
ValueLong(s) ==
    IF \E i \in DOMAIN s : s[i] \notin Blank
    THEN From(s, CHOOSE i \in DOMAIN s :
                     s[i] \notin Blank /\ \A j \in 1 .. i - 1 : s[j] \in Blank)
    ELSE None

(* The first word.                                                           *)
Value(s) ==
    IF \E i \in DOMAIN s : s[i] \notin Blank
    THEN Upto(From(s, CHOOSE i \in DOMAIN s :
                          s[i] \notin Blank /\ \A j \in 1 .. i - 1 : s[j] \in Blank), Blank)
    ELSE None

(* The first comma becomes a point.                                          *)
Point(s) ==
    LET commas == {i \in DOMAIN s : s[i] = ","}
    IN  [i \in DOMAIN s |->
            IF s[i] = "," /\ \A j \in commas : i <= j THEN "." ELSE s[i]]

(* What a line makes of the search: a value, nothing (go on), or its end.    *)
Line(s, elemname) ==
    LET clean == cleanStr(s)
        rest == From(clean, Len(Name(clean)) + 2)
    IN  IF clean = None \/ (clean # << >> /\ clean[1] = "#") THEN [go |-> TRUE, value |-> None]
        ELSE IF Name(clean) = None THEN [go |-> FALSE, value |-> None]
        ELSE IF Name(clean) # elemname \/ rest = << >> THEN [go |-> TRUE, value |-> None]
        ELSE [go |-> FALSE,
              value |-> IF Value(rest) = None THEN None ELSE Point(Value(rest))]

getConfigElement_string(lines, elemname) ==
    LET result[n \in 1 .. Len(lines) + 1] ==
            IF n > Len(lines) THEN None
            ELSE LET line == Line(lines[n], elemname)
                 IN  IF line.go THEN result[n + 1] ELSE line.value
    IN  result[1]

-----------------------------------------------------------------------------
(* "# ... comment; ElementName-space-ElementValue": lines as the format says,*)
(* the name at the start of the line and the value after one or more blanks. *)
Element(name, value) == [name |-> name, value |-> value]
Other == Element(<< >>, << >>)   \* any other line

Character == Blank \cup Text \cup Signs

IsElement(e) ==
    e.name \in Seq(Text) /\ e.name # << >> /\ e.value \in Seq(Text \cup Signs) /\ e.value # << >>

(* What is behind a value begins with a blank; another line is empty or a    *)
(* comment.                                                                  *)
IsTail(s) == s \in Seq(Character) /\ (s # << >> => s[1] \in Blank)

IsOther(s) ==
    /\ s \in Seq(Character) /\ s # << >>
    /\ s[1] = "#" \/ (s[1] \in Blank /\ \A i \in DOMAIN s : s[i] \notin Text)

Written(e, blanks, tail) ==
    e.name \o [i \in 1 .. blanks |-> " "] \o e.value \o tail

(* The value is that of the first line with the name, with a point for a     *)
(* comma; other lines, comments and empty lines between them do not matter.  *)
FirstValue(elements, elemname) ==
    LET hits == {i \in DOMAIN elements : elements[i].name = elemname}
        first == CHOOSE i \in hits : \A j \in hits : i <= j
    IN  IF hits = {} THEN None ELSE Point(elements[first].value)
=============================================================================
