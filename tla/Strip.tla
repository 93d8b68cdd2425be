-------------------------------- MODULE Strip --------------------------------
(***************************************************************************)
(* A form's answers as XML and as stripped text: xml2stripped and          *)
(* stripped2xml of forms/dexml.c.                                          *)
(*                                                                         *)
(* XML is a sequence of tokens: tags, texts between tags and, in a         *)
(* template, variables ($name$); an element of the main form is `field',   *)
(* one inside a sub-form's record too.  Stripped text is a sequence of     *)
(* lines: pairs, and the braces of sub-forms and their records.  Answers   *)
(* are shorter than 1000 characters, where the code cuts them, and fit in  *)
(* the output of 64 KB, whose end it does not look at.                     *)
(***************************************************************************)
EXTENDS Integers, Sequences, SequencesExt

CONSTANTS Fields,      \* fields of the main form, in the template's order
          SubFields,   \* fields of a record of the sub-form, in order
          Values,      \* answers
          OdkRoot,     \* the name of ODK's form element
          Empty,       \* what Magpi puts into an empty field: ~
          MaxRecords,  \* bound: records of the sub-form
          MinRecords   \* bound: records of the sub-form

VARIABLES answers,   \* [main, records]: what the user entered
          stripped,  \* xml2stripped of the form filled in with it
          xml,       \* stripped2xml of that
          phase

vars == <<answers, stripped, xml, phase>>

Tag(n) == [kind |-> "tag", name |-> n, close |-> FALSE]
EndTag(n) == [kind |-> "tag", name |-> n, close |-> TRUE]
Txt(v) == [kind |-> "text", value |-> v]
Var(n) == [kind |-> "var", name |-> n]
Space == [kind |-> "space"]     \* the white space before a data tag

Opening == [kind |-> "open"]
Closing == [kind |-> "close"]
Pair(k, v) == [kind |-> "pair", key |-> k, value |-> v]

-----------------------------------------------------------------------------
(***************************************************************************)
(* xml2stripped, with no form name given, as the app calls it: a pair for  *)
(* each text in an interesting element, one that opens inside the form;    *)
(* braces for dd:subform, and for data inside it.  Magpi's form is the     *)
(* form element; ODK's is an element with an id and a version, which give  *)
(* an implied formid.                                                      *)
(***************************************************************************)
StripStart == [in_instance |-> 0, in_subform |-> 0, interesting |-> <<>>, exit_tag |-> "", out |-> <<>>]

StripText(st, v) ==
    IF st.interesting = <<>> \/ v = Empty \/ st.interesting[1] = "dd:subform" THEN st
    ELSE [st EXCEPT !.out = Append(@, Pair(st.interesting[1], v))]

StripTag(st, t) ==
    LET delta == IF t.close THEN -1 ELSE 1
        brace == IF t.close THEN Closing ELSE Opening
        subform == st.in_subform + (IF t.name = "dd:subform" THEN delta ELSE 0)
        braces == \/ t.name = "dd:subform"
                  \/ t.name = "data" /\ subform > 0
        instance == st.in_instance + (IF t.name = "form" THEN delta ELSE 0)
        odk == instance = 0 /\ t.name = OdkRoot /\ ~t.close
        ends == instance > 0 /\ t.close /\ t.name = st.exit_tag
    IN [st EXCEPT !.interesting = IF ~t.close /\ st.in_instance > 0 THEN <<t.name>> ELSE <<>>,
                  !.in_instance = CASE odk -> 1 [] ends -> instance - 1 [] OTHER -> instance,
                  !.in_subform = subform,
                  !.exit_tag = IF instance > 0 THEN @ ELSE IF t.close THEN "" ELSE t.name,
                  !.out = @ \o (IF braces THEN <<brace>> ELSE <<>>)
                            \o (IF odk THEN <<Pair("formid", OdkRoot)>> ELSE <<>>)]

RECURSIVE StripTokens(_, _)
StripTokens(st, tokens) ==
    IF tokens = <<>> THEN st.out
    ELSE LET t == Head(tokens)
         IN StripTokens(CASE t.kind = "tag" -> StripTag(st, t)
                          [] t.kind = "text" -> StripText(st, t.value)
                          [] t.kind = "space" -> st,
                        Tail(tokens))
Xml2Stripped(tokens) == StripTokens(StripStart, tokens)

-----------------------------------------------------------------------------
(***************************************************************************)
(* stripped2xml reads the pairs first: each with whether it is in a record *)
(* of a sub-form and which sub-form that is, and counts the records.       *)
(***************************************************************************)
RECURSIVE ReadPairs(_, _)
ReadPairs(st, lines) ==
    LET l == Head(lines)
        next ==
          CASE l.kind = "open" -> IF st.instance THEN [st EXCEPT !.count[st.number] = @ + 1, !.record = TRUE]
                                  ELSE [st EXCEPT !.instance = TRUE]
            [] l.kind = "close" -> IF st.record THEN [st EXCEPT !.record = FALSE]
                                   ELSE [st EXCEPT !.instance = FALSE, !.number = @ + 1]
            [] l.kind = "pair" -> [st EXCEPT !.pairs = Append(@, [key |-> l.key, value |-> l.value,
                                                                 sub |-> st.record, number |-> st.number])]
    IN IF lines = <<>> THEN st ELSE ReadPairs(next, Tail(lines))

PairsStart == [instance |-> FALSE, record |-> FALSE, number |-> 1, count |-> [i \in 1 .. 2 |-> 0], pairs |-> <<>>]

(***************************************************************************)
(* Then it walks the template from token i.  A variable takes the first    *)
(* pair of its name and uses it up; in a record it notes whether there are *)
(* records left, and the end of the record's data element then goes back   *)
(* to its start.  (The code goes back to the character before the tag.)    *)
(***************************************************************************)
FillStart == [in_instance |-> FALSE, begin |-> 0, remaining |-> FALSE, written |-> 0, out |-> <<>>]

RECURSIVE Fill(_, _, _, _, _)
Fill(template, i, st, pairs, count) ==
    LET t == template[i]
        out == [st EXCEPT !.out = Append(@, t)]
        at == {j \in DOMAIN pairs : pairs[j].key = t.name}
        j == CHOOSE k \in at : \A l \in at : k <= l
        filled == [st EXCEPT !.out = Append(@, Txt(pairs[j].value)),
                             !.remaining = @ \/ (pairs[j].sub /\ count[pairs[j].number] - st.written > 1)]
    IN IF i > Len(template) THEN st.out
       ELSE CASE t.kind = "space" -> Fill(template, i + 1, st, pairs, count)
              [] t.kind = "var" ->
                   IF at = {} THEN Fill(template, i + 1, st, pairs, count)
                   ELSE Fill(template, i + 1, filled, RemoveAt(pairs, j), count)
              [] t.kind = "tag" /\ t.name = "dd:subform" ->
                   Fill(template, i + 1,
                        IF t.close THEN [out EXCEPT !.in_instance = FALSE, !.written = 0, !.begin = 0]
                        ELSE [out EXCEPT !.in_instance = TRUE], pairs, count)
              [] t.kind = "tag" /\ t.name = "data" /\ ~t.close /\ st.in_instance ->
                   Fill(template, i + 1, [out EXCEPT !.remaining = FALSE, !.begin = i - 1], pairs, count)
              [] t.kind = "tag" /\ t.name = "data" /\ t.close /\ st.in_instance /\ st.remaining ->
                   Fill(template, st.begin, [out EXCEPT !.remaining = FALSE, !.written = @ + 1], pairs, count)
              [] OTHER -> Fill(template, i + 1, out, pairs, count)

Stripped2Xml(template, lines) ==
    LET p == ReadPairs(PairsStart, lines)
    IN Fill(template, 1, FillStart, p.pairs, p.count)

-----------------------------------------------------------------------------
Elements(names, Content(_)) ==
    FlattenSeq([i \in DOMAIN names |-> <<Tag(names[i])>> \o Content(names[i]) \o <<EndTag(names[i])>>])

(***************************************************************************)
(* The template that xhtml2recipe.c writes: the main form's fields, then   *)
(* the sub-form with one record.                                           *)
(***************************************************************************)
Record(Content(_)) == <<Space, Tag("data")>> \o Elements(SubFields, Content) \o <<EndTag("data")>>
Wrapped(root, main, records) ==
    <<Tag(root), Tag("meta"), EndTag("meta"), Tag("data")>> \o main
        \o <<Tag("dd:subform")>> \o records \o <<EndTag("dd:subform"), EndTag("data"), EndTag(root)>>
OneVar(n) == <<Var(n)>>
Template(root) == Wrapped(root, Elements(Fields, OneVar), Record(OneVar))

\* The form as the user's browser sends it
FormXml(a) ==
    Wrapped(a.root, Elements(Fields, LAMBDA n : <<Txt(a.main[n])>>),
            FlattenSeq([r \in DOMAIN a.records |-> Record(LAMBDA n : <<Txt(a.records[r][n])>>)]))

Init ==
    /\ \E root \in {"form", OdkRoot} : answers = [root |-> root, main |-> [f \in Range(Fields) |-> Empty], records |-> <<>>]
    /\ stripped = <<>> /\ xml = <<>> /\ phase = "form"

Answer(f, v) ==
    /\ phase = "form" /\ answers.main[f] = Empty
    /\ answers' = [answers EXCEPT !.main[f] = v]
    /\ UNCHANGED <<stripped, xml, phase>>

AddRecord(r) ==
    /\ phase = "form" /\ Len(answers.records) < MaxRecords
    /\ answers' = [answers EXCEPT !.records = Append(@, r)]
    /\ UNCHANGED <<stripped, xml, phase>>

StripForm ==
    /\ phase = "form" /\ Len(answers.records) >= MinRecords
    /\ stripped' = Xml2Stripped(FormXml(answers))
    /\ phase' = "stripped"
    /\ UNCHANGED <<answers, xml>>

Rebuild ==
    /\ phase = "stripped"
    /\ xml' = Stripped2Xml(Template(answers.root), stripped)
    /\ phase' = "rebuilt"
    /\ UNCHANGED <<answers, stripped>>

CONSTANT Records    \* the records a user may enter
Next ==
    \/ \E f \in Range(Fields), v \in Values : Answer(f, v)
    \/ \E r \in Records : AddRecord(r)
    \/ StripForm \/ Rebuild

Spec == Init /\ [][Next]_vars

-----------------------------------------------------------------------------
Answered(names, a) == SelectSeq(names, LAMBDA n : a[n] # Empty)
(***************************************************************************)
(* The stripped text has a line for every answer, in order, the answers of *)
(* each record between braces of their own.                                *)
(***************************************************************************)
StrippedExact ==
    LET lines(names, a) == LET n == Answered(names, a) IN [i \in DOMAIN n |-> Pair(n[i], a[n[i]])]
        record(a) == <<Opening>> \o lines(SubFields, a) \o <<Closing>>
        r == answers.records
    IN phase # "form" =>
         stripped = (IF answers.root = OdkRoot THEN <<Pair("formid", OdkRoot)>> ELSE <<>>)
                      \o lines(Fields, answers.main) \o <<Opening>>
                      \o FlattenSeq([i \in DOMAIN r |-> record(r[i])]) \o <<Closing>>

Visible(tokens) == SelectSeq(tokens, LAMBDA t : t.kind # "space" /\ t # Txt(Empty))
(***************************************************************************)
(* "Re-constitute a form to XML": filling in the template gives the form   *)
(* that was stripped back.                                                 *)
(***************************************************************************)
Reconstituted == phase = "rebuilt" => xml = Visible(FormXml(answers))
=============================================================================
