----------------------------- MODULE FormRecord -----------------------------
(***************************************************************************)
(* A filled-in form on its way into the range coder: the lines of its      *)
(* stripped text are parsed into a record with nested records for sub-     *)
(* forms (parse_stripped_with_subforms of forms/recipe.c), the record is   *)
(* walked along the recipe (compress_record_with_subforms and              *)
(* recipe_compress of forms/recipe_compress.c), and the recipes of sub-    *)
(* forms are looked up by name (lookup_recipe of forms/compression.cpp).   *)
(*                                                                         *)
(* Lines are opening and closing braces, comments, lines that cannot be    *)
(* parsed, lines of 1000 or more characters and key=value pairs.  How a    *)
(* value is encoded is in FieldCodec; here a value is Bad when its field   *)
(* cannot encode it.  The coder has space for a number of symbols.         *)
(***************************************************************************)
EXTENDS Integers, Sequences, SequencesExt

CONSTANTS Pairs,        \* the key=value lines texts are made of
          MainFields,   \* the fields of the main recipe, in order
          SubFields,    \* the fields of the sub-form's recipe
          SubForm,      \* the name of the sub-form
          Bad,          \* a value that cannot be encoded
          MAX_FIELDS,   \* fields of a record
          MaxLines,     \* bound: lines of a text
          MoreLines,    \* bound: lines more when the text opens with a sub-form
          Rooms,        \* symbols that the coder may have space for, 1 KB in the code
          OutSize,      \* symbols that the caller's buffer has space for, 1 KB in the code
          UninitIndex   \* what the index of lookup_recipe may start with, from 0

VARIABLES lines,    \* the text so far
          parsed,   \* [ok, rec]: the result of the parser
          coded,    \* [rc, ev, coder, room, lost]: the result of the compressor
          phase

vars == <<lines, parsed, coded, phase>>

Open == [kind |-> "open"]
CloseBrace == [kind |-> "close"]
Comment == [kind |-> "comment"]
Junk == [kind |-> "junk"]
Long == [kind |-> "long"]
Pair(k, v) == [kind |-> "pair", key |-> k, value |-> v]
Sub(fields) == [kind |-> "sub", fields |-> fields]
Lines == {Open, CloseBrace, Comment, Junk, Long} \cup Pairs

-----------------------------------------------------------------------------
(***************************************************************************)
(* The parser: a stack of the records that are open, innermost last, each  *)
(* the sequence of its fields.  A long line is ignored like a comment,     *)
(* whatever is in it.                                                      *)
(***************************************************************************)
Malformed == [ok |-> FALSE, rec |-> <<>>]

HasQuestion(rec) == \E i \in DOMAIN rec : rec[i].kind = "pair" /\ rec[i].key = "question"

RECURSIVE Parse(_, _)
Parse(stack, rest) ==
    LET top == Last(stack)
        line == Head(rest)
        parent == stack[Len(stack) - 1]
        full == Len(top) >= MAX_FIELDS
    IN IF rest = <<>>
         THEN IF Len(stack) > 1 THEN Malformed ELSE [ok |-> TRUE, rec |-> top]
       ELSE CASE line.kind = "open" ->
                   IF full THEN Malformed ELSE Parse(Append(stack, <<>>), Tail(rest))
              [] line.kind = "close" ->
                   IF Len(stack) = 1 \/ ~(HasQuestion(top) \/ HasQuestion(parent)) THEN Malformed
                   ELSE Parse(Append(Front(Front(stack)), Append(parent, Sub(top))), Tail(rest))
              [] line.kind = "pair" ->
                   IF full THEN Malformed
                   ELSE Parse(Append(Front(stack), Append(top, line)), Tail(rest))
              [] line.kind \in {"comment", "long"} -> Parse(stack, Tail(rest))
              [] line.kind = "junk" -> Malformed

ParseStripped(ls) == Parse(<<<<>>>>, ls)

-----------------------------------------------------------------------------
(***************************************************************************)
(* The compressor.  coder says what became of the range coder: a field     *)
(* that cannot be encoded frees it, whoever called.  A coder that is full  *)
(* takes no more symbols, and that is lost on whoever does not look at     *)
(* what range_encode_equiprobable returns.                                 *)
(***************************************************************************)
Bit(b) == [kind |-> "bit", b |-> b]
Value(k, v) == [kind |-> "value", key |-> k, v |-> v]

Recipes == <<[name |-> "main", fields |-> MainFields], [name |-> SubForm, fields |-> SubFields]>>

\* lookup_recipe: the index is not initialised
Lookup(name, start) ==
    LET at == {i \in start + 1 .. Len(Recipes) : Recipes[i].name = name}
    IN IF at = {} THEN <<>> ELSE Recipes[CHOOSE i \in at : \A j \in at : i <= j].fields

FirstWith(rec, key) ==
    LET at == {i \in DOMAIN rec : rec[i].kind = "pair" /\ rec[i].key = key}
    IN IF at = {} THEN 0 ELSE CHOOSE i \in at : \A j \in at : i <= j

\* An enclosure of the sub-form, and the records in it
IsEnclosure(f, form) ==
    /\ f.kind = "sub"
    /\ \E i \in DOMAIN f.fields : /\ f.fields[i].kind = "pair" /\ f.fields[i].key = "formid"
                                  /\ f.fields[i].value = form
SubRecords(rec) == SelectSeq(rec, LAMBDA f : f.kind = "sub")
Instances(rec, form) ==
    FlattenSeq([i \in DOMAIN rec |-> IF IsEnclosure(rec[i], form) THEN SubRecords(rec[i].fields) ELSE <<>>])

Fresh(room) == [rc |-> 0, ev |-> <<>>, coder |-> "live", room |-> room, lost |-> FALSE]
Full(s) == Len(s.ev) >= s.room
Emit(s, e) == IF Full(s) THEN [s EXCEPT !.lost = TRUE] ELSE [s EXCEPT !.ev = Append(@, e)]

\* A field of a recipe is the name of a key, or of a sub-form when sub is true.  A field
\* is checked when the code of its type returns what the coder did: not text, multi or uuid.
RECURSIVE Walk(_, _, _, _)
RECURSIVE WalkInstances(_, _, _, _)

WalkInstances_unmarked(s, fields, subs, start) ==
    IF subs = <<>> THEN s
    ELSE WalkInstances(Walk(s, fields, Head(subs).fields, start), fields, Tail(subs), start)
\* A 1 before each instance; what the instance returns is not looked at.
WalkInstances(s, fields, subs, start) ==
    IF subs = <<>> THEN s
    ELSE WalkInstances([Walk(Emit(s, Bit(1)), fields, Head(subs).fields, start) EXCEPT !.rc = 0],
                       fields, Tail(subs), start)

(***************************************************************************)
(* compress_record_with_subforms: the fields of the recipe in turn.  The   *)
(* walk of an instance that fails has freed the coder, and this walk goes  *)
(* on with it.                                                             *)
(***************************************************************************)
Walk(s, fields, rec, start) ==
    LET f == Head(fields)
        i == FirstWith(rec, f.name)
        sub == Lookup(f.name, start)
        value == Emit(Emit(s, Bit(1)), Value(f.name, rec[i].value))
        inner == Emit(WalkInstances(s, sub, Instances(rec, f.name), start), Bit(0))
    IN IF fields = <<>> \/ s.rc # 0 THEN s
       ELSE IF f.sub
         THEN IF sub = <<>> THEN [s EXCEPT !.rc = -1] ELSE Walk(inner, Tail(fields), rec, start)
       ELSE IF i = 0 THEN Walk(Emit(s, Bit(0)), Tail(fields), rec, start)
       ELSE IF rec[i].value = Bad
         THEN [Emit(s, Bit(1)) EXCEPT !.rc = -1, !.coder = "freed"]
       ELSE IF f.checked /\ value.lost THEN [value EXCEPT !.rc = -1, !.coder = "freed"]
       ELSE Walk(value, Tail(fields), rec, start)

(***************************************************************************)
(* recipe_compress, after the form hash: frees the coder of a walk that    *)
(* failed, which the walk may have freed, and fails when the caller's      *)
(* buffer cannot hold what the coder does.                                 *)
(***************************************************************************)
RecipeCompress(p, start, room) ==
    LET w == Walk(Fresh(room), MainFields, p.rec, start)
    IN IF ~p.ok THEN [Fresh(room) EXCEPT !.rc = -1, !.coder = "freed"]
       ELSE IF w.rc # 0 THEN [w EXCEPT !.coder = IF @ = "freed" THEN "freed twice" ELSE "freed"]
       ELSE [w EXCEPT !.coder = IF @ = "freed" THEN "used after free" ELSE "freed",
                      !.rc = IF Len(w.ev) > OutSize THEN -1 ELSE 0]

-----------------------------------------------------------------------------
Init == lines = <<>> /\ parsed = Malformed /\ coded = Fresh(0) /\ phase = "writing"

EnclosureStart == <<Pair("question", "q"), Open, Pair("formid", SubForm), Open>>

Write(l) ==
    /\ phase = "writing"
    /\ Len(lines) < MaxLines + (IF IsPrefix(EnclosureStart, lines) THEN MoreLines ELSE 0)
    /\ lines' = Append(lines, l)
    /\ UNCHANGED <<parsed, coded, phase>>

CompressForm(start, room) ==
    /\ phase = "writing"
    /\ parsed' = ParseStripped(lines)
    /\ coded' = RecipeCompress(parsed', start, room)
    /\ phase' = "done"
    /\ UNCHANGED lines

Next == (\E l \in Lines : Write(l)) \/ (\E i \in UninitIndex, r \in Rooms : CompressForm(i, r))

Spec == Init /\ [][Next]_vars

-----------------------------------------------------------------------------
RECURSIVE Printed(_)
\* The lines a record was parsed from, without comments.
Printed(rec) ==
    FlattenSeq([i \in DOMAIN rec |-> IF rec[i].kind = "sub"
                                       THEN <<Open>> \o Printed(rec[i].fields) \o <<CloseBrace>>
                                       ELSE <<rec[i]>>])
(***************************************************************************)
(* A text that is accepted is represented whole but for its long lines:    *)
(* printing the record gives its other lines again, each in the sub-form   *)
(* it stands in.                                                           *)
(***************************************************************************)
ParsedWhole ==
    phase = "done" /\ parsed.ok
        => Printed(parsed.rec) = SelectSeq(lines, LAMBDA l : l.kind \notin {"comment", "long"})

(***************************************************************************)
(* Decode is what a receiver with the recipes reads back: per field 0, or  *)
(* 1 and its value; per sub-form a 1 before each instance and a 0 at the   *)
(* end.  It returns the fields it read and the events that are left.       *)
(***************************************************************************)
RECURSIVE Decode(_, _)
RECURSIVE DecodeInstances(_, _)
DecodeInstances(fields, ev) ==
    LET first == Decode(fields, Tail(ev))
        rest == DecodeInstances(fields, first.ev)
    IN IF ev = <<>> \/ Head(ev) # Bit(1) THEN [out |-> <<>>, ev |-> IF ev = <<>> THEN ev ELSE Tail(ev)]
       ELSE [out |-> <<first.out>> \o rest.out, ev |-> rest.ev]
Decode(fields, ev) ==
    LET f == Head(fields)
        inst == DecodeInstances(SubFields, ev)
        present == ev # <<>> /\ Head(ev) = Bit(1)
        here == IF f.sub THEN [out |-> [name |-> f.name, is |-> inst.out], ev |-> inst.ev]
                ELSE IF present THEN [out |-> [name |-> f.name, is |-> <<ev[2]>>], ev |-> SubSeq(ev, 3, Len(ev))]
                ELSE [out |-> [name |-> f.name, is |-> <<>>], ev |-> IF ev = <<>> THEN ev ELSE Tail(ev)]
        rest == Decode(Tail(fields), here.ev)
    IN IF fields = <<>> THEN [out |-> <<>>, ev |-> ev]
       ELSE [out |-> <<here.out>> \o rest.out, ev |-> rest.ev]

RECURSIVE Expected(_, _)
Expected(fields, rec) ==
    [k \in DOMAIN fields |->
        LET f == fields[k]
            subs == SelectSeq(rec, LAMBDA e : IsEnclosure(e, f.name))
            all == FlattenSeq([j \in DOMAIN subs |-> SubRecords(subs[j].fields)])
            i == FirstWith(rec, f.name)
        IN [name |-> f.name,
            is |-> IF f.sub THEN [j \in DOMAIN all |-> Expected(SubFields, all[j].fields)]
                   ELSE IF i = 0 THEN <<>> ELSE <<Value(f.name, rec[i].value)>>]]
(***************************************************************************)
(* A form that fits into the coder and is compressed without an error is   *)
(* read back with every field of the recipe, and with every instance of    *)
(* its sub-form in order.  Of one that does not fit, what was compressed   *)
(* first is there, and it may yet be without an error.                     *)
(***************************************************************************)
FormRoundTrip ==
    phase = "done" /\ coded.rc = 0 /\ coded.coder = "freed" /\ ~coded.lost
        => Decode(MainFields, coded.ev) = [out |-> Expected(MainFields, parsed.rec), ev |-> <<>>]

\* Nothing in the form keeps it from being compressed.
Encodable ==
    /\ \A i \in DOMAIN lines : lines[i].kind = "pair" => lines[i].value # Bad
    /\ ~coded.lost /\ Len(coded.ev) <= OutSize

(***************************************************************************)
(* As long as every value can be encoded and the coder has space for them, *)
(* the coder is freed once, when it is no longer used.                     *)
(***************************************************************************)
FreedOnce == phase = "done" /\ Encodable => coded.coder = "freed"

(***************************************************************************)
(* "Eventually we want to support full skip logic ...  For now we will     *)
(* allow skip sections by indicating missing fields": a form that was      *)
(* parsed, holds no bad value and fits into the coder is compressed,       *)
(* whatever is missing.                                                    *)
(***************************************************************************)
MissingFieldsAllowed == phase = "done" /\ parsed.ok /\ Encodable => coded.rc = 0

(***************************************************************************)
(* "Get result and store it, unless it is too big for the output buffer":  *)
(* a form of which something did not fit is refused.                       *)
(***************************************************************************)
TooBigRefused == phase = "done" /\ coded.lost => coded.rc = -1
=============================================================================
