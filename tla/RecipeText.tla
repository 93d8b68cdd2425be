----------------------------- MODULE RecipeText -----------------------------
(***************************************************************************)
(* Reading recipes: recipe_read and recipe_form_hash of forms/recipe.c,    *)
(* and build_recipe, lookup and close_recipe of forms/compression.cpp,     *)
(* which read one recipe per form and free them again.                     *)
(*                                                                         *)
(* A recipe text is a sequence of lines.  A line is a comment, malformed   *)
(* or too long, of an unknown type, or defines a field; of an enum, with   *)
(* the characters of its list of options: letters and commas.              *)
(***************************************************************************)
EXTENDS Integers, Sequences, SequencesExt, FiniteSetsExt

CONSTANTS Lists,            \* lists of options, as sequences of characters
          Size(_),          \* the size of a line
          MAX_SIZE,         \* 1 MB in the code
          MAX_FIELD_DEFS,   \* 1000 in the code
          MAX_ENUM_VALUES,  \* 32 in the code
          MaxLines,         \* bound: lines of a text
          MaxTexts          \* bound: recipes of a specification

VARIABLES texts,     \* the recipe texts, the last one still being written
          recipies,  \* what build_recipe made of them: a recipe or NULL
          freed,     \* indexes of the recipes that close_recipe freed
          phase      \* dead when the process has crashed

vars == <<texts, recipies, freed, phase>>

NULL == [ok |-> FALSE, fields |-> <<>>]
Comment == [kind |-> "comment"]
Malformed == [kind |-> "malformed"]
UnknownType == [kind |-> "unknown"]
TextField == [kind |-> "text"]
Enum(list) == [kind |-> "enum", list |-> list]
Lines == {Comment, Malformed, UnknownType, TextField} \cup {Enum(l) : l \in Lists}

-----------------------------------------------------------------------------
(***************************************************************************)
(* The options of an enum: split at commas, an empty list being one empty  *)
(* option; NULL if there are too many.                                     *)
(***************************************************************************)
RECURSIVE Split(_, _, _)
Split(list, i, value) ==
    IF i > Len(list) THEN <<value>>
    ELSE IF list[i] = "," THEN <<value>> \o Split(list, i + 1, <<>>)
    ELSE Split(list, i + 1, Append(value, list[i]))

EnumValues(list) ==
    LET values == Split(list, 1, <<>>)
    IN IF Len(values) > MAX_ENUM_VALUES \/ Len(values) < 1
         THEN [ok |-> FALSE, values |-> <<>>]
         ELSE [ok |-> TRUE, values |-> values]

(***************************************************************************)
(* recipe_read: the number of fields is looked at before each line is      *)
(* processed, comments included, and before the empty line that a text     *)
(* ending with a newline has.                                              *)
(***************************************************************************)
RECURSIVE ReadLines(_, _, _)
ReadLines(lines, newline, fields) ==
    LET l == Head(lines)
        e == EnumValues(l.list)
        full == Len(fields) > MAX_FIELD_DEFS
    IN IF lines = <<>> THEN IF newline /\ full THEN NULL ELSE [ok |-> TRUE, fields |-> fields]
       ELSE IF full THEN NULL
       ELSE CASE l.kind = "comment" -> ReadLines(Tail(lines), newline, fields)
              [] l.kind \in {"malformed", "unknown"} -> NULL
              [] l.kind = "text" -> ReadLines(Tail(lines), newline, Append(fields, [kind |-> "text"]))
              [] l.kind = "enum" ->
                   IF ~e.ok THEN NULL
                   ELSE ReadLines(Tail(lines), newline, Append(fields, [kind |-> "enum", values |-> e.values]))

\* An empty text and one that is too large are not read at all.
SizeOf(t) == MapThenSumSet(LAMBDA i : Size(t.lines[i]), DOMAIN t.lines)
RecipeRead(t) ==
    IF SizeOf(t) < 1 \/ SizeOf(t) > MAX_SIZE THEN NULL ELSE ReadLines(t.lines, t.newline, <<>>)

-----------------------------------------------------------------------------
Init == texts = <<[lines |-> <<>>, newline |-> TRUE]>> /\ recipies = <<>> /\ freed = {} /\ phase = "writing"

WriteLine(l) ==
    LET n == Len(texts)
    IN /\ phase = "writing" /\ Len(texts[n].lines) < MaxLines
       /\ texts' = [texts EXCEPT ![n].lines = Append(@, l)]
       /\ UNCHANGED <<recipies, freed, phase>>

\* The text ends, with or without a newline, and another one follows.
NextText(newline) ==
    LET n == Len(texts)
    IN /\ phase = "writing" /\ n < MaxTexts
       /\ texts' = Append([texts EXCEPT ![n].newline = newline], [lines |-> <<>>, newline |-> TRUE])
       /\ UNCHANGED <<recipies, freed, phase>>

(***************************************************************************)
(* build_recipe: a text that is not accepted leaves a NULL in the array,   *)
(* which is also how the array ends.  The hash of the first is read, also  *)
(* when it is NULL.                                                        *)
(***************************************************************************)
BuildRecipe(newline) ==
    LET all == [texts EXCEPT ![Len(texts)].newline = newline]
    IN /\ phase = "writing"
       /\ texts' = all
       /\ recipies' = [i \in DOMAIN all |-> RecipeRead(all[i])]
       /\ phase' = IF recipies'[1] = NULL THEN "dead" ELSE "built"
       /\ UNCHANGED freed

\* What lookup_recipe and close_recipe go through
Reachable == {i \in DOMAIN recipies : \A j \in 1 .. i : recipies[j] # NULL}

CloseRecipe ==
    /\ phase = "built"
    /\ freed' = Reachable
    /\ phase' = "closed"
    /\ UNCHANGED <<texts, recipies>>

Next ==
    \/ \E l \in Lines : WriteLine(l)
    \/ \E b \in BOOLEAN : NextText(b) \/ BuildRecipe(b)
    \/ CloseRecipe

Spec == Init /\ [][Next]_vars

-----------------------------------------------------------------------------
Joined(values) ==
    FlattenSeq([k \in DOMAIN values |-> IF k = 1 THEN values[k] ELSE <<",">> \o values[k]])
Printed(f) == IF f.kind = "enum" THEN Enum(Joined(f.values)) ELSE TextField
Defines(t) == SelectSeq(t.lines, LAMBDA l : l.kind \in {"text", "enum"})
(***************************************************************************)
(* A recipe that is accepted has a field for every definition of its text, *)
(* in order, an enum's with the options it lists; and a text is only       *)
(* refused for its size, for a line that is wrong or for having too many   *)
(* of something.                                                           *)
(***************************************************************************)
ReadWhole ==
    phase # "writing" => \A i \in DOMAIN texts :
        LET d == Defines(texts[i])
            wrong == \/ \E j \in DOMAIN texts[i].lines : texts[i].lines[j].kind \in {"malformed", "unknown"}
                     \/ \E j \in DOMAIN d : d[j].kind = "enum" /\ ~EnumValues(d[j].list).ok
        IN IF recipies[i] # NULL
             THEN d = [j \in DOMAIN recipies[i].fields |-> Printed(recipies[i].fields[j])]
             ELSE wrong \/ Len(d) > MAX_FIELD_DEFS \/ texts[i].lines = <<>> \/ SizeOf(texts[i]) > MAX_SIZE

(***************************************************************************)
(* An enum never has more than MAX_ENUM_VALUES options:                    *)
(* recipe_encode_field uses that many bits of an int and that many         *)
(* symbols.                                                                *)
(***************************************************************************)
EnumBounded ==
    \A i \in DOMAIN recipies : \A j \in DOMAIN recipies[i].fields :
        recipies[i].fields[j].kind = "enum" => Len(recipies[i].fields[j].values) \in 1 .. MAX_ENUM_VALUES

(***************************************************************************)
(* When every text of the specification was accepted, closing frees every  *)
(* recipe that was read.                                                   *)
(***************************************************************************)
AllFreed ==
    phase = "closed" /\ (\A i \in DOMAIN recipies : recipies[i] # NULL) => freed = DOMAIN recipies

(***************************************************************************)
(* "Too many field definitions (must be <=1000)."                          *)
(***************************************************************************)
FieldLimit == \A i \in DOMAIN recipies : Len(recipies[i].fields) <= MAX_FIELD_DEFS

(***************************************************************************)
(* "Malformed enum field definition: must contain at least one value       *)
(* option": an enum with no options is refused.                            *)
(***************************************************************************)
EnumHasOption ==
    phase # "writing" => \A i \in DOMAIN texts :
        (\E j \in DOMAIN texts[i].lines : texts[i].lines[j] = Enum(<<>>)) => recipies[i] = NULL
=============================================================================
