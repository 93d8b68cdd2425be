------------------------------- MODULE MCForms -------------------------------
(***************************************************************************)
(* The steps a form goes through: the XHTML of a form becomes a recipe and *)
(* a template (Xhtml), recipes are read (Recipes), a filled-in form is     *)
(* stripped and rebuilt (Stripping), parsed and compressed with its recipe *)
(* (Filled), field by field (Codec).  A behaviour is of one step (which);  *)
(* the others rest in an initial state.                                    *)
(***************************************************************************)
EXTENDS Integers, Sequences

VARIABLES which,
          field, one, two,                                          \* FieldCodec
          formLines, formParsed, formCoded, formPhase,              \* FormRecord
          recipes, curr_r, tags, curr_t, subform_path, in_instance, \* XhtmlRecipe
          select_elem, select_first, template, doc, result,
          answers, strippedForm, rebuilt, stripPhase,               \* Strip
          recipeTexts, recipies, freedRecipes, recipePhase          \* RecipeText

encoding == <<field, one, two>>
recording == <<formLines, formParsed, formCoded, formPhase>>
converting == <<recipes, curr_r, tags, curr_t, subform_path, in_instance, select_elem,
                select_first, template, doc, result>>
stripping == <<answers, strippedForm, rebuilt, stripPhase>>
reading == <<recipeTexts, recipies, freedRecipes, recipePhase>>
everything == <<which, encoding, recording, converting, stripping, reading>>

-----------------------------------------------------------------------------
F(type, min, max, precision, labels) ==
    [type |-> type, min |-> min, max |-> max, precision |-> precision, labels |-> labels]

\* Fields of every type, with the precisions at which their code changes.
AllFields ==
    {F("integer", 3, 9, 0, <<>>), F("integer", 4, 4, 0, <<>>), F("boolean", 0, 0, 0, <<>>),
     F("fixedpoint", 0, 9, 0, <<>>), F("float", 0, 0, 0, <<>>), F("timestamp", 0, 0, 0, <<>>), F("magpitimestamp", 0, 0, 0, <<>>),
     F("enum", 0, 0, 0, <<"red", "green", "blue">>), F("enum", 0, 0, 0, <<"red", "red">>),
     F("multi", 0, 0, 0, <<"red", "green", "blue">>), F("magpiuuid", 0, 0, 0, <<>>), F("unknown", 0, 0, 0, <<>>)}
    \cup {F("timeofday", 0, 0, p, <<>>) : p \in {0, 1, 11, 16, 17, 20}}
    \cup {F("date", 0, 0, p, <<>>) : p \in {0, 1, 16, 23, 24, 32}}
    \cup {F("latlong", 0, 0, p, <<>>) : p \in {0, 16, 20, 34}}
    \cup {F("text", 0, 0, p, <<>>) : p \in {0, 3}}
    \cup {F("uuid", 0, 0, p, <<>>) : p \in {0, 4, 17}}

UUIDs == {[i \in 1 .. n |-> IF i = 1 THEN b ELSE i] : n \in {15, 16, 17}, b \in {0, 255}}

\* Values at and beside the limits of each type; a missing number is -1000.
SomeValues(f) ==
    CASE f.type = "integer" -> {2, 3, 4, 8, 9, 10, 11, 30}
      [] f.type \in {"boolean", "fixedpoint"} -> [first : {"y", "1", "n", "2"}, rest : {"", "5"}]
      [] f.type = "float" -> [sign : {0, 1}, exponent : {-200, 0, 127, 128}, mantissa : {0, 16777215, 66051}]
      [] f.type = "timeofday" -> [h : {0, 23, 24}, m : {0, 59, 60}, s : {0, 59, 60, -1000}]
      [] f.type = "timestamp" -> [valid : BOOLEAN, high : {-1, 0, 1, 32767, 32768}, low : {0, 65535}, csec : {0, 99, 100, -1000}]
      [] f.type = "magpitimestamp" -> [year : {0, 9999, 10000}, mon : {0, 1, 12}, mday : {1, 31}, hour : {0, 24},
                                       min : {0, 59}, sec : {0, 61}]
      [] f.type = "date" -> [sep : {"/", "-"}, y : {0, 1, 9999}, m : {1, 12, 31}, d : {1, 31, 32}]
      [] f.type = "latlong" -> [lat : {-90, 0, 90, 91}, lon : {-180, 0, 180}]
      [] f.type = "multi" -> SUBSET {"red", "green", "blue", "pink"}
      [] f.type = "enum" -> {"red", "green", "blue", "pink"}
      [] f.type = "text" -> [text : {"short"}, length : {2}, packs : BOOLEAN] \cup [text : {"long"}, length : {9}, packs : BOOLEAN]
      [] f.type = "magpiuuid" -> [uuid : {<<0, 255>>, <<255, 0>>}, time : {<<0, 1>>, <<1, 0>>}]
      [] f.type = "uuid" -> [uuid : UUIDs]
      [] OTHER -> {0}
Codec == INSTANCE FieldCodec WITH
    Fields <- AllFields, Values <- SomeValues, Uninit <- {0, 59, 200}

-----------------------------------------------------------------------------
\* A line of a stripped form; a main recipe with a sub-form between two fields.
KeyIs(k, v) == [kind |-> "pair", key |-> k, value |-> v]
SomePairs == {KeyIs("question", "q"), KeyIs("formid", "S"), KeyIs("a", "1"), KeyIs("b", "2"), KeyIs("b", "bad")}
FieldOf(name, sub, checked) == [name |-> name, sub |-> sub, checked |-> checked]
MainRecipe == <<FieldOf("a", FALSE, FALSE), FieldOf("S", TRUE, FALSE), FieldOf("b", FALSE, FALSE)>>
SubRecipe == <<FieldOf("b", FALSE, TRUE)>>
Filled == INSTANCE FormRecord WITH
    Pairs <- SomePairs, MainFields <- MainRecipe, SubFields <- SubRecipe, SubForm <- "S", Bad <- "bad",
    MAX_FIELDS <- 4, MaxLines <- 5, MoreLines <- 4, Rooms <- {4, 20}, OutSize <- 7, UninitIndex <- {0},
    lines <- formLines, parsed <- formParsed, coded <- formCoded, phase <- formPhase

\* Two fields, one of them a select and one that several forms may have, in a form with two sub-forms that may nest.
Xhtml == INSTANCE XhtmlRecipe WITH
    Form <- <<"f">>, Subforms <- {<<"s">>, <<"t">>}, Fields <- {<<"a">>, <<"b">>},
    Selects <- {<<"a">>}, Options <- {"x"}, Pieces <- {1}, MaxOptions <- 2, MaxDepth <- 3,
    Shared <- {<<"b">>}, Strays <- {<<"a">>, <<"s">>}
\* Two selects of two options each, or one that begins with the other.
XhtmlSelects == INSTANCE XhtmlRecipe WITH
    Form <- <<"f">>, Subforms <- {}, Fields <- {<<"a">>, <<"b">>, <<"b", "c">>},
    Selects <- {<<"a">>, <<"b">>, <<"b", "c">>}, Options <- {"x", "y"}, Pieces <- {1}, MaxOptions <- 2, MaxDepth <- 3,
    Shared <- {}, Strays <- {}

MainFields == <<"a", "b">>
RecordFields == <<"c", "d">>
FullRecords == [{"c", "d"} -> {"1", "2"}]
AllRecords == [{"c", "d"} -> {"1", "2", "~"}]
\* Up to two records, with gaps.
Stripping == INSTANCE Strip WITH
    Fields <- MainFields, SubFields <- RecordFields, Values <- {"1", "2"}, Empty <- "~", OdkRoot <- "survey",
    MinRecords <- 0, MaxRecords <- 2, Records <- AllRecords,
    stripped <- strippedForm, xml <- rebuilt, phase <- stripPhase
\* One to three full records.
Rebuilding == INSTANCE Strip WITH
    Fields <- MainFields, SubFields <- RecordFields, Values <- {"1", "2"}, Empty <- "~", OdkRoot <- "survey",
    MinRecords <- 1, MaxRecords <- 3, Records <- FullRecords,
    stripped <- strippedForm, xml <- rebuilt, phase <- stripPhase

OptionLists == {<<>>, <<"x", ",", "y">>, <<"x", ",", ",", "y">>}
SizeOfLine(l) == IF l.kind = "comment" THEN 4 ELSE 1
\* Two texts of three lines each, with one field or one option too many, or two comments.
Recipes == INSTANCE RecipeText WITH
    Lists <- OptionLists, Size <- SizeOfLine, MAX_SIZE <- 6, MAX_FIELD_DEFS <- 1, MAX_ENUM_VALUES <- 2, MaxLines <- 3, MaxTexts <- 2,
    texts <- recipeTexts, freed <- freedRecipes, phase <- recipePhase

-----------------------------------------------------------------------------
FormsInit ==
    /\ which \in {"field", "record", "xhtml", "selects", "strip", "rebuild", "recipe"}
    /\ Codec!Init /\ (which # "field" => field = F("boolean", 0, 0, 0, <<>>))
    /\ Filled!Init /\ Recipes!Init /\ IF which = "selects" THEN XhtmlSelects!Init ELSE Xhtml!Init
    /\ Stripping!Init /\ (which \notin {"strip", "rebuild"} => answers.root = "form")

FormsNext ==
    /\ which' = which
    /\ \/ which = "field" /\ Codec!Next /\ UNCHANGED <<recording, converting, stripping, reading>>
       \/ which = "record" /\ Filled!Next /\ UNCHANGED <<encoding, converting, stripping, reading>>
       \/ which = "xhtml" /\ Xhtml!Next /\ UNCHANGED <<encoding, recording, stripping, reading>>
       \/ which = "selects" /\ XhtmlSelects!Next /\ UNCHANGED <<encoding, recording, stripping, reading>>
       \/ which = "strip" /\ Stripping!Next /\ UNCHANGED <<encoding, recording, converting, reading>>
       \/ which = "rebuild" /\ Rebuilding!Next /\ UNCHANGED <<encoding, recording, converting, reading>>
       \/ which = "recipe" /\ Recipes!Next /\ UNCHANGED <<encoding, recording, converting, stripping>>

FormsSpec == FormsInit /\ [][FormsNext]_everything

-----------------------------------------------------------------------------
(***************************************************************************)
(* Whatever the limits and the precision of a field are, every symbol it   *)
(* gives to the range coder is one of its alphabet, but for timestamps     *)
(* outside of 1970..2038.                                                  *)
(***************************************************************************)
SymbolsInRange == Codec!SymbolsInRange

\* A decoder that knows the field knows where its encoding ends: none is the beginning of another.
PrefixFree == Codec!PrefixFree

\* At full precision two values that differ in what their field keeps are encoded differently.
Lossless == Codec!Lossless

\* A text that is accepted is represented whole but for its long lines, each line in its sub-form.
ParsedWhole == Filled!ParsedWhole

(***************************************************************************)
(* A form that fits into the coder and is compressed without an error is   *)
(* read back with every field of the recipe, and with every instance of    *)
(* its sub-form in order.                                                  *)
(***************************************************************************)
FormRoundTrip == Filled!FormRoundTrip

\* As long as every value can be encoded and fits, the coder is freed once, when no longer used.
FreedOnce == Filled!FreedOnce

(***************************************************************************)
(* "For now we will allow skip sections by indicating missing fields": a   *)
(* form that was parsed, holds no bad value and fits is compressed.        *)
(***************************************************************************)
MissingFieldsAllowed == Filled!MissingFieldsAllowed

\* A field of one form that was bound is in the recipe of that form, and in no other.
FieldsInTheirForm == which = "xhtml" => Xhtml!FieldsInTheirForm

\* The template closes every element it opens, innermost first, by the end of the instance.
TemplateBalanced == Xhtml!TemplateBalanced

\* Every select, unless its name begins another's, has the options the document lists, in order.
OptionsExact ==
    IF which = "selects" THEN XhtmlSelects!OptionsExact ELSE Xhtml!OptionsExact

\* What xhtmlToRecipe returns holds every recipe when the last one worked on is the main form's.
ReturnedWhole == Xhtml!ReturnedWhole

\* The stripped text has a line for every answer, in order, each record between braces of its own.
StrippedExact == Stripping!StrippedExact

\* "Re-constitute a form to XML": filling in the template gives back the form that was stripped.
Reconstituted == which = "rebuild" => Rebuilding!Reconstituted

\* A recipe that is accepted has a field for every definition of its text, and none is refused in vain.
ReadWhole == Recipes!ReadWhole

\* An enum never has more than MAX_ENUM_VALUES options, one bit of an int each.
EnumBounded == Recipes!EnumBounded

\* When every text was accepted, closing frees every recipe that was read.
AllFreed == Recipes!AllFreed
(***************************************************************************)
(* An answer in a line of less than 1000 characters, of a form that fits   *)
(* into the coder, is kept from the XML of the form to the symbols of the  *)
(* coder, and back, as far as its type of field promises.                  *)
(***************************************************************************)
AnswersKept ==
    /\ StrippedExact /\ Reconstituted
    /\ ParsedWhole /\ FormRoundTrip /\ FreedOnce /\ MissingFieldsAllowed
    /\ SymbolsInRange /\ PrefixFree /\ Lossless

(***************************************************************************)
(* The recipes of a form are those that its XHTML describes, and are read  *)
(* and freed whole.                                                        *)
(***************************************************************************)
RecipesRight ==
    /\ FieldsInTheirForm /\ TemplateBalanced /\ OptionsExact /\ ReturnedWhole
    /\ ReadWhole /\ EnumBounded /\ AllFreed
=============================================================================
