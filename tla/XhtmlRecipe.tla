----------------------------- MODULE XhtmlRecipe -----------------------------
(***************************************************************************)
(* Recipes from a form's specification: forms/xhtml2recipe.c.              *)
(*                                                                         *)
(* The handlers that expat calls (start_xhtml, characterdata_xhtml,        *)
(* end_xhtml) collect the elements of the instance, with the form each one *)
(* belongs to, and then, from the bind elements and the selects, the lines *)
(* of one recipe for the form and one for each sub-form.  xhtmlToRecipe    *)
(* returns them when the document ends.                                    *)
(*                                                                         *)
(* A document is a form, its instance with fields and sub-forms, the binds *)
(* of what the instance declared, and of names that it did not, and        *)
(* selects of what was bound.  Two forms may have a field of one name.     *)
(* Names are sequences of letters, since selects are matched by prefix.    *)
(***************************************************************************)
EXTENDS Integers, Sequences, SequencesExt, TLC

CONSTANTS Form,        \* the version of the main form
          Subforms,    \* versions of sub-forms; also the name of their element
          Fields,      \* names of fields
          Selects,     \* the fields that are selects; the others are integers
          Options,     \* the options of selects
          Shared,      \* the fields that more than one form may have
          Strays,      \* names that may be bound without being in the instance
          Pieces,      \* into how many pieces expat may cut an option's text
          MaxOptions,  \* bound: options of one select
          MaxDepth     \* bound: how deep forms nest; the array subform_tags has 10 entries

VARIABLES recipes,      \* list of recipe_nodes: [version, lines, selects]
          curr_r,       \* index of the current one, 0 when there is none
          tags,         \* list of tag_nodes: [name, form]
          curr_t,
          subform_path, \* curr_s and its prev chain, innermost last
          in_instance,
          select_elem,  \* <<>> or <<name>>
          select_first,
          template,     \* what is open in xhtml2template, and whether it closes well
          doc,          \* what the document says so far; see Init
          result        \* what xhtmlToRecipe returned

vars == <<recipes, curr_r, tags, curr_t, subform_path, in_instance, select_elem,
          select_first, template, doc, result>>

Nothing == [done |-> FALSE, texts |-> <<>>]

(***************************************************************************)
(* doc is what a reader of the document knows: which part it is in, the    *)
(* elements that are open, the forms each element is declared in, what was *)
(* bound, with its form, and the options of each select, as the document   *)
(* lists them.  The part is dead when the process has crashed.             *)
(***************************************************************************)
Init ==
    /\ recipes = <<>> /\ curr_r = 0 /\ tags = <<>> /\ curr_t = 0
    /\ subform_path = <<>> /\ in_instance = FALSE
    /\ select_elem = <<>> /\ select_first = TRUE
    /\ template = [open |-> <<>>, ok |-> TRUE]
    /\ doc = [part |-> "head", open |-> <<>>, forms |-> [n \in Fields \cup Subforms |-> {}], bound |-> {}, options |-> <<>>]
    /\ result = Nothing

-----------------------------------------------------------------------------
(***************************************************************************)
(* The lists.  A node added at the end goes behind the current one,        *)
(* wherever a search has moved that: what was behind it is lost.           *)
(***************************************************************************)
Added(list, curr, node) == IF curr = 0 THEN <<node>> \o list ELSE SubSeq(list, 1, curr) \o <<node>>
CurrAfter(curr) == IF curr = 0 THEN 1 ELSE curr + 1

Search(list, Test(_)) ==
    LET at == {i \in DOMAIN list : Test(list[i])}
    IN IF at = {} THEN 0 ELSE CHOOSE i \in at : \A j \in at : i <= j
SearchTags(name) == Search(tags, LAMBDA t : t.name = name)
SearchRecipes(version) == Search(recipes, LAMBDA r : r.version = version)

Recipe(version) == [version |-> version, lines |-> <<>>, selects |-> <<>>]
Push(t, el) == [t EXCEPT !.open = Append(@, el)]
Pop(t, el) == IF t.open # <<>> /\ Last(t.open) = el THEN [t EXCEPT !.open = Front(@)]
              ELSE [t EXCEPT !.ok = FALSE]

-----------------------------------------------------------------------------
\* Fields do not nest
InForm == IF doc.open = <<>> THEN TRUE ELSE Last(doc.open) \in Subforms
\* The form around what comes next, as the document nests
Enclosing == IF doc.open = <<>> THEN Form ELSE Last(doc.open)

\* The element with dd:formid: the main form
StartForm ==
    /\ doc.part = "head"
    /\ recipes' = Added(recipes, curr_r, Recipe(Form)) /\ curr_r' = CurrAfter(curr_r)
    /\ subform_path' = Append(subform_path, Form)
    /\ doc' = [doc EXCEPT !.part = "form"]
    /\ UNCHANGED <<tags, curr_t, in_instance, select_elem, select_first, template, result>>

StartData ==
    /\ doc.part = "form"
    /\ in_instance' = TRUE
    /\ doc' = [doc EXCEPT !.part = "instance"]
    /\ UNCHANGED <<recipes, curr_r, tags, curr_t, subform_path, select_elem, select_first, template, result>>

\* An element with dd:subformid; the template gets a dd:subform and a data element
StartSubform(s) ==
    /\ doc.part = "instance" /\ doc.forms[s] = {}
    /\ InForm
    /\ Len(subform_path) < MaxDepth
    /\ recipes' = Added(recipes, curr_r, Recipe(s)) /\ curr_r' = CurrAfter(curr_r)
    /\ tags' = Added(tags, curr_t, [name |-> s, form |-> s]) /\ curr_t' = CurrAfter(curr_t)
    /\ subform_path' = Append(subform_path, s)
    /\ template' = Push(Push(template, <<"dd:subform">>), <<"data">>)
    /\ doc' = [doc EXCEPT !.open = Append(@, s), !.forms[s] = {Enclosing}]
    /\ UNCHANGED <<in_instance, select_elem, select_first, result>>

\* Any other element of the instance: a field
StartField(f) ==
    /\ doc.part = "instance" /\ (doc.forms[f] = {} \/ (f \in Shared /\ Enclosing \notin doc.forms[f]))
    /\ InForm
    /\ tags' = Added(tags, curr_t, [name |-> f, form |-> Last(subform_path)])
    /\ curr_t' = CurrAfter(curr_t)
    /\ template' = Push(template, f)
    /\ doc' = [doc EXCEPT !.open = Append(@, f), !.forms[f] = @ \cup {Enclosing}]
    /\ UNCHANGED <<recipes, curr_r, subform_path, in_instance, select_elem, select_first, result>>

(***************************************************************************)
(* end_xhtml of an element of the instance.  subform_tags of the depth is  *)
(* the name of the innermost sub-form's element, if there is one.          *)
(***************************************************************************)
SubformTag == IF Len(subform_path) > 1 THEN <<Last(subform_path)>> ELSE <<>>

EndElement_stays(el) ==
    /\ doc.part = "instance" /\ doc.open # <<>> /\ Last(doc.open) = el
    /\ template' = IF SubformTag = <<el>> THEN Pop(Pop(template, <<"data">>), <<"dd:subform">>) ELSE Pop(template, el)
    /\ doc' = [doc EXCEPT !.open = Front(@)]
    /\ UNCHANGED <<recipes, curr_r, tags, curr_t, subform_path, in_instance, select_elem, select_first, result>>
EndElement(el) ==
    /\ doc.part = "instance" /\ doc.open # <<>> /\ Last(doc.open) = el
    /\ IF SubformTag = <<el>>
         THEN /\ template' = Pop(Pop(template, <<"data">>), <<"dd:subform">>)
              /\ subform_path' = Front(subform_path)
         ELSE template' = Pop(template, el) /\ UNCHANGED subform_path
    /\ doc' = [doc EXCEPT !.open = Front(@)]
    /\ UNCHANGED <<recipes, curr_r, tags, curr_t, in_instance, select_elem, select_first, result>>

EndData ==
    /\ doc.part = "instance" /\ doc.open = <<>>
    /\ in_instance' = FALSE
    /\ doc' = [doc EXCEPT !.part = "binds"]
    /\ UNCHANGED <<recipes, curr_r, tags, curr_t, subform_path, select_elem, select_first, template, result>>

(***************************************************************************)
(* A bind element.  For a field that is in the instance the recipe of the  *)
(* field's form becomes the current one, the first form's that has a field *)
(* of that name; for a sub-form, and a name that is not in the instance,   *)
(* it stays what it was.  Selects wait for their options in a list of      *)
(* their own.  A sub-form that is not in the instance has no version.      *)
(***************************************************************************)
NoForm == <<>>
ToBind(f) == IF doc.forms[f] # {} THEN doc.forms[f] ELSE IF f \in Strays THEN {NoForm} ELSE {}

Bind(f, form) ==
    LET t == SearchTags(f)
        r == IF f \in Subforms \/ t = 0 THEN curr_r ELSE SearchRecipes(tags[t].form)
        line == IF f \in Subforms THEN [name |-> f, is |-> "subform"] ELSE [name |-> f, is |-> "field"]
        dies == f \in Subforms /\ t = 0
    IN /\ ~in_instance /\ doc.part = "binds" /\ form \in ToBind(f) /\ <<f, form>> \notin doc.bound
       /\ curr_t' = t /\ curr_r' = r
       /\ recipes' = CASE dies -> recipes
                       [] f \in Selects -> [recipes EXCEPT ![r].selects = Append(@, [name |-> f, options |-> <<>>])]
                       [] OTHER -> [recipes EXCEPT ![r].lines = Append(@, line)]
       /\ doc' = IF dies THEN [doc EXCEPT !.part = "dead"] ELSE [doc EXCEPT !.bound = @ \cup {<<f, form>>}]
       /\ UNCHANGED <<tags, subform_path, in_instance, select_elem, select_first, template, result>>

StartSelect(f) ==
    /\ doc.part \in {"binds", "selects"} /\ select_elem = <<>>
    /\ f \in Selects /\ f \notin DOMAIN doc.options /\ \E b \in doc.bound : b[1] = f
    /\ select_elem' = <<f>> /\ select_first' = TRUE
    /\ doc' = [doc EXCEPT !.part = "selects", !.options = @ @@ (f :> <<>>)]
    /\ UNCHANGED <<recipes, curr_r, tags, curr_t, subform_path, in_instance, template, result>>

(***************************************************************************)
(* A value element: characterdata_xhtml is called for each piece of its    *)
(* text.  A piece goes to every select whose name begins with the name of  *)
(* this one, behind a colon when it is the first and a comma when not.     *)
(***************************************************************************)
Piece(o, i, n) == IF n = 1 THEN <<o>> ELSE <<o, i>>

RECURSIVE Appended(_, _, _, _)
\* The selects from index i on; the flag is cleared by the first that matches.
Appended(selects, i, first, text) ==
    IF i > Len(selects) THEN selects
    ELSE IF IsPrefix(select_elem[1], selects[i].name)
      THEN Appended([selects EXCEPT ![i].options = Append(@, [sep |-> IF first THEN ":" ELSE ",", is |-> text])],
                    i + 1, FALSE, text)
      ELSE Appended(selects, i + 1, first, text)

RECURSIVE AllPieces(_, _, _, _, _)
AllPieces(selects, first, o, i, n) ==
    IF i > n THEN selects
    ELSE AllPieces(Appended(selects, 1, first, Piece(o, i, n)), FALSE, o, i + 1, n)

OptionValue(o, n) ==
    LET f == select_elem[1]
        r == SearchRecipes(tags[SearchTags(f)].form)
    IN /\ doc.part = "selects" /\ select_elem # <<>> /\ Len(doc.options[f]) < MaxOptions
       /\ SearchTags(f) # 0
       /\ recipes' = [recipes EXCEPT ![r].selects = AllPieces(@, select_first, o, 1, n)]
       /\ curr_r' = r /\ select_first' = FALSE
       /\ doc' = [doc EXCEPT !.options[f] = Append(@, o)]
       /\ UNCHANGED <<tags, curr_t, subform_path, in_instance, select_elem, template, result>>

\* The form of a select that is not in the instance is read through NULL.
StrayOption ==
    /\ doc.part = "selects" /\ select_elem # <<>> /\ SearchTags(select_elem[1]) = 0
    /\ doc' = [doc EXCEPT !.part = "dead"]
    /\ UNCHANGED <<recipes, curr_r, tags, curr_t, subform_path, in_instance, select_elem, select_first, template, result>>

EndSelect ==
    /\ doc.part = "selects" /\ select_elem # <<>>
    /\ select_elem' = <<>>
    /\ UNCHANGED <<recipes, curr_r, tags, curr_t, subform_path, in_instance, select_first, template, doc, result>>

(***************************************************************************)
(* The end of the document: the selects of a recipe follow its other       *)
(* lines.  The list is read from the current recipe to its end.            *)
(***************************************************************************)
Text(r) == [version |-> r.version, lines |-> r.lines, selects |-> r.selects]

Finish ==
    /\ doc.part \in {"binds", "selects"} /\ select_elem = <<>>
    /\ result' = [done |-> TRUE, texts |-> [i \in 1 .. Len(recipes) - curr_r + 1 |-> Text(recipes[curr_r + i - 1])]]
    /\ doc' = [doc EXCEPT !.part = "end"]
    /\ UNCHANGED <<recipes, curr_r, tags, curr_t, subform_path, in_instance, select_elem, select_first, template>>

Next ==
    \/ StartForm \/ StartData \/ EndData \/ StrayOption \/ EndSelect \/ Finish
    \/ \E s \in Subforms : StartSubform(s)
    \/ \E f \in Fields : StartField(f) \/ StartSelect(f)
    \/ \E f \in Fields \cup Subforms : EndElement(f) \/ \E form \in ToBind(f) : Bind(f, form)
    \/ \E o \in Options, n \in Pieces : OptionValue(o, n)

Spec == Init /\ [][Next]_vars

-----------------------------------------------------------------------------
IsIn(f, r) ==
    \/ \E i \in DOMAIN r.lines : r.lines[i].name = f
    \/ \E i \in DOMAIN r.selects : r.selects[i].name = f

(***************************************************************************)
(* A field that was bound is in the recipe of the form it is declared in,  *)
(* and in no other, in whatever order binds of several forms come.  Of a   *)
(* name that two forms have this is not so ("TODO: Handle if there are two *)
(* fields with same name"), nor of one that no form has.                   *)
(***************************************************************************)
FieldsInTheirForm ==
    \A f \in Fields, form \in {Form} \cup Subforms : doc.forms[f] = {form} /\ <<f, form>> \in doc.bound =>
        \A i \in DOMAIN recipes : IsIn(f, recipes[i]) <=> recipes[i].version = form

(***************************************************************************)
(* The template closes every element it opens, innermost first, and when   *)
(* the instance ends nothing is left open.                                 *)
(***************************************************************************)
TemplateBalanced ==
    /\ template.ok
    /\ doc.part \notin {"instance"} => template.open = <<>>

Alone(name) == \A f \in Selects \ {name} : ~IsPrefix(f, name) /\ ~IsPrefix(name, f)
(***************************************************************************)
(* Every select whose name does not begin with that of another, nor the    *)
(* other's with its, has the options the document lists for it, in order,  *)
(* behind one colon and separated by commas.                               *)
(***************************************************************************)
OptionsExact ==
    \A i \in DOMAIN recipes : \A j \in DOMAIN recipes[i].selects : Alone(recipes[i].selects[j].name) =>
        LET s == recipes[i].selects[j]
            said == IF s.name \in DOMAIN doc.options THEN doc.options[s.name] ELSE <<>>
        IN s.options = [k \in DOMAIN said |-> [sep |-> IF k = 1 THEN ":" ELSE ",", is |-> <<said[k]>>]]

(***************************************************************************)
(* What is returned starts with the recipe that was worked on last, and    *)
(* holds every recipe from there on: all of them when the last bind or     *)
(* option was of the main form.                                            *)
(***************************************************************************)
ReturnedWhole ==
    result.done /\ recipes[curr_r].version = Form
        => [i \in DOMAIN result.texts |-> result.texts[i].version] = [i \in DOMAIN recipes |-> recipes[i].version]

(***************************************************************************)
(* build_recipe takes the first recipe as the form's own.                  *)
(***************************************************************************)
MainFirst == result.done => result.texts[1].version = Form

(***************************************************************************)
(* "use the right recipe node in the linked list to parse info": the line  *)
(* for a sub-form is in the recipe of the form around it.                  *)
(***************************************************************************)
SubformsInTheirForm ==
    \A s \in Subforms, form \in {Form} \cup Subforms : <<s, form>> \in doc.bound =>
        \A i \in DOMAIN recipes : IsIn(s, recipes[i]) <=> recipes[i].version = form
=============================================================================
