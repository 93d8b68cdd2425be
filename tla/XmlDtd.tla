------------------------------- MODULE XmlDtd -------------------------------
(***************************************************************************)
(* doProlog of xmlparse.c: what the parser keeps of the declarations in a  *)
(* document type.  Of the handlers only elementDeclHandler may be set, so  *)
(* notations, types of attributes for a handler and events are left out;   *)
(* memory does not run out.  Spaces are not counted as tokens.             *)
(***************************************************************************)
EXTENDS XmlRoles, Sequences, FiniteSets, FiniteSetsExt, SequencesExt

CONSTANTS Tokens,
          Predefined,                \* names of entities that XML defines
          HasElementDecl,            \* elementDeclHandler is set
          GroupInit, ScaffInit,      \* first sizes of arrays, 32 in the code
          Opening,                   \* tokens that every document starts with
          MaxTokens                  \* bound: tokens of a document after these

ASSUME XmlDtdAssumption ==
    HasElementDecl \in BOOLEAN /\ GroupInit \in Nat \ {0, 1} /\ ScaffInit \in Nat \ {0} /\ MaxTokens \in Nat

VARIABLES prolog,      \* prologState
          processor,   \* the function that takes the next token
          parser,      \* what else the parser and its DTD keep
          text         \* the tokens so far

vars == <<prolog, processor, parser, text>>

Null == ""
NoModel == << >>

Starts(opening) ==
    /\ prolog = FoldLeft(LAMBDA before, tok : XmlTokenRole(before, tok).state, XmlPrologStateInit, opening)
    /\ processor = "prolog" /\ text = opening
    /\ parser = [connector |-> << >>,                            \* groupConnector
                 index |-> << >>, scaffold |-> << >>,            \* scaffIndex
                 level |-> 0, count |-> 0, strings |-> 0,        \* scaffLevel, scaffCount, contentStringLen
                 in_eldecl |-> FALSE, model |-> NoModel, inBounds |-> TRUE,
                 element |-> Null, attribute |-> Null, cdata |-> FALSE, id |-> FALSE, entity |-> Null,
                 entities |-> << >>, atts |-> << >>, idAtt |-> << >>, tokenized |-> {}]

Init == Starts(Opening)

Role(tok) == XmlTokenRole(prolog, tok).role

Reads(tok, roles) ==
    /\ processor = "prolog" /\ Len(text) < Len(Opening) + MaxTokens
    /\ Role(tok) \in roles
    /\ prolog' = XmlTokenRole(prolog, tok).state
    /\ processor' = IF Role(tok) = "INSTANCE_START" THEN "content" ELSE "prolog"
    /\ text' = IF tok.k = "S" THEN text ELSE Append(text, tok)

-----------------------------------------------------------------------------
\* Content of elements.  Arrays start with index 0; uninitialised parts are Null.
Array(old, size) == [i \in 0 .. (size - 1) |-> IF i \in DOMAIN old THEN old[i] ELSE Null]
Size(array) == Cardinality(DOMAIN array)
Grown(array, first) == Array(array, IF Size(array) = 0 THEN first ELSE 2 * Size(array))

NewNode == [first |-> 0, last |-> 0, childcnt |-> 0, next |-> 0, type |-> Null, quant |-> Null, name |-> Null]

nextScaffoldPart(p) ==
    LET index == IF p.index = << >> THEN [Array(<< >>, Size(p.connector)) EXCEPT ![0] = 0] ELSE p.index
        room == IF p.count >= Size(p.scaffold) THEN Grown(p.scaffold, ScaffInit) ELSE p.scaffold
        own == [room EXCEPT ![p.count] = NewNode]
        parent == index[p.level - 1]
        linked == IF own[parent].last = 0 THEN own ELSE [own EXCEPT ![own[parent].last].next = p.count]
        tree == [linked EXCEPT ![parent].first = IF linked[parent].childcnt = 0 THEN p.count ELSE @,
                               ![parent].last = p.count, ![parent].childcnt = @ + 1]
    IN [p EXCEPT !.index = index, !.count = @ + 1, !.inBounds = @ /\ p.count \in DOMAIN room,
                 !.scaffold = IF p.level = 0 THEN own ELSE tree]

GroupRoom(p, level) ==
    LET wider == Grown(p.connector, GroupInit)
    IN IF level < Size(p.connector) THEN p
       ELSE [p EXCEPT !.connector = wider,
                      !.index = IF p.connector # << >> /\ @ # << >> THEN Array(@, Size(wider)) ELSE @]

GroupOpen(tok) ==
    LET level == prolog'.level
        roomy == GroupRoom(parser, level)
        open == [roomy EXCEPT !.connector[level] = Null, !.inBounds = @ /\ level \in DOMAIN roomy.connector]
        part == nextScaffoldPart(open)
        myindex == open.count
    IN /\ Reads(tok, {"GROUP_OPEN"})
       /\ parser' = IF ~open.in_eldecl THEN open
                    ELSE [part EXCEPT !.index[part.level] = myindex, !.level = @ + 1,
                                      !.inBounds = @ /\ part.level \in DOMAIN part.index,
                                      !.scaffold[myindex].type = "SEQ"]

GroupSequence(tok) ==
    /\ Reads(tok, {"GROUP_SEQUENCE"})
    /\ parser.connector[prolog.level] # "|"
    /\ parser' = [parser EXCEPT !.connector[prolog.level] = ","]

Group(p) == p.index[p.level - 1]

GroupChoice_bugMix(tok) ==
    /\ Reads(tok, {"GROUP_CHOICE"})
    /\ parser' = IF parser.in_eldecl
                 THEN [parser EXCEPT !.connector[prolog.level] = "|", !.scaffold[Group(parser)].type = "CHOICE"]
                 ELSE [parser EXCEPT !.connector[prolog.level] = "|"]
GroupChoice(tok) ==
    LET first == parser.in_eldecl /\ parser.connector[prolog.level] = Null
                 /\ parser.scaffold[Group(parser)].type # "MIXED"
        typed == IF first THEN [parser EXCEPT !.scaffold[Group(parser)].type = "CHOICE"] ELSE parser
    IN /\ Reads(tok, {"GROUP_CHOICE"})
       /\ parser.connector[prolog.level] # ","
       /\ parser' = [typed EXCEPT !.connector[prolog.level] = "|"]

ElementName(tok) ==
    /\ Reads(tok, {"ELEMENT_NAME"})
    /\ parser' = IF ~HasElementDecl THEN parser
                 ELSE [parser EXCEPT !.element = tok.v, !.level = 0, !.count = 0, !.in_eldecl = TRUE]

NewContent == [type |-> Null, quant |-> Null, name |-> Null, numchildren |-> 0, children |-> 0]

ContentAnyOrEmpty(tok) ==
    /\ Reads(tok, {"CONTENT_ANY", "CONTENT_EMPTY"})
    /\ parser' = IF ~parser.in_eldecl THEN parser
                 ELSE [parser EXCEPT !.model = [nodes |-> 0 :> [NewContent EXCEPT !.type = tok.v]],
                                     !.in_eldecl = FALSE]

ContentPcdata(tok) ==
    /\ Reads(tok, {"CONTENT_PCDATA"})
    /\ parser' = IF parser.in_eldecl THEN [parser EXCEPT !.scaffold[Group(parser)].type = "MIXED"] ELSE parser

\* A name takes its length and the byte that ends it; names have one letter here.
NameLen == 2

Quant(role) ==
    CASE role \in {"CONTENT_ELEMENT_OPT", "GROUP_CLOSE_OPT"} -> "?"
      [] role \in {"CONTENT_ELEMENT_REP", "GROUP_CLOSE_REP"} -> "*"
      [] role \in {"CONTENT_ELEMENT_PLUS", "GROUP_CLOSE_PLUS"} -> "+"
      [] OTHER -> Null

ContentElement(tok) ==
    /\ Reads(tok, {"CONTENT_ELEMENT", "CONTENT_ELEMENT_OPT", "CONTENT_ELEMENT_REP", "CONTENT_ELEMENT_PLUS"})
    /\ parser' = IF ~parser.in_eldecl THEN parser
                 ELSE [nextScaffoldPart(parser) EXCEPT
                          !.scaffold[parser.count].type = "NAME", !.scaffold[parser.count].name = tok.v,
                          !.scaffold[parser.count].quant = Quant(Role(tok)), !.strings = @ + NameLen]

\* dest, cpos and the nodes are those of the array that the handler gets.
RECURSIVE build_node(_, _, _, _), BuildChildren(_, _, _, _, _)
build_node(p, src, dest, h) ==
    LET node == p.scaffold[src]
        made == [type |-> node.type, quant |-> node.quant, name |-> node.name,
                 numchildren |-> node.childcnt, children |-> h.cpos]
    IN IF node.type = "NAME" THEN [h EXCEPT !.nodes[dest] = made, !.strings = @ + NameLen]
       ELSE BuildChildren(p, node.first, h.cpos, node.childcnt,
                          [h EXCEPT !.nodes[dest] = made, !.cpos = @ + node.childcnt])
BuildChildren(p, cn, dest, left, h) ==
    IF left = 0 THEN h
    ELSE BuildChildren(p, p.scaffold[cn].next, dest + 1, left - 1, build_node(p, cn, dest, h))

build_model(p) == build_node(p, 0, 0, [nodes |-> Array(<< >>, p.count), cpos |-> 1, strings |-> 0])

CloseGroup(tok) ==
    LET level == parser.level - 1
        closed == [parser EXCEPT !.level = level, !.scaffold[parser.index[level]].quant = Quant(Role(tok))]
        model == build_model(closed)
    IN /\ Reads(tok, {"GROUP_CLOSE", "GROUP_CLOSE_OPT", "GROUP_CLOSE_REP", "GROUP_CLOSE_PLUS"})
       /\ parser' = IF ~parser.in_eldecl THEN parser
                    ELSE IF level # 0 THEN closed
                    ELSE [closed EXCEPT !.model = model, !.in_eldecl = FALSE, !.strings = 0,
                                        !.inBounds = @ /\ model.cpos <= closed.count /\ model.strings <= closed.strings]

-----------------------------------------------------------------------------
\* Entities: name, and text or identifiers.  The first declaration of a name counts.
NewEntity == [text |-> Null, systemId |-> Null, publicId |-> Null, notation |-> Null]

GeneralEntityName(tok) ==
    /\ Reads(tok, {"GENERAL_ENTITY_NAME"})
    /\ parser' = IF tok.v \in Predefined \cup DOMAIN parser.entities THEN [parser EXCEPT !.entity = Null]
                 ELSE [parser EXCEPT !.entity = tok.v, !.entities = (tok.v :> NewEntity) @@ @]

ParamEntityName(tok) ==
    /\ Reads(tok, {"PARAM_ENTITY_NAME"})
    /\ parser' = [parser EXCEPT !.entity = Null]

Part(role) ==
    CASE role = "ENTITY_VALUE" -> "text"
      [] role = "ENTITY_SYSTEM_ID" -> "systemId"
      [] role = "ENTITY_NOTATION_NAME" -> "notation"
      [] OTHER -> "publicId"

EntityPart(tok) ==
    /\ Reads(tok, {"ENTITY_VALUE", "ENTITY_SYSTEM_ID", "ENTITY_PUBLIC_ID", "DOCTYPE_PUBLIC_ID",
                   "ENTITY_NOTATION_NAME"})
    /\ parser' = IF parser.entity = Null THEN parser
                 ELSE [parser EXCEPT !.entities[parser.entity] =
                          [part \in DOMAIN @ |-> IF part = Part(Role(tok)) THEN tok.v ELSE @[part]]]

-----------------------------------------------------------------------------
\* Attributes: the list of each element, and those that may have to be split into tokens.
Listed(p, element) == IF element \in DOMAIN p.atts THEN p.atts[element] ELSE << >>

defineAttribute(p, isId, value) ==
    LET list == Listed(p, p.element)
        known == \E i \in DOMAIN list : list[i].id = p.attribute
        att == [id |-> p.attribute, value |-> value, cdata |-> p.cdata]
        ids == IF isId /\ p.element \notin DOMAIN p.idAtt THEN (p.element :> p.attribute) @@ p.idAtt ELSE p.idAtt
    IN IF (value # Null \/ isId) /\ known THEN p
       ELSE [p EXCEPT !.atts = (p.element :> Append(list, att)) @@ @, !.idAtt = ids,
                      !.tokenized = IF p.cdata THEN @ ELSE @ \cup {p.attribute}]

AttlistElementName(tok) ==
    /\ Reads(tok, {"ATTLIST_ELEMENT_NAME"})
    /\ parser' = [parser EXCEPT !.element = tok.v]

AttributeName(tok) ==
    /\ Reads(tok, {"ATTRIBUTE_NAME"})
    /\ parser' = [parser EXCEPT !.attribute = tok.v, !.cdata = FALSE, !.id = FALSE]

AttributeType(tok) ==
    /\ Reads(tok, {"ATTRIBUTE_TYPE"})
    /\ parser' = [parser EXCEPT !.cdata = @ \/ tok.v = "CDATA", !.id = @ \/ tok.v = "ID"]

NoDefault(tok) ==
    /\ Reads(tok, {"IMPLIED_ATTRIBUTE_VALUE", "REQUIRED_ATTRIBUTE_VALUE"})
    /\ parser' = defineAttribute(parser, parser.id, Null)

Default(tok) ==
    /\ Reads(tok, {"DEFAULT_ATTRIBUTE_VALUE", "FIXED_ATTRIBUTE_VALUE"})
    /\ parser' = defineAttribute(parser, FALSE, tok.v)

\* storeAtts: the attributes of a start tag that gives some of them, and how the value of
\* one is normalised.
storeAtts(p, element, given) ==
    LET list == Listed(p, element)
        Add(atts, d) == IF d.value = Null \/ \E i \in DOMAIN atts : atts[i][1] = d.id THEN atts
                        ELSE Append(atts, <<d.id, d.value>>)
    IN FoldLeft(Add, given, list)

IsCdata(p, element, attribute) ==
    LET list == Listed(p, element)
        known == {i \in DOMAIN list : list[i].id = attribute}
    IN attribute \in p.tokenized /\ known # {} => list[Min(known)].cdata

-----------------------------------------------------------------------------
\* The other connector than the group has is an error too.
SyntaxError(tok) ==
    /\ processor = "prolog" /\ Len(text) < Len(Opening) + MaxTokens
    /\ CASE Role(tok) = "GROUP_SEQUENCE" -> parser.connector[prolog.level] = "|"
         [] Role(tok) = "GROUP_CHOICE" -> parser.connector[prolog.level] = ","
         [] OTHER -> Role(tok) = "ERROR"
    /\ prolog' = XmlTokenRole(prolog, tok).state
    /\ processor' = "error"
    /\ UNCHANGED <<parser, text>>

\* The other roles change nothing that is kept here.
Passed(tok) ==
    /\ Reads(tok, {"NONE", "XML_DECL", "PI", "COMMENT", "DOCTYPE_NONE", "DOCTYPE_NAME", "DOCTYPE_INTERNAL_SUBSET",
                   "DOCTYPE_SYSTEM_ID", "DOCTYPE_CLOSE", "PARAM_ENTITY_REF", "ENTITY_NONE", "ENTITY_COMPLETE",
                   "NOTATION_NONE", "NOTATION_NAME", "NOTATION_PUBLIC_ID", "NOTATION_SYSTEM_ID",
                   "NOTATION_NO_SYSTEM_ID", "ATTLIST_NONE", "ATTRIBUTE_ENUM_VALUE", "ATTRIBUTE_NOTATION_VALUE",
                   "ELEMENT_NONE", "INSTANCE_START"})
    /\ UNCHANGED parser

Read(tok) ==
    \/ GroupOpen(tok) \/ GroupSequence(tok) \/ GroupChoice(tok) \/ ElementName(tok) \/ ContentAnyOrEmpty(tok)
    \/ ContentPcdata(tok) \/ ContentElement(tok) \/ CloseGroup(tok)
    \/ GeneralEntityName(tok) \/ ParamEntityName(tok) \/ EntityPart(tok)
    \/ AttlistElementName(tok) \/ AttributeName(tok) \/ AttributeType(tok) \/ NoDefault(tok) \/ Default(tok)
    \/ SyntaxError(tok) \/ Passed(tok)

Next == \E tok \in Tokens : Read(tok)

Spec == Init /\ [][Next]_vars

-----------------------------------------------------------------------------
\* The handler is one of xmlrole.c, a level is that of an open parenthesis, and the two
\* levels of doProlog and xmlrole.c are the same.
TypeOK ==
    /\ prolog.handler \in DOMAIN Handlers /\ prolog.level \in Nat
    /\ prolog.role_none \in {"NONE", "ENTITY_NONE", "NOTATION_NONE", "ELEMENT_NONE"}
    /\ processor \in {"prolog", "content", "error"}
    /\ parser.in_eldecl /\ parser.level > 0 /\ processor # "error" => parser.level = prolog.level

\* No index is beyond the end of groupConnector, scaffIndex, scaffold or the memory of a
\* content model, whatever groups are opened after the arrays have grown.
InBounds == parser.inBounds

\* The positions of declarations of a kind that are complete, and their tokens.
Complete(kind) ==
    {i \in DOMAIN text : text[i].v = kind /\ \E j \in (i + 1) .. Len(text) : text[j].k = "DECL_CLOSE"}
Decl(i) == SubSeq(text, i, Min({j \in i .. Len(text) : text[j].k = "DECL_CLOSE"}))
Earliest(i, kind, same(_)) == \A j \in Complete(kind) : j < i => ~same(j)

Tok(kind, value) == [k |-> kind, v |-> value]

Suffix(kind, quant) ==
    kind \o (CASE quant = "?" -> "_QUESTION" [] quant = "*" -> "_ASTERISK" [] quant = "+" -> "_PLUS" [] OTHER -> "")

\* The tokens that a content model is written with.
RECURSIVE Written(_, _)
Written(h, n) ==
    LET node == h.nodes[n]
        kids == [i \in 1 .. node.numchildren |-> Written(h, node.children + i - 1)]
        between == Tok(IF node.type = "SEQ" THEN "COMMA" ELSE "OR", Null)
        mixed == node.type = "MIXED"
        inner == FoldLeft(LAMBDA acc, kid : acc \o <<between>> \o kid,
                          IF mixed THEN <<Tok("POUND_NAME", "#PCDATA")>> ELSE Head(kids),
                          IF mixed THEN kids ELSE Tail(kids))
    IN CASE node.type \in {"ANY", "EMPTY"} -> <<Tok("NAME", node.type)>>
         [] node.type = "NAME" -> <<Tok(Suffix("NAME", node.quant), node.name)>>
         [] OTHER ->
            <<Tok("OPEN_PAREN", Null)>> \o inner \o <<Tok(Suffix("CLOSE_PAREN", node.quant), Null)>>

\* The model that elementDeclHandler gets is the one that is written: with the same
\* groups, in the same order, of sequences or of choices but never both in one group.
ModelAsWritten ==
    HasElementDecl /\ prolog.handler = "internalSubset" /\ Complete("<!ELEMENT") # {} =>
        LET decl == Decl(Max(Complete("<!ELEMENT")))
        IN SubSeq(decl, 3, Len(decl) - 1) = Written(parser.model, 0)

EntityOf(decl) ==
    CASE decl[3].k = "LITERAL" -> [NewEntity EXCEPT !.text = decl[3].v]
      [] decl[3].v = "SYSTEM" -> [NewEntity EXCEPT !.systemId = decl[4].v,
                                                   !.notation = IF Len(decl) = 7 THEN decl[6].v ELSE @]
      [] OTHER -> [NewEntity EXCEPT !.publicId = decl[4].v, !.systemId = decl[5].v,
                                    !.notation = IF Len(decl) = 8 THEN decl[7].v ELSE @]

\* Each general entity is what its first declaration says, whatever entities, parameter
\* entities and predefined ones are declared in between.
EntityFirst ==
    LET general == {i \in Complete("<!ENTITY") : text[i + 1].k = "NAME" /\ text[i + 1].v \notin Predefined}
    IN \A i \in general :
          Earliest(i, "<!ENTITY", LAMBDA j : text[j + 1] = text[i + 1]) =>
              parser.entities[text[i + 1].v] = EntityOf(Decl(i))

\* Definitions of a declaration of attributes from its token i on.
RECURSIVE Definitions(_, _)
Definitions(decl, i) ==
    IF decl[i].k = "DECL_CLOSE" THEN << >>
    ELSE LET last == IF decl[i + 1].v \in Types THEN i + 1
                     ELSE Min({j \in i .. Len(decl) : decl[j].k = "CLOSE_PAREN"})
             fixed == IF decl[last + 1].v = "#FIXED" THEN 1 ELSE 0
             value == decl[last + 1 + fixed]
         IN <<[element |-> decl[2].v, att |-> decl[i].v, type |-> decl[i + 1].v,
               value |-> IF value.k = "LITERAL" THEN value.v ELSE Null]>>
            \o Definitions(decl, last + 2 + fixed)

AllDefinitions ==
    FoldLeft(LAMBDA acc, i : acc \o Definitions(Decl(i), 3), << >>, SetToSortSeq(Complete("<!ATTLIST"), <))

\* Of all definitions of an attribute the first one counts: for its default value, for
\* whether its values are split into tokens, and for whether it is the identifier; a start
\* tag has each attribute once and the values that it gives itself.
AttributesFirst ==
    prolog.handler = "internalSubset" =>
        LET defs == AllDefinitions
            firsts == {i \in DOMAIN defs : \A j \in 1 .. (i - 1) :
                          <<defs[j].element, defs[j].att>> # <<defs[i].element, defs[i].att>>}
            given == <<"a", "given">>
        IN /\ \A i \in firsts :
                 LET d == defs[i]
                     got == storeAtts(parser, d.element, <<given>>)
                     of == {k \in DOMAIN got : got[k][1] = d.att}
                 IN /\ IF d.att = given[1] THEN of = {1}
                       ELSE IF d.value = Null THEN of = {}
                       ELSE \E k \in of : of = {k} /\ got[k][2] = d.value
                    /\ IsCdata(parser, d.element, d.att) <=> d.type = "CDATA"
           /\ \A element \in DOMAIN parser.idAtt :
                 \E i \in firsts : /\ defs[i].element = element /\ defs[i].att = parser.idAtt[element]
                                   /\ defs[i].type = "ID"

\* The document element comes after a whole prolog: at most one document type, after the
\* XML declaration, which is first, and with every declaration in it closed.
PrologWhole ==
    processor = "content" =>
        /\ Cardinality({i \in DOMAIN text : text[i].v = "<!DOCTYPE"}) <= 1
        /\ \A i \in DOMAIN text : text[i].k = "XML_DECL" => \A j \in 1 .. (i - 1) : text[j].k = "BOM"
        /\ Cardinality({i \in DOMAIN text : text[i].k = "DECL_OPEN"})
              = Cardinality({i \in DOMAIN text : text[i].k = "DECL_CLOSE"})
        /\ Cardinality({i \in DOMAIN text : text[i].k = "OPEN_BRACKET"})
              = Cardinality({i \in DOMAIN text : text[i].k = "CLOSE_BRACKET"})
=============================================================================
