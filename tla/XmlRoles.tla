------------------------------ MODULE XmlRoles ------------------------------
(***************************************************************************)
(* xmlrole.c of the XML parser that reads forms: what a token of the       *)
(* prolog means depends on a handler, which each token may replace.  The   *)
(* parser is built without XML_DTD.                                        *)
(*                                                                         *)
(* A token has a kind k, the name after XML_TOK_, and a text v.  A handler *)
(* is a table of the tokens that it knows, by their text where the code    *)
(* compares it with a keyword and by their kind otherwise; "same" is for a *)
(* handler that stays, "role_none" for the role that was put by, "closes"  *)
(* for declClose if no parenthesis is open any more.                       *)
(***************************************************************************)
EXTENDS Integers, TLC

To(keys, role, next) == [k \in keys |-> <<role, next, "">>]
Ends(keys, role, none) == [k \in keys |-> <<role, "declClose", none>>]
Closes(keys, role, none) == [k \in keys |-> <<role, "closes", none>>]
Stays(keys, role) == To(keys, role, "same")

Name == {"NAME", "PREFIXED_NAME"}

prolog0to2 ==
    LET misc == Stays({"PI"}, "PI") @@ Stays({"COMMENT"}, "COMMENT")
        last == Stays({"S"}, "NONE") @@ misc @@ To({"INSTANCE_START"}, "INSTANCE_START", "error")
        doctype == To({"<!DOCTYPE"}, "DOCTYPE_NONE", "doctype0") @@ Stays({"BOM"}, "NONE")
    IN [prolog0 |-> To({"S"}, "NONE", "prolog1") @@ To({"XML_DECL"}, "XML_DECL", "prolog1")
                    @@ To({"PI"}, "PI", "prolog1") @@ To({"COMMENT"}, "COMMENT", "prolog1")
                    @@ doctype @@ last,
        prolog1 |-> doctype @@ last,
        prolog2 |-> last]

doctype0to5 ==
    LET s == Stays({"S"}, "DOCTYPE_NONE")
        subset == To({"OPEN_BRACKET"}, "DOCTYPE_INTERNAL_SUBSET", "internalSubset")
        close == To({"DECL_CLOSE"}, "DOCTYPE_CLOSE", "prolog2")
    IN [doctype0 |-> s @@ To(Name, "DOCTYPE_NAME", "doctype1"),
        doctype1 |-> s @@ subset @@ close @@ To({"SYSTEM"}, "DOCTYPE_NONE", "doctype3")
                     @@ To({"PUBLIC"}, "DOCTYPE_NONE", "doctype2"),
        doctype2 |-> s @@ To({"LITERAL"}, "DOCTYPE_PUBLIC_ID", "doctype3"),
        doctype3 |-> s @@ To({"LITERAL"}, "DOCTYPE_SYSTEM_ID", "doctype4"),
        doctype4 |-> s @@ subset @@ close,
        doctype5 |-> s @@ close]

internalSubset ==
    [internalSubset |->
        Stays({"S", "NONE"}, "NONE") @@ Stays({"PI"}, "PI") @@ Stays({"COMMENT"}, "COMMENT")
        @@ Stays({"PARAM_ENTITY_REF"}, "PARAM_ENTITY_REF")
        @@ To({"<!ENTITY"}, "ENTITY_NONE", "entity0") @@ To({"<!ATTLIST"}, "ATTLIST_NONE", "attlist0")
        @@ To({"<!ELEMENT"}, "ELEMENT_NONE", "element0")
        @@ To({"<!NOTATION"}, "NOTATION_NONE", "notation0")
        @@ To({"CLOSE_BRACKET"}, "DOCTYPE_NONE", "doctype5")]

entity0to6 ==
    LET s == Stays({"S"}, "ENTITY_NONE")
    IN [entity0 |-> s @@ To({"PERCENT"}, "ENTITY_NONE", "entity1")
                    @@ To({"NAME"}, "GENERAL_ENTITY_NAME", "entity2"),
        entity1 |-> s @@ To({"NAME"}, "PARAM_ENTITY_NAME", "entity7"),
        entity2 |-> s @@ To({"SYSTEM"}, "ENTITY_NONE", "entity4") @@ To({"PUBLIC"}, "ENTITY_NONE", "entity3")
                    @@ Ends({"LITERAL"}, "ENTITY_VALUE", "ENTITY_NONE"),
        entity3 |-> s @@ To({"LITERAL"}, "ENTITY_PUBLIC_ID", "entity4"),
        entity4 |-> s @@ To({"LITERAL"}, "ENTITY_SYSTEM_ID", "entity5"),
        entity5 |-> s @@ To({"DECL_CLOSE"}, "ENTITY_COMPLETE", "internalSubset")
                    @@ To({"NDATA"}, "ENTITY_NONE", "entity6"),
        entity6 |-> s @@ Ends({"NAME"}, "ENTITY_NOTATION_NAME", "ENTITY_NONE")]

entity7to10 ==
    LET s == Stays({"S"}, "ENTITY_NONE")
    IN [entity7 |-> s @@ To({"SYSTEM"}, "ENTITY_NONE", "entity9") @@ To({"PUBLIC"}, "ENTITY_NONE", "entity8")
                    @@ Ends({"LITERAL"}, "ENTITY_VALUE", "ENTITY_NONE"),
        entity8 |-> s @@ To({"LITERAL"}, "ENTITY_PUBLIC_ID", "entity9"),
        entity9 |-> s @@ To({"LITERAL"}, "ENTITY_SYSTEM_ID", "entity10"),
        entity10 |-> s @@ To({"DECL_CLOSE"}, "ENTITY_COMPLETE", "internalSubset")]

notation0to4 ==
    LET s == Stays({"S"}, "NOTATION_NONE")
        systemId == Ends({"LITERAL"}, "NOTATION_SYSTEM_ID", "NOTATION_NONE")
    IN [notation0 |-> s @@ To({"NAME"}, "NOTATION_NAME", "notation1"),
        notation1 |-> s @@ To({"SYSTEM"}, "NOTATION_NONE", "notation3")
                      @@ To({"PUBLIC"}, "NOTATION_NONE", "notation2"),
        notation2 |-> s @@ To({"LITERAL"}, "NOTATION_PUBLIC_ID", "notation4"),
        notation3 |-> s @@ systemId,
        notation4 |-> s @@ systemId @@ To({"DECL_CLOSE"}, "NOTATION_NO_SYSTEM_ID", "internalSubset")]

Types == {"CDATA", "ID", "IDREF", "IDREFS", "ENTITY", "ENTITIES", "NMTOKEN", "NMTOKENS"}

attlist0to4 ==
    LET s == Stays({"S"}, "ATTLIST_NONE")
    IN [attlist0 |-> s @@ To(Name, "ATTLIST_ELEMENT_NAME", "attlist1"),
        attlist1 |-> s @@ To({"DECL_CLOSE"}, "ATTLIST_NONE", "internalSubset")
                     @@ To(Name, "ATTRIBUTE_NAME", "attlist2"),
        attlist2 |-> s @@ To(Types, "ATTRIBUTE_TYPE", "attlist8") @@ To({"NOTATION"}, "ATTLIST_NONE", "attlist5")
                     @@ To({"OPEN_PAREN"}, "ATTLIST_NONE", "attlist3"),
        attlist3 |-> s @@ To(Name \cup {"NMTOKEN"}, "ATTRIBUTE_ENUM_VALUE", "attlist4"),
        attlist4 |-> s @@ To({"CLOSE_PAREN"}, "ATTLIST_NONE", "attlist8")
                     @@ To({"OR"}, "ATTLIST_NONE", "attlist3")]

attlist5to9 ==
    LET s == Stays({"S"}, "ATTLIST_NONE")
    IN [attlist5 |-> s @@ To({"OPEN_PAREN"}, "ATTLIST_NONE", "attlist6"),
        attlist6 |-> s @@ To({"NAME"}, "ATTRIBUTE_NOTATION_VALUE", "attlist7"),
        attlist7 |-> s @@ To({"CLOSE_PAREN"}, "ATTLIST_NONE", "attlist8")
                     @@ To({"OR"}, "ATTLIST_NONE", "attlist6"),
        attlist8 |-> s @@ To({"#IMPLIED"}, "IMPLIED_ATTRIBUTE_VALUE", "attlist1")
                     @@ To({"#REQUIRED"}, "REQUIRED_ATTRIBUTE_VALUE", "attlist1")
                     @@ To({"#FIXED"}, "ATTLIST_NONE", "attlist9")
                     @@ To({"LITERAL"}, "DEFAULT_ATTRIBUTE_VALUE", "attlist1"),
        attlist9 |-> s @@ To({"LITERAL"}, "FIXED_ATTRIBUTE_VALUE", "attlist1")]

-----------------------------------------------------------------------------
Particles ==
    To(Name, "CONTENT_ELEMENT", "element7") @@ To({"NAME_QUESTION"}, "CONTENT_ELEMENT_OPT", "element7")
    @@ To({"NAME_ASTERISK"}, "CONTENT_ELEMENT_REP", "element7")
    @@ To({"NAME_PLUS"}, "CONTENT_ELEMENT_PLUS", "element7")

element0to3 ==
    LET s == Stays({"S"}, "ELEMENT_NONE")
    IN [element0 |-> s @@ To(Name, "ELEMENT_NAME", "element1"),
        element1 |-> s @@ Ends({"EMPTY"}, "CONTENT_EMPTY", "ELEMENT_NONE")
                     @@ Ends({"ANY"}, "CONTENT_ANY", "ELEMENT_NONE")
                     @@ To({"OPEN_PAREN"}, "GROUP_OPEN", "element2"),
        element2 |-> s @@ To({"#PCDATA"}, "CONTENT_PCDATA", "element3")
                     @@ To({"OPEN_PAREN"}, "GROUP_OPEN", "element6") @@ Particles,
        element3 |-> s @@ Ends({"CLOSE_PAREN"}, "GROUP_CLOSE", "ELEMENT_NONE")
                     @@ Ends({"CLOSE_PAREN_ASTERISK"}, "GROUP_CLOSE_REP", "ELEMENT_NONE")
                     @@ To({"OR"}, "ELEMENT_NONE", "element4")]

element4to7 ==
    LET s == Stays({"S"}, "ELEMENT_NONE")
    IN [element4 |-> s @@ To(Name, "CONTENT_ELEMENT", "element5"),
        element5 |-> s @@ Ends({"CLOSE_PAREN_ASTERISK"}, "GROUP_CLOSE_REP", "ELEMENT_NONE")
                     @@ To({"OR"}, "ELEMENT_NONE", "element4"),
        element6 |-> s @@ Stays({"OPEN_PAREN"}, "GROUP_OPEN") @@ Particles,
        element7 |-> s @@ Closes({"CLOSE_PAREN"}, "GROUP_CLOSE", "ELEMENT_NONE")
                     @@ Closes({"CLOSE_PAREN_ASTERISK"}, "GROUP_CLOSE_REP", "ELEMENT_NONE")
                     @@ Closes({"CLOSE_PAREN_QUESTION"}, "GROUP_CLOSE_OPT", "ELEMENT_NONE")
                     @@ Closes({"CLOSE_PAREN_PLUS"}, "GROUP_CLOSE_PLUS", "ELEMENT_NONE")
                     @@ To({"COMMA"}, "GROUP_SEQUENCE", "element6") @@ To({"OR"}, "GROUP_CHOICE", "element6")]

Closing == {"CLOSE_PAREN", "CLOSE_PAREN_ASTERISK", "CLOSE_PAREN_QUESTION", "CLOSE_PAREN_PLUS"}

Level(state, tok) ==
    CASE state.handler = "element1" /\ tok.k = "OPEN_PAREN" -> 1
      [] state.handler = "element2" /\ tok.k = "OPEN_PAREN" -> 2
      [] state.handler = "element6" /\ tok.k = "OPEN_PAREN" -> state.level + 1
      [] state.handler = "element7" /\ tok.k \in Closing -> state.level - 1
      [] OTHER -> state.level

declClose ==
    [declClose |-> Stays({"S"}, "role_none") @@ To({"DECL_CLOSE"}, "role_none", "internalSubset")]

Handlers ==
    prolog0to2 @@ doctype0to5 @@ internalSubset @@ entity0to6 @@ entity7to10 @@ notation0to4
    @@ attlist0to4 @@ attlist5to9 @@ element0to3 @@ element4to7 @@ declClose
    @@ [error |-> << >>]

common == <<"ERROR", "error", "">>

\* level and role_none are set before they are used.
XmlPrologStateInit == [handler |-> "prolog0", level |-> 0, role_none |-> "NONE"]

\* What a handler says of a token, by its text or by its kind.
Entry(table, state, tok) ==
    IF tok.v \in DOMAIN table THEN table[tok.v]
    ELSE IF tok.k \in DOMAIN table THEN table[tok.k]
    ELSE IF state.handler = "error" THEN <<"NONE", "same", "">> ELSE common

Told(state, entry, level) ==
    LET stays == entry[2] = "same" \/ (entry[2] = "closes" /\ level # 0)
        next == IF entry[2] = "closes" THEN "declClose" ELSE entry[2]
    IN [role |-> IF entry[1] = "role_none" THEN state.role_none ELSE entry[1],
        state |-> [handler |-> IF stays THEN state.handler ELSE next, level |-> level,
                   role_none |-> IF stays \/ entry[3] = "" THEN state.role_none ELSE entry[3]]]

\* The role of a token and the state after it.
XmlTokenRole(state, tok) ==
    Told(state, Entry(Handlers[state.handler], state, tok), Level(state, tok))
=============================================================================
