-------------------------------- MODULE MCXml --------------------------------
(***************************************************************************)
(* XmlDtd with the tokens of one kind of declaration each, since all of    *)
(* them together are too many; and, beside it, XmlRoles alone with whole   *)
(* declarations that XML allows, spaces anywhere between their tokens.     *)
(* Each behaviour is of one of these (part), and the others rest.          *)
(***************************************************************************)
EXTENDS XmlDtd

VARIABLES part,
          left, reader, told    \* what is left of a document, prologState and the last role

dtd == vars
grammar == <<left, reader, told>>
all == <<part, dtd, grammar>>

Kinds(kinds) == {Tok(k, Null) : k \in kinds}
Texts(kind, values) == {Tok(kind, v) : v \in values}

Doctype == <<Tok("DECL_OPEN", "<!DOCTYPE"), Tok("NAME", "a"), Tok("OPEN_BRACKET", Null)>>
Common == Texts("NAME", {"a"}) \cup Kinds({"DECL_CLOSE"})

ContentTokens ==
    Common \cup Texts("DECL_OPEN", {"<!ELEMENT"}) \cup Texts("POUND_NAME", {"#PCDATA"}) \cup Texts("NAME", {"ANY"})
    \cup Texts("NAME_QUESTION", {"b"})
    \cup Kinds({"OPEN_PAREN", "CLOSE_PAREN", "CLOSE_PAREN_ASTERISK", "COMMA", "OR"})

EntityTokens ==
    Common \cup Texts("DECL_OPEN", {"<!ENTITY"}) \cup Texts("NAME", {"lt", "SYSTEM", "PUBLIC", "NDATA"})
    \cup Texts("LITERAL", {"x", "y"}) \cup Kinds({"PERCENT"})

AttributeTokens ==
    Common \cup Texts("DECL_OPEN", {"<!ATTLIST"}) \cup Texts("NAME", {"b", "CDATA", "ID", "NOTATION"})
    \cup Texts("LITERAL", {"x", "y"}) \cup Texts("POUND_NAME", {"#IMPLIED", "#FIXED"})
    \cup Kinds({"OPEN_PAREN", "CLOSE_PAREN"})

PrologTokens ==
    Common \cup Texts("DECL_OPEN", {"<!DOCTYPE", "<!NOTATION"}) \cup Texts("NAME", {"SYSTEM", "PUBLIC"})
    \cup Texts("LITERAL", {"x"})
    \cup Kinds({"S", "PI", "COMMENT", "XML_DECL", "OPEN_BRACKET", "CLOSE_BRACKET", "PARAM_ENTITY_REF", "INSTANCE_START"})

(* The tokens of each part, and how many of them there are after the       *)
(* opening.                                                                *)
Alphabet ==
    [content |-> ContentTokens, entities |-> EntityTokens, attributes |-> AttributeTokens, prologs |-> PrologTokens]
AllTokens == UNION {Alphabet[p] : p \in DOMAIN Alphabet}
Longest == [content |-> 14, entities |-> 15, attributes |-> 12, prologs |-> 9]

-----------------------------------------------------------------------------
(* The declarations that XML allows. Groups of a content model have one or *)
(* two parts and are nested three deep.                                    *)
T(kind) == <<[k |-> kind, v |-> ""]>>
V(kind, value) == <<[k |-> kind, v |-> value]>>
Literal == V("LITERAL", "x")
Id == V("NAME", "a")
Both(A, B) == {a \o b : a \in A, b \in B}
Maybe(A) == A \cup {<< >>}

Groups(parts, quants) ==
    {T("OPEN_PAREN") \o inner \o T("CLOSE_PAREN" \o q) :
        inner \in parts \cup {p \o T(c) \o r : p \in parts, c \in {"COMMA", "OR"}, r \in parts}, q \in quants}

Names == {V("NAME" \o q, "a") : q \in {"", "_ASTERISK", "_PLUS", "_QUESTION"}}
Inner == Groups({Id}, {"_PLUS"}) \cup {Id}
Middle == Groups(Inner, {"_QUESTION"}) \cup {Id}
Content ==
    Groups(Middle, {"", "_ASTERISK"}) \cup Groups(Names, {""}) \cup {V("NAME", "ANY"), V("NAME", "EMPTY")}
    \cup {T("OPEN_PAREN") \o V("POUND_NAME", "#PCDATA") \o more \o T("CLOSE_PAREN_ASTERISK") :
             more \in Maybe({T("OR") \o Id, T("OR") \o Id \o T("OR") \o Id})}

ExternalId == {V("NAME", "SYSTEM") \o Literal, V("NAME", "PUBLIC") \o Literal \o Literal}
NData == V("NAME", "NDATA") \o Id
EntityDecl ==
    Both({Id}, {Literal} \cup Both(ExternalId, Maybe({NData})))
    \cup Both({T("PERCENT") \o Id}, {Literal} \cup ExternalId)
NotationDecl == Both({Id}, ExternalId \cup {V("NAME", "PUBLIC") \o Literal})

Enumeration == {T("OPEN_PAREN") \o Id \o more \o T("CLOSE_PAREN") : more \in Maybe({T("OR") \o Id})}
AttType == {V("NAME", t) : t \in Types} \cup Enumeration \cup Both({V("NAME", "NOTATION")}, Enumeration)
DefaultDecl ==
    {V("POUND_NAME", "#REQUIRED"), V("POUND_NAME", "#IMPLIED"), Literal, V("POUND_NAME", "#FIXED") \o Literal}
AttDef == Both({Id}, Both(AttType, DefaultDecl))
OtherAttDef == Both({Id}, Both({V("NAME", "ID")} \cup Enumeration, DefaultDecl))

Declared(keyword, bodies) == Both({V("DECL_OPEN", keyword)}, Both(bodies, {T("DECL_CLOSE")}))
Declarations ==
    Declared("<!ELEMENT", Both({Id}, Content)) \cup Declared("<!ENTITY", EntityDecl)
    \cup Declared("<!NOTATION", NotationDecl)
    \cup Declared("<!ATTLIST", Both({Id}, Maybe(Both(AttDef, Maybe(OtherAttDef)))))

DoctypeOpen == V("DECL_OPEN", "<!DOCTYPE") \o Id
Ending == T("CLOSE_BRACKET") \o T("DECL_CLOSE") \o T("INSTANCE_START")
Documents ==
    {DoctypeOpen \o T("OPEN_BRACKET") \o d \o Ending : d \in Declarations}
    \cup Both({DoctypeOpen}, Both(Maybe(ExternalId), Both(Maybe({T("OPEN_BRACKET") \o T("CLOSE_BRACKET")}),
                                                     {T("DECL_CLOSE") \o T("INSTANCE_START")})))

ReadRole(tok) == reader' = XmlTokenRole(reader, tok).state /\ told' = XmlTokenRole(reader, tok).role
GrammarInit == left \in Documents /\ reader = XmlPrologStateInit /\ told = "NONE"
GrammarNext ==
    \/ left # << >> /\ ReadRole(Head(left)) /\ left' = Tail(left)
    \/ left # << >> /\ ReadRole([k |-> "S", v |-> ""]) /\ UNCHANGED left

-----------------------------------------------------------------------------
XmlInit ==
    \/ part = "grammar" /\ GrammarInit /\ Starts(<< >>)
    \/ /\ part \in DOMAIN Alphabet
       /\ IF part = "prologs" THEN Starts(<< >>) ELSE Init
       /\ left = << >> /\ reader = XmlPrologStateInit /\ told = "INSTANCE_START"

XmlNext ==
    /\ part' = part
    /\ \/ /\ part \in DOMAIN Alphabet /\ Len(text) < Longest[part]
          /\ \E tok \in Alphabet[part] : Read(tok)
          /\ UNCHANGED grammar
       \/ part = "grammar" /\ GrammarNext /\ UNCHANGED dtd

XmlSpec == XmlInit /\ [][XmlNext]_all

(* No document with a declaration that XML allows is refused, and the      *)
(* document element is reached at its end.                                 *)
Accepted == told # "ERROR" /\ (left = << >> => told = "INSTANCE_START")
(* What the parser keeps of the declarations is what they say, within the  *)
(* arrays it has, and what XML allows is accepted.                         *)
DeclarationsKept ==
    /\ TypeOK /\ InBounds /\ ModelAsWritten /\ EntityFirst /\ AttributesFirst /\ PrologWhole
    /\ Accepted
=============================================================================
