----------------------------- MODULE XmlParser -----------------------------
(***************************************************************************)
(* Xml_t (core/loader/xml.cpp): a file is read into a buffer that ends     *)
(* with a zero byte, and parse_xml_ makes the tree of its elements, a call *)
(* within a call for each child.                                           *)
(*                                                                         *)
(* A document is a sequence of tokens [kind, name, attributes, text]: an   *)
(* opening, closing or self-closing tag, a <?...?>, a tag that the file    *)
(* ends in, a text, a text of one letter, white space or the zero byte.    *)
(* The pointer into the buffer is always at the start of a token, but for  *)
(* one place.                                                              *)
(***************************************************************************)
EXTENDS Integers, Sequences, SequencesExt

CONSTANT Files \* the documents that files hold

VARIABLES
  document, \* the buffer
  at,       \* the token that is read next
  open,     \* the elements whose calls have not returned, outermost first
  parsing,  \* where in parse_xml_ the innermost call is
  root      \* m_root

xmlVars == <<document, at, open, parsing, root>>

(* Xml_node_t, and what stands for NULL.                                   *)
None == [tag |-> "none", attributes |-> <<>>, text |-> <<>>, children |-> <<>>]
NewElement == [None EXCEPT !.tag = ""]

IsText(token) == token.kind \in {"text", "letter"}
Zero == [kind |-> "zero", name |-> "", attributes |-> <<>>, text |-> <<>>]

InitXml == document = <<>> /\ at = 1 /\ open = <<>> /\ parsing = "file" /\ root = None

(* What is between the brackets of a tag.                                  *)
Inside(token) ==
  CASE token.kind = "close" -> "/" \o token.name
    [] token.kind = "self" -> token.name \o "/"
    [] token.kind = "meta" -> "?" \o token.name \o "?"
    [] OTHER -> token.name \o (IF token.attributes = <<>> THEN "" ELSE " =")

(* Whether the tag, without its first character, closes the element: it    *)
(* need only be the start of the element's name.                           *)
Closes(token, element) ==
  LET name == Tail(Inside(token))
  IN  name # "" /\ Len(name) <= Len(element.tag) /\ SubSeq(element.tag, 1, Len(name)) = name

(* White space is one token.                                               *)
PastSpace(i) == IF document[i].kind = "space" THEN i + 1 ELSE i

(* A call that fails, or that ends with the buffer, does not say how far   *)
(* it came.  Its caller goes on inside of the tag it called for, finds no  *)
(* bracket there and fails as well, and so on up to the root.              *)
Refuse == root' = None /\ parsing' = "ended" /\ UNCHANGED <<document, at, open>>

(* Mutant: a child is put before the others. *)
ReturnsToFront(element, callers, next) ==
  /\ IF callers = <<>> THEN root' = element /\ parsing' = "ended" /\ open' = callers
     ELSE /\ open' = [callers EXCEPT ![Len(callers)].children = <<element>> \o @]
          /\ parsing' = "children" /\ UNCHANGED root
  /\ at' = next /\ UNCHANGED document

(* The call for the element returns to the others, which goes on with the  *)
(* given token.                                                            *)
Returns(element, callers, next) ==
  /\ IF callers = <<>> THEN root' = element /\ parsing' = "ended" /\ open' = callers
     ELSE /\ open' = [callers EXCEPT ![Len(callers)].children = Append(@, element)]
          /\ parsing' = "children" /\ UNCHANGED root
  /\ at' = next /\ UNCHANGED document

-----------------------------------------------------------------------------
(* A file that cannot be opened leaves the buffer empty.                   *)
ReadFile ==
  /\ parsing = "file"
  /\ \/ \E file \in Files : document' = Append(file, Zero) /\ parsing' = "tag" /\ UNCHANGED root
     \/ document' = <<>> /\ root' = None /\ parsing' = "ended"
  /\ UNCHANGED <<at, open>>

(* Mutant: goes on with the tag behind the one whose bracket is missed. *)
SelfClosesFinds(element, next) ==
  IF open = <<>> \/ document[next].kind \in {"space", "zero"} THEN Returns(element, open, next)
  ELSE Returns(element, open, next + 1)

(* The end of a self-closing element.  The pointer is behind its bracket,  *)
(* where that of other elements is at it, and the caller steps over one    *)
(* more character: white space, a text that is no longer, the zero byte,   *)
(* or else the bracket of the next tag or the start of a text, which it    *)
(* then misses.                                                            *)
SelfCloses(element, next) ==
  CASE open = <<>> \/ document[next].kind = "space" -> Returns(element, open, next)
    [] open # <<>> /\ document[next].kind = "letter" -> Returns(element, open, next + 1)
    [] open # <<>> /\ document[next].kind = "zero" ->
         IF Len(open) # 1 THEN Refuse
         ELSE /\ root' = [Head(open) EXCEPT !.children = Append(@, element)] /\ parsing' = "ended"
              /\ at' = next /\ UNCHANGED <<document, open>>
    [] OTHER -> Refuse

(* A call skips whatever is before the next tag.  If there is none it      *)
(* looks for one in the byte behind the buffer, which may hold anything,   *)
(* and returns an element without a name.                                  *)
SkipToTag ==
  /\ parsing = "tag"
  /\ IF at <= Len(document)
     THEN /\ IsText(document[at]) \/ document[at].kind \in {"meta", "space", "zero"}
          /\ at' = at + 1 /\ UNCHANGED <<document, open, parsing, root>>
     ELSE \/ parsing' = "beyond" /\ UNCHANGED <<document, at, open, root>>
          \/ open # <<>> /\ Refuse
          \/ /\ open = <<>> /\ root' = NewElement /\ parsing' = "ended"
             /\ UNCHANGED <<document, at, open>>

(* A closing tag is taken for the opening one of an element with the slash *)
(* in its name.  A tag that the file ends in is read on beyond the buffer. *)
ParseTag ==
  /\ parsing = "tag" /\ at <= Len(document)
  /\ LET tag == document[at]
         element == [NewElement EXCEPT !.tag = (IF tag.kind = "close" THEN "/" ELSE "") \o tag.name,
                                       !.attributes = tag.attributes]
     IN  \/ tag.kind = "cut" /\ parsing' = "beyond" /\ UNCHANGED <<document, at, open, root>>
         \/ tag.kind = "self" /\ SelfCloses(element, at + 1)
         \/ /\ tag.kind \in {"open", "close"}
            /\ open' = Append(open, element) /\ at' = at + 1 /\ parsing' = "content"
            /\ UNCHANGED <<document, root>>

(* An element with a text ends with the text: whatever tag follows is      *)
(* taken for its closing one.                                              *)
ParseText ==
  /\ parsing = "content"
  /\ LET i == PastSpace(at)
         element == [Last(open) EXCEPT !.text = document[i].text]
     IN  /\ IsText(document[i]) \/ document[i].kind = "zero"
         /\ IF IsText(document[i]) /\ document[i + 1].kind \notin {"zero", "cut"}
               /\ Closes(document[i + 1], element)
            THEN Returns(element, Front(open), i + 2)
            ELSE Refuse

ParseChildren ==
  /\ parsing = "content"
  /\ ~ IsText(document[PastSpace(at)]) /\ document[PastSpace(at)].kind # "zero"
  /\ parsing' = "children" /\ UNCHANGED <<document, at, open, root>>

(* A turn of the loop over the children: the call for one starts, or the   *)
(* element is closed.                                                      *)
ParseChild ==
  /\ parsing = "children"
  /\ LET i == PastSpace(at)
     IN  CASE IsText(document[i]) \/ document[i].kind = "zero" -> Refuse
           [] document[i].kind = "close" ->
                IF Closes(document[i], Last(open)) THEN Returns(Last(open), Front(open), i + 1)
                ELSE Refuse
           [] OTHER -> at' = i /\ parsing' = "tag" /\ UNCHANGED <<document, open, root>>

ParseXml == SkipToTag \/ ParseTag \/ ParseText \/ ParseChildren \/ ParseChild

=============================================================================
