------------------------------- MODULE Purify -------------------------------
(***************************************************************************)
(* The cleaning of an html file before the upload widget shows it          *)
(* (purify.js, called without options): one pass of a NodeIterator over    *)
(* the parsed document, which is changed meanwhile.  An element that is    *)
(* not allowed goes, but its content is kept: it is put behind the element *)
(* and visited next.                                                       *)
(*                                                                         *)
(* The document is the sequence of its nodes in document order, each with  *)
(* its depth; what follows a node and lies deeper is its content.  Of an   *)
(* attribute the model keeps the name and what its value is taken for:     *)
(* a plain one, a data: URI, another protocol, or the name of a property   *)
(* of window, document or a form.                                          *)
(*                                                                         *)
(* What an iframe, a noembed or another of RawTags has within it is text   *)
(* to the parser, until the element is unwrapped and its text is parsed as *)
(* html.  The nodes below such an element are those its text then becomes. *)
(***************************************************************************)
EXTENDS Selection

CONSTANTS
  AllowedTags,    \* ALLOWED_TAGS
  ForbidContents, \* FORBID_CONTENTS
  Leaves,         \* text and comments
  RawTags,        \* iframe, noembed, noframes, plaintext, xmp
  ClobberedForms, \* form, where a field has the name of a property of nodes that
                  \* is tested: such a form has a tag of its own here
  AllowedAttr,    \* ALLOWED_ATTR
  UriSafe,        \* URI_SAFE_ATTRIBUTES
  DataUriTags,    \* DATA_URI_TAGS
  HtmlDocuments   \* the documents that may be in an html file

Attribute == [name : STRING, value : STRING]

\* The elements a node lies in.
Ancestors(d, n) ==
  {m \in 1 .. n - 1 : \A k \in m + 1 .. n : d[k].depth > d[m].depth}

\* What the parser makes of any text: a tree, whose elements have each attribute
\* once.  Tags are lower case, as sanitize makes them before it compares.
IsDocument(d) ==
  /\ d \in Seq([depth : Nat, tag : STRING, attrs : Seq(Attribute)])
  /\ \A n \in DOMAIN d :
       /\ d[n].depth = 1 + Cardinality(Ancestors(d, n))
       /\ \A i, j \in DOMAIN d[n].attrs : d[n].attrs[i].name = d[n].attrs[j].name => i = j

ASSUME DocumentsAssumption == \A d \in HtmlDocuments : IsDocument(d)

\* No raw text is left unread as html: none of these elements may stay.
ASSUME RawTextAssumption == RawTags \cap AllowedTags = {}

VARIABLES
  original,  \* history: the document as it was parsed
  doc,       \* the document
  pos        \* the node that the iterator returns next

purifyVars == <<original, doc, pos>>

-----------------------------------------------------------------------------
(* Attributes *)

Permitted(tag, a) ==
  /\ ~(a.name \in {"id", "name"} /\ a.value = "clobbers")
  /\ \/ /\ a.name \in AllowedAttr
        /\ \/ a.name \in UriSafe
           \/ a.value \in {"plain", "clobbers"}
           \/ a.name = "src" /\ a.value = "data" /\ tag \in DataUriTags
     \/ a.name = "data-x"

Names(s) == {s[n].name : n \in DOMAIN s}

Off(s, name) == Only(s, {a \in Seqs!Range(s) : a.name # name})

Place(s, name) == CHOOSE n \in DOMAIN s : s[n].name = name

\* Mutant: the id is not set again.
RemovedLosesId(s, l, tag) ==
  IF s.attributes[l].name = "name" /\ tag = "img" /\ ~s.copied /\ "id" \in Names(s.attributes)
  THEN [live |-> Off(Off(s.live, "name"), "id"), attributes |-> s.attributes, copied |-> TRUE]
  ELSE [s EXCEPT !.live = Off(s.live, s.attributes[l].name)]

\* The name of an image that has an id: Safari crashes if it is removed while the
\* id is there.  From here on the loop goes over a copy of the list, and the id is
\* put back only if it was visited, and kept, before.
Removed(s, l, tag) ==
  LET all == s.attributes
  IN IF all[l].name = "name" /\ tag = "img" /\ ~s.copied /\ "id" \in Names(all)
     THEN [live |-> Off(Off(s.live, "name"), "id")
                      \o (IF Place(all, "id") > l THEN <<all[Place(all, "id")]>> ELSE <<>>),
           attributes |-> all, copied |-> TRUE]
     ELSE [s EXCEPT !.live = Off(s.live, all[l].name)]

\* The list is live: what is removed and set again comes last.
Visited(s, l, tag) ==
  LET a == s.attributes[l]
      gone == Removed(s, l, tag)
      live == IF Permitted(tag, a) THEN Append(gone.live, a) ELSE gone.live
  IN [gone EXCEPT !.live = live, !.attributes = IF gone.copied THEN gone.attributes ELSE live]

\* _sanitizeAttributes goes backwards over all attributes.
SanitizeAttributes(tag, attrs) ==
  LET after[l \in 1 .. Len(attrs) + 1] ==
        IF l > Len(attrs) THEN [live |-> attrs, attributes |-> attrs, copied |-> FALSE]
        ELSE Visited(after[l + 1], l, tag)
  IN after[1].live

-----------------------------------------------------------------------------
(* Elements *)

Node == doc[pos]

\* The last node of the content of doc[pos].
EndOfContent ==
  CHOOSE q \in pos .. Len(doc) :
    /\ \A n \in pos + 1 .. q : doc[n].depth > Node.depth
    /\ q < Len(doc) => doc[q + 1].depth <= Node.depth

Content == SubSeq(doc, pos + 1, EndOfContent)

Higher(s) == [n \in DOMAIN s |-> [s[n] EXCEPT !.depth = @ - 1]]

\* What comes of html that was written out of an element and is parsed anew behind
\* it (insertAdjacentHTML of innerHTML): the content of the element, or what its raw
\* text reads as, now in the place of the element.
Reread(nodes) == Higher(nodes)

Replace(nodes) == SubSeq(doc, 1, pos - 1) \o nodes \o SubSeq(doc, EndOfContent + 1, Len(doc))

\* The tests of _isClobbered meet a field of the form instead of the property.
IsClobbered(tag) == tag \in ClobberedForms

Allowed(tag) == ~IsClobbered(tag) /\ tag \in AllowedTags

\* The content of an element that may not stay is kept.
Opens(tag) == ~IsClobbered(tag) /\ tag \notin AllowedTags \cup ForbidContents \cup Leaves

Running == pos <= Len(doc)

\* The content moves behind the element, which then goes: the iterator finds it next.
Unwrap ==
  /\ Running /\ Opens(Node.tag)
  /\ doc' = Replace(Reread(Content))
  /\ UNCHANGED <<original, pos>>

\* A clobbered form goes with its content, although its tag is allowed.
ForceRemove ==
  /\ Running /\ ~Allowed(Node.tag) /\ ~Opens(Node.tag)
  /\ doc' = Replace(<<>>)
  /\ UNCHANGED <<original, pos>>

Keep ==
  /\ Running /\ Allowed(Node.tag)
  /\ doc' = [doc EXCEPT ![pos].attrs = SanitizeAttributes(Node.tag, @)]
  /\ pos' = pos + 1
  /\ UNCHANGED original

Sanitize == Unwrap \/ ForceRemove \/ Keep

-----------------------------------------------------------------------------
(* What it should do, node by node *)

Stays(d, n) ==
  /\ Allowed(d[n].tag)
  /\ \A m \in Ancestors(d, n) : Allowed(d[m].tag) \/ Opens(d[m].tag)

Clean(d, n) ==
  [d[n] EXCEPT !.depth = 1 + Cardinality({m \in Ancestors(d, n) : Allowed(d[m].tag)}),
               !.attrs = {a \in Seqs!Range(@) : Permitted(d[n].tag, a)}]

\* The nodes that are allowed, under no element whose content is forbidden and in
\* no clobbered form, in their order; of what is left each under its nearest
\* ancestor that is left too; with the attributes that are permitted (sanitize).
\* The raw text of an element that may not stay counts as the html it holds.
PurifiedAsDefined ==
  ~Running =>
    LET left == Only([n \in DOMAIN original |-> n], {n \in DOMAIN original : Stays(original, n)})
    IN [n \in DOMAIN doc |-> [doc[n] EXCEPT !.attrs = Seqs!Range(@)]]
         = [n \in DOMAIN left |-> Clean(original, left[n])]

\* When the iterator has come to the end, no tag is left that is not allowed, also
\* none from raw text, and no clobbered form; what it has passed stays so, although
\* the document is changed behind it.
OnlyAllowedShown == ~Running => \A n \in DOMAIN doc : Allowed(doc[n].tag)

=============================================================================
