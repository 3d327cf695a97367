---------------------------- MODULE DoxyBindings ----------------------------
(***************************************************************************)
(* The methods of the XML bindings: an object of a class is made by        *)
(* factory(), filled from an element of the document by build(), and       *)
(* written by export() as XML or by exportLiteral() as Python source.      *)
(*                                                                         *)
(* A behaviour takes one class, one element of up to MaxNodes child nodes, *)
(* and goes through build, export, and build again from what export wrote  *)
(* (or exportLiteral).  A child element is itself built by its class, from *)
(* a body of text, or from an element in it, which may have another in it, *)
(* and so on down to MaxInside: what is checked for every class as a       *)
(* parent is used for it as a child.                                       *)
(*                                                                         *)
(* A text is a sequence of tokens: plain text, text with characters that   *)
(* XML escapes ("special"), an element inside the text ("nested"), a CDATA *)
(* section of either kind, what export adds: white space ("ws") and an     *)
(* attribute or an element the object never had ("added").                 *)
(***************************************************************************)
EXTENDS DoxySchema, Integers, SequencesExt, FiniteSets

CONSTANTS
    MaxNodes,    \* bound: child nodes of the element
    MaxInside    \* bound: elements one inside the other in the first of them

ASSUME NodesAssumption == MaxNodes \in Nat /\ MaxInside \in Nat

VARIABLES
    class,      \* the name of the class
    node,       \* the part of the element read so far: attributes, child nodes
    object,     \* the Python object
    out,        \* the element export wrote
    again,      \* the object built from `out`
    phase       \* "new", "building", "raised", "exported", "rebuilt", "literal", "literal raised"

vars == <<class, node, object, out, again, phase>>

None == "None"
C == Classes[class]

-----------------------------------------------------------------------------
(* Building.                                                               *)

\* buildChildren of a class, as a function of the names it knows.
Known(children, tag) == \E k \in DOMAIN children : children[k].name = tag
Entry(children, tag) == children[CHOOSE k \in DOMAIN children : children[k].name = tag]

\* What a child element without attributes leaves in an object of its class: the
\* text of its body, if the class keeps text, and the object made of the element
\* inside it, if there is one.  An element of another name leaves nothing.
RECURSIVE Inner(_, _)
Inner(type, element) ==
    LET cls == Classes[type] IN
    [type   |-> type,
     text   |-> IF cls.text = "ignored" THEN SelectSeq(element.body, LAMBDA t : t = "added")
                ELSE SelectSeq(element.body, LAMBDA t : t # "nested"),
     inside |-> LET known == SelectSeq(element.inside, LAMBDA i : Known(cls.built, i.name))
                IN  [k \in DOMAIN known |->
                        [name  |-> known[k].name,
                         value |-> Inner(Entry(cls.built, known[k].name).type, known[k])]]]

\* factory(): the subclasses of compound.py and index.py give strings the value
\* ''; lists start empty; the other fields are None, here <<>>.  The constructor
\* of a class with mixed content sets content_ and no field for its children.
factory(type) ==
    LET cls == Classes[type]
        own == {e.name : e \in {d \in Range(cls.built) : d.how \notin {"item", "textitem"}}}
    IN  [attributes |-> [a \in cls.attributes |-> None],
         fields     |-> [f \in own |->
                            IF Known(cls.exported, f) /\ Entry(cls.exported, f).how = "text"
                            THEN << <<>> >> ELSE <<>>],
         valueOf_   |-> <<>>,
         content_   |-> <<>>]

\* buildAttributes: int() raises ValueError on anything but a number.
BadInteger(cls, attrs) == \E a \in DOMAIN attrs \cap cls.integers : attrs[a] = "special"

buildAttributes(obj, attrs) ==
    [obj EXCEPT !.attributes = [a \in DOMAIN @ |-> IF a \in DOMAIN attrs THEN attrs[a] ELSE @[a]]]

\* A child element kept as a string must hold text only: nodeValue of anything
\* else is None, and adding None to a string raises TypeError.
BadText(cls, child) ==
    /\ child.kind = "element" /\ Known(cls.built, child.name)
    /\ Entry(cls.built, child.name).how \in {"text", "texts", "textitem"}
    /\ "nested" \in Range(child.body)

\* Mutant: a list field keeps the last child only.
TakeLastElement(obj, e, child) ==
    CASE e.how = "text"     -> [obj EXCEPT !.fields[e.name] = <<child.body>>]
      [] e.how = "texts"    -> [obj EXCEPT !.fields[e.name] = <<child.body>>]
      [] e.how = "one"      -> [obj EXCEPT !.fields[e.name] = <<Inner(e.type, child)>>]
      [] e.how = "many"     -> [obj EXCEPT !.fields[e.name] = <<Inner(e.type, child)>>]
      [] e.how \in {"item", "textitem"} ->
                               [obj EXCEPT !.content_ = Append(@, [name |-> e.name, value |-> child.body])]

\* buildChildren on a child element the class knows.
TakeElement(obj, e, child) ==
    CASE e.how = "text"     -> [obj EXCEPT !.fields[e.name] = <<child.body>>]
      [] e.how = "texts"    -> [obj EXCEPT !.fields[e.name] = Append(@, child.body)]
      [] e.how = "one"      -> [obj EXCEPT !.fields[e.name] = <<Inner(e.type, child)>>]
      [] e.how = "many"     -> [obj EXCEPT !.fields[e.name] = Append(@, Inner(e.type, child))]
      [] e.how = "item"     -> [obj EXCEPT !.content_ =
                                    Append(@, [name |-> e.name, value |-> Inner(e.type, child)])]
      [] e.how = "textitem" -> [obj EXCEPT !.content_ =
                                    Append(@, [name |-> e.name, value |-> child.body])]

\* buildChildren on text and on CDATA.
TakeText(cls, obj, child) ==
    [obj EXCEPT
        !.valueOf_ = IF cls.text \in {"value", "both"} THEN @ \o child.body ELSE @,
        !.content_ = IF child.kind = "text" /\ cls.text \in {"content", "both"}
                     THEN Append(@, [name |-> "", value |-> child.body]) ELSE @]

buildChildren(cls, obj, child) ==
    IF child.kind # "element" THEN TakeText(cls, obj, child)
    ELSE IF Known(cls.built, child.name)
         THEN TakeElement(obj, Entry(cls.built, child.name), child)
         ELSE obj

-----------------------------------------------------------------------------
(* Writing.                                                                *)

\* Mutant: nothing is escaped.
QuoteNothing(text) == [k \in DOMAIN text |-> IF text[k] = "special" THEN "malformed" ELSE text[k]]

\* quote_xml escapes the special characters, so the text is read back as it was;
\* but it also escapes those of a CDATA section, where nothing is unescaped.
quote_xml(text) == [k \in DOMAIN text |-> IF text[k] = "cdata_special" THEN "cdata_escaped" ELSE text[k]]

\* MixedContainer.export and exportSimple write the text as it is: special
\* characters make the output malformed.
Raw(text) == [k \in DOMAIN text |-> IF text[k] = "special" THEN "malformed" ELSE text[k]]

\* An object of such a class writes what it never read: a required attribute as
\* the text None, an empty element for a string that is read as an object.
Adds(type) ==
    \/ Classes[type].required # {}
    \/ \E e \in Range(Classes[type].exported) :
          e.how = "text" /\ Entry(Classes[type].built, e.name).how = "one"

\* The text an object of a class writes between its tags.
exportText(type, text) ==
    CASE Classes[type].text = "ignored" -> IF Adds(type) THEN <<"ws", "added">> ELSE <<"ws">>
      [] Classes[type].text = "value"   -> <<"ws">> \o quote_xml(text) \o <<"ws">>
      [] Classes[type].text = "both"    -> quote_xml(text)
      [] Classes[type].text = "content" -> Raw(text)

Element(tag, body) == [kind |-> "element", name |-> tag, body |-> body, inside |-> <<>>]
Around(element, inner) == [element EXCEPT !.inside = <<inner>>]
TextNode(body) == [kind |-> "text", name |-> "#text", body |-> body]
CdataNode(body) == [kind |-> "cdata", name |-> "#cdata", body |-> body]

\* The nodes a parser makes of text with CDATA sections in it.
Nodes(text) ==
    [k \in DOMAIN text |->
        IF text[k] \in {"cdata_plain", "cdata_escaped"} THEN CdataNode(<<text[k]>>)
        ELSE TextNode(<<text[k]>>)]

\* The string Python makes of an object.
Repr == <<"repr">>

\* export() of an object in a field, and of the object in it, if its class writes
\* the field.
RECURSIVE exportObject(_, _)
exportObject(tag, obj) ==
    LET exported == Classes[obj.type].exported
        written  == SelectSeq(obj.inside, LAMBDA i : Known(exported, i.name))
    IN  [Element(tag, exportText(obj.type, obj.text)) EXCEPT !.inside =
            [k \in DOMAIN written |->
                IF Entry(exported, written[k].name).how = "text"
                THEN Element(written[k].name, Repr)
                ELSE exportObject(written[k].name, written[k].value)]]

\* exportChildren for one field of a class without mixed content.
exportField(obj, e) ==
    [k \in DOMAIN obj.fields[e.name] |->
        LET v == obj.fields[e.name][k]
        IN  IF e.how \in {"one", "many"} THEN exportObject(e.name, v)
            ELSE Element(e.name,
                    IF Entry(C.built, e.name).how = "one" /\ v # <<>> THEN Repr ELSE quote_xml(v))]

\* MixedContainer.export for one item of content_: text; a string; an object,
\* which is written on lines of its own.
exportItem(cls, item) ==
    IF item.name = "" THEN <<TextNode(Raw(item.value))>>
    ELSE LET e == Entry(cls.exported, item.name)
         IN  IF e.how = "textitem" THEN <<Element(e.name, Raw(item.value))>>
             ELSE <<TextNode(<<"ws">>), exportObject(e.name, item.value),
                    TextNode(<<"ws">>)>>

exportChildren(cls, obj) ==
    CASE cls.text = "ignored" -> FlattenSeq([k \in DOMAIN cls.exported |->
                                                exportField(obj, cls.exported[k])])
      [] cls.text = "content" -> FlattenSeq([k \in DOMAIN obj.content_ |->
                                                exportItem(cls, obj.content_[k])])
      [] OTHER                -> Nodes(exportText(class, obj.valueOf_))

\* exportAttributes: quote_attrib escapes a value, so it is read back as it was; a
\* required attribute is written even if it is None.
exportAttributes(cls, obj) ==
    [a \in {b \in cls.attributes : obj.attributes[b] # None} \cup cls.required |->
        IF obj.attributes[a] = None THEN "text_None" ELSE obj.attributes[a]]

\* hasContent_ reads the fields of the class; of one with mixed content the
\* constructor never set them, and reading one raises AttributeError.
HasContentRaises(type, obj) ==
    \E k \in DOMAIN Classes[type].literal : Classes[type].literal[k].name \notin DOMAIN obj.fields

\* exportLiteral of an object in a field asks the object and, if it is of a class
\* that writes the field, the object in it, and so on.
RECURSIVE InnerRaises(_)
InnerRaises(obj) ==
    \/ HasContentRaises(obj.type, factory(obj.type))
    \/ \E k \in DOMAIN obj.inside :
          Known(Classes[obj.type].literal, obj.inside[k].name) /\ InnerRaises(obj.inside[k].value)

\* The objects in the fields that exportLiteral writes.
LiteralObjects ==
    UNION {Range(object.fields[f]) \ {<<>>} :
              f \in {g \in DOMAIN object.fields :
                       Known(C.literal, g) /\ Entry(C.literal, g).how \in {"one", "many"}}}

\* Mutant: only the objects in the fields are asked, not those in them in turn.
LiteralAsksTwoLevels ==
    \/ HasContentRaises(class, object)
    \/ \E obj \in LiteralObjects : HasContentRaises(obj.type, factory(obj.type))

\* exportLiteral asks hasContent_ of the object and of every object in it.
LiteralRaises ==
    \/ HasContentRaises(class, object)
    \/ \E obj \in LiteralObjects : InnerRaises(obj)

-----------------------------------------------------------------------------
Unwritten == [attributes |-> <<>>, children |-> <<>>]

Init ==
    /\ class \in DOMAIN Classes
    /\ node = Unwritten
    /\ object = factory(class)
    /\ out = Unwritten
    /\ again = object
    /\ phase = "new"

\* The attributes of the element: none, or all of them, of either kind.
Attributes(cls) ==
    {<<>>} \cup {[a \in cls.attributes |-> v] : v \in {"plain", "special"}}

\* build() starts with the attributes.
BuildAttributes ==
    /\ phase = "new"
    /\ \E attrs \in Attributes(C) :
          /\ node' = [node EXCEPT !.attributes = attrs]
          /\ \/ /\ ~BadInteger(C, attrs)
                /\ object' = buildAttributes(object, attrs)
                /\ phase' = "building"
             \/ /\ BadInteger(C, attrs)
                /\ phase' = "raised"
                /\ UNCHANGED object
    /\ UNCHANGED <<class, out, again>>

Bodies == {<<>>, <<"plain">>, <<"special">>, <<"plain", "nested">>}
Children(cls) ==
    {Element(tag, body) : tag \in {cls.built[k].name : k \in DOMAIN cls.built} \cup {"other"},
                          body \in Bodies}
        \cup {TextNode(<<t>>) : t \in {"plain", "special"}}
        \cup {CdataNode(<<t>>) : t \in {"cdata_plain", "cdata_special"}}

\* The elements a class makes objects of, and those with one inside the other.
ObjectsOf(cls) == {e \in Range(cls.built) : e.how \in {"one", "many", "item"}}

RECURSIVE Nestings(_, _)
Nestings(cls, depth) ==
    UNION {{Element(e.name, <<>>)} \cup
           (IF depth = 0 THEN {}
            ELSE {Around(Element(e.name, <<>>), i) : i \in Nestings(Classes[e.type], depth - 1)}) :
           e \in ObjectsOf(cls)}

\* ... and goes through the child nodes in the order of the document.  (A parser
\* never leaves two texts next to each other.)
BuildChild ==
    /\ phase = "building" /\ Len(node.children) < MaxNodes
    /\ \E child \in Children(C) \cup (IF node.children = <<>> THEN Nestings(C, MaxInside) ELSE {}) :
          /\ node.children # <<>> => ~(child.kind = "text" /\ Last(node.children).kind = "text")
          /\ node' = [node EXCEPT !.children = Append(@, child)]
          /\ \/ /\ ~BadText(C, child)
                /\ object' = buildChildren(C, object, child)
                /\ phase' = phase
             \/ /\ BadText(C, child)
                /\ phase' = "raised"
                /\ UNCHANGED object
    /\ UNCHANGED <<class, out, again>>

Export ==
    /\ phase = "building"
    /\ out' = [attributes |-> exportAttributes(C, object),
               children   |-> exportChildren(C, object)]
    /\ phase' = "exported"
    /\ UNCHANGED <<class, node, object, again>>

Malformed == \E k \in DOMAIN out.children : "malformed" \in Range(out.children[k].body)

\* parse() of what was written, for which it must be well formed.
Rebuild ==
    /\ phase = "exported" /\ ~Malformed
    /\ again' = FoldLeft(LAMBDA obj, child : buildChildren(C, obj, child),
                         buildAttributes(factory(class), out.attributes), out.children)
    /\ phase' = "rebuilt"
    /\ UNCHANGED <<class, node, object, out>>

ExportLiteral ==
    /\ phase = "building"
    /\ phase' = IF LiteralRaises THEN "literal raised" ELSE "literal"
    /\ UNCHANGED <<class, node, object, out, again>>

Next == BuildAttributes \/ BuildChild \/ Export \/ Rebuild \/ ExportLiteral

Spec == Init /\ [][Next]_vars

-----------------------------------------------------------------------------
(* Properties.                                                             *)

Elements == SelectSeq(node.children, LAMBDA c : c.kind = "element")
Named(tag) == SelectSeq(Elements, LAMBDA c : c.name = tag)
Single(e) == e.how \in {"text", "one"}
Objects(e) == e.how \in {"one", "many", "item"}

\* What build() reads is what the document says, whatever the order and number of
\* the child nodes: a list field has every child of its name, in document order; a
\* single field has the last one, or its initial value if there is none; the text
\* is all the text; content_ has the texts and the known children in the order in
\* which they are mixed.
BuildKeepsKnown ==
    phase # "raised" =>
        /\ \A f \in DOMAIN object.fields :
              LET e == Entry(C.built, f)
                  values == [k \in DOMAIN Named(f) |->
                                IF Objects(e) THEN Inner(e.type, Named(f)[k])
                                ELSE Named(f)[k].body]
              IN  object.fields[f] =
                    IF ~Single(e) THEN values
                    ELSE IF values = <<>> THEN factory(class).fields[f]
                    ELSE <<Last(values)>>
        /\ object.valueOf_ =
              IF C.text \in {"ignored", "content"} THEN <<>>
              ELSE FlattenSeq([k \in DOMAIN node.children |->
                      IF node.children[k].kind = "element" THEN <<>> ELSE node.children[k].body])
        /\ [k \in DOMAIN object.content_ |-> object.content_[k].name] =
              LET kept == SelectSeq(node.children, LAMBDA c :
                             \/ c.kind = "text" /\ C.text \in {"content", "both"}
                             \/ /\ c.kind = "element" /\ Known(C.built, c.name)
                                /\ Entry(C.built, c.name).how \in {"item", "textitem"})
              IN  [k \in DOMAIN kept |-> IF kept[k].kind = "text" THEN "" ELSE kept[k].name]

\* The children of the element that the object still holds when build() is done.
Held ==
    {k \in DOMAIN node.children :
        /\ node.children[k].kind = "element" /\ Known(C.built, node.children[k].name)
        /\ Single(Entry(C.built, node.children[k].name)) =>
              \A j \in k + 1 .. Len(node.children) : node.children[j].name # node.children[k].name}

\* Text that is written without being escaped: the text of mixed content, that
\* of a string in it, and that of a child whose own content is mixed.
WrittenRaw(k) ==
    LET c == node.children[k]
    IN  /\ "special" \in Range(c.body)
        /\ \/ c.kind = "text" /\ C.text = "content"
           \/ /\ k \in Held
              /\ LET e == Entry(C.built, c.name)
                 IN  \/ e.how = "textitem"
                     \/ Objects(e) /\ Classes[e.type].text = "content" /\ Known(C.exported, c.name)

\* The objects in a child element that its class, or the class of one in it, adds
\* to when it writes them, or does not write.
RECURSIVE LosesBelow(_, _)
LosesBelow(type, element) ==
    \/ Adds(type)
    \/ \E i \in Range(element.inside) :
          /\ Known(Classes[type].built, i.name)
          /\ \/ ~Known(Classes[type].exported, i.name)
             \/ LosesBelow(Entry(Classes[type].built, i.name).type, i)

\* What export() does not write, or writes as something else: the title of a
\* compound and an attribute that must be there and is not, and what a paragraph
\* holds besides text, in the element or at any depth in it; special characters of
\* a CDATA section.
Lossy ==
    \/ class = "compounddefType"
    \/ C.required \ DOMAIN node.attributes # {}
    \/ \E k \in Held : LET e == Entry(C.built, node.children[k].name)
                      IN  Objects(e) /\ LosesBelow(e.type, node.children[k])
    \/ /\ C.text \in {"value", "both"}
       /\ \E c \in Range(node.children) : c.kind = "cdata" /\ c.body = <<"cdata_special">>
    \/ class = "docParaType" /\ Held # {}

\* Two objects that differ in layout only.
Neat(text) == SelectSeq(text, LAMBDA t : t # "ws")
RECURSIVE NeatObject(_)
NeatObject(v) ==
    <<v.type, Neat(v.text), [k \in DOMAIN v.inside |-> <<v.inside[k].name, NeatObject(v.inside[k].value)>>]>>
NeatContent(obj) ==
    FlattenSeq([k \in DOMAIN obj.content_ |->
        LET i == obj.content_[k] IN
        IF i.name = "" THEN [j \in DOMAIN Neat(i.value) |-> <<"", Neat(i.value)[j]>>]
        ELSE IF Objects(Entry(C.built, i.name)) THEN << <<i.name, NeatObject(i.value)>> >>
        ELSE << <<i.name, Neat(i.value)>> >>])
NeatFields(obj) ==
    [f \in DOMAIN obj.fields |->
        [k \in DOMAIN obj.fields[f] |->
            LET v == obj.fields[f][k] IN
            IF Objects(Entry(C.built, f)) /\ v # <<>> THEN NeatObject(v)
            ELSE <<"", Neat(v)>>]]
Alike(a, b) ==
    /\ a.attributes = b.attributes /\ Neat(a.valueOf_) = Neat(b.valueOf_)
    /\ NeatContent(a) = NeatContent(b)
    /\ NeatFields(a) = NeatFields(b)

\* export() writes a document that reads back as the same object exactly when the
\* element has none of the things it loses, and writes a document that can be
\* read at all exactly when no special character stands in mixed content (where
\* MixedContainer writes text as it is).  For all 81 classes.
ExportFaithful ==
    /\ phase = "exported" => (Malformed <=> \E k \in DOMAIN node.children : WrittenRaw(k))
    /\ phase = "rebuilt" => (Alike(object, again) <=> ~Lossy)

\* A child element, or one in it at any depth, is of a class with mixed content,
\* and every class on the way down to it writes the field it is in.
RECURSIVE MixedBelow(_, _)
MixedBelow(type, element) ==
    \/ Classes[type].text = "content"
    \/ \E i \in Range(element.inside) :
          /\ Known(Classes[type].built, i.name) /\ Known(Classes[type].literal, i.name)
          /\ MixedBelow(Entry(Classes[type].built, i.name).type, i)

\* exportLiteral() raises exactly when the object, or one it holds at any depth in
\* fields that are written, is of a class with mixed content: hasContent_ reads
\* fields that the constructors of those classes never set.  (A paragraph's lists
\* are not written, nor looked at: a description in them does no harm.)
LiteralNeedsNoMixed ==
    phase \in {"literal", "literal raised"} =>
        (phase = "literal raised" <=>
            \/ C.text = "content"
            \/ \E k \in Held :
                  LET e == Entry(C.built, node.children[k].name)
                  IN  /\ e.how \in {"one", "many"} /\ Known(C.literal, e.name)
                      /\ MixedBelow(e.type, node.children[k]))

=============================================================================
