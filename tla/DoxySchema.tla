----------------------------- MODULE DoxySchema -----------------------------
(***************************************************************************)
(* The classes of the XML bindings (doxyxml/generated) that the            *)
(* documentation tools read Doxygen's output with.  generateDS.py wrote one*)
(* Python class per element type, all with the same methods over different *)
(* names; a definition here gives, for one class, the names its methods    *)
(* are about.  The methods themselves are in DoxyBindings.                 *)
(*                                                                         *)
(* A class is a record:                                                    *)
(*   attributes  the XML attributes buildAttributes and exportAttributes   *)
(*               know; `integers` are those converted with int(), and      *)
(*               `required` those written even when they are None;         *)
(*   built       the child elements buildChildren takes, in its order;     *)
(*   exported    those exportChildren writes, in its order;                *)
(*   literal     those exportLiteralChildren writes;                       *)
(*   text        what becomes of text between the child elements: nothing  *)
(*               ("ignored"), added to valueOf_ ("value"), appended to     *)
(*               content_ ("content"), or "both".                          *)
(***************************************************************************)
EXTENDS Sequences

\* A child element kept as a string, as a list of strings, as an object, as a
\* list of objects, and, in mixed content, as an object or a string of content_.
Child(tag, how, type) == [name |-> tag, how |-> how, type |-> type]
Text(tag)       == Child(tag, "text", "none")
Texts(tag)      == Child(tag, "texts", "none")
One(tag, type)  == Child(tag, "one", type)
Many(tag, type) == Child(tag, "many", type)
Item(tag, type) == Child(tag, "item", type)
TextItem(tag)   == Child(tag, "textitem", "none")

Class(attributes, children, text) ==
    [attributes |-> attributes, integers |-> {}, required |-> {},
     built |-> children, exported |-> children, literal |-> children, text |-> text]

Plain(attributes, children) == Class(attributes, children, "ignored")
Value(attributes)           == Class(attributes, <<>>, "value")
Mixed(attributes, children) == Class(attributes, children, "content")
MixedValue(attributes)      == Class(attributes, <<>>, "both")

WithIntegers(attributes, type) == [type EXCEPT !.integers = attributes]
WithRequired(attributes, type) == [type EXCEPT !.required = attributes]

-----------------------------------------------------------------------------
DoxygenType ==
    WithRequired({"version"}, Plain({"version"}, <<One("compounddef", "compounddefType")>>))

compounddefChildren ==
    <<Text("compoundname"), One("title", "docTitleType"),
      Many("basecompoundref", "compoundRefType"),
      Many("derivedcompoundref", "compoundRefType"),
      Many("includes", "incType"), Many("includedby", "incType"),
      One("incdepgraph", "graphType"), One("invincdepgraph", "graphType"),
      Many("innerdir", "refType"), Many("innerfile", "refType"),
      Many("innerclass", "refType"), Many("innernamespace", "refType"),
      Many("innerpage", "refType"), Many("innergroup", "refType"),
      One("templateparamlist", "templateparamlistType"),
      Many("sectiondef", "sectiondefType"),
      One("briefdescription", "descriptionType"),
      One("detaileddescription", "descriptionType"),
      One("inheritancegraph", "graphType"),
      One("collaborationgraph", "graphType"),
      One("programlisting", "listingType"), One("location", "locationType"),
      One("listofallmembers", "listofallmembersType")>>

\* The title is written as if it were a string.
compounddefExported ==
    [c \in DOMAIN compounddefChildren |->
        IF compounddefChildren[c].name = "title" THEN Text("title") ELSE compounddefChildren[c]]

compounddefLiteral == compounddefChildren

compounddefType ==
    [Plain({"kind", "prot", "id"}, compounddefChildren)
        EXCEPT !.exported = compounddefExported, !.literal = compounddefLiteral]

listofallmembersType == Plain({}, <<Many("member", "memberRefType")>>)

memberRefType == Plain({"virt", "prot", "refid", "ambiguityscope"},
    <<Text("scope"), Text("name")>>)

scope == Value({})
name == Value({})
compoundRefType == MixedValue({"virt", "prot", "refid"})
reimplementType == MixedValue({"refid"})
incType == MixedValue({"local", "refid"})
refType == MixedValue({"prot", "refid"})
refTextType == MixedValue({"refid", "kindref", "external"})

sectiondefType == Plain({"kind"},
    <<Text("header"), One("description", "descriptionType"),
      Many("memberdef", "memberdefType")>>)

memberdefAttributes ==
    {"initonly", "kind", "volatile", "const", "raise", "virt", "readable",
     "prot", "explicit", "new", "final", "writable", "add", "static",
     "remove", "sealed", "mutable", "gettable", "inline", "settable", "id"}

memberdefText ==
    <<Text("definition"), Text("argsstring"), Text("name"), Text("read"),
      Text("write"), Text("bitfield")>>

memberdefChildren ==
    <<One("templateparamlist", "templateparamlistType"),
      One("type", "linkedTextType")>> \o memberdefText \o
    <<Many("reimplements", "reimplementType"),
      Many("reimplementedby", "reimplementType"), Many("param", "paramType"),
      Many("enumvalue", "enumvalueType"),
      One("initializer", "linkedTextType"),
      One("exceptions", "linkedTextType"),
      One("briefdescription", "descriptionType"),
      One("detaileddescription", "descriptionType"),
      One("inbodydescription", "descriptionType"),
      One("location", "locationType"), Many("references", "referenceType"),
      Many("referencedby", "referenceType")>>

memberdefType == Plain(memberdefAttributes, memberdefChildren)
definition == Value({})
argsstring == Value({})
read == Value({})
write == Value({})
bitfield == Value({})

descriptionType == Mixed({},
    <<Item("title", "docTitleType"), Item("para", "docParaType"),
      Item("sect1", "docSect1Type"), Item("internal", "docInternalType")>>)

enumvalueType == Mixed({"prot", "id"},
    <<TextItem("name"), Item("initializer", "linkedTextType"),
      Item("briefdescription", "descriptionType"),
      Item("detaileddescription", "descriptionType")>>)

templateparamlistType == Plain({}, <<Many("param", "paramType")>>)

paramType == Plain({},
    <<One("type", "linkedTextType"), Text("declname"), Text("defname"),
      Text("array"), One("defval", "linkedTextType"),
      One("briefdescription", "descriptionType")>>)

declname == Value({})
defname == Value({})
array == Value({})
linkedTextType == Mixed({}, <<Item("ref", "docRefTextType")>>)
graphType == Plain({}, <<Many("node", "nodeType")>>)

nodeType == Plain({"id"},
    <<Text("label"), One("link", "linkType"),
      Many("childnode", "childnodeType")>>)

label == Value({})
childnodeType == Plain({"relation", "refid"}, <<Texts("edgelabel")>>)
edgelabel == Value({})
linkType == Value({"refid", "external"})
listingType == Plain({}, <<Many("codeline", "codelineType")>>)

codelineType ==
    WithIntegers({"lineno"}, Plain({"external", "lineno", "refkind", "refid"},
    <<Many("highlight", "highlightType")>>))

highlightType == Mixed({"class"},
    <<TextItem("sp"), Item("ref", "docRefTextType")>>)

sp == Value({})

referenceType ==
    WithIntegers({"endline", "startline"}, MixedValue({"endline", "startline", "refid", "compoundref"}))

locationType ==
    WithIntegers({"bodystart", "line", "bodyend"}, Value({"bodystart", "line", "bodyend", "bodyfile", "file"}))

docSect1Type == Mixed({"id"},
    <<Item("title", "docTitleType"), Item("para", "docParaType"),
      Item("sect2", "docSect2Type"), Item("internal", "docInternalS1Type")>>)

docSect2Type == Mixed({"id"},
    <<Item("title", "docTitleType"), Item("para", "docParaType"),
      Item("sect3", "docSect3Type"), Item("internal", "docInternalS2Type")>>)

docSect3Type == Mixed({"id"},
    <<Item("title", "docTitleType"), Item("para", "docParaType"),
      Item("sect4", "docSect4Type"), Item("internal", "docInternalS3Type")>>)

docSect4Type == Mixed({"id"},
    <<Item("title", "docTitleType"), Item("para", "docParaType"),
      Item("internal", "docInternalS4Type")>>)

docInternalType == Mixed({},
    <<Item("para", "docParaType"), Item("sect1", "docSect1Type")>>)

docInternalS1Type == Mixed({},
    <<Item("para", "docParaType"), Item("sect2", "docSect2Type")>>)

docInternalS2Type == Mixed({},
    <<Item("para", "docParaType"), Item("sect3", "docSect3Type")>>)

docInternalS3Type == Mixed({},
    <<Item("para", "docParaType"), Item("sect3", "docSect4Type")>>)

docInternalS4Type == Mixed({}, <<Item("para", "docParaType")>>)
docTitleType == MixedValue({})
docParaType == MixedValue({})

\* Its subclass also keeps references, parameter lists and simple sections, which
\* no method writes.  The list `content` holds the texts of content_ and the
\* references: one list here.
docParaTypeSub ==
    [docParaType EXCEPT !.built =
        <<Item("ref", "docRefTextType"), Many("parameterlist", "docParamListType"),
          Many("simplesect", "docSimpleSectType")>>]

docMarkupType == MixedValue({})
docURLLink == MixedValue({"url"})
docAnchorType == MixedValue({"id"})
docFormulaType == MixedValue({"id"})
docIndexEntryType == Plain({}, <<Text("primaryie"), Text("secondaryie")>>)
docListType == Plain({}, <<Many("listitem", "docListItemType")>>)
docListItemType == Plain({}, <<Many("para", "docParaType")>>)

docSimpleSectType == Plain({"kind"},
    <<One("title", "docTitleType"), Many("para", "docParaType")>>)

docVarListEntryType == Plain({}, <<One("term", "docTitleType")>>)
docVariableListType == Value({})
docRefTextType == MixedValue({"refid", "kindref", "external"})

docTableType == WithIntegers({"rows", "cols"}, Plain({"rows", "cols"},
    <<Many("row", "docRowType"), One("caption", "docCaptionType")>>))

docRowType == Plain({}, <<Many("entry", "docEntryType")>>)
docEntryType == Plain({"thead"}, <<Many("para", "docParaType")>>)
docCaptionType == MixedValue({})
docHeadingType == WithIntegers({"level"}, MixedValue({"level"}))
docImageType == MixedValue({"width", "type", "name", "height"})
docDotFileType == MixedValue({"name"})
docTocItemType == MixedValue({"id"})
docTocListType == Plain({}, <<Many("tocitem", "docTocItemType")>>)
docLanguageType == Plain({"langid"}, <<Many("para", "docParaType")>>)

docParamListType == Plain({"kind"},
    <<Many("parameteritem", "docParamListItem")>>)

docParamListItem == Plain({},
    <<Many("parameternamelist", "docParamNameList"),
      One("parameterdescription", "descriptionType")>>)

docParamNameList == Plain({}, <<Many("parametername", "docParamName")>>)
docParamName == Mixed({"direction"}, <<Item("ref", "docRefTextType")>>)

docXRefSectType == Plain({"id"},
    <<Texts("xreftitle"), One("xrefdescription", "descriptionType")>>)

docCopyType == Plain({"link"},
    <<Many("para", "docParaType"), Many("sect1", "docSect1Type"),
      One("internal", "docInternalType")>>)

docCharType == Value({"char"})
docEmptyType == Value({})

index_DoxygenType == WithRequired({"version"}, Plain({"version"},
    <<Many("compound", "index_CompoundType")>>))

index_CompoundType == WithRequired({"kind", "refid"}, Plain({"kind", "refid"},
    <<Text("name"), Many("member", "index_MemberType")>>))

index_MemberType ==
    WithRequired({"kind", "refid"}, Plain({"kind", "refid"}, <<Text("name")>>))

-----------------------------------------------------------------------------
\* Every class of the bindings, by its name.
Classes == [
    DoxygenType |-> DoxygenType, compounddefType |-> compounddefType,
    listofallmembersType |-> listofallmembersType,
    memberRefType |-> memberRefType, scope |-> scope, name |-> name,
    compoundRefType |-> compoundRefType, reimplementType |-> reimplementType,
    incType |-> incType, refType |-> refType, refTextType |-> refTextType,
    sectiondefType |-> sectiondefType, memberdefType |-> memberdefType,
    definition |-> definition, argsstring |-> argsstring, read |-> read,
    write |-> write, bitfield |-> bitfield,
    descriptionType |-> descriptionType, enumvalueType |-> enumvalueType,
    templateparamlistType |-> templateparamlistType, paramType |-> paramType,
    declname |-> declname, defname |-> defname, array |-> array,
    linkedTextType |-> linkedTextType, graphType |-> graphType,
    nodeType |-> nodeType, label |-> label, childnodeType |-> childnodeType,
    edgelabel |-> edgelabel, linkType |-> linkType,
    listingType |-> listingType, codelineType |-> codelineType,
    highlightType |-> highlightType, sp |-> sp,
    referenceType |-> referenceType, locationType |-> locationType,
    docSect1Type |-> docSect1Type, docSect2Type |-> docSect2Type,
    docSect3Type |-> docSect3Type, docSect4Type |-> docSect4Type,
    docInternalType |-> docInternalType,
    docInternalS1Type |-> docInternalS1Type,
    docInternalS2Type |-> docInternalS2Type,
    docInternalS3Type |-> docInternalS3Type,
    docInternalS4Type |-> docInternalS4Type, docTitleType |-> docTitleType,
    docParaType |-> docParaTypeSub, docMarkupType |-> docMarkupType,
    docURLLink |-> docURLLink, docAnchorType |-> docAnchorType,
    docFormulaType |-> docFormulaType,
    docIndexEntryType |-> docIndexEntryType, docListType |-> docListType,
    docListItemType |-> docListItemType,
    docSimpleSectType |-> docSimpleSectType,
    docVarListEntryType |-> docVarListEntryType,
    docVariableListType |-> docVariableListType,
    docRefTextType |-> docRefTextType, docTableType |-> docTableType,
    docRowType |-> docRowType, docEntryType |-> docEntryType,
    docCaptionType |-> docCaptionType, docHeadingType |-> docHeadingType,
    docImageType |-> docImageType, docDotFileType |-> docDotFileType,
    docTocItemType |-> docTocItemType, docTocListType |-> docTocListType,
    docLanguageType |-> docLanguageType,
    docParamListType |-> docParamListType,
    docParamListItem |-> docParamListItem,
    docParamNameList |-> docParamNameList, docParamName |-> docParamName,
    docXRefSectType |-> docXRefSectType, docCopyType |-> docCopyType,
    docCharType |-> docCharType, docEmptyType |-> docEmptyType,
    index_DoxygenType |-> index_DoxygenType,
    index_CompoundType |-> index_CompoundType,
    index_MemberType |-> index_MemberType]

=============================================================================
