-------------------------- MODULE MCRewriteHeader --------------------------
(* RewriteHeader on small files.                                             *)
EXTENDS RewriteHeader

MCWords ==
  {"", "A", "B", "desc", "brief", "key", "trailing", "text", "1", "2", "option", "FIXME", "program",
   "RSA-1024", "Fingerprint16"}

Code == <<Line("none", Text("code", "", "1", <<>>)), EmptyLine, Line("none", Text("code", "", "2", <<>>))>>

Cpp(texts) == [k \in DOMAIN texts |-> Line("Cpp", texts[k])]
C(texts) == [k \in DOMAIN texts |-> Line(IF k = Len(texts) THEN "C end" ELSE "C", texts[k])]

\* A complete header: every selection of its texts is a source.
FullHeader ==
  <<Module("B", "desc"), File, Brief("brief"), Copyright(<<<<2003, 2004>>, <<2001, 2001>>>>), Other("key"),
    PartOf("B"), License("program"), Blank, LicenseEnd, Other("trailing")>>

Selection(s) ==
  LET picked == sorted(s) IN [k \in DOMAIN picked |-> FullHeader[picked[k]]]

\* Any order of a few texts.
Texts ==
  {Blank, Module("A", "desc"), File, Brief("brief"), Copyright(<<<<2002, 2002>>>>), PartOf("B"),
   License("B"), LicenseEnd, Other("text")}

ShortComments == UNION {[1 .. n -> Texts] : n \in 1 .. 3}

\* Every set of six years, the latest one first.
YearLists ==
  {<<Copyright([k \in DOMAIN ys |-> one(ys[k])])>> :
     ys \in {Reverse(sorted(s)) : s \in SUBSET (2000 .. 2005)}}

\* A comment with the name of the module, and a license in it or not, and further comments.
ModuleComment == Cpp(<<Module("A", "desc")>>) \o <<EmptyLine>>
LicenseComment == Cpp(<<Module("A", "desc"), License("B"), LicenseEnd>>) \o <<EmptyLine>>

ModuleComments ==
  {ModuleComment \o ModuleComment \o Cpp(<<Other("text")>>) \o Code,
   LicenseComment \o Cpp(<<File, License("program"), LicenseEnd>>) \o Code}

\* Lines with code and a C comment, and the lines that end that comment for process(), or do not.
MixedLines ==
  {c \o <<Line("C code", text)>> \o Code \o rest :
     c \in {<<>>, C(<<Module("A", "desc")>>), <<Line("C", File)>>},
     text \in {Blank, Module("A", "desc"), File},
     rest \in {<<>>, <<Line("code C", Blank)>>, C(<<File, Brief("brief")>>) \o Code}}

\* Files without code.
NoCode == {<<>>, <<EmptyLine>>, C(<<File>>), Cpp(<<Module("A", "desc")>>), <<Line("C", File)>>}

MCSources ==
  {Code} \cup ModuleComments \cup MixedLines \cup NoCode
  \cup {C(Selection(s)) \o Code : s \in SUBSET (DOMAIN FullHeader) \ {{}}}
  \cup {ModuleComment \o Cpp(Selection(s)) \o <<EmptyLine>> \o Code :
          s \in SUBSET (DOMAIN FullHeader)}
  \cup {Cpp(c) \o Code : c \in ShortComments \cup YearLists}

=============================================================================
