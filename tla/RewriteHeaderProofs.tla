------------------------- MODULE RewriteHeaderProofs -------------------------
(***************************************************************************)
(* CodeKept and YearsKept for any files, named any number of times on the  *)
(* command line.                                                           *)
(***************************************************************************)
EXTENDS RewriteHeader, FiniteSetTheorems, SequenceTheorems, WellFoundedInduction, TLAPS

(* Numbers                                                                   *)

LEMMA LeastNumber ==
  ASSUME NEW T \in SUBSET Nat, T # {}
  PROVE  \E x \in T : \A y \in T : x <= y
<1> DEFINE U == {0 .. x : x \in T}
<1>1. U # {} /\ U \subseteq FiniteSubsetsOf(Nat)
  <2>1. \A x \in T : 0 .. x \in SUBSET Nat /\ IsFiniteSet(0 .. x)
    BY FS_Interval
  <2> QED BY <2>1 DEF FiniteSubsetsOf
<1>2. PICK X \in U : \A Y \in U : ~ (<<Y, X>> \in StrictSubsetOrdering(Nat))
  <2> HIDE DEF U
  <2> QED BY <1>1, FS_StrictSubsetOrderingWellFounded, WFMin
<1>3. PICK x \in T : X = 0 .. x
  BY <1>2
<1>4. ASSUME NEW y \in T, y < x PROVE FALSE
  <2>1. 0 .. y \in U /\ 0 .. y \subseteq 0 .. x /\ x \in 0 .. x /\ x \notin 0 .. y
    BY <1>3, <1>4
  <2>2. <<0 .. y, 0 .. x>> \in StrictSubsetOrdering(Nat)
    <3>1. 0 .. y \in SUBSET Nat /\ 0 .. x \in SUBSET Nat /\ 0 .. y # 0 .. x
      BY <1>3, <2>1
    <3> QED BY <2>1, <3>1 DEF StrictSubsetOrdering
  <2> QED BY <1>2, <1>3, <2>1, <2>2
<1> QED BY <1>3, <1>4

LEMMA MinIs ==
  ASSUME NEW T \in SUBSET Nat, T # {}
  PROVE  Min(T) \in T /\ \A y \in T : Min(T) <= y
BY LeastNumber DEF Min

LEMMA MinEquals ==
  ASSUME NEW T \in SUBSET Nat, NEW x \in T, \A y \in T : x <= y
  PROVE  Min(T) = x
<1>1. Min(T) \in T /\ Min(T) <= x
  BY MinIs
<1>2. Min(T) \in Nat /\ x \in Nat /\ x <= Min(T)
  BY <1>1
<1> QED BY <1>1, <1>2

-----------------------------------------------------------------------------
(* Files                                                                     *)

LEMMA FirstCodeIs ==
  ASSUME NEW f \in Seq(LineSet), \E k \in DOMAIN f : is_code(f[k])
  PROVE  /\ Len(f) \in Nat /\ FirstCode(f) \in 1 .. Len(f) /\ is_code(f[FirstCode(f)])
         /\ \A j \in 1 .. Len(f) : is_code(f[j]) => FirstCode(f) <= j
<1> DEFINE T == {j \in DOMAIN f : is_code(f[j])} \cup {Len(f) + 1}
<1>1. DOMAIN f = 1 .. Len(f) /\ Len(f) \in Nat
  OBVIOUS
<1>2. T \in SUBSET Nat /\ T # {}
  BY <1>1
<1>3. Min(T) \in T /\ \A y \in T : Min(T) <= y
  <2> HIDE DEF T
  <2> QED BY <1>2, MinIs
<1>4. FirstCode(f) \in T /\ \A y \in T : FirstCode(f) <= y
  BY <1>3 DEF FirstCode
<1>5. PICK k \in 1 .. Len(f) : is_code(f[k])
  BY <1>1
<1>6. FirstCode(f) <= k /\ FirstCode(f) \in Nat
  BY <1>1, <1>2, <1>4, <1>5
<1> QED BY <1>1, <1>4, <1>5, <1>6

LEMMA FirstCodeEquals ==
  ASSUME NEW f \in Seq(LineSet), NEW i \in 1 .. Len(f), is_code(f[i]),
         \A j \in 1 .. Len(f) : is_code(f[j]) => i <= j
  PROVE  FirstCode(f) = i
<1> DEFINE T == {j \in DOMAIN f : is_code(f[j])} \cup {Len(f) + 1}
<1>1. DOMAIN f = 1 .. Len(f) /\ Len(f) \in Nat
  OBVIOUS
<1>2. T \in SUBSET Nat /\ i \in T /\ \A y \in T : i <= y
  BY <1>1
<1>3. Min(T) = i
  <2> HIDE DEF T
  <2> QED BY <1>2, MinEquals
<1> QED BY <1>3 DEF FirstCode

LEMMA RecognisedIs ==
  ASSUME NEW f, Recognised(f)
  PROVE  /\ f \in Seq(LineSet) /\ Len(f) \in Nat /\ FirstCode(f) \in 1 .. Len(f) /\ is_code(f[FirstCode(f)])
         /\ \A j \in 1 .. Len(f) : is_code(f[j]) => FirstCode(f) <= j
<1>1. f \in Seq(LineSet) /\ \E k \in DOMAIN f : is_code(f[k])
  BY DEF Recognised
<1> QED BY <1>1, FirstCodeIs

\* Lines that are no code and hold only whole comments.
NoCode(s) ==
  /\ s \in Seq(LineSet)
  /\ \A j \in 1 .. Len(s) : ~is_code(s[j])
  /\ CommentsEnd(s)

\* In front of the last part of a file, with all its code, they change no code.
LEMMA CodeBehind ==
  ASSUME NEW f, Recognised(f), NEW s, NoCode(s), NEW m \in 1 .. FirstCode(f)
  PROVE  /\ Recognised(s \o SubSeq(f, m, Len(f)))
         /\ CodeOf(s \o SubSeq(f, m, Len(f))) = CodeOf(f)
<1> DEFINE tail == SubSeq(f, m, Len(f))
           g == s \o tail
           i == FirstCode(f)
           p == Len(s)
           L == Len(f)
<1>1. L \in Nat /\ i \in 1 .. L /\ is_code(f[i]) /\ \A j \in 1 .. L : is_code(f[j]) => i <= j
  BY RecognisedIs
<1>2. f \in Seq(LineSet) /\ s \in Seq(LineSet) /\ p \in Nat /\ m \in 1 .. L /\ m \in 1 .. i
  <2>1. f \in Seq(LineSet) /\ s \in Seq(LineSet)
    BY RecognisedIs DEF NoCode
  <2> QED BY <1>1, <2>1
<1>3. tail \in Seq(LineSet) /\ Len(tail) = L - m + 1 /\ \A j \in 1 .. L - m + 1 : tail[j] = f[m + j - 1]
  BY <1>1, <1>2
<1>4. g \in Seq(LineSet) /\ Len(g) = p + (L - m + 1) /\ DOMAIN g = 1 .. p + (L - m + 1)
  BY <1>2, <1>3
<1>5. (\A j \in 1 .. p : g[j] = s[j]) /\ \A j \in p + 1 .. p + (L - m + 1) : g[j] = tail[j - p]
  BY <1>2, <1>3
<1> HIDE DEF g, tail
<1>6. \A j \in p + 1 .. p + (L - m + 1) : j - p \in 1 .. L - m + 1 /\ m + (j - p) - 1 \in m .. L
  <2> HIDE DEF p, L, i
  <2> QED BY <1>1, <1>2
<1>7. \A j \in p + 1 .. p + (L - m + 1) : g[j] = f[m + (j - p) - 1]
  BY <1>3, <1>5, <1>6
<1> DEFINE c == p + (i - m) + 1
<1>8. c \in p + 1 .. p + (L - m + 1) /\ m + (c - p) - 1 = i
  <2> HIDE DEF p, L, i
  <2> QED BY <1>1, <1>2
<1>9. is_code(g[c])
  BY <1>1, <1>7, <1>8
<1>10. \A j \in 1 .. p + (L - m + 1) : is_code(g[j]) => c <= j
  <2> SUFFICES ASSUME NEW j \in 1 .. p + (L - m + 1), is_code(g[j]) PROVE c <= j
    OBVIOUS
  <2>1. j \notin 1 .. p
    BY <1>5 DEF NoCode
  <2>2. j \in p + 1 .. p + (L - m + 1)
    <3> HIDE DEF p, L, i
    <3> QED BY <2>1, <1>1, <1>2
  <2>3. i <= m + (j - p) - 1
    BY <1>1, <1>2, <1>6, <1>7, <2>2
  <2> HIDE DEF p, L, i
  <2> QED BY <1>1, <1>2, <2>2, <2>3
<1>11. FirstCode(g) = c
  <2>1. c \in 1 .. p + (L - m + 1)
    <3> HIDE DEF p, L, i
    <3> QED BY <1>1, <1>2, <1>8
  <2> HIDE DEF c
  <2> QED BY <1>4, <1>9, <1>10, <2>1, FirstCodeEquals
<1>12. Recognised(g)
  <2>1. \E j \in DOMAIN g : is_code(g[j])
    <3>1. c \in 1 .. p + (L - m + 1)
      <4> HIDE DEF p, L, i
      <4> QED BY <1>1, <1>2, <1>8
    <3> QED BY <1>4, <1>9, <3>1
  <2>2. ASSUME NEW j \in DOMAIN g, g[j].style = "C" PROVE j < Len(g) /\ is_C_comment_start(g[j + 1])
    <3>1. CASE j \in 1 .. p
      <4>1. j < p /\ is_C_comment_start(s[j + 1])
        BY <1>5, <2>2, <3>1 DEF NoCode, CommentsEnd
      <4>2. j < Len(g) /\ j + 1 \in 1 .. p
        <5> HIDE DEF p, L, i
        <5> QED BY <1>1, <1>2, <1>4, <3>1, <4>1
      <4> QED BY <1>5, <4>1, <4>2
    <3>2. CASE j \in p + 1 .. p + (L - m + 1)
      <4> DEFINE q == m + (j - p) - 1
      <4>1. q \in 1 .. L /\ q \in Int /\ j \in Int
        <5>1. q \in m .. L
          BY <1>6, <3>2
        <5> HIDE DEF p, L, i, q
        <5> QED BY <1>1, <1>2, <3>2, <5>1
      <4>2. f[q].style = "C"
        BY <1>7, <2>2, <3>2
      <4>3. q < L /\ is_C_comment_start(f[q + 1])
        <5>1. q \in DOMAIN f
          <6> HIDE DEF q
          <6> QED BY <1>2, <4>1
        <5>2. CommentsEnd(f)
          BY DEF Recognised
        <5> HIDE DEF q
        <5> QED BY <4>2, <5>1, <5>2 DEF CommentsEnd
      <4>4. q < L
        BY <4>3
      <4>5. j < p + (L - m + 1) /\ j + 1 \in p + 1 .. p + (L - m + 1) /\ m + ((j + 1) - p) - 1 = q + 1
        <5>1. L \in Nat /\ p \in Nat /\ m \in Nat
          BY <1>1, <1>2
        <5> HIDE DEF p, L, i
        <5> QED BY <3>2, <4>1, <4>4, <5>1
      <4>6. g[j + 1] = f[q + 1]
        <5> DEFINE x == j + 1
        <5>1. x \in p + 1 .. p + (L - m + 1) /\ m + (x - p) - 1 = q + 1
          <6> HIDE DEF q, p, L
          <6> QED BY <4>5
        <5> HIDE DEF q, x
        <5>2. g[x] = f[q + 1]
          BY <1>7, <5>1
        <5> QED BY <5>2 DEF x
      <4> HIDE DEF q
      <4> QED BY <1>4, <4>3, <4>5, <4>6
    <3>3. j \in 1 .. p \/ j \in p + 1 .. p + (L - m + 1)
      <4>1. j \in 1 .. p + (L - m + 1)
        BY <1>4
      <4> HIDE DEF p, L, i
      <4> QED BY <4>1, <1>1, <1>2
    <3> QED BY <3>1, <3>2, <3>3
  <2>3. g[FirstCode(g)].style # "C code"
    <3>1. g[c] = f[i]
      BY <1>7, <1>8
    <3> QED BY <1>11, <3>1 DEF Recognised
  <2> QED BY <1>4, <2>1, <2>2, <2>3 DEF Recognised, CommentsEnd
<1>13. CodeOf(g) = CodeOf(f)
  <2>1. CodeOf(g) = SubSeq(g, c, Len(g)) /\ CodeOf(f) = SubSeq(f, i, L)
    BY <1>11 DEF CodeOf
  <2>2. c \in Nat /\ Len(g) \in Nat /\ c >= 1 /\ c <= Len(g) /\ Len(g) - c + 1 = L - i + 1
    <3> HIDE DEF p, L, i
    <3> QED BY <1>1, <1>2, <1>4, <1>8
  <2>3. SubSeq(g, c, Len(g)) = [j \in 1 .. L - i + 1 |-> g[c + j - 1]]
    <3> HIDE DEF c
    <3> QED BY <1>4, <2>2
  <2>4. SubSeq(f, i, L) = [j \in 1 .. L - i + 1 |-> f[i + j - 1]]
    <3> HIDE DEF i
    <3> QED BY <1>1, <1>2
  <2>5. \A j \in 1 .. L - i + 1 : g[c + j - 1] = f[i + j - 1]
    <3> SUFFICES ASSUME NEW j \in 1 .. L - i + 1 PROVE g[c + j - 1] = f[i + j - 1]
      OBVIOUS
    <3>1. c + j - 1 \in p + 1 .. p + (L - m + 1) /\ m + ((c + j - 1) - p) - 1 = i + j - 1
      <4> HIDE DEF p, L, i
      <4> QED BY <1>1, <1>2
    <3> HIDE DEF c
    <3> QED BY <1>7, <3>1
  <2> HIDE DEF c
  <2> QED BY <2>1, <2>3, <2>4, <2>5
<1> QED BY <1>12, <1>13 DEF g, tail

-----------------------------------------------------------------------------
(* The header that is printed                                                *)

Ranges == Seq(Years \X Years)

HeaderSet ==
  [name : Words, desc : Words, old : Words, brief : Words, years : Seq(Years),
   signature : Seq(TextSet), license : Seq(TextSet), trailing : Seq(TextSet)]

LEMMA LineIs == \A style, text : Line(style, text).style = style /\ Line(style, text).text = text
BY DEF Line

LEMMA TextIs ==
  /\ \A kind, name, desc, years : Text(kind, name, desc, years).kind = kind
  /\ \A kind \in Kinds : \A name, desc \in Words : \A years \in Ranges : Text(kind, name, desc, years) \in TextSet
BY DEF Text, TextSet, Ranges

LEMMA TextTypes ==
  /\ \A name, desc \in Words : Module(name, desc) \in TextSet
  /\ \A desc \in Words : Brief(desc) \in TextSet /\ Other(desc) \in TextSet
  /\ \A name \in Words : PartOf(name) \in TextSet /\ License(name) \in TextSet
  /\ \A ranges \in Ranges : Copyright(ranges) \in TextSet
  /\ Blank \in TextSet /\ File \in TextSet /\ LicenseEnd \in TextSet
<1>1. <<>> \in Ranges
  BY DEF Ranges
<1>2. {"", "module", "file", "brief", "text", "part_of", "license", "license_end", "copyright"} \subseteq Kinds
  BY DEF Kinds
<1>3. "" \in Words
  BY SourcesAssumption
<1> QED BY <1>1, <1>2, <1>3, TextIs DEF Module, Brief, Other, PartOf, License, Copyright, Blank, File, LicenseEnd

LEMMA LineTypes ==
  /\ \A text \in TextSet : \A style \in {"none", "C", "C end", "code C", "Cpp"} : Line(style, text) \in LineSet
  /\ EmptyLine \in LineSet /\ EmptyLine.style = "none" /\ Line("C end", Blank) \in LineSet
<1>1. \A text \in TextSet : \A style \in {"none", "C", "C end", "code C", "Cpp"} : Line(style, text) \in LineSet
  BY DEF Line, LineSet
<1> QED BY <1>1, TextTypes, LineIs DEF EmptyLine

LEMMA Concatenated ==
  ASSUME NEW S, NEW s \in Seq(S), NEW t \in Seq(S), NEW g, g = s \o t
  PROVE  /\ g \in Seq(S) /\ Len(s) \in Nat /\ Len(t) \in Nat /\ Len(g) = Len(s) + Len(t)
         /\ \A j \in 1 .. Len(s) : g[j] = s[j]
         /\ \A j \in 1 .. Len(t) : g[Len(s) + j] = t[j]
OBVIOUS

LEMMA OneMore ==
  ASSUME NEW S, NEW s \in Seq(S), NEW x \in S, NEW g, g = s \o <<x>>
  PROVE  /\ g \in Seq(S) /\ Len(s) \in Nat /\ Len(g) = Len(s) + 1 /\ DOMAIN g = 1 .. Len(s) + 1
         /\ (\A j \in 1 .. Len(s) : g[j] = s[j]) /\ g[Len(s) + 1] = x
<1>1. g = Append(s, x)
  OBVIOUS
<1> QED BY <1>1

\* Lines of a C comment, all but the last.
AllC(s) == s \in Seq(LineSet) /\ \A j \in 1 .. Len(s) : s[j].style = "C"

LEMMA CommentLines ==
  ASSUME NEW texts \in Seq(TextSet)
  PROVE  /\ AllC(comment(texts)) /\ Len(comment(texts)) = Len(texts)
         /\ \A j \in 1 .. Len(texts) : comment(texts)[j].text = texts[j]
<1>1. \A j \in 1 .. Len(texts) : Line("C", texts[j]) \in LineSet
  <2>1. \A j \in 1 .. Len(texts) : texts[j] \in TextSet
    OBVIOUS
  <2> QED BY <2>1, LineTypes
<1>2. comment(texts) \in [1 .. Len(texts) -> LineSet] /\ Len(texts) \in Nat
  BY <1>1 DEF comment
<1>3. comment(texts) \in Seq(LineSet) /\ Len(comment(texts)) = Len(texts)
  BY <1>2
<1>4. \A j \in 1 .. Len(texts) : comment(texts)[j] = Line("C", texts[j])
  BY DEF comment
<1>5. \A j \in 1 .. Len(texts) : comment(texts)[j].style = "C" /\ comment(texts)[j].text = texts[j]
  BY <1>4, LineIs
<1> QED BY <1>3, <1>5 DEF AllC

LEMMA AllCBehind ==
  ASSUME NEW s, AllC(s), NEW t, AllC(t)
  PROVE  AllC(s \o t)
<1>1. s \in Seq(LineSet) /\ t \in Seq(LineSet) /\ s \o t \in Seq(LineSet) /\ Len(s \o t) = Len(s) + Len(t)
  BY DEF AllC
<1>2. \A j \in 1 .. Len(s) + Len(t) : (s \o t)[j] = IF j <= Len(s) THEN s[j] ELSE t[j - Len(s)]
  BY <1>1
<1>3. Len(s) \in Nat /\ Len(t) \in Nat
  BY <1>1
<1>4. ASSUME NEW j \in 1 .. Len(s) + Len(t) PROVE (s \o t)[j].style = "C"
  <2>1. CASE j <= Len(s)
    <3>1. j \in 1 .. Len(s)
      BY <1>3, <2>1
    <3> QED BY <1>2, <2>1, <3>1 DEF AllC
  <2>2. CASE ~(j <= Len(s))
    <3>1. j - Len(s) \in 1 .. Len(t)
      BY <1>3, <2>2
    <3> QED BY <1>2, <2>2, <3>1 DEF AllC
  <2> QED BY <2>1, <2>2
<1> QED BY <1>1, <1>4 DEF AllC

LEMMA HeaderNoCode ==
  ASSUME NEW s, AllC(s)
  PROVE  NoCode((s \o <<Line("C end", Blank)>>) \o <<EmptyLine>>)
<1> DEFINE last == Line("C end", Blank)
           g == (s \o <<last>>) \o <<EmptyLine>>
           p == Len(s)
<1>0. last \in LineSet /\ EmptyLine \in LineSet
  BY LineTypes
<1>1. last.style = "C end" /\ EmptyLine.style = "none"
  BY LineTypes, LineIs
<1> HIDE DEF last
<1>2. s \in Seq(LineSet) /\ p \in Nat /\ \A j \in 1 .. p : s[j].style = "C"
  BY DEF AllC
<1>3. /\ g \in Seq(LineSet) /\ Len(g) = p + 2 /\ DOMAIN g = 1 .. p + 2
      /\ (\A j \in 1 .. p : g[j] = s[j]) /\ g[p + 1] = last /\ g[p + 2] = EmptyLine
  <2> DEFINE t == s \o <<last>>
  <2>1. t = s \o <<last>> /\ g = t \o <<EmptyLine>>
    OBVIOUS
  <2> HIDE DEF t, g
  <2>2. t \in Seq(LineSet) /\ Len(t) = p + 1 /\ (\A j \in 1 .. p : t[j] = s[j]) /\ t[p + 1] = last
    BY <1>0, <1>2, <2>1, OneMore
  <2> HIDE DEF p
  <2>3. /\ g \in Seq(LineSet) /\ Len(g) = (p + 1) + 1 /\ DOMAIN g = 1 .. (p + 1) + 1
        /\ (\A j \in 1 .. p + 1 : g[j] = t[j]) /\ g[(p + 1) + 1] = EmptyLine
    BY <1>0, <2>1, <2>2, OneMore
  <2>4. (p + 1) + 1 = p + 2 /\ p + 1 \in 1 .. p + 1 /\ \A j \in 1 .. p : j \in 1 .. p + 1
    BY <1>2
  <2> QED BY <2>2, <2>3, <2>4
<1>4. (\A j \in 1 .. p : g[j] = s[j]) /\ g[p + 1] = last /\ g[p + 2] = EmptyLine
  BY <1>3
<1> HIDE DEF g, p
<1>5. \A j \in 1 .. p + 2 : j \in 1 .. p \/ j = p + 1 \/ j = p + 2
  BY <1>2
<1>6. \A j \in 1 .. p + 2 : ~is_code(g[j])
  BY <1>1, <1>2, <1>4, <1>5 DEF is_code
<1>7. CommentsEnd(g)
  <2> SUFFICES ASSUME NEW j \in 1 .. p + 2, g[j].style = "C" PROVE j < p + 2 /\ is_C_comment_start(g[j + 1])
    BY <1>3 DEF CommentsEnd
  <2>1. j \in 1 .. p
    BY <1>1, <1>4, <1>5
  <2>2. j < p + 2 /\ (j + 1 \in 1 .. p \/ j + 1 = p + 1)
    BY <1>2, <2>1
  <2> QED BY <1>1, <1>2, <1>4, <2>2 DEF is_C_comment_start
<1> QED BY <1>3, <1>6, <1>7 DEF NoCode, g, last

\* The first copyright line of s has these ranges.
CopyrightAt(s, ranges) ==
  \E p \in 1 .. Len(s) : /\ s[p].text = Copyright(ranges)
                         /\ \A j \in 1 .. p - 1 : s[j].text.kind # "copyright"

LEMMA CopyrightInFront ==
  ASSUME NEW s \in Seq(LineSet), NEW t \in Seq(LineSet), NEW ranges, CopyrightAt(s, ranges)
  PROVE  CopyrightAt(s \o t, ranges)
<1>1. PICK p \in 1 .. Len(s) : /\ s[p].text = Copyright(ranges)
                               /\ \A j \in 1 .. p - 1 : s[j].text.kind # "copyright"
  BY DEF CopyrightAt
<1>2. Len(s) \in Nat /\ Len(t) \in Nat /\ Len(s \o t) = Len(s) + Len(t) /\ \A j \in 1 .. Len(s) : (s \o t)[j] = s[j]
  OBVIOUS
<1>3. p \in 1 .. Len(s \o t) /\ \A j \in 1 .. p - 1 : j \in 1 .. Len(s)
  BY <1>2
<1> QED BY <1>1, <1>2, <1>3 DEF CopyrightAt

LEMMA CopyrightIsFirst ==
  ASSUME NEW s \in Seq(LineSet), NEW ranges \in Ranges, CopyrightAt(s, ranges)
  PROVE  s[Min({j \in DOMAIN s : s[j].text.kind = "copyright"})].text = Copyright(ranges)
<1> DEFINE T == {j \in DOMAIN s : s[j].text.kind = "copyright"}
<1>1. PICK p \in 1 .. Len(s) : /\ s[p].text = Copyright(ranges)
                               /\ \A j \in 1 .. p - 1 : s[j].text.kind # "copyright"
  BY DEF CopyrightAt
<1>2. Len(s) \in Nat /\ DOMAIN s = 1 .. Len(s)
  OBVIOUS
<1>3. s[p].text.kind = "copyright"
  <2>1. Copyright(ranges).kind = "copyright"
    BY TextIs DEF Copyright
  <2> QED BY <1>1, <2>1
<1>4. T \in SUBSET Nat /\ p \in T
  BY <1>2, <1>3
<1>5. \A y \in T : p <= y
  <2> SUFFICES ASSUME NEW y \in T, y < p PROVE FALSE
    BY <1>2
  <2>1. y \in 1 .. p - 1
    BY <1>2
  <2> QED BY <1>1, <2>1
<1>6. Min(T) = p
  <2> HIDE DEF T
  <2> QED BY <1>4, <1>5, MinEquals
<1> QED BY <1>1, <1>6

\* The beginning of what print_on prints, up to and including the copyright line.
HeaderFront(h, ranges) ==
  (comment(<<Blank>>) \o (IF h.name = "" THEN <<>> ELSE comment(<<Module(h.name, h.desc), Blank>>)))
  \o comment(<<File, Brief(h.brief), Blank, Copyright(ranges), Blank>>)

LEMMA FrontLines ==
  ASSUME NEW h \in HeaderSet, NEW ranges \in Ranges
  PROVE  AllC(HeaderFront(h, ranges)) /\ CopyrightAt(HeaderFront(h, ranges), ranges)
<1> DEFINE a == comment(<<Blank>>)
           b == IF h.name = "" THEN <<>> ELSE comment(<<Module(h.name, h.desc), Blank>>)
           five == <<File, Brief(h.brief), Blank, Copyright(ranges), Blank>>
           c == comment(five)
<1>1. h.name \in Words /\ h.desc \in Words /\ h.brief \in Words
  BY DEF HeaderSet
<1>2. <<Blank>> \in Seq(TextSet) /\ <<Module(h.name, h.desc), Blank>> \in Seq(TextSet) /\ five \in Seq(TextSet)
  <2>1. {Blank, Module(h.name, h.desc), File, Brief(h.brief), Copyright(ranges)} \subseteq TextSet
    BY <1>1, TextTypes
  <2> QED BY <2>1
<1>3. /\ \A x : x = <<Blank>> => Len(x) = 1 /\ x[1] = Blank
      /\ \A x : x = <<Module(h.name, h.desc), Blank>> => Len(x) = 2 /\ x[1] = Module(h.name, h.desc) /\ x[2] = Blank
      /\ Len(five) = 5 /\ five[1] = File /\ five[2] = Brief(h.brief) /\ five[3] = Blank /\ five[4] = Copyright(ranges)
  OBVIOUS
<1> HIDE DEF five
<1>4. AllC(a) /\ Len(a) = 1 /\ a[1].text = Blank
  <2> DEFINE x == <<Blank>>
  <2>1. x \in Seq(TextSet) /\ Len(x) = 1 /\ x[1] = Blank
    BY <1>2, <1>3
  <2> HIDE DEF x
  <2>2. AllC(comment(x)) /\ Len(comment(x)) = 1 /\ comment(x)[1].text = Blank
    BY <2>1, CommentLines
  <2> QED BY <2>2 DEF x
<1>5. AllC(c) /\ Len(c) = 5 /\ \A j \in 1 .. 5 : c[j].text = five[j]
  BY <1>2, <1>3, CommentLines
<1>6. AllC(b) /\ Len(b) \in {0, 2} /\ \A j \in 1 .. Len(b) : b[j].text \in {Module(h.name, h.desc), Blank}
  <2>1. CASE h.name = ""
    <3>1. b = <<>>
      BY <2>1
    <3> HIDE DEF b
    <3>2. Len(b) = 0 /\ b \in Seq(LineSet)
      BY <3>1
    <3> QED BY <3>2 DEF AllC
  <2>2. CASE h.name # ""
    <3> DEFINE two == <<Module(h.name, h.desc), Blank>>
    <3>1. b = comment(two) /\ two \in Seq(TextSet) /\ Len(two) = 2 /\ two[1] = Module(h.name, h.desc) /\ two[2] = Blank
      BY <1>2, <1>3, <2>2
    <3> HIDE DEF b, two
    <3>2. AllC(b) /\ Len(b) = 2 /\ \A j \in 1 .. 2 : b[j].text = two[j]
      BY <3>1, CommentLines
    <3>3. \A j \in 1 .. 2 : j = 1 \/ j = 2
      OBVIOUS
    <3> QED BY <3>1, <3>2, <3>3
  <2> QED BY <2>1, <2>2
<1>7. \A x \in {Blank, Module(h.name, h.desc), File, Brief(h.brief)} : x.kind # "copyright"
  <2>1. /\ Blank.kind = "" /\ Module(h.name, h.desc).kind = "module" /\ File.kind = "file"
        /\ Brief(h.brief).kind = "brief"
    BY TextIs DEF Blank, Module, File, Brief
  <2> QED BY <2>1
<1> HIDE DEF a, b, c
<1> DEFINE ab == a \o b
           abc == ab \o c
<1>8. AllC(ab) /\ AllC(abc)
  BY <1>4, <1>5, <1>6, AllCBehind
<1>9. a \in Seq(LineSet) /\ b \in Seq(LineSet) /\ c \in Seq(LineSet)
  BY <1>4, <1>5, <1>6 DEF AllC
<1>10. Len(ab) = 1 + Len(b) /\ ab[1] = a[1] /\ \A j \in 2 .. 1 + Len(b) : ab[j] = b[j - 1]
  <2>0. ab = a \o b /\ 1 \in 1 .. 1
    OBVIOUS
  <2> HIDE DEF ab
  <2>1. Len(b) \in Nat /\ Len(ab) = 1 + Len(b) /\ ab[1] = a[1] /\ \A j \in 1 .. Len(b) : ab[1 + j] = b[j]
    <3>1. Len(a) = 1
      BY <1>4
    <3>2. /\ Len(b) \in Nat /\ Len(ab) = Len(a) + Len(b)
          /\ \A j \in 1 .. Len(a) : ab[j] = a[j]
          /\ \A j \in 1 .. Len(b) : ab[Len(a) + j] = b[j]
      BY <1>9, <2>0, Concatenated
    <3> QED BY <2>0, <3>1, <3>2
  <2>2. \A j \in 2 .. 1 + Len(b) : j - 1 \in 1 .. Len(b) /\ 1 + (j - 1) = j
    BY <2>1
  <2> QED BY <2>1, <2>2
<1>11. ab \in Seq(LineSet) /\ \A j \in 1 .. Len(ab) : ab[j].text.kind # "copyright"
  <2>1. ASSUME NEW j \in 1 .. 1 + Len(b) PROVE ab[j].text.kind # "copyright"
    <3>1. CASE j = 1
      BY <1>4, <1>7, <1>10, <3>1
    <3>2. CASE j # 1
      <4>1. j \in 2 .. 1 + Len(b) /\ j - 1 \in 1 .. Len(b)
        BY <1>6, <3>2
      <4>2. ab[j].text \in {Module(h.name, h.desc), Blank}
        BY <1>6, <1>10, <4>1
      <4> QED BY <1>7, <4>2
    <3> QED BY <3>1, <3>2
  <2> QED BY <1>9, <1>10, <2>1
<1> HIDE DEF ab
<1> DEFINE n == Len(ab)
<1>12. n \in Nat /\ Len(abc) = n + 5 /\ (\A j \in 1 .. n : abc[j] = ab[j]) /\ \A j \in 1 .. 5 : abc[n + j] = c[j]
  <2>1. abc = ab \o c
    OBVIOUS
  <2> HIDE DEF abc
  <2>2. ab \in Seq(LineSet) /\ c \in Seq(LineSet)
    BY <1>9, <1>11
  <2>3. /\ n \in Nat /\ Len(abc) = n + Len(c)
        /\ \A j \in 1 .. n : abc[j] = ab[j]
        /\ \A j \in 1 .. Len(c) : abc[n + j] = c[j]
    BY <2>1, <2>2, Concatenated
  <2>4. Len(c) = 5
    BY <1>5
  <2> QED BY <2>3, <2>4
<1> HIDE DEF abc, n
<1>13. abc[n + 4].text = Copyright(ranges)
  BY <1>3, <1>5, <1>12
<1>14. ASSUME NEW j \in 1 .. (n + 4) - 1 PROVE abc[j].text.kind # "copyright"
  <2>1. j \in 1 .. n \/ j = n + 1 \/ j = n + 2 \/ j = n + 3
    BY <1>12
  <2>2. abc[n + 1].text = File /\ abc[n + 2].text = Brief(h.brief) /\ abc[n + 3].text = Blank
    BY <1>3, <1>5, <1>12
  <2>3. CASE j \in 1 .. n
    BY <1>11, <1>12, <2>3 DEF n
  <2> QED BY <1>7, <2>1, <2>2, <2>3
<1>15. n + 4 \in 1 .. Len(abc)
  BY <1>12
<1>16. CopyrightAt(abc, ranges)
  BY <1>13, <1>14, <1>15 DEF CopyrightAt
<1>17. abc = HeaderFront(h, ranges)
  BY DEF abc, ab, a, b, c, five, HeaderFront
<1> QED BY <1>8, <1>16, <1>17

\* The lines that process() leaves: the header, an empty line and what is left of the input.
LEMMA PrintedLines ==
  ASSUME NEW h \in HeaderSet, NEW ranges \in Ranges
  PROVE  NoCode(print_on(h, ranges) \o <<EmptyLine>>) /\ CopyrightAt(print_on(h, ranges) \o <<EmptyLine>>, ranges)
<1> DEFINE a == HeaderFront(h, ranges)
           b == comment(h.signature)
           c == IF h.name = "" THEN <<>> ELSE comment(<<Blank, PartOf(h.name)>>)
           e == comment(<<Blank>> \o h.license)
           f == comment(IF h.trailing = <<>> THEN <<>> ELSE <<Blank>> \o h.trailing)
           all == (((a \o b) \o c) \o e) \o f
           end == <<Line("C end", Blank)>>
<1>1. h.name \in Words /\ h.signature \in Seq(TextSet) /\ h.license \in Seq(TextSet) /\ h.trailing \in Seq(TextSet)
  BY DEF HeaderSet
<1>2. <<Blank>> \in Seq(TextSet) /\ <<Blank, PartOf(h.name)>> \in Seq(TextSet) /\ <<>> \in Seq(TextSet) /\ <<>> \in Seq(LineSet)
  <2>1. Blank \in TextSet /\ PartOf(h.name) \in TextSet
    BY <1>1, TextTypes
  <2> QED BY <2>1
<1>3. AllC(a) /\ CopyrightAt(a, ranges)
  BY FrontLines
<1>4. AllC(b)
  BY <1>1, CommentLines
<1>5. AllC(c)
  <2>1. AllC(<<>>)
    <3>1. \A x : x = <<>> => Len(x) = 0
      OBVIOUS
    <3> QED BY <1>2, <3>1 DEF AllC
  <2>2. AllC(comment(<<Blank, PartOf(h.name)>>))
    BY <1>2, CommentLines
  <2> QED BY <2>1, <2>2
<1>6. AllC(e)
  <2>1. <<Blank>> \o h.license \in Seq(TextSet)
    BY <1>1, <1>2
  <2> QED BY <2>1, CommentLines
<1>7. AllC(f)
  <2>1. <<Blank>> \o h.trailing \in Seq(TextSet)
    BY <1>1, <1>2
  <2>2. (IF h.trailing = <<>> THEN <<>> ELSE <<Blank>> \o h.trailing) \in Seq(TextSet)
    BY <1>2, <2>1
  <2> QED BY <2>2, CommentLines
<1>8. print_on(h, ranges) = all \o end
  BY DEF print_on, HeaderFront
<1> HIDE DEF a, b, c, e, f
<1>9. AllC(a \o b) /\ AllC((a \o b) \o c) /\ AllC(((a \o b) \o c) \o e) /\ AllC(all)
  <2>1. AllC(a \o b)
    BY <1>3, <1>4, AllCBehind
  <2>2. AllC((a \o b) \o c)
    BY <2>1, <1>5, AllCBehind
  <2>3. AllC(((a \o b) \o c) \o e)
    BY <2>2, <1>6, AllCBehind
  <2> QED BY <2>1, <2>2, <2>3, <1>7, AllCBehind
<1>10. CopyrightAt(all, ranges)
  <2>1. CopyrightAt(a \o b, ranges)
    BY <1>3, <1>4, CopyrightInFront DEF AllC
  <2>2. CopyrightAt((a \o b) \o c, ranges)
    BY <1>5, <1>9, <2>1, CopyrightInFront DEF AllC
  <2>3. CopyrightAt(((a \o b) \o c) \o e, ranges)
    BY <1>6, <1>9, <2>2, CopyrightInFront DEF AllC
  <2> QED BY <1>7, <1>9, <2>3, CopyrightInFront DEF AllC
<1> HIDE DEF all
<1>11. end \in Seq(LineSet) /\ <<EmptyLine>> \in Seq(LineSet) /\ all \in Seq(LineSet)
  <2>1. Line("C end", Blank) \in LineSet /\ EmptyLine \in LineSet
    BY LineTypes
  <2>2. \A x \in LineSet : <<x>> \in Seq(LineSet)
    OBVIOUS
  <2> QED BY <1>9, <2>1, <2>2 DEF AllC
<1>12. all \o end \in Seq(LineSet)
  <2> HIDE DEF end
  <2> QED BY <1>11, Concatenated
<1>13. CopyrightAt((all \o end) \o <<EmptyLine>>, ranges)
  <2>1. CopyrightAt(all \o end, ranges)
    BY <1>10, <1>11, CopyrightInFront
  <2> QED BY <1>11, <1>12, <2>1, CopyrightInFront
<1> QED BY <1>8, <1>9, <1>13, HeaderNoCode

-----------------------------------------------------------------------------
(* The years: what is read and how it is sorted                              *)

\* The recursive definition in FlattenSeq is one of a function.
FlatUpTo(g, ss, n) == g = [i \in 1 .. n |-> IF i = 1 THEN ss[i] ELSE g[i - 1] \o ss[i]]

LEMMA FlatExists ==
  ASSUME NEW ss
  PROVE  \A n \in Nat : \E g : FlatUpTo(g, ss, n)
<1> DEFINE T == {n \in Nat : ~ \E g : FlatUpTo(g, ss, n)}
<1>1. SUFFICES ASSUME T # {} PROVE FALSE
  OBVIOUS
<1>2. PICK x \in T : \A y \in T : x <= y
  <2>1. T \in SUBSET Nat
    OBVIOUS
  <2> HIDE DEF T
  <2> QED BY <1>1, <2>1, LeastNumber
<1>3. x \in Nat /\ x # 0
  <2>1. FlatUpTo([i \in 1 .. 0 |-> 1], ss, 0)
    BY DEF FlatUpTo
  <2> QED BY <1>2, <2>1
<1>4. PICK g : FlatUpTo(g, ss, x - 1)
  BY <1>2, <1>3
<1> DEFINE h == [i \in 1 .. x |-> IF i = 1 THEN ss[i] ELSE g[i - 1] \o ss[i]]
<1>5. \A i \in 1 .. x - 1 : h[i] = g[i]
  <2>1. \A i \in 1 .. x - 1 : i \in 1 .. x
    BY <1>3
  <2>2. \A i \in 1 .. x - 1 : g[i] = IF i = 1 THEN ss[i] ELSE g[i - 1] \o ss[i]
    BY <1>4, Zenon DEF FlatUpTo
  <2>3. \A i \in 1 .. x : h[i] = IF i = 1 THEN ss[i] ELSE g[i - 1] \o ss[i]
    OBVIOUS
  <2> HIDE DEF h
  <2> QED BY <2>1, <2>2, <2>3
<1>6. \A i \in 1 .. x : i # 1 => i - 1 \in 1 .. x - 1
  BY <1>3
<1>7. \A i \in 1 .. x : h[i] = IF i = 1 THEN ss[i] ELSE h[i - 1] \o ss[i]
  <2>1. \A i \in 1 .. x : h[i] = IF i = 1 THEN ss[i] ELSE g[i - 1] \o ss[i]
    OBVIOUS
  <2> HIDE DEF h
  <2> QED BY <1>5, <1>6, <2>1
<1>8. FlatUpTo(h, ss, x)
  BY <1>7 DEF FlatUpTo
<1> QED BY <1>2, <1>8

LEMMA FlattenSeqType ==
  ASSUME NEW S, NEW ss \in Seq(Seq(S))
  PROVE  FlattenSeq(ss) \in Seq(S)
<1> DEFINE L == Len(ss)
           flat == CHOOSE g : FlatUpTo(g, ss, L)
<1>1. L \in Nat /\ \A i \in 1 .. L : ss[i] \in Seq(S)
  OBVIOUS
<1>2. CASE L = 0
  <2>1. ss = <<>> /\ FlattenSeq(ss) = ss
    BY <1>2 DEF FlattenSeq
  <2>2. <<>> \in Seq(S)
    OBVIOUS
  <2> QED BY <2>1, <2>2
<1>3. CASE L # 0
  <2>1. FlatUpTo(flat, ss, L)
    BY <1>1, FlatExists
  <2>2. FlattenSeq(ss) = flat[L]
    BY <1>3 DEF FlattenSeq, FlatUpTo
  <2> HIDE DEF flat
  <2>3. \A i \in 1 .. L : flat[i] = IF i = 1 THEN ss[i] ELSE flat[i - 1] \o ss[i]
    BY <2>1 DEF FlatUpTo
  <2> DEFINE T == {i \in 1 .. L : flat[i] \notin Seq(S)}
  <2>4. ASSUME T # {} PROVE FALSE
    <3>1. T \in SUBSET Nat
      BY <1>1
    <3>2. PICK x \in T : \A y \in T : x <= y
      <4> HIDE DEF T
      <4> QED BY <2>4, <3>1, LeastNumber
    <3>3. CASE x = 1
      BY <1>1, <2>3, <3>2, <3>3
    <3>4. CASE x # 1
      <4>1. x - 1 \in 1 .. L /\ ~(x <= x - 1) /\ x \in 1 .. L
        <5>1. x \in 1 .. L
          BY <3>2
        <5> HIDE DEF T, L
        <5> QED BY <1>1, <3>4, <5>1
      <4>2. x - 1 \notin T
        <5> HIDE DEF T, L
        <5> QED BY <3>2, <4>1
      <4>3. flat[x - 1] \in Seq(S) /\ ss[x] \in Seq(S)
        BY <1>1, <4>1, <4>2
      <4>4. flat[x - 1] \o ss[x] \in Seq(S)
        BY <4>3, ConcatProperties
      <4>5. flat[x] = flat[x - 1] \o ss[x]
        BY <2>3, <3>4, <4>1
      <4> QED BY <3>2, <4>4, <4>5
    <3> QED BY <3>3, <3>4
  <2>5. L \in 1 .. L
    BY <1>1, <1>3
  <2> QED BY <2>2, <2>4, <2>5
<1> QED BY <1>2, <1>3

LEMMA YearsOfType ==
  ASSUME NEW ranges \in Ranges
  PROVE  years_of(ranges) \in Seq(Years)
<1> DEFINE yrs(i) == [j \in 1 .. (ranges[i][2] - ranges[i][1] + 1) |-> ranges[i][1] + j - 1]
<1>1. ranges \in Seq(Years \X Years) /\ Len(ranges) \in Nat /\ DOMAIN ranges = 1 .. Len(ranges)
  BY DEF Ranges
<1>2. ASSUME NEW i \in 1 .. Len(ranges) PROVE yrs(i) \in Seq(Years)
  <2> DEFINE from == ranges[i][1]
             to == ranges[i][2]
             n == IF to - from + 1 < 0 THEN 0 ELSE to - from + 1
  <2>1. from \in Years /\ to \in Years
    BY <1>1, <1>2
  <2> HIDE DEF from, to
  <2>2. n \in Nat /\ 1 .. (to - from + 1) = 1 .. n
    BY <2>1 DEF Years
  <2>3. \A j \in 1 .. n : from + j - 1 \in Years
    BY <2>1, <2>2 DEF Years
  <2>4. [j \in 1 .. n |-> from + j - 1] \in [1 .. n -> Years]
    BY <2>3
  <2>5. yrs(i) = [j \in 1 .. n |-> from + j - 1]
    BY <2>2 DEF from, to
  <2> HIDE DEF n, yrs
  <2>6. yrs(i) \in [1 .. n -> Years] /\ n \in Nat
    BY <2>2, <2>4, <2>5
  <2> QED BY <2>6
<1> DEFINE ss == [i \in DOMAIN ranges |-> yrs(i)]
<1>3. ss \in Seq(Seq(Years))
  <2> HIDE DEF yrs
  <2>1. ss \in [1 .. Len(ranges) -> Seq(Years)]
    BY <1>1, <1>2
  <2> QED BY <1>1, <2>1
<1>4. years_of(ranges) = FlattenSeq(ss)
  BY DEF years_of
<1> HIDE DEF ss
<1> QED BY <1>3, <1>4, FlattenSeqType

Below(S, x) == {y \in S : y < x}

\* std::sort and std::unique.
LEMMA SortedIs ==
  ASSUME NEW S \in SUBSET Nat, IsFiniteSet(S)
  PROVE  /\ Cardinality(S) \in Nat
         /\ sorted(S) \in [1 .. Cardinality(S) -> S]
         /\ \A i, j \in 1 .. Cardinality(S) : i < j => sorted(S)[i] < sorted(S)[j]
         /\ \A x \in S : \E i \in 1 .. Cardinality(S) : sorted(S)[i] = x
<1> DEFINE n == Cardinality(S)
           rank(x) == Cardinality(Below(S, x))
<1>1. n \in Nat
  BY FS_CardinalityType
<1>2. \A x \in S : Below(S, x) \in SUBSET S /\ IsFiniteSet(Below(S, x)) /\ rank(x) \in Nat /\ rank(x) <= n
  <2>1. \A x \in S : Below(S, x) \in SUBSET S
    BY DEF Below
  <2> QED BY <2>1, FS_Subset, FS_CardinalityType
<1>3. \A x \in S : rank(x) < n
  <2> SUFFICES ASSUME NEW x \in S PROVE rank(x) < n
    OBVIOUS
  <2>1. Below(S, x) # S
    BY DEF Below
  <2>2. n # rank(x)
    BY <1>2, <2>1, FS_Subset
  <2> HIDE DEF n, rank
  <2> QED BY <1>1, <1>2, <2>2
<1>4. \A x, y \in S : x < y => rank(x) < rank(y)
  <2> SUFFICES ASSUME NEW x \in S, NEW y \in S, x < y PROVE rank(x) < rank(y)
    OBVIOUS
  <2>1. Below(S, x) \in SUBSET Below(S, y)
    <3>1. \A z \in S : z < x => z < y
      OBVIOUS
    <3> QED BY <3>1 DEF Below
  <2>2. x \in Below(S, y) /\ x \notin Below(S, x)
    BY DEF Below
  <2>3. rank(x) <= rank(y) /\ rank(x) # rank(y)
    BY <1>2, <2>1, <2>2, FS_Subset
  <2> HIDE DEF rank
  <2> QED BY <1>2, <2>3
<1> DEFINE f == [x \in S |-> rank(x) + 1]
<1>5. f \in Injection(S, 1 .. n)
  <2>1. f \in [S -> 1 .. n]
    <3>1. \A x \in S : rank(x) + 1 \in 1 .. n
      <4> HIDE DEF n, rank
      <4> QED BY <1>1, <1>2, <1>3
    <3> QED BY <3>1
  <2>2. ASSUME NEW x \in S, NEW y \in S, f[x] = f[y] PROVE x = y
    <3>1. rank(x) = rank(y)
      <4>1. f[x] = rank(x) + 1 /\ f[y] = rank(y) + 1
        OBVIOUS
      <4>2. rank(x) \in Nat /\ rank(y) \in Nat
        BY <1>2
      <4> HIDE DEF f, rank
      <4>3. rank(x) + 1 = rank(y) + 1
        BY <2>2, <4>1, Zenon
      <4> QED BY <4>2, <4>3
    <3>2. ~(x < y) /\ ~(y < x)
      <4> HIDE DEF rank
      <4> QED BY <1>2, <1>4, <3>1
    <3> QED BY <3>2
  <2> HIDE DEF f
  <2> QED BY <2>1, <2>2 DEF Injection, IsInjective
<1>6. f \in Surjection(S, 1 .. n)
  <2>1. IsFiniteSet(1 .. n) /\ Cardinality(1 .. n) = n
    <3>1. \A m \in Nat : IsFiniteSet(1 .. m) /\ Cardinality(1 .. m) = m
      <4>1. ASSUME NEW m \in Nat PROVE IsFiniteSet(1 .. m) /\ Cardinality(1 .. m) = IF 1 > m THEN 0 ELSE m - 1 + 1
        BY FS_Interval
      <4> QED BY <4>1
    <3> HIDE DEF n
    <3> QED BY <1>1, <3>1
  <2> HIDE DEF f
  <2> QED BY <1>5, <2>1, FS_Injection
<1>7. ASSUME NEW i \in 1 .. n PROVE sorted(S)[i] \in S /\ rank(sorted(S)[i]) = i - 1
  <2>1. PICK x \in S : f[x] = i
    <3> HIDE DEF f
    <3> QED BY <1>6 DEF Surjection
  <2>2. rank(x) = i - 1
    <3>1. rank(x) + 1 = i
      BY <2>1
    <3> HIDE DEF n, rank
    <3> QED BY <1>2, <3>1
  <2>3. sorted(S)[i] = CHOOSE z \in S : rank(z) = i - 1
    BY DEF sorted, Below
  <2> QED BY <2>2, <2>3
<1>8. sorted(S) \in [1 .. n -> S]
  BY <1>7 DEF sorted
<1>9. ASSUME NEW i \in 1 .. n, NEW j \in 1 .. n, i < j PROVE sorted(S)[i] < sorted(S)[j]
  <2> DEFINE x == sorted(S)[i]
             y == sorted(S)[j]
  <2>1. x \in S /\ y \in S /\ rank(x) = i - 1 /\ rank(y) = j - 1
    BY <1>7
  <2> HIDE DEF x, y, rank, n
  <2>2. x \in Nat /\ y \in Nat /\ ~(y < x) /\ x # y
    BY <1>1, <1>4, <1>9, <2>1
  <2>3. x < y
    BY <2>2
  <2> QED BY <2>3 DEF x, y
<1>10. ASSUME NEW x \in S PROVE \E i \in 1 .. n : sorted(S)[i] = x
  <2> DEFINE i == rank(x) + 1
             y == sorted(S)[i]
  <2>1. i \in 1 .. n
    <3> HIDE DEF n, rank
    <3> QED BY <1>1, <1>2, <1>3
  <2>2. y \in S /\ rank(y) = i - 1
    BY <1>7, <2>1
  <2>3. rank(y) = rank(x)
    <3>1. rank(x) \in Nat
      BY <1>2
    <3> HIDE DEF rank, y
    <3> QED BY <2>2, <3>1
  <2> HIDE DEF rank, i, n
  <2>4. y = x
    <3> HIDE DEF y
    <3>1. ~(x < y) /\ ~(y < x) /\ x \in Nat /\ y \in Nat
      BY <1>2, <1>4, <2>2, <2>3
    <3> QED BY <3>1
  <2> QED BY <2>1, <2>4
<1> QED BY <1>1, <1>8, <1>9, <1>10

-----------------------------------------------------------------------------
(* The loop of print_on over the years                                       *)

Ascending(ys) ==
  ys \in Seq(Years) /\ Len(ys) > 0 /\ \A i, j \in 1 .. Len(ys) : i < j => ys[i] < ys[j]

\* The year y is in one of the ranges.
Covers(ranges, y) == \E i \in 1 .. Len(ranges) : ranges[i][1] <= y /\ y <= ranges[i][2]

AmongFirst(ys, n, y) == \E i \in 1 .. n : ys[i] = y

PrintedSet == [out : Ranges, first : Nat, last : Nat, done : Nat]

\* After n years the years that were printed and those from first up to last are the first n of ys;
\* after the last one, all were printed.
SoFar(out, first, last, n, ys) ==
  /\ out \in Ranges /\ n \in 0 .. Len(ys)
  /\ n = 0 => out = <<>> /\ first = 0 /\ last = 0
  /\ n > 0 => first \in Years /\ last = ys[n] /\ first <= last
  /\ n > 0 /\ n < Len(ys) =>
       \A y \in Int : Covers(out, y) \/ (first <= y /\ y <= last) <=> AmongFirst(ys, n, y)
  /\ n = Len(ys) => \A y \in Int : Covers(out, y) <=> AmongFirst(ys, Len(ys), y)

PrintedSoFar(p, ys) == p \in PrintedSet /\ SoFar(p.out, p.first, p.last, p.done, ys)

range_of(first, last) ==
  IF last > first + 1 THEN <<<<first, last>>>>
  ELSE IF last > first THEN <<one(first), one(last)>> ELSE <<one(first)>>

LEMMA OneRange ==
  ASSUME NEW first \in Years, NEW last \in Years, NEW r, r = <<<<first, last>>>>
  PROVE  r \in Ranges /\ \A y \in Int : Covers(r, y) <=> first <= y /\ y <= last
<1>1. r \in Ranges /\ Len(r) = 1 /\ r[1][1] = first /\ r[1][2] = last
  <2>1. <<first, last>> \in Years \X Years
    OBVIOUS
  <2> QED BY <2>1 DEF Ranges
<1>2. \A i \in 1 .. 1 : i = 1
  OBVIOUS
<1> QED BY <1>1, <1>2 DEF Covers

LEMMA CoversBoth ==
  ASSUME NEW s \in Ranges, NEW t \in Ranges, NEW g, g = s \o t
  PROVE  g \in Ranges /\ \A y : Covers(g, y) <=> Covers(s, y) \/ Covers(t, y)
<1>1. /\ g \in Ranges /\ Len(s) \in Nat /\ Len(t) \in Nat /\ Len(g) = Len(s) + Len(t)
      /\ \A j \in 1 .. Len(s) : g[j] = s[j]
      /\ \A j \in 1 .. Len(t) : g[Len(s) + j] = t[j]
  BY Concatenated DEF Ranges
<1>2. ASSUME NEW y, Covers(g, y) PROVE Covers(s, y) \/ Covers(t, y)
  <2>1. PICK i \in 1 .. Len(s) + Len(t) : g[i][1] <= y /\ y <= g[i][2]
    BY <1>1, <1>2 DEF Covers
  <2>2. CASE i \in 1 .. Len(s)
    BY <1>1, <2>1, <2>2 DEF Covers
  <2>3. CASE i \notin 1 .. Len(s)
    <3> DEFINE j == i - Len(s)
    <3>1. j \in 1 .. Len(t) /\ Len(s) + j = i
      BY <1>1, <2>3
    <3> HIDE DEF j
    <3>2. g[i] = t[j]
      BY <1>1, <3>1
    <3> QED BY <2>1, <3>1, <3>2 DEF Covers
  <2> QED BY <2>2, <2>3
<1>3. ASSUME NEW y, Covers(s, y) PROVE Covers(g, y)
  <2>1. PICK i \in 1 .. Len(s) : s[i][1] <= y /\ y <= s[i][2]
    BY <1>3 DEF Covers
  <2>2. i \in 1 .. Len(g) /\ g[i] = s[i]
    BY <1>1
  <2> QED BY <2>1, <2>2 DEF Covers
<1>4. ASSUME NEW y, Covers(t, y) PROVE Covers(g, y)
  <2>1. PICK i \in 1 .. Len(t) : t[i][1] <= y /\ y <= t[i][2]
    BY <1>4 DEF Covers
  <2> DEFINE j == Len(s) + i
  <2>2. j \in 1 .. Len(g) /\ g[j] = t[i]
    BY <1>1
  <2> HIDE DEF j
  <2> QED BY <2>1, <2>2 DEF Covers
<1> QED BY <1>1, <1>2, <1>3, <1>4

LEMMA CoversNothing == \A r : r = <<>> => r \in Ranges /\ \A y : ~Covers(r, y)
<1>1. \A s : s = <<>> => Len(s) = 0
  OBVIOUS
<1> QED BY <1>1 DEF Ranges, Covers

LEMMA RangeCovers ==
  ASSUME NEW first \in Years, NEW last \in Years, first <= last
  PROVE  /\ range_of(first, last) \in Ranges
         /\ \A y \in Int : Covers(range_of(first, last), y) <=> first <= y /\ y <= last
<1>1. first \in Int /\ last \in Int
  BY DEF Years
<1>2. CASE last > first + 1
  BY <1>2, OneRange DEF range_of
<1>3. CASE last = first + 1
  <2> DEFINE g == <<<<first, first>>, <<last, last>>>>
  <2>1. range_of(first, last) = g
    <3>1. last > first /\ ~(last > first + 1)
      BY <1>1, <1>3
    <3>2. range_of(first, last) = <<one(first), one(last)>>
      BY <3>1 DEF range_of
    <3> QED BY <3>2 DEF one
  <2>2. g \in Ranges /\ Len(g) = 2 /\ g[1][1] = first /\ g[1][2] = first /\ g[2][1] = last /\ g[2][2] = last
    <3>1. <<first, first>> \in Years \X Years /\ <<last, last>> \in Years \X Years
      OBVIOUS
    <3> QED BY <3>1 DEF Ranges
  <2> HIDE DEF g
  <2>3. 1 \in 1 .. 2 /\ 2 \in 1 .. 2 /\ \A i \in 1 .. 2 : i = 1 \/ i = 2
    OBVIOUS
  <2>4. \A y \in Int : Covers(g, y) <=> (first <= y /\ y <= first) \/ (last <= y /\ y <= last)
    BY <2>2, <2>3 DEF Covers
  <2>5. \A y \in Int : (first <= y /\ y <= first) \/ (last <= y /\ y <= last) <=> first <= y /\ y <= last
    BY <1>1, <1>3
  <2> QED BY <2>1, <2>2, <2>4, <2>5
<1>4. CASE last = first
  <2>1. range_of(first, last) = <<<<first, last>>>>
    <3>1. ~(last > first) /\ ~(last > first + 1)
      BY <1>1, <1>4
    <3> QED BY <1>4, <3>1 DEF range_of, one
  <2> QED BY <2>1, OneRange
<1> QED BY <1>1, <1>2, <1>3, <1>4

\* What one iteration prints.
printed_now(f, l, year, fin) ==
  LET last == IF year = l + 1 THEN year ELSE l
      first == IF f = 0 THEN year ELSE f
      final == IF year = fin /\ year > first /\ year > last THEN <<one(year)>> ELSE <<>>
  IN  IF f # 0 \/ year = fin THEN range_of(first, last) \o final ELSE <<>>

Iteration(o, f, l, year, fin, o2, f2) ==
  IF year = l + 1 /\ year # fin THEN o2 = o /\ f2 = f
                                ELSE o2 = o \o printed_now(f, l, year, fin) /\ f2 = year

PrintedIs(p, o, f, l, n) == p = [out |-> o, first |-> f, last |-> l, done |-> n]

LEMMA PrintYearIs ==
  ASSUME NEW o, NEW f, NEW l, NEW n, NEW p, PrintedIs(p, o, f, l, n), NEW year, NEW fin
  PROVE  \E o2, f2 : /\ PrintedIs(print_year(p, year, fin), o2, f2, year, n + 1)
                     /\ Iteration(o, f, l, year, fin, o2, f2)
<1>1. CASE year = l + 1 /\ year # fin
  <2>1. print_year(p, year, fin) = [p EXCEPT !.last = year, !.done = @ + 1]
    BY <1>1 DEF print_year, PrintedIs
  <2> QED BY <1>1, <2>1 DEF PrintedIs, Iteration
<1>2. CASE ~(year = l + 1 /\ year # fin)
  <2> DEFINE o2 == o \o printed_now(f, l, year, fin)
  <2>1. print_year(p, year, fin) = [out |-> o2, first |-> year, last |-> year, done |-> n + 1]
    BY <1>2 DEF print_year, range_of, printed_now, PrintedIs
  <2>2. PrintedIs(print_year(p, year, fin), o2, year, year, n + 1)
    BY <2>1 DEF PrintedIs
  <2>3. Iteration(o, f, l, year, fin, o2, year)
    BY <1>2 DEF Iteration
  <2> HIDE DEF o2
  <2> QED BY <2>2, <2>3
<1> QED BY <1>1, <1>2

\* One iteration of the loop.
LEMMA LoopStep ==
  ASSUME NEW ys, Ascending(ys), NEW o, NEW f \in Nat, NEW l \in Nat, NEW n \in Nat, SoFar(o, f, l, n, ys), n < Len(ys),
         NEW year, year = ys[n + 1], NEW fin, fin = ys[Len(ys)], NEW o2, NEW f2,
         Iteration(o, f, l, year, fin, o2, f2)
  PROVE  year \in Nat /\ f2 \in Nat /\ SoFar(o2, f2, year, n + 1, ys)
<1> DEFINE L == Len(ys)
           last == IF year = l + 1 THEN year ELSE l
           first == IF f = 0 THEN year ELSE f
           final == IF year = fin /\ year > first /\ year > last THEN <<one(year)>> ELSE <<>>
<1>1. o \in Ranges
  BY DEF SoFar
<1>2. year = l + 1 /\ year # fin => o2 = o /\ f2 = f
  BY DEF Iteration
<1>3. ~(year = l + 1 /\ year # fin) =>
        o2 = o \o (IF f # 0 \/ year = fin THEN range_of(first, last) \o final ELSE <<>>) /\ f2 = year
  BY DEF Iteration, printed_now
<1> HIDE DEF final
<1>4. /\ L \in Nat /\ n + 1 \in 1 .. L /\ L > 0 /\ year \in Years /\ fin \in Years /\ ys \in Seq(Years)
      /\ \A i \in 1 .. L : ys[i] \in Years
  BY DEF Ascending
<1>5. year = fin <=> n + 1 = L
  <2>1. ASSUME n + 1 < L PROVE ys[n + 1] < ys[L]
    <3>1. L \in 1 .. L /\ n + 1 \in 1 .. L
      BY <1>4
    <3> QED BY <2>1, <3>1 DEF Ascending
  <2>2. ASSUME n + 1 # L PROVE year # fin
    <3>1. n + 1 < L
      <4> HIDE DEF L
      <4> QED BY <1>1, <1>4, <2>2
    <3>2. year < fin /\ year \in Int /\ fin \in Int
      BY <1>4, <2>1, <3>1 DEF Years
    <3> QED BY <3>2
  <2> QED BY <1>4, <2>2
<1>6. \A y \in Int : AmongFirst(ys, n + 1, y) <=> AmongFirst(ys, n, y) \/ y = year
  <2>1. \A i \in 1 .. n + 1 : i \in 1 .. n \/ i = n + 1
    BY <1>1
  <2>2. n + 1 \in 1 .. n + 1 /\ \A i \in 1 .. n : i \in 1 .. n + 1
    BY <1>1
  <2> QED BY <2>1, <2>2 DEF AmongFirst
<1>7. f \in Int /\ l \in Int /\ year \in Int /\ year >= 1900
  <2>1. \A y \in Years : y \in Int /\ y >= 1900
    BY DEF Years
  <2>2. year \in Years
    BY <1>4
  <2> QED BY <2>1, <2>2
\* It is enough to know what is printed.
<1>8. ASSUME o2 \in Ranges, f2 \in Years, f2 <= year,
             n + 1 < L => \A y \in Int :
               Covers(o2, y) \/ (f2 <= y /\ y <= year) <=> AmongFirst(ys, n + 1, y),
             n + 1 = L => \A y \in Int : Covers(o2, y) <=> AmongFirst(ys, n + 1, y)
      PROVE  year \in Nat /\ f2 \in Nat /\ SoFar(o2, f2, year, n + 1, ys)
  <2>1. f2 \in Nat /\ year \in Nat
    BY <1>4, <1>8 DEF Years
  <2>2. n + 1 \in 0 .. L /\ n + 1 # 0 /\ n + 1 > 0
    BY <1>4
  <2> QED BY <1>8, <2>1, <2>2 DEF SoFar
\* The first year starts a range, and is printed if it is the only one.
<1>9. CASE n = 0
  <2>1. o = <<>> /\ f = 0 /\ l = 0
    BY <1>9 DEF SoFar
  <2>2. year # l + 1 /\ first = year /\ last = 0
    BY <1>7, <2>1
  <2>3. o2 = o \o (IF year = fin THEN range_of(first, last) \o final ELSE <<>>) /\ f2 = year
    BY <1>3, <2>1, <2>2
  <2>4. \A y : ~AmongFirst(ys, 0, y)
    BY DEF AmongFirst
  <2>5. \A y \in Int : AmongFirst(ys, n + 1, y) <=> year <= y /\ y <= year
    <3>1. \A y \in Int : AmongFirst(ys, n + 1, y) <=> y = year
      <4> QED BY <1>6, <1>9, <2>4
    <3> QED BY <1>7, <3>1
  <2>6. CASE year = fin
    <3>1. range_of(first, last) = <<one(year)>> /\ final = <<>>
      BY <1>7, <2>2 DEF range_of, final
    <3>2. o2 = <<>> \o (<<one(year)>> \o <<>>)
      BY <2>1, <2>3, <2>6, <3>1
    <3>3. o2 = <<<<year, year>>>>
      <4>1. \A x : <<>> \o (<<x>> \o <<>>) = <<x>>
        <5> SUFFICES ASSUME NEW x PROVE <<>> \o (<<x>> \o <<>>) = <<x>>
          OBVIOUS
        <5>1. <<x>> \in Seq({x})
          OBVIOUS
        <5> DEFINE s == <<x>>
        <5> HIDE DEF s
        <5>2. s \in Seq({x})
          BY <5>1 DEF s
        <5>3. s \o <<>> = s /\ <<>> \o s = s
          BY <5>2, ConcatEmptySeq
        <5> QED BY <5>3 DEF s
      <4> QED BY <3>2, <4>1 DEF one
    <3>4. o2 \in Ranges /\ \A y \in Int : Covers(o2, y) <=> year <= y /\ y <= year
      BY <1>4, <3>3, OneRange
    <3> HIDE DEF L
    <3>5. n + 1 = L
      BY <1>5, <2>6
    <3> QED BY <1>4, <1>7, <1>8, <2>3, <2>5, <3>4, <3>5
  <2>7. CASE year # fin
    <3>1. o2 = <<>>
      <4>1. o2 = <<>> \o <<>>
        BY <2>1, <2>3, <2>7
      <4> QED BY <4>1
    <3> HIDE DEF L
    <3>2. n + 1 # L
      BY <1>5, <2>7
    <3>3. o2 \in Ranges /\ \A y : ~Covers(o2, y)
      BY <3>1, CoversNothing
    <3>4. f2 = year /\ year \in Years /\ year <= year /\ ~(n + 1 = L)
      BY <1>4, <1>7, <2>3, <3>2
    <3> QED BY <1>8, <2>5, <3>3, <3>4
  <2> QED BY <2>6, <2>7
<1>10. CASE n # 0
  <2>1. /\ f \in Years /\ l = ys[n] /\ f <= l
        /\ \A y \in Int : Covers(o, y) \/ (f <= y /\ y <= l) <=> AmongFirst(ys, n, y)
    BY <1>1, <1>4, <1>10 DEF SoFar
  <2>2. f # 0 /\ first = f /\ l \in Years
    BY <1>1, <1>4, <1>10, <2>1 DEF Years
  <2>3. l < year
    <3>1. n \in 1 .. L /\ n + 1 \in 1 .. L /\ n < n + 1
      <4> HIDE DEF L
      <4> QED BY <1>1, <1>4, <1>10
    <3>2. ys[n] < ys[n + 1]
      BY <3>1 DEF Ascending
    <3> QED BY <2>1, <3>2 
  <2>4. f \in Int /\ f <= year
    BY <1>7, <2>1, <2>3
  \* The range goes on.
  <2>5. CASE year = l + 1 /\ year # fin
    <3>1. o2 = o /\ f2 = f
      BY <1>2, <2>5
    <3> HIDE DEF L
    <3>2. n + 1 # L
      BY <1>5, <2>5
    <3>3. ASSUME NEW y \in Int
          PROVE  Covers(o2, y) \/ (f2 <= y /\ y <= year) <=> AmongFirst(ys, n + 1, y)
      <4>1. (f <= y /\ y <= year) <=> (f <= y /\ y <= l) \/ y = year
        BY <1>7, <2>4, <2>5
      <4> QED BY <1>6, <2>1, <3>1, <4>1
    <3> QED BY <1>1, <1>8, <2>1, <2>4, <3>1, <3>2, <3>3
  \* It is printed, with the year if that is the last one.
  <2>6. CASE ~(year = l + 1 /\ year # fin)
    <3> DEFINE r == range_of(first, last)
               t == r \o final
    <3>1. o2 = o \o t /\ f2 = year
      BY <1>3, <2>2, <2>6
    <3>2. last \in Years /\ first \in Years /\ first <= last
      BY <1>4, <2>1, <2>2, <2>4
    <3>3. r \in Ranges /\ \A y \in Int : Covers(r, y) <=> first <= y /\ y <= last
      BY <3>2, RangeCovers
    <3>4. final \in Ranges /\ \A y \in Int : Covers(final, y) <=> year = fin /\ year > last /\ y = year
      <4>1. CASE year = fin /\ year > last
        <5>1. year > first
          BY <1>7, <2>2, <2>3, <2>1
        <5>2. final = <<<<year, year>>>>
          BY <4>1, <5>1 DEF final, one
        <5>3. final \in Ranges /\ \A y \in Int : Covers(final, y) <=> year <= y /\ y <= year
          BY <1>4, <5>2, OneRange
        <5>4. \A y \in Int : year <= y /\ y <= year <=> y = year
          BY <1>7
        <5> QED BY <4>1, <5>3, <5>4
      <4>2. CASE ~(year = fin /\ year > last)
        <5>1. final = <<>>
          BY <4>2 DEF final
        <5> QED BY <4>2, <5>1, CoversNothing
      <4> QED BY <4>1, <4>2
    <3>5. t = r \o final
      OBVIOUS
    <3> HIDE DEF r, t
    <3>6. t \in Ranges /\ \A y : Covers(t, y) <=> Covers(r, y) \/ Covers(final, y)
      BY <3>3, <3>4, <3>5, CoversBoth
    <3>7. o2 \in Ranges /\ \A y : Covers(o2, y) <=> Covers(o, y) \/ Covers(t, y)
      BY <1>1, <3>1, <3>6, CoversBoth
    <3>8. \A y \in Int : Covers(o2, y) <=>
            Covers(o, y) \/ (first <= y /\ y <= last) \/ (year = fin /\ year > last /\ y = year)
      BY <3>3, <3>4, <3>6, <3>7
    <3> HIDE DEF L
    <3>9. CASE year = fin
      <4>1. n + 1 = L
        BY <1>5, <3>9
      <4>2. ASSUME NEW y \in Int PROVE Covers(o2, y) <=> AmongFirst(ys, n + 1, y)
        <5>1. (first <= y /\ y <= last) \/ (year > last /\ y = year)
              <=> (f <= y /\ y <= l) \/ y = year
          BY <1>7, <2>2, <2>3, <2>4
        <5> QED BY <1>6, <2>1, <3>8, <3>9, <5>1
      <4> QED BY <1>4, <1>7, <1>8, <3>1, <3>7, <4>1, <4>2
    <3>10. CASE year # fin
      <4>1. n + 1 # L
        BY <1>5, <3>10
      <4>2. last = l
        BY <2>6, <3>10
      <4>3. ASSUME NEW y \in Int
            PROVE  Covers(o2, y) \/ (year <= y /\ y <= year) <=> AmongFirst(ys, n + 1, y)
        <5>1. year <= y /\ y <= year <=> y = year
          BY <1>7
        <5>2. Covers(o2, y) <=> AmongFirst(ys, n, y)
          BY <2>1, <2>2, <3>8, <3>10, <4>2
        <5> QED BY <1>6, <5>1, <5>2
      <4> QED BY <1>4, <1>7, <1>8, <3>1, <3>7, <4>1, <4>3
    <3> QED BY <3>9, <3>10
  <2> QED BY <2>5, <2>6
<1> QED BY <1>9, <1>10

LEMMA PrintYearStep ==
  ASSUME NEW ys, Ascending(ys), NEW p, PrintedSoFar(p, ys), p.done < Len(ys)
  PROVE  PrintedSoFar(print_year(p, ys[p.done + 1], Last(ys)), ys)
<1>1. PICK o, f, l, n : PrintedIs(p, o, f, l, n)
  BY DEF PrintedSoFar, PrintedSet, PrintedIs
<1>2. p.out = o /\ p.first = f /\ p.last = l /\ p.done = n
  BY <1>1 DEF PrintedIs
<1>3. o \in Ranges /\ f \in Nat /\ l \in Nat /\ n \in Nat
  BY <1>2 DEF PrintedSoFar, PrintedSet
<1>4. SoFar(o, f, l, n, ys) /\ n < Len(ys)
  BY <1>2 DEF PrintedSoFar
<1> DEFINE year == ys[n + 1]
           fin == ys[Len(ys)]
           q == print_year(p, year, fin)
<1>5. year = ys[n + 1] /\ fin = ys[Len(ys)]
  OBVIOUS
<1>6. q = print_year(p, ys[p.done + 1], Last(ys))
  BY <1>2 DEF Last
<1> HIDE DEF year, fin
<1>7. PICK o2, f2 : PrintedIs(q, o2, f2, year, n + 1) /\ Iteration(o, f, l, year, fin, o2, f2)
  BY <1>1, PrintYearIs
<1> HIDE DEF q
<1>8. year \in Nat /\ f2 \in Nat /\ SoFar(o2, f2, year, n + 1, ys)
  BY <1>3, <1>4, <1>5, <1>7, LoopStep
<1>9. PrintedSoFar(q, ys)
  <2>1. q.out = o2 /\ q.first = f2 /\ q.last = year /\ q.done = n + 1
    BY <1>7 DEF PrintedIs
  <2>2. o2 \in Ranges /\ n + 1 \in Nat
    BY <1>3, <1>8 DEF SoFar
  <2>3. q \in PrintedSet
    BY <1>7, <1>8, <2>2 DEF PrintedSet, PrintedIs
  <2> QED BY <1>8, <2>1, <2>3 DEF PrintedSoFar
<1> QED BY <1>6, <1>9

-----------------------------------------------------------------------------
(* The header while it is being read                                         *)

LEMMA HeaderFields ==
  ASSUME NEW h \in HeaderSet
  PROVE  /\ h.name \in Words /\ h.desc \in Words /\ h.old \in Words /\ h.brief \in Words /\ h.years \in Seq(Years)
         /\ h.signature \in Seq(TextSet) /\ h.license \in Seq(TextSet) /\ h.trailing \in Seq(TextSet)
         /\ \A x \in Words : /\ [h EXCEPT !.name = x] \in HeaderSet /\ [h EXCEPT !.brief = x] \in HeaderSet
                             /\ [h EXCEPT !.old = x] \in HeaderSet
         /\ \A x, y \in Words : [h EXCEPT !.name = x, !.desc = y] \in HeaderSet
         /\ \A x \in Seq(Years) : [h EXCEPT !.years = x] \in HeaderSet
         /\ \A x \in Seq(TextSet) : /\ [h EXCEPT !.signature = x] \in HeaderSet
                                    /\ [h EXCEPT !.license = x] \in HeaderSet
                                    /\ [h EXCEPT !.trailing = x] \in HeaderSet
BY DEF HeaderSet

LEMMA TextFields ==
  ASSUME NEW text \in TextSet
  PROVE  text.name \in Words /\ text.desc \in Words /\ text.years \in Ranges /\ \A x \in Words : [text EXCEPT !.name = x] \in TextSet
BY DEF TextSet, Ranges

LEMMA NewHeaderType ==
  ASSUME module_name \in Words
  PROVE  NewHeader \in HeaderSet
<1>1. "" \in Words /\ "option" \in Words
  BY SourcesAssumption
<1>2. <<>> \in Seq(Years) /\ <<>> \in Seq(TextSet)
  OBVIOUS
<1> QED BY <1>1, <1>2 DEF NewHeader, HeaderSet

LEMMA AppendedText ==
  ASSUME NEW s \in Seq(TextSet), NEW text \in TextSet
  PROVE  Append(s, text) \in Seq(TextSet) /\ (s \o <<Blank>>) \o <<text>> \in Seq(TextSet) /\ (s \o <<>>) \o <<text>> \in Seq(TextSet)
<1>1. <<>> \in Seq(TextSet) /\ <<text>> \in Seq(TextSet) /\ \A x \in TextSet : <<x>> \in Seq(TextSet)
  OBVIOUS
<1>2. Blank \in TextSet
  BY TextTypes
<1>3. s \o <<Blank>> \in Seq(TextSet) /\ s \o <<>> \in Seq(TextSet)
  BY <1>1, <1>2, ConcatProperties
<1>4. \A u \in Seq(TextSet) : u \o <<text>> \in Seq(TextSet)
  BY <1>1, ConcatProperties
<1> QED BY <1>3, <1>4

LEMMA TakeType ==
  ASSUME header \in HeaderSet, NEW text \in TextSet, take(text)
  PROVE  header' \in HeaderSet
<1> DEFINE st == found(text.kind)
<1>1. header' = CASE st = "module"    -> set_module(header, text.name, text.desc)
                  [] st = "brief"     -> [header EXCEPT !.brief = text.desc]
                  [] st = "copyright" -> decode_copyright_line(header, text)
                  [] st = "signature" -> [header EXCEPT !.signature = Append(@, text)]
                  [] st = "part_of"   -> set_part_of(header, text.name)
                  [] st = "license"   -> [header EXCEPT !.license = Append(@, text)]
                  [] st = "trailing"  -> add_trailing_line(header, text, saw.trailing_empty_line)
                  [] OTHER            -> header
  BY DEF take
<1> HIDE DEF st
<1>2. text.name \in Words /\ text.desc \in Words /\ text.years \in Ranges
  BY TextFields
<1>3. set_module(header, text.name, text.desc) \in HeaderSet
  BY <1>2, HeaderFields DEF set_module
<1>4. [header EXCEPT !.brief = text.desc] \in HeaderSet
  BY <1>2, HeaderFields
<1>5. decode_copyright_line(header, text) \in HeaderSet
  <2>1. header.years \in Seq(Years) /\ years_of(text.years) \in Seq(Years)
    BY <1>2, HeaderFields, YearsOfType
  <2>2. header.years \o years_of(text.years) \in Seq(Years)
    BY <2>1, ConcatProperties
  <2>3. decode_copyright_line(header, text) = [header EXCEPT !.years = header.years \o years_of(text.years)]
    BY DEF decode_copyright_line
  <2> QED BY <2>2, <2>3, HeaderFields
<1>6. [header EXCEPT !.signature = Append(@, text)] \in HeaderSet /\ [header EXCEPT !.license = Append(@, text)] \in HeaderSet
  <2>1. Append(header.signature, text) \in Seq(TextSet) /\ Append(header.license, text) \in Seq(TextSet)
    BY HeaderFields, AppendedText
  <2> QED BY <2>1, HeaderFields
<1>7. set_part_of(header, text.name) \in HeaderSet
  BY <1>2, HeaderFields DEF set_part_of
<1>8. \A e : add_trailing_line(header, text, e) \in HeaderSet
  <2> SUFFICES ASSUME NEW e PROVE add_trailing_line(header, text, e) \in HeaderSet
    OBVIOUS
  <2>1. CASE text.kind = ""
    BY <2>1 DEF add_trailing_line
  <2>2. CASE text.kind # ""
    <3> DEFINE x == (header.trailing \o (IF e THEN <<Blank>> ELSE <<>>)) \o <<text>>
    <3>1. add_trailing_line(header, text, e) = [header EXCEPT !.trailing = x]
      BY <2>2 DEF add_trailing_line
    <3>2. x \in Seq(TextSet)
      BY HeaderFields, AppendedText
    <3> HIDE DEF x
    <3> QED BY <3>1, <3>2, HeaderFields
  <2> QED BY <2>1, <2>2
<1>9. /\ st = "module" => header' = set_module(header, text.name, text.desc)
      /\ st = "brief" => header' = [header EXCEPT !.brief = text.desc]
      /\ st = "copyright" => header' = decode_copyright_line(header, text)
      /\ st = "signature" => header' = [header EXCEPT !.signature = Append(@, text)]
      /\ st = "part_of" => header' = set_part_of(header, text.name)
      /\ st = "license" => header' = [header EXCEPT !.license = Append(@, text)]
      /\ st = "trailing" => header' = add_trailing_line(header, text, saw.trailing_empty_line)
      /\ st \notin {"module", "brief", "copyright", "signature", "part_of", "license", "trailing"} => header' = header
  BY <1>1
<1> QED BY <1>3, <1>4, <1>5, <1>6, <1>7, <1>8, <1>9

\* The years that are to be printed.
YearsToPrint(years) == IF years = {} THEN {CurrentYear} ELSE years

LEMMA CanonicalizeIs ==
  ASSUME NEW h \in HeaderSet
  PROVE  /\ canonicalize(h) \in HeaderSet
         /\ Ascending(canonicalize(h).years)
         /\ ToSet(canonicalize(h).years) = YearsToPrint(ToSet(h.years))
<1> DEFINE desc == IF h.desc = "" THEN "FIXME" ELSE h.desc
           brief == IF h.brief = "" THEN "FIXME" ELSE h.brief
           S == ToSet(h.years)
           years == IF h.years = <<>> THEN <<CurrentYear>> ELSE sorted(S)
           signature == or(h.signature, default_signature)
           lic == or(h.license, default_license)
           license == [i \in DOMAIN lic |-> rename(h, lic[i])]
           c == canonicalize(h)
<1>1. /\ h.name \in Words /\ h.desc \in Words /\ h.old \in Words /\ h.brief \in Words /\ h.years \in Seq(Years)
      /\ h.signature \in Seq(TextSet) /\ h.license \in Seq(TextSet) /\ h.trailing \in Seq(TextSet)
  BY HeaderFields
<1>2. {"", "FIXME", "program", "RSA-1024", "Fingerprint16"} \subseteq Words /\ CurrentYear \in Years
  BY SourcesAssumption
<1>3. c = [h EXCEPT !.desc = desc, !.brief = brief, !.years = years, !.signature = signature, !.license = license]
  BY DEF canonicalize
<1>4. desc \in Words /\ brief \in Words
  BY <1>1, <1>2
<1>5. signature \in Seq(TextSet)
  <2>1. Other("RSA-1024") \in TextSet /\ Other("Fingerprint16") \in TextSet
    BY <1>2, TextTypes
  <2>2. \A x, y \in TextSet : <<x, y>> \in Seq(TextSet)
    OBVIOUS
  <2>3. default_signature \in Seq(TextSet)
    BY <2>1, <2>2 DEF default_signature
  <2> QED BY <1>1, <2>3 DEF or
<1>6. lic \in Seq(TextSet)
  <2>1. License("program") \in TextSet /\ Blank \in TextSet /\ LicenseEnd \in TextSet
    BY <1>2, TextTypes
  <2>2. \A x, y, z \in TextSet : <<x, y, z>> \in Seq(TextSet)
    OBVIOUS
  <2>3. default_license \in Seq(TextSet)
    BY <2>1, <2>2 DEF default_license
  <2> QED BY <1>1, <2>3 DEF or
<1>7. license \in Seq(TextSet)
  <2> HIDE DEF lic
  <2>1. \A text \in TextSet : rename(h, text) \in TextSet
    BY <1>1, TextFields DEF rename
  <2>2. Len(lic) \in Nat /\ DOMAIN lic = 1 .. Len(lic) /\ \A i \in 1 .. Len(lic) : lic[i] \in TextSet
    BY <1>6
  <2>3. license \in [1 .. Len(lic) -> TextSet]
    BY <2>1, <2>2
  <2> HIDE DEF license
  <2> QED BY <2>2, <2>3
<1>8. Ascending(years) /\ ToSet(years) = YearsToPrint(S)
  <2>1. CASE h.years = <<>>
    <3>1. years = <<CurrentYear>> /\ S = {}
      BY <2>1 DEF ToSet
    <3> HIDE DEF years, S
    <3>2. Len(years) = 1 /\ DOMAIN years = 1 .. 1 /\ years[1] = CurrentYear /\ years \in Seq(Years)
      <4>1. CurrentYear \in Years
        BY <1>2
      <4> QED BY <3>1, <4>1
    <3>3. \A i \in 1 .. 1 : i = 1
      OBVIOUS
    <3>4. Ascending(years)
      BY <3>2, <3>3 DEF Ascending
    <3>5. ToSet(years) = {CurrentYear}
      BY <3>2, <3>3 DEF ToSet
    <3> QED BY <3>1, <3>4, <3>5 DEF YearsToPrint
  <2>2. CASE h.years # <<>>
    <3>1. years = sorted(S)
      BY <2>2
    <3>2. Len(h.years) \in Nat /\ DOMAIN h.years = 1 .. Len(h.years) /\ Len(h.years) # 0
      BY <1>1, <2>2
    <3>3. S \in SUBSET Years /\ S # {}
      <4>1. \A i \in 1 .. Len(h.years) : h.years[i] \in Years
        BY <1>1
      <4>2. 1 \in DOMAIN h.years
        BY <3>2
      <4>3. \A i \in DOMAIN h.years : h.years[i] \in S
        BY DEF ToSet
      <4>4. S \in SUBSET Years
        BY <3>2, <4>1 DEF ToSet
      <4> HIDE DEF S
      <4> QED BY <4>2, <4>3, <4>4
    <3> HIDE DEF S, years
    <3>4. S \in SUBSET Nat /\ IsFiniteSet(S)
      <4>1. S \in SUBSET Nat /\ \A s \in S : s <= 2099
        BY <3>3 DEF Years
      <4> QED BY <4>1, FS_BoundedSetOfNaturals
    <3> DEFINE n == Cardinality(S)
    <3>5. /\ n \in Nat /\ years \in [1 .. n -> S]
          /\ \A i, j \in 1 .. n : i < j => years[i] < years[j]
          /\ \A x \in S : \E i \in 1 .. n : years[i] = x
      BY <3>1, <3>4, SortedIs
    <3>6. n > 0
      <4>1. n # 0
        BY <3>3, <3>4, FS_EmptySet
      <4> HIDE DEF n
      <4> QED BY <3>5, <4>1
    <3> HIDE DEF n
    <3>7. years \in Seq(Years) /\ Len(years) = n /\ DOMAIN years = 1 .. n
      <4>1. years \in [1 .. n -> Years]
        BY <3>3, <3>5
      <4> QED BY <3>5, <4>1
    <3>8. Ascending(years)
      BY <3>5, <3>6, <3>7 DEF Ascending
    <3>9. ToSet(years) = S
      BY <3>5, <3>7 DEF ToSet
    <3> QED BY <3>3, <3>8, <3>9 DEF YearsToPrint
  <2> QED BY <2>1, <2>2
<1>9. years \in Seq(Years)
  BY <1>8 DEF Ascending
<1> HIDE DEF desc, brief, S, years, signature, license, c
<1>10. c \in HeaderSet /\ c.years = years
  BY <1>3, <1>4, <1>5, <1>7, <1>9 DEF HeaderSet
<1> QED BY <1>8, <1>10 DEF c, S

-----------------------------------------------------------------------------
(* The invariant                                                             *)

\* While the header is read, il is not behind the first line of code.
Position ==
  /\ pc \in {"skip", "comment", "end", "canonicalize", "print"} => il \in 1 .. FirstCode(input_lines)
  /\ pc = "comment" =>
       /\ il \in 1 .. FirstCode(input_lines) - 1
       /\ IF is_C_comment THEN is_C_comment_start(input_lines[il]) ELSE is_Cpp_comment(input_lines[il])

YearsPrinted ==
  /\ pc \in {"skip", "comment", "end", "canonicalize"} => printed = nothing_printed
  /\ pc = "print" =>
       /\ Ascending(header.years) /\ ToSet(header.years) = YearsToPrint(years_read)
       /\ PrintedSoFar(printed, header.years)

Reading == {"skip", "comment", "end", "canonicalize", "print", "write", "rename", "next"}

\* What a file has to be recognised for.
Kept ==
  Recognised(input_lines) =>
    /\ Position
    /\ pc \in {"write", "rename"} => CodeOf(lines) = CodeOf(input_lines)
    /\ flushed => CodeOf(file) = CodeOf(input_lines)

IInv ==
  /\ pc \in {"open", "exit"} \cup Reading
  /\ module_name \in Words /\ header \in HeaderSet
  /\ file \in Seq(LineSet) /\ input_lines \in Seq(LineSet) /\ il \in Nat \ {0}
  /\ pc \in {"write", "rename"} => lines \in Seq(LineSet)
  /\ pc = "rename" /\ flushed => new_file = "complete"
  /\ Kept /\ YearsPrinted /\ YearsKept

\* Where the next line that is not empty is: at the first line of code or before it, and in any case
\* not further than behind the last line.
LEMMA NextLine ==
  ASSUME Recognised(input_lines), NEW i \in 1 .. FirstCode(input_lines)
  PROVE  next_line(i) \in i .. FirstCode(input_lines) /\ next_line(i) \in 1 .. FirstCode(input_lines)
<1> DEFINE rest == {j \in i .. Len(input_lines) : input_lines[j] # EmptyLine}
           c == FirstCode(input_lines)
<1>1. Len(input_lines) \in Nat /\ c \in 1 .. Len(input_lines) /\ is_code(input_lines[c])
  BY RecognisedIs
<1>2. c \in i .. Len(input_lines) /\ i \in 1 .. c
  BY <1>1
<1>3. c \in rest
  BY <1>1, <1>2, LineTypes DEF is_code
<1>4. rest \in SUBSET Nat /\ \A j \in rest : i <= j
  BY <1>1, <1>2
<1> HIDE DEF rest, c
<1>5. Min(rest) \in rest /\ Min(rest) <= c
  BY <1>3, <1>4, MinIs
<1>6. next_line(i) = Min(rest)
  BY <1>3 DEF next_line, rest
<1>7. Min(rest) \in Nat /\ i <= Min(rest) /\ c \in Nat
  BY <1>3, <1>4, <1>5
<1>8. next_line(i) \in i .. c /\ next_line(i) \in 1 .. c
  BY <1>2, <1>5, <1>6, <1>7
<1> QED BY <1>8 DEF c

LEMMA NextLineType ==
  ASSUME input_lines \in Seq(LineSet), NEW i \in Nat \ {0}
  PROVE  next_line(i) \in 1 .. Len(input_lines) + 1
<1> DEFINE rest == {j \in i .. Len(input_lines) : input_lines[j] # EmptyLine}
<1>1. Len(input_lines) \in Nat
  OBVIOUS
<1>2. rest \in SUBSET Nat /\ rest \subseteq 1 .. Len(input_lines) + 1
  BY <1>1
<1>3. next_line(i) = IF rest = {} THEN Len(input_lines) + 1 ELSE Min(rest)
  BY DEF next_line
<1> HIDE DEF rest
<1>4. rest # {} => Min(rest) \in rest
  BY <1>2, MinIs
<1>5. Len(input_lines) + 1 \in 1 .. Len(input_lines) + 1
  BY <1>1
<1> QED BY <1>2, <1>3, <1>4, <1>5

LEMMA LineAt ==
  ASSUME input_lines \in Seq(LineSet), NEW i
  PROVE  /\ line_at(i) \in LineSet
         /\ i \in 1 .. Len(input_lines) => line_at(i) = input_lines[i]
<1>1. garbage \in LineSet
  BY LineTypes, TextTypes DEF garbage
<1>2. DOMAIN input_lines = 1 .. Len(input_lines) /\ \A j \in DOMAIN input_lines : input_lines[j] \in LineSet
  OBVIOUS
<1> QED BY <1>1, <1>2 DEF line_at

LEMMA InitInv == Init => IInv
<1> SUFFICES ASSUME Init PROVE IInv
  OBVIOUS
<1>1. file \in Seq(LineSet) /\ module_name \in Words /\ input_lines = <<>> /\ il = 1 /\ pc = "open"
  BY SourcesAssumption DEF Init
<1>2. header \in HeaderSet
  BY <1>1, NewHeaderType DEF Init
<1>3. YearsPrinted /\ YearsKept
  BY <1>1 DEF YearsPrinted, YearsKept, Printed
<1>4. ~Recognised(input_lines)
  BY <1>1 DEF Recognised
<1>5. input_lines \in Seq(LineSet)
  BY <1>1
<1> QED BY <1>1, <1>2, <1>3, <1>4, <1>5 DEF IInv, Kept

\* The steps that do not write keep the code.
LEMMA ReadingInv ==
  ASSUME IInv, UNCHANGED <<file, flushed, module_name, input_lines, lines>>,
         pc \in {"skip", "comment", "end", "canonicalize", "print"},
         pc' \in {"skip", "comment", "end", "canonicalize", "print"},
         header' \in HeaderSet, il' \in Nat \ {0}, Recognised(input_lines) => Position', YearsPrinted'
  PROVE  IInv'
<1>1. YearsKept'
  BY DEF YearsKept, Printed
<1>2. Recognised(input_lines') <=> Recognised(input_lines)
  OBVIOUS
<1>3. Kept'
  BY <1>2 DEF IInv, Kept
<1> QED BY <1>1, <1>3 DEF IInv, Reading

LEMMA OpenInv == ASSUME IInv, Open PROVE IInv'
<1>1. file \in Seq(LineSet) /\ module_name' \in Words /\ module_name' = module_name
  BY DEF IInv, Open, main_vars
<1>2. header' \in HeaderSet
  BY <1>1, NewHeaderType DEF Open
<1>3. file' = file /\ input_lines' = file /\ pc' = "skip" /\ il' = 1 /\ printed' = nothing_printed
  BY DEF Open, main_vars
<1>4. YearsKept' /\ YearsPrinted'
  BY <1>3 DEF YearsKept, YearsPrinted, Printed
<1>5. Recognised(file) => 1 \in 1 .. FirstCode(file)
  <2> SUFFICES ASSUME Recognised(file) PROVE 1 \in 1 .. FirstCode(file)
    OBVIOUS
  <2>1. Len(file) \in Nat /\ FirstCode(file) \in 1 .. Len(file)
    BY RecognisedIs
  <2> QED BY <2>1
<1>6. Kept'
  BY <1>3, <1>5 DEF Kept, Position
<1> QED BY <1>1, <1>2, <1>3, <1>4, <1>6 DEF IInv, Reading

LEMMA StartCommentInv == ASSUME IInv, StartComment PROVE IInv'
<1>1. /\ pc = "skip" /\ il' = next_line(il) /\ pc' \in {"comment", "end"}
      /\ is_C_comment' = is_C_comment_start(line_at(il'))
      /\ pc' = "comment" => is_C_comment' \/ is_Cpp_comment(line_at(il'))
      /\ UNCHANGED <<file, flushed, module_name, input_lines, lines, header, printed, years_read>>
  BY DEF StartComment, main_vars
<1>2. ASSUME Recognised(input_lines) PROVE Position'
  <2>1. il \in 1 .. FirstCode(input_lines)
    BY <1>1, <1>2 DEF IInv, Kept, Position
  <2>2. /\ Len(input_lines) \in Nat /\ FirstCode(input_lines) \in 1 .. Len(input_lines)
        /\ is_code(input_lines[FirstCode(input_lines)])
    BY <1>2, RecognisedIs
  <2>3. il' \in 1 .. FirstCode(input_lines)
    BY <1>1, <1>2, <2>1, NextLine
  <2>4. il' \in 1 .. Len(input_lines)
    BY <2>2, <2>3
  <2>5. line_at(il') = input_lines[il']
    BY <2>4, LineAt DEF IInv
  <2>6. ASSUME pc' = "comment" PROVE il' \in 1 .. FirstCode(input_lines) - 1
    <3>1. il' # FirstCode(input_lines)
      BY <1>1, <1>2, <2>2, <2>5, <2>6 DEF Recognised, is_code, is_C_comment_start, is_Cpp_comment
    <3> QED BY <2>2, <2>3, <3>1
  <2> QED BY <1>1, <2>3, <2>5, <2>6 DEF Position
<1>3. YearsPrinted'
  BY <1>1 DEF IInv, YearsPrinted
<1>4. header' \in HeaderSet
  BY <1>1 DEF IInv
<1>5. il' \in Nat \ {0}
  <2>1. il' \in 1 .. Len(input_lines) + 1 /\ Len(input_lines) \in Nat
    BY <1>1, NextLineType DEF IInv
  <2> QED BY <2>1
<1> QED BY <1>1, <1>2, <1>3, <1>4, <1>5, ReadingInv

LEMMA CommentInv == ASSUME IInv, Comment PROVE IInv'
<1> DEFINE c == FirstCode(input_lines)
<1>1. /\ pc = "comment" /\ il' = il + 1 /\ pc' \in {"comment", "end"} /\ take(extract(line_at(il)))
      /\ pc' = "comment" => IF is_C_comment THEN ~is_C_comment_end(line_at(il)) ELSE is_Cpp_comment(line_at(il + 1))
      /\ UNCHANGED <<file, flushed, module_name, input_lines, lines, is_C_comment, printed, years_read>>
  BY DEF Comment, main_vars
<1>2. ASSUME Recognised(input_lines) PROVE Position'
  <2>1. il \in 1 .. c - 1 /\ (is_C_comment => is_C_comment_start(input_lines[il]))
    BY <1>1, <1>2 DEF IInv, Kept, Position
  <2>2. /\ input_lines \in Seq(LineSet) /\ Len(input_lines) \in Nat /\ c \in 1 .. Len(input_lines)
        /\ is_code(input_lines[c])
        /\ \A j \in 1 .. Len(input_lines) : is_code(input_lines[j]) => c <= j
    BY <1>2, RecognisedIs
  <2>3. il' \in 1 .. c /\ il \in 1 .. Len(input_lines) /\ il' \in 1 .. Len(input_lines) /\ il \in DOMAIN input_lines
    <3>1. DOMAIN input_lines = 1 .. Len(input_lines)
      BY <2>2
    <3> HIDE DEF c
    <3> QED BY <1>1, <2>1, <2>2, <3>1
  <2>4. line_at(il) = input_lines[il] /\ line_at(il') = input_lines[il']
    BY <2>2, <2>3, LineAt
  <2>5. ASSUME pc' = "comment"
        PROVE  IF is_C_comment THEN is_C_comment_start(input_lines[il']) ELSE is_Cpp_comment(input_lines[il'])
    <3>1. CASE is_C_comment
      <4>1. ~is_code(input_lines[il])
        <5>1. il \in 1 .. Len(input_lines) /\ ~(c <= il)
          <6> HIDE DEF c
          <6> QED BY <2>1, <2>2, <2>3
        <5> QED BY <2>2, <5>1
      <4>2. input_lines[il].style = "C"
        BY <1>1, <2>1, <2>4, <2>5, <3>1, <4>1 DEF is_C_comment_start, is_C_comment_end, is_code
      <4>3. is_C_comment_start(input_lines[il + 1])
        BY <1>2, <2>3, <4>2 DEF Recognised, CommentsEnd
      <4> QED BY <1>1, <3>1, <4>3
    <3>2. CASE ~is_C_comment
      BY <1>1, <2>4, <2>5, <3>2
    <3> QED BY <3>1, <3>2
  <2>6. ASSUME pc' = "comment" PROVE il' \in 1 .. c - 1
    <3>1. il' # c
      BY <1>2, <2>2, <2>5, <2>6 DEF Recognised, is_code, is_C_comment_start, is_Cpp_comment
    <3> HIDE DEF c
    <3> QED BY <2>2, <2>3, <3>1
  <2> QED BY <1>1, <2>3, <2>5, <2>6 DEF Position
<1>3. YearsPrinted'
  BY <1>1 DEF IInv, YearsPrinted
<1>4. header' \in HeaderSet
  <2>1. line_at(il).text \in TextSet
    BY LineAt DEF IInv, LineSet
  <2>2. extract(line_at(il)) \in TextSet
    BY <2>1, TextTypes DEF extract
  <2> QED BY <1>1, <2>2, TakeType DEF IInv
<1>5. il' \in Nat \ {0}
  BY <1>1 DEF IInv
<1> QED BY <1>1, <1>2, <1>3, <1>4, <1>5, ReadingInv

LEMMA EndCommentInv == ASSUME IInv, EndComment PROVE IInv'
<1>1. pc = "end" /\ pc' \in {"skip", "canonicalize"} /\ UNCHANGED <<file, flushed, module_name, process_vars>>
  BY DEF EndComment, main_vars
<1>2. (Recognised(input_lines) => Position') /\ YearsPrinted' /\ header' \in HeaderSet /\ il' \in Nat \ {0}
  BY <1>1 DEF process_vars, IInv, Kept, Position, YearsPrinted
<1> QED BY <1>1, <1>2, ReadingInv DEF process_vars

LEMMA CanonicalizeInv == ASSUME IInv, Canonicalize PROVE IInv'
<1>1. /\ pc = "canonicalize" /\ pc' = "print" /\ header' = canonicalize(header) /\ years_read' = ToSet(header.years)
      /\ UNCHANGED <<file, flushed, module_name, input_lines, il, lines, is_C_comment, printed>>
  BY DEF Canonicalize, main_vars
<1>2. header \in HeaderSet /\ printed = nothing_printed
  BY <1>1 DEF IInv, YearsPrinted
<1>3. header' \in HeaderSet /\ Ascending(header'.years) /\ ToSet(header'.years) = YearsToPrint(years_read')
  BY <1>1, <1>2, CanonicalizeIs
<1>4. PrintedSoFar(printed', header'.years)
  <2> DEFINE ys == header'.years
  <2>1. Len(ys) \in Nat /\ Len(ys) > 0
    BY <1>3 DEF Ascending
  <2> HIDE DEF ys
  <2>2. printed'.out = <<>> /\ printed'.first = 0 /\ printed'.last = 0 /\ printed'.done = 0
    BY <1>1, <1>2 DEF nothing_printed
  <2>3. <<>> \in Ranges
    BY DEF Ranges
  <2>4. printed' \in PrintedSet
    BY <1>1, <1>2, <2>3 DEF nothing_printed, PrintedSet
  <2>5. SoFar(<<>>, 0, 0, 0, ys)
    <3>1. 0 \in 0 .. Len(ys) /\ ~(0 > 0) /\ 0 # Len(ys)
      BY <2>1
    <3> QED BY <2>3, <3>1 DEF SoFar
  <2>6. PrintedSoFar(printed', ys)
    BY <2>2, <2>4, <2>5 DEF PrintedSoFar
  <2> QED BY <2>6 DEF ys
<1>5. (Recognised(input_lines) => Position') /\ YearsPrinted' /\ il' \in Nat \ {0}
  BY <1>1, <1>3, <1>4 DEF IInv, Kept, Position, YearsPrinted
<1> QED BY <1>1, <1>3, <1>5, ReadingInv

LEMMA PrintYearInv == ASSUME IInv, PrintYear PROVE IInv'
<1>1. /\ pc = "print" /\ pc' = "print" /\ printed.done < Len(header.years)
      /\ printed' = print_year(printed, header.years[printed.done + 1], Last(header.years))
      /\ UNCHANGED <<file, flushed, module_name, input_lines, il, lines, is_C_comment, header, years_read>>
  BY DEF PrintYear, main_vars
<1>2. Ascending(header.years) /\ PrintedSoFar(printed, header.years)
  BY <1>1 DEF IInv, YearsPrinted
<1>3. PrintedSoFar(printed', header.years)
  BY <1>1, <1>2, PrintYearStep
<1>4. (Recognised(input_lines) => Position') /\ YearsPrinted' /\ header' \in HeaderSet /\ il' \in Nat \ {0}
  BY <1>1, <1>3 DEF IInv, Kept, Position, YearsPrinted
<1> QED BY <1>1, <1>4, ReadingInv

LEMMA FinishInv == ASSUME IInv, Finish PROVE IInv'
<1> DEFINE out == printed.out
           ys == header.years
           s == print_on(header, out) \o <<EmptyLine>>
           c == FirstCode(input_lines)
<1>1. /\ pc = "print" /\ printed.done = Len(header.years) /\ lines' = s \o rest_of_input /\ pc' \in {"write", "next"}
      /\ UNCHANGED <<file, flushed, module_name, input_lines, il, is_C_comment, header, printed, years_read>>
  BY DEF Finish, main_vars
<1>2. /\ input_lines \in Seq(LineSet) /\ il \in Nat \ {0} /\ header \in HeaderSet /\ Ascending(ys)
      /\ ToSet(ys) = YearsToPrint(years_read) /\ PrintedSoFar(printed, ys)
  BY <1>1 DEF IInv, YearsPrinted
<1>3. out \in Ranges /\ \A y \in Int : Covers(out, y) <=> AmongFirst(ys, Len(ys), y)
  BY <1>1, <1>2 DEF PrintedSoFar, SoFar
<1> HIDE DEF out
<1>4. NoCode(s) /\ CopyrightAt(s, out)
  BY <1>2, <1>3, PrintedLines
<1> HIDE DEF s
<1>5. next_line(il) \in 1 .. Len(input_lines) + 1 /\ Len(input_lines) \in Nat
  BY <1>2, NextLineType
<1>6. rest_of_input = SubSeq(input_lines, next_line(il), Len(input_lines))
  BY DEF rest_of_input
<1>7. ASSUME Recognised(input_lines) PROVE CodeOf(lines') = CodeOf(input_lines)
  <2>1. il \in 1 .. c
    BY <1>1, <1>7 DEF IInv, Kept, Position
  <2>2. next_line(il) \in 1 .. c
    BY <1>7, <2>1, NextLine
  <2> QED BY <1>1, <1>4, <1>6, <1>7, <2>2, CodeBehind
<1>8. rest_of_input \in Seq(LineSet)
  BY <1>2, <1>5, <1>6
<1>9. lines' \in Seq(LineSet) /\ CopyrightAt(lines', out)
  <2>1. s \in Seq(LineSet)
    BY <1>4 DEF NoCode
  <2>2. lines' \in Seq(LineSet)
    BY <1>1, <1>8, <2>1
  <2> QED BY <1>1, <1>4, <1>8, <2>1, <2>2, CopyrightInFront
<1> DEFINE k == Min({j \in DOMAIN lines' : lines'[j].text.kind = "copyright"})
<1>10. lines'[k].text = Copyright(out)
  BY <1>3, <1>9, CopyrightIsFirst
<1>11. YearsIn(Copyright(out)) = ToSet(ys)
  <2> DEFINE text == Copyright(out)
  <2>1. text.years = out
    BY DEF Copyright, Text
  <2>2. Len(out) \in Nat /\ DOMAIN out = 1 .. Len(out) /\ \A i \in 1 .. Len(out) : out[i][1] \in Int /\ out[i][2] \in Int
    <3>1. out \in Seq(Years \X Years)
      BY <1>3 DEF Ranges
    <3>2. \A i \in 1 .. Len(out) : out[i] \in Years \X Years
      BY <3>1
    <3>3. \A r \in Years \X Years : r[1] \in Int /\ r[2] \in Int
      BY DEF Years
    <3> QED BY <3>1, <3>2, <3>3
  <2>3. YearsIn(text) = UNION {out[i][1] .. out[i][2] : i \in 1 .. Len(out)}
    BY <2>1, <2>2 DEF YearsIn
  <2>4. \A y : y \in YearsIn(text) <=> y \in Int /\ Covers(out, y)
    BY <2>2, <2>3 DEF Covers
  <2>5. \A y : y \in ToSet(ys) <=> y \in Int /\ AmongFirst(ys, Len(ys), y)
    <3>1. ys \in Seq(Years)
      BY <1>2 DEF Ascending
    <3>2. Len(ys) \in Nat /\ DOMAIN ys = 1 .. Len(ys) /\ \A i \in 1 .. Len(ys) : ys[i] \in Years
      BY <3>1
    <3>3. \A y \in Years : y \in Int
      BY DEF Years
    <3> QED BY <3>2, <3>3 DEF ToSet, AmongFirst
  <2> QED BY <1>3, <2>4, <2>5
<1>12. YearsKept'
  <2>1. YearsIn(lines'[k].text) = YearsToPrint(years_read')
    BY <1>1, <1>2, <1>10, <1>11
  <2> QED BY <2>1 DEF YearsKept, YearsToPrint
<1>13. Kept'
  <2>1. Recognised(input_lines') <=> Recognised(input_lines)
    BY <1>1
  <2>2. Position'
    BY <1>1 DEF Position
  <2> QED BY <1>1, <1>7, <2>1, <2>2 DEF IInv, Kept
<1>14. YearsPrinted'
  BY <1>1 DEF YearsPrinted
<1> QED BY <1>1, <1>2, <1>9, <1>12, <1>13, <1>14 DEF IInv, Reading

LEMMA MainInv == ASSUME IInv, Crash \/ Write \/ Rename \/ NextFile \/ Throw \/ Exit \/ UNCHANGED vars PROVE IInv'
<1> USE DEF process_vars, main_vars
<1>1. ASSUME UNCHANGED <<file, module_name, input_lines, il, lines, header, years_read>>, flushed' => flushed,
             pc' \in {"open", "exit"} \/ (pc = "write" /\ pc' = "rename" /\ (flushed' => new_file' = "complete"))
      PROVE  IInv'
  <2>1. Recognised(input_lines') <=> Recognised(input_lines)
    BY <1>1
  <2>2. Position' /\ YearsPrinted' /\ YearsKept'
    BY <1>1 DEF IInv, Position, YearsPrinted, YearsKept, Printed
  <2>3. Kept'
    BY <1>1, <2>1, <2>2 DEF IInv, Kept
  <2> QED BY <1>1, <2>2, <2>3 DEF IInv, Reading
<1>2. CASE Write
  BY <1>1, <1>2 DEF Write
<1>3. CASE Rename
  <2>1. /\ pc = "rename" /\ pc' = "next"
        /\ file' \in IF new_file = "complete" THEN {lines}
                     ELSE {SubSeq(lines, 1, k) : k \in Cuts \cap 0 .. Len(lines) - 1}
        /\ UNCHANGED <<flushed, module_name, input_lines, il, lines, header, years_read>>
    BY <1>3 DEF Rename
  <2>2. file' \in Seq(LineSet)
    <3>1. lines \in Seq(LineSet) /\ Len(lines) \in Nat
      BY <2>1 DEF IInv
    <3>2. \A k \in 0 .. Len(lines) - 1 : SubSeq(lines, 1, k) \in Seq(LineSet)
      BY <3>1
    <3> QED BY <2>1, <3>1, <3>2
  <2>3. flushed => file' = lines
    BY <2>1 DEF IInv
  <2>4. Position' /\ YearsPrinted' /\ YearsKept'
    BY <2>1 DEF IInv, Position, YearsPrinted, YearsKept, Printed
  <2>5. Recognised(input_lines') <=> Recognised(input_lines)
    BY <2>1
  <2>6. Kept'
    BY <2>1, <2>3, <2>4, <2>5 DEF IInv, Kept
  <2> QED BY <2>1, <2>2, <2>4, <2>6 DEF IInv, Reading
<1>4. CASE NextFile
  BY <1>1, <1>4 DEF NextFile
<1>5. CASE Throw
  BY <1>1, <1>5 DEF Throw
<1>6. CASE Crash
  BY <1>1, <1>6 DEF Crash
<1>7. CASE Exit \/ UNCHANGED vars
  <2>1. UNCHANGED vars
    BY <1>7 DEF Exit
  <2>2. UNCHANGED <<file, new_file, flushed, module_name, pc, input_lines, il, lines, is_C_comment, header, printed,
                    years_read>>
    BY <2>1 DEF vars
  <2>3. Kept' = Kept
    <3>1. Position' = Position /\ Recognised(input_lines)' = Recognised(input_lines)
      BY <2>2 DEF Position
    <3> QED BY <2>2, <3>1 DEF Kept
  <2>4. YearsPrinted' = YearsPrinted
    BY <2>2 DEF YearsPrinted
  <2>5. YearsKept' = YearsKept
    BY <2>2 DEF YearsKept, Printed
  <2> QED BY <2>2, <2>3, <2>4, <2>5 DEF IInv
<1> QED BY <1>2, <1>3, <1>4, <1>5, <1>6, <1>7

LEMMA Inductive == Spec => []IInv
<1>1. IInv /\ [Next]_vars => IInv'
  BY OpenInv, StartCommentInv, CommentInv, EndCommentInv, CanonicalizeInv, PrintYearInv, FinishInv, MainInv
     DEF Next, Step
<1> QED BY <1>1, InitInv, PTL DEF Spec

\* However often a file is named, wherever the program stops and whatever its comments are, if each of
\* them ends and the first line of code does not begin with one: process() stops reading at the first
\* line of code or before it, and so reads no line that is not there, and the file on disk has the code
\* that was read, unless a flush has failed that nobody noticed.
THEOREM CodeIsKept == Spec => []CodeKept
<1>1. IInv => CodeKept
  <2> SUFFICES ASSUME IInv, Recognised(input_lines) PROVE (flushed => CodeOnDisk) /\ StopsAtCode
    BY DEF CodeKept
  <2>1. Position /\ (flushed => CodeOnDisk)
    BY DEF IInv, Kept, CodeOnDisk
  <2>2. CASE pc = "comment"
    <3>1. FirstCode(input_lines) \in Nat
      <4>1. FirstCode(input_lines) \in 1 .. Len(input_lines) /\ Len(input_lines) \in Nat
        BY RecognisedIs
      <4> QED BY <4>1
    <3>2. il \in 1 .. FirstCode(input_lines) - 1
      BY <2>1, <2>2 DEF Position
    <3> QED BY <2>1, <2>2, <3>1, <3>2 DEF StopsAtCode
  <2>3. CASE pc # "comment"
    BY <2>1, <2>3 DEF Position, StopsAtCode
  <2> QED BY <2>2, <2>3
<1> QED BY <1>1, Inductive, PTL

\* The copyright line that is printed has exactly the years that were read, for any years in any order.
THEOREM YearsAreKept == Spec => []YearsKept
<1>1. IInv => YearsKept
  BY DEF IInv
<1> QED BY <1>1, Inductive, PTL

=============================================================================
