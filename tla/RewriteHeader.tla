---------------------------- MODULE RewriteHeader ----------------------------
(***************************************************************************)
(* rewrite_header.cxx: reads a source file, takes its leading comment      *)
(* apart, and writes the file again with a canonical header.  The same     *)
(* file may be named more than once on the command line.                   *)
(*                                                                         *)
(* A line has a style: "C" is a line of a C comment, "C end" its last one, *)
(* "C code" a last one with code behind the comment, "code C" code with a  *)
(* C comment behind it, "Cpp" a // comment and "none" no comment.  What is *)
(* in it, after extract(), is a text: its kind is the regular expression   *)
(* it matches, "" if it is empty, with the parts that the expression picks *)
(* out: a module name, a description and the ranges of copyright years.    *)
(* Layout is left out, and so is the author, whom the expression for a     *)
(* copyright fixes.                                                        *)
(***************************************************************************)
EXTENDS Integers, Sequences, FiniteSets, SequencesExt, FiniteSetsExt

CONSTANTS
  Sources,       \* the files that are looked at: sequences of lines
  ModuleNames,   \* what --module-name may be; "" if it is not given
  Words,         \* names and descriptions
  CurrentYear,
  Times,         \* how often the file is named on the command line
  Cuts           \* how many lines get to the disk when the last flush fails

VARIABLES
  file,          \* the input file on disk
  new_file,      \* the file with .new: "none", "partial" or "complete"
  flushed,       \* history: no flush has failed without being noticed
  module_name,   \* options::module_name
  round, pc,     \* the loop of main() and where it is
  input_lines, il, lines,   \* of process()
  state, saw, is_C_comment,
  header,
  printed,       \* print_on(): the years printed, the first and the last of a range, and how
                 \* many years are done
  years_read     \* history: the years of the copyright lines of this file

vars == <<file, new_file, flushed, module_name, round, pc, input_lines, il, lines, state, saw, is_C_comment,
          header, printed, years_read>>
main_vars == <<file, new_file, flushed, module_name, round>>
process_vars == <<input_lines, il, lines, state, saw, is_C_comment, header, printed, years_read>>

Text(kind, name, desc, years) == [kind |-> kind, name |-> name, desc |-> desc, years |-> years]
Line(style, text) == [style |-> style, text |-> text]

Blank     == Text("", "", "", <<>>)
Module(name, desc)  == Text("module", name, desc, <<>>)
File      == Text("file", "", "", <<>>)
Brief(desc)         == Text("brief", "", desc, <<>>)
Copyright(ranges)   == Text("copyright", "", "", ranges)
PartOf(name)        == Text("part_of", name, "", <<>>)
License(name)       == Text("license", name, "", <<>>)
LicenseEnd          == Text("license_end", "", "", <<>>)
Other(desc)         == Text("text", "", desc, <<>>)

EmptyLine == Line("none", Blank)

Years == 1900 .. 2099     \* what the regular expressions take for a year
Kinds == {"", "module", "file", "brief", "copyright", "part_of", "license", "license_end", "text", "code"}
TextSet == [kind : Kinds, name : Words, desc : Words, years : Seq(Years \X Years)]
LineSet == [style : {"none", "C", "C end", "C code", "code C", "Cpp"}, text : TextSet]

is_Cpp_comment(line) == line.style = "Cpp"
is_C_comment_start(line) == line.style \in {"C", "C end", "C code"}
is_C_comment_end(line) == line.style \in {"C end", "code C"}

ASSUME SourcesAssumption ==
  /\ \A f \in Sources : f \in Seq(LineSet)
  /\ ModuleNames \subseteq Words /\ CurrentYear \in Years
  /\ Cuts \subseteq Nat /\ 0 \in Cuts
  /\ {"", "option", "FIXME", "program", "RSA-1024", "Fingerprint16"} \subseteq Words

-----------------------------------------------------------------------------
(* class Header                                                              *)

NewHeader ==
  [name |-> module_name, desc |-> IF module_name = "" THEN "" ELSE "option",
   old |-> "", brief |-> "", years |-> <<>>, signature |-> <<>>, license |-> <<>>, trailing |-> <<>>]

set_module(h, name, desc) ==
  IF h.name = "" THEN [h EXCEPT !.name = name, !.desc = desc] ELSE h

set_part_of(h, name) ==
  IF h.name = "" THEN [h EXCEPT !.name = name]
  ELSE IF h.name # name THEN [h EXCEPT !.old = name] ELSE h

\* The years of a line, range by range; a range that ends before it begins has none.
years_of(ranges) ==
  FlattenSeq([k \in DOMAIN ranges |->
    [j \in 1 .. (ranges[k][2] - ranges[k][1] + 1) |-> ranges[k][1] + j - 1]])

decode_copyright_line(h, text) == [h EXCEPT !.years = @ \o years_of(text.years)]

\* A trailing empty line is added when a text follows it.
Mutant_trailing(h, text, empty_before) == [h EXCEPT !.trailing = Append(@, text)]
add_trailing_line(h, text, empty_before) ==
  IF text.kind = "" THEN h
  ELSE [h EXCEPT !.trailing = @ \o (IF empty_before THEN <<Blank>> ELSE <<>>) \o <<text>>]

default_signature == <<Other("RSA-1024"), Other("Fingerprint16")>>
default_license == <<License("program"), Blank, LicenseEnd>>

\* std::sort and std::unique: the numbers of a finite set in increasing order.
sorted(S) ==
  [k \in 1 .. Cardinality(S) |-> CHOOSE x \in S : Cardinality({y \in S : y < x}) = k - 1]

or(s, default) == IF s = <<>> THEN default ELSE s

\* "This program" and the old name of the module become the name of the module.
rename(h, text) ==
  IF h.name # "" /\ text.name # "" /\ text.name \in {"program", h.old}
    THEN [text EXCEPT !.name = h.name] ELSE text

canonicalize(h) ==
  [h EXCEPT !.desc = IF @ = "" THEN "FIXME" ELSE @,
            !.brief = IF @ = "" THEN "FIXME" ELSE @,
            !.years = IF @ = <<>> THEN <<CurrentYear>> ELSE sorted(ToSet(@)),
            !.signature = or(@, default_signature),
            !.license = [k \in DOMAIN or(@, default_license) |-> rename(h, or(@, default_license)[k])]]

\* One iteration of the loop of print_on over the years.
nothing_printed == [out |-> <<>>, first |-> 0, last |-> 0, done |-> 0]

one(year) == <<year, year>>

Mutant_print_year(p, year, final_year) ==
  LET last == IF year = p.last + 1 THEN year ELSE p.last
      first == IF p.first = 0 THEN year ELSE p.first
      range == IF last > first + 1 THEN <<<<first, last>>>>
               ELSE IF last > first THEN <<one(first), one(last)>> ELSE <<one(first)>>
  IN  IF year = p.last + 1 /\ year # final_year THEN [p EXCEPT !.last = year, !.done = @ + 1]
      ELSE [out   |-> p.out \o IF p.first # 0 \/ year = final_year THEN range ELSE <<>>,
            first |-> year, last |-> year, done |-> p.done + 1]

print_year(p, year, final_year) ==
  LET last == IF year = p.last + 1 THEN year ELSE p.last
      first == IF p.first = 0 THEN year ELSE p.first
      range == IF last > first + 1 THEN <<<<first, last>>>>
               ELSE IF last > first THEN <<one(first), one(last)>> ELSE <<one(first)>>
      final == IF year = final_year /\ year > first /\ year > last THEN <<one(year)>> ELSE <<>>
  IN  IF year = p.last + 1 /\ year # final_year THEN [p EXCEPT !.last = year, !.done = @ + 1]
      ELSE [out   |-> p.out \o IF p.first # 0 \/ year = final_year THEN range \o final ELSE <<>>,
            first |-> year, last |-> year, done |-> p.done + 1]

comment(texts) == [k \in 1 .. Len(texts) |-> Line("C", texts[k])]

print_on(h, years) ==
  LET named(texts) == IF h.name = "" THEN <<>> ELSE comment(texts)
  IN  comment(<<Blank>>)
      \o named(<<Module(h.name, h.desc), Blank>>)
      \o comment(<<File, Brief(h.brief), Blank, Copyright(years), Blank>>)
      \o comment(h.signature)
      \o named(<<Blank, PartOf(h.name)>>)
      \o comment(<<Blank>> \o h.license)
      \o comment(IF h.trailing = <<>> THEN <<>> ELSE <<Blank>> \o h.trailing)
      \o <<Line("C end", Blank)>>

-----------------------------------------------------------------------------
(* process()                                                                 *)

\* The variables of the body of for(;;).  lead_reg_expr takes the first line of a C comment to begin
\* with a slash, and the others with an asterisk.
nothing_seen ==
  [file_or_brief_or_copyright |-> FALSE, copyright |-> FALSE, license |-> FALSE,
   module |-> FALSE, trailing_empty_line |-> FALSE, lead |-> "/*"]

Init ==
  /\ file \in Sources
  /\ new_file = "none" /\ flushed = TRUE
  /\ module_name \in ModuleNames
  /\ round = 1 /\ pc = "open"
  /\ input_lines = <<>> /\ il = 1 /\ lines = <<>>
  /\ state = "searching" /\ saw = nothing_seen /\ is_C_comment = FALSE
  /\ header = NewHeader
  /\ printed = nothing_printed /\ years_read = {}

\* main() reads the file and calls process().
Open ==
  /\ pc = "open"
  /\ input_lines' = file
  /\ il' = 1 /\ lines' = <<>> /\ state' = "searching" /\ header' = NewHeader
  /\ saw' = nothing_seen /\ is_C_comment' = FALSE
  /\ printed' = nothing_printed /\ years_read' = {}
  /\ pc' = "skip"
  /\ UNCHANGED main_vars

\* The loop that skips empty lines: the next line that is not empty.
next_line(k) ==
  LET rest == {j \in k .. Len(input_lines) : input_lines[j] # EmptyLine}
  IN  IF rest = {} THEN Len(input_lines) + 1 ELSE Min(rest)

\* input_lines[k], which process() reads without asking whether there is such a line.  What lies behind
\* the last one begins no comment and may end one, if the program survives it (see Crash).
garbage == Line("code C", Blank)
line_at(k) == IF k \in DOMAIN input_lines THEN input_lines[k] ELSE garbage

\* The top of for(;;).
StartComment ==
  /\ pc = "skip"
  /\ il' = next_line(il)
  /\ is_C_comment' = is_C_comment_start(line_at(il'))
  /\ saw' = nothing_seen
  /\ pc' = IF is_C_comment' \/ is_Cpp_comment(line_at(il')) THEN "comment" ELSE "end"
  /\ UNCHANGED <<main_vars, input_lines, lines, state, header, printed, years_read>>

\* The state that a text leads to.  (first_line, which module_regexp asks for, is never
\* set to false: the assignment is not part of any case of the switch.)
searched(kind) ==
  IF kind \in {"module", "file", "copyright"} THEN kind
  ELSE IF ~saw.license /\ kind \in {"part_of", "license"} THEN kind
  ELSE IF kind = "" THEN "searching"
  ELSE IF saw.license THEN "trailing"
  ELSE IF saw.copyright THEN "signature" ELSE "searching"

found(kind) ==
  CASE state = "file" /\ kind = "brief"  -> "brief"
    [] state \in {"license", "trailing"} -> state
    [] OTHER                             -> searched(kind)

\* What is done in that state.
take(text) ==
  LET st == found(text.kind)
  IN  /\ header' = CASE st = "module"    -> set_module(header, text.name, text.desc)
                     [] st = "brief"     -> [header EXCEPT !.brief = text.desc]
                     [] st = "copyright" -> decode_copyright_line(header, text)
                     [] st = "signature" -> [header EXCEPT !.signature = Append(@, text)]
                     [] st = "part_of"   -> set_part_of(header, text.name)
                     [] st = "license"   -> [header EXCEPT !.license = Append(@, text)]
                     [] st = "trailing"  -> add_trailing_line(header, text, saw.trailing_empty_line)
                     [] OTHER            -> header
      /\ state' = IF st \in {"file", "trailing"} \/ (st = "license" /\ text.kind # "license_end")
                    THEN st ELSE "searching"
      /\ saw' = [saw EXCEPT
           !.file_or_brief_or_copyright = @ \/ st \in {"file", "brief", "copyright"},
           !.copyright = @ \/ st = "copyright",
           !.license = @ \/ st = "license",
           !.module = @ \/ st = "module",
           !.trailing_empty_line = IF st = "trailing" THEN text.kind = "" ELSE @,
           !.lead = "*"]

\* The text of line il: nothing when lead_reg_expr does not match, because the line is not a part of
\* the C comment although it is read as one.
extract(line) ==
  IF is_C_comment /\ saw.lead = "*" /\ ~(line_at(il - 1).style = "C" /\ is_C_comment_start(line))
    THEN Blank ELSE line.text

\* One line of the comment.  A C comment ends with a line that ends in an asterisk and a slash, the
\* others before the first line that is none.
Comment ==
  /\ pc = "comment"
  /\ take(extract(line_at(il)))
  /\ il' = il + 1
  /\ pc' = IF IF is_C_comment THEN ~is_C_comment_end(line_at(il))
                              ELSE is_Cpp_comment(line_at(il + 1))
             THEN "comment" ELSE "end"
  /\ UNCHANGED <<main_vars, input_lines, lines, is_C_comment, printed, years_read>>

\* The read of a line that is not there kills the program.
Crash ==
  /\ \/ pc = "skip" /\ next_line(il) > Len(input_lines)
     \/ pc = "comment" /\ (IF is_C_comment THEN il ELSE il + 1) > Len(input_lines)
  /\ pc' = "exit"
  /\ UNCHANGED <<main_vars, process_vars>>

\* The end of for(;;).  After a comment with only the name of the module the next one is
\* looked at too, and so on: the flag that is set to "only do this once" is false again at the top.
Mutant_always_next_comment ==
  /\ pc = "end"
  /\ pc' = IF ~saw.file_or_brief_or_copyright THEN "skip" ELSE "canonicalize"
  /\ UNCHANGED <<main_vars, process_vars>>

EndComment ==
  /\ pc = "end"
  /\ pc' = IF ~saw.file_or_brief_or_copyright /\ saw.module THEN "skip" ELSE "canonicalize"
  /\ UNCHANGED <<main_vars, process_vars>>

\* What is left of the input.
Mutant_rest == SubSeq(input_lines, next_line(il) + 1, Len(input_lines))
rest_of_input == SubSeq(input_lines, next_line(il), Len(input_lines))

Canonicalize ==
  /\ pc = "canonicalize"
  /\ header' = canonicalize(header)
  /\ years_read' = ToSet(header.years)
  /\ pc' = "print"
  /\ UNCHANGED <<main_vars, input_lines, il, lines, state, saw, is_C_comment, printed>>

PrintYear ==
  /\ pc = "print" /\ printed.done < Len(header.years)
  /\ printed' = print_year(printed, header.years[printed.done + 1], Last(header.years))
  /\ UNCHANGED <<main_vars, pc, input_lines, il, lines, state, saw, is_C_comment, header, years_read>>

\* The end of process(), and the test of its result.
Finish ==
  /\ pc = "print" /\ printed.done = Len(header.years)
  /\ lines' = print_on(header, printed.out) \o <<EmptyLine>> \o rest_of_input
  /\ pc' = IF lines' # input_lines THEN "write" ELSE "next"
  /\ UNCHANGED <<main_vars, input_lines, il, state, saw, is_C_comment, header, printed, years_read>>

-----------------------------------------------------------------------------
(* main()                                                                    *)

\* The last flush is done by the destructor of the stream, and nobody asks whether it worked.
Write ==
  /\ pc = "write"
  /\ new_file' \in {"complete", "partial"}
  /\ flushed' = (flushed /\ new_file' = "complete")
  /\ pc' = "rename"
  /\ UNCHANGED <<file, module_name, round, process_vars>>

Rename ==
  /\ pc = "rename"
  /\ file' \in IF new_file = "complete" THEN {lines}
               ELSE {SubSeq(lines, 1, k) : k \in Cuts \cap 0 .. Len(lines) - 1}
  /\ new_file' = "none"
  /\ pc' = "next"
  /\ UNCHANGED <<flushed, module_name, round, process_vars>>

NextFile ==
  /\ pc = "next"
  /\ round' = round + 1
  /\ pc' = IF round = Times THEN "exit" ELSE "open"
  /\ UNCHANGED <<file, new_file, flushed, module_name, process_vars>>

\* open(), write() or rename() throws a system_error, and main() returns 1.
Throw ==
  /\ pc \in {"open", "write", "rename"}
  /\ new_file' \in IF pc = "write" THEN {"none", "partial"} ELSE {new_file}
  /\ pc' = "exit"
  /\ UNCHANGED <<file, flushed, module_name, round, process_vars>>

Exit == pc = "exit" /\ UNCHANGED vars

Step == Open \/ StartComment \/ Comment \/ EndComment \/ Canonicalize \/ PrintYear \/ Finish
        \/ Write \/ Rename \/ NextFile

Next == Step \/ Crash \/ Throw \/ Exit

\* The program is not stopped while it can go on.
Spec == Init /\ [][Next]_vars /\ WF_vars(Step)

-----------------------------------------------------------------------------

\* The years that a copyright text stands for.
YearsIn(text) == UNION {text.years[k][1] .. text.years[k][2] : k \in DOMAIN text.years}

\* The code of a file, from the first line that is neither empty nor a comment only.
is_code(line) == line.style \in {"C code", "code C"} \/ (line.style = "none" /\ line # EmptyLine)
FirstCode(f) == Min({k \in DOMAIN f : is_code(f[k])} \cup {Len(f) + 1})
CodeOf(f) == SubSeq(f, FirstCode(f), Len(f))

\* A file that is_C_comment_end and the reads without a test are up to: every C comment ends, there is
\* code, and its first line does not begin with a comment.
CommentsEnd(f) == \A k \in DOMAIN f : f[k].style = "C" => k < Len(f) /\ is_C_comment_start(f[k + 1])
Recognised(f) ==
  /\ f \in Seq(LineSet) /\ CommentsEnd(f)
  /\ \E k \in DOMAIN f : is_code(f[k])
  /\ f[FirstCode(f)].style # "C code"

CodeOnDisk == CodeOf(file) = CodeOf(input_lines)

\* process() reads input_lines[il] without asking whether there is such a line.
StopsAtCode ==
  /\ pc \in {"skip", "comment", "end", "canonicalize", "print"} => il \in 1 .. FirstCode(input_lines)
  /\ pc = "comment" => il < FirstCode(input_lines)

\* Wherever the program stops, also when it cannot write or rename, the file on disk has the code that
\* was read, from its first line to its last; and no line of code is taken for a part of a comment, so
\* that process() never gets past the last line.  This is said of files whose first line of code does
\* not begin with a comment (process() takes a line that begins a C comment for nothing but comment,
\* and then what follows, up to a line that ends in an asterisk and a slash), and the file on disk also
\* has to have been flushed: main() renames the new file whether or not the last flush worked.
CodeKept == Recognised(input_lines) => (flushed => CodeOnDisk) /\ StopsAtCode

Printed == pc \in {"write", "rename", "next"}

\* The copyright line that is printed, as decode_copyright_line reads it, has exactly the
\* years of the copyright lines that were read, or the current one if there were none.
YearsKept ==
  Printed =>
    LET read == IF years_read = {} THEN {CurrentYear} ELSE years_read
        k == Min({j \in DOMAIN lines : lines[j].text.kind = "copyright"})
    IN  YearsIn(lines[k].text) = read

\* The license of a file ends, and no other one comes behind it.
OneLicense(f) ==
  LET ends == {k \in DOMAIN f : f[k].text.kind = "license_end"}
  IN  ends # {} /\ \A k \in DOMAIN f : f[k].text.kind = "license" => k < Min(ends)

\* A header that has been rewritten, with a license that ends and no second license, is canonical:
\* process() finds nothing to change the next time.  (Licenses of two comments are put behind each
\* other the first time, and the second of them is taken for trailing text the next time.)
SecondTimeUnchanged == round > 1 /\ flushed /\ OneLicense(input_lines) => pc # "write"

\* The program ends: its for(;;) does not go round for ever.
Ends == <>(pc = "exit")

=============================================================================
