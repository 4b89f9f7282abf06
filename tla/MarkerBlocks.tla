--------------------------- MODULE MarkerBlocks ---------------------------
(***************************************************************************)
(* What the functions of specere-markers do to a file that specere shares  *)
(* with its user: put a block between a begin and an end marker, replace   *)
(* it, take it out.  Also the sweep of hook keys that are left empty,      *)
(* which belongs to claude-code-deploy.                                    *)
(*                                                                         *)
(* A file is its lines, and whether the last one ends with a newline.  Of  *)
(* a line only its role matters: a marker, the body of a block (one line   *)
(* stands for all), a blank line, or one of the user's; in extensions.yml  *)
(* also the `hooks:` line, a key such as `  before_plan:`, an entry of a   *)
(* list below a key, and a line that is not YAML; and a line that makes    *)
(* the whole file unreadable, because it is not UTF-8.  Carriage returns   *)
(* are left out: every function here reads lines without them.             *)
(***************************************************************************)
EXTENDS Naturals, Sequences, FiniteSets, FiniteSetsExt, SequencesExt, Subsequences

CONSTANT Refused  \* what a function returns when it fails

Blank == <<"blank">>
Hooks == <<"hooks">>     \* the line `hooks:`
Broken == <<"broken">>   \* a line that makes the file invalid YAML
Garbled == <<"garbled">>  \* a line that makes the file unreadable
Text(t) == <<"text", t>>
Item(t) == <<"item", t>>  \* the user's entry in the list below a key
KeyLine(k) == <<"key", k>>
Begin(b) == <<"begin", b>>
Body(b) == <<"body", b>>
End(b) == <<"end", b>>

Block(b) == <<Begin(b), Body(b), End(b)>>

Doc(lines, ended) == [lines |-> lines, ended |-> ended]

\* A file without a byte, and what read_to_string().unwrap_or_default() makes
\* of one that is not there.
Nothing == Doc(<< >>, FALSE)

\* One that does not end with a newline does not end with a blank line.
IsDoc(d) ==
  IF d.lines = << >> THEN ~d.ended ELSE d.ended \/ d.lines[Len(d.lines)] # Blank

\* Files with lines of set L.
Docs(L) == {d \in [lines : Seq(L), ended : BOOLEAN] : IsDoc(d)}

\* What there may be of d when its writing is cut short: some of its lines, the
\* last one perhaps without its newline, or a scrap of the next one.
Pieces(d, scraps) ==
  LET lines(n) == SubSeq(d.lines, 1, n)
      whole == {Doc(lines(n), e) : n \in 0..Len(d.lines), e \in BOOLEAN}
      torn == {Doc(Append(lines(n), s), FALSE) : n \in 0..(Len(d.lines) - 1), s \in scraps}
  IN  {p \in whole \cup torn : IsDoc(p) /\ p # d}

\* Is line l a unit's?
IsMarked(l) == l[1] \in {"begin", "body", "end"}

\* The lines of s that are the user's, in their order.
Users(s) == Only(s, {i \in DOMAIN s : s[i][1] \in {"text", "item", "broken"}})

\* The positions of line l in file f.
At(f, l) == {i \in DOMAIN f.lines : f.lines[i] = l}

Holds(f, l) == At(f, l) # {}

\* s without the blank lines at its end.
TrimEnd(s) ==
  LET full == {i \in DOMAIN s : s[i] # Blank}
  IN  IF full = {} THEN << >> ELSE SubSeq(s, 1, Max(full))

\* s with each run of blank lines made one.
Collapse(s) ==
  Only(s, {i \in DOMAIN s : ~(s[i] = Blank /\ i > 1 /\ s[i-1] = Blank)})

\* s without what lies from position i to position j.
Cut(s, i, j) == SubSeq(s, 1, i - 1) \o SubSeq(s, j + 1, Len(s))

\* s with t in front of position i.
Put(s, i, t) == SubSeq(s, 1, i - 1) \o t \o SubSeq(s, i, Len(s))

----------------------------------------------------------------------------
(* Plain text: .gitignore, and the markers of CLAUDE.md.                   *)

\* The block at the end of the file, behind a blank line.
AppendBlock(f, b) ==
  Doc(f.lines \o (IF f = Nothing THEN << >> ELSE <<Blank>>) \o Block(b), TRUE)

\* Mutant: a file with another unit's block is taken to have this one.
TextAddFirst(f, b) ==
  IF \E i \in DOMAIN f.lines : f.lines[i][1] = "begin" THEN f ELSE AppendBlock(f, b)

\* text_block_fence::add
TextAdd(f, b) == IF Holds(f, Begin(b)) THEN f ELSE AppendBlock(f, b)

\* Mutant: the line behind the end marker goes too.
RemoveOneMore(f, b) ==
  IF ~Holds(f, Begin(b)) THEN f
  ELSE LET i == Min(At(f, Begin(b)))
           ends == {j \in At(f, End(b)) : j > i}
           left == TrimEnd(Collapse(Cut(f.lines, i, Min(ends) + 1)))
       IN  IF ends = {} THEN Refused
           ELSE Doc(left, f.ended /\ left # << >>)

\* text_block_fence::remove and yaml_block_fence::remove.  What is left of the
\* whole file loses double blank lines and those at its end.
RemoveBlock(f, b) ==
  IF ~Holds(f, Begin(b)) THEN f
  ELSE LET i == Min(At(f, Begin(b)))
           ends == {j \in At(f, End(b)) : j > i}
           left == TrimEnd(Collapse(Cut(f.lines, i, Min(ends))))
       IN  IF ends = {} THEN Refused
           ELSE Doc(left, f.ended /\ left # << >>)

\* upsert_block: what is between the markers is replaced.
Upsert(f, b) ==
  LET begins == At(f, Begin(b))
      i == Min(begins)
      ends == {j \in At(f, End(b)) : j > i}
  IN  IF Cardinality(begins) > 1 THEN Refused
      ELSE IF begins = {} THEN AppendBlock(f, b)
      ELSE IF ends = {} THEN Refused
      ELSE Doc(Put(Cut(f.lines, i, Min(ends)), i, Block(b)), f.ended)

\* strip_block: blank lines stay, but for those at the end of the file.
Strip(f, b) ==
  IF ~Holds(f, Begin(b)) THEN f
  ELSE LET i == Min(At(f, Begin(b)))
           ends == {j \in At(f, End(b)) : j > i}
           left == TrimEnd(Cut(f.lines, i, Min(ends)))
       IN  IF ends = {} THEN Refused ELSE Doc(left, left # << >>)

----------------------------------------------------------------------------
(* extensions.yml.                                                         *)

\* Does the line start like an entry of a list below a key?
IsChild(l) == l[1] \in {"item", "body"}

IsKey(l) == l[1] = "key"

\* Where a block goes that is to be last in the list of the key at position v:
\* in front of the first line that is neither an entry nor blank (a marker is
\* neither), and of the blank lines before it.
ListEnd(s, v) ==
  LET stops == {i \in (v+1)..Len(s) : ~IsChild(s[i]) /\ s[i] # Blank}
      stop == IF stops = {} THEN Len(s) + 1 ELSE Min(stops)
  IN  1 + Max({v} \cup {i \in (v+1)..(stop-1) : s[i] # Blank})

\* yaml_block_fence::add
YamlAdd(f, b, k) ==
  IF Holds(f, Begin(b)) THEN f
  ELSE IF Holds(f, KeyLine(k))
    THEN Doc(Put(f.lines, ListEnd(f.lines, Min(At(f, KeyLine(k)))), Block(b)),
             f.ended)
  ELSE IF Holds(f, Hooks)
    THEN Doc(Put(f.lines, Min(At(f, Hooks)) + 1, <<KeyLine(k)>> \o Block(b)),
             f.ended)
  ELSE Doc((IF f = Nothing THEN <<Blank>> ELSE f.lines)
             \o <<Hooks, KeyLine(k)>> \o Block(b), f.ended)

\* The first line after position i that is not blank; 0 if there is none.
NextFull(s, i) ==
  LET full == {j \in (i+1)..Len(s) : s[j] # Blank}
  IN  IF full = {} THEN 0 ELSE Min(full)

\* Mutant: every key stays.
SweepNothing(f) == f

\* strip_empty_verb_keys: keys go that are not followed by an entry.  A last line
\* that is blank is the newline of the one before it.
SweepKeys(f) ==
  LET s == f.lines
      empty(i) == IsKey(s[i])
                    /\ (NextFull(s, i) = 0 \/ ~IsChild(s[NextFull(s, i)]))
      left == Only(s, {i \in DOMAIN s : ~empty(i)})
  IN  IF f.ended THEN Doc(IF left = << >> THEN <<Blank>> ELSE left, TRUE)
      ELSE IF left # << >> /\ left[Len(left)] = Blank
        THEN Doc(Front(left), Len(left) > 1)
      ELSE Doc(left, FALSE)

\* The position of the line that a list entry at position i belongs to: the
\* last one before it that is neither an entry, nor blank, nor a comment.
OwnerOf(s, i) ==
  LET above == {j \in 1..(i-1) : s[j][1] \in {"key", "hooks", "text"}}
  IN  IF above = {} THEN 0 ELSE Max(above)

\* Does f parse as YAML?  Below `hooks:` there are keys or there is a list.
ValidYaml(f) ==
  LET s == f.lines
      keys == {i \in DOMAIN s : IsKey(s[i])}
  IN  /\ ~Holds(f, Broken)
      /\ Cardinality(At(f, Hooks)) <= 1
      /\ \A i, j \in keys : s[i] = s[j] => i = j
      /\ \A i \in DOMAIN s : IsChild(s[i]) =>
           LET o == OwnerOf(s, i)
           IN  o # 0 /\ (IsKey(s[o]) \/ (s[o] = Hooks /\ keys = {}))
==========================================================================
