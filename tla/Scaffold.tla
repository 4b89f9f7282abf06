----------------------------- MODULE Scaffold -----------------------------
(***************************************************************************)
(* The units' commands on what they share with the user: .gitignore,       *)
(* .specify/extensions.yml and CLAUDE.md, SpecKit's directories and the    *)
(* feature branch.  What a unit puts there it puts between markers, and    *)
(* the manifest only says that the unit is installed: nothing on disk is   *)
(* compared with it, so every promise about the blocks rests on the order  *)
(* of the commands' steps.                                                 *)
(*                                                                         *)
(* One command runs at a time (UnitLifecycle has those that overlap, and   *)
(* the files that a unit owns alone); it may be killed between two of its  *)
(* steps or while it writes a file, and be run again.  The files are       *)
(* written in place: a write that is cut short leaves a piece of what was  *)
(* to be written.  The user edits between commands, and may save a file    *)
(* that is not UTF-8: a remove refuses it, an add takes it for an empty    *)
(* one and writes over it.  An add of an installed unit is a no-op here,   *)
(* `verify` and dry runs change nothing, `init` is a sequence of adds, and *)
(* otel-collector shares no file.  The repository is a git one.            *)
(***************************************************************************)
EXTENDS MarkerBlocks

CONSTANTS
  Absent,      \* there is no such file
  Spans,       \* the keys of the workflow-span hooks, in their order
  Originals,   \* files that a user may have: functions on File
  SpeckitFile, \* the files that `specify init` writes, a function on File
  MaxTrouble   \* bound: what the user does, and commands that are killed

File == {"ignore", "hooks", "rules"}
Unit == {"filter-state", "claude-code-deploy", "ears-linter", "speckit"}

KeyOf == [u \in {"claude-code-deploy", "ears-linter"} |->
            IF u = "ears-linter" THEN "before_clarify" ELSE "after_implement"]

\* Mutant: one block id for all the spans.
SpanShared(k) == <<"workflow-spans">>

Span(k) == <<"workflow-spans", k>>

SpanBlocks == [i \in DOMAIN Spans |-> Span(Spans[i])]

\* The blocks that unit u keeps in file f, in the order it removes them.
BlocksOf(u, f) ==
  CASE f = "ignore" /\ u \in {"filter-state", "claude-code-deploy"} -> <<<<u>>>>
    [] f = "hooks" /\ u = "ears-linter" -> <<<<u>>>>
    [] f = "hooks" /\ u = "claude-code-deploy" -> Append(SpanBlocks, <<u>>)
    [] f = "rules" /\ u = "claude-code-deploy" -> <<<<"rules">>>>
    [] OTHER -> << >>

\* The blocks that units keep in file f.
Blocks(f) == UNION {Range(BlocksOf(u, f)) : u \in Unit}

\* The lines of the files that no unit has written.
Foreign ==
  UNION {UNION {Range(o[f].lines) : f \in {g \in File : o[g] # Absent}} :
           o \in Originals \cup {SpeckitFile}}

\* What is left of a line that was being written to file f: it is one more line
\* that no unit takes for its own, and in extensions.yml it may be an entry of a
\* list, or no YAML.
Scraps(f) ==
  IF f = "hooks" THEN {Text("scrap"), Item("scrap"), Broken} ELSE {Text("scrap")}

Line ==
  Foreign \cup {Blank, Hooks, Garbled, Text("settings"), Text("mine"), Item("mine")}
    \cup (UNION {Scraps(f) : f \in File})
    \cup {KeyLine(k) : k \in Range(Spans) \cup Range(KeyOf)}
    \cup (UNION {Range(Block(b)) : b \in UNION {Blocks(f) : f \in File}})

\* A file that no unit has written, and that can be read.
Plain ==
  {d \in Docs(Line) :
     \A i \in DOMAIN d.lines : ~IsMarked(d.lines[i]) /\ d.lines[i] # Garbled}

ASSUME ScaffoldAssumption ==
  /\ Absent # Refused /\ Absent \notin Docs(Line) /\ Refused \notin Docs(Line)
  /\ Spans \in Seq(STRING)
  /\ Originals \cup {SpeckitFile} \subseteq [File -> Plain \cup {Absent}]

AddSteps == [u \in Unit |->
  CASE u = "filter-state" -> <<"ignore", "save">>
    [] u = "claude-code-deploy" -> <<"ignore", "hook", "spans", "rules", "save">>
    [] u = "ears-linter" -> <<"hook", "save">>
    [] u = "speckit" -> <<"init", "branch", "save">>]

\* Sequences of steps; that of speckit with --delete-branch has one more.
RemoveSteps == [u \in Unit |->
  CASE u = "filter-state" -> {<<"ignore", "save">>}
    [] u = "claude-code-deploy" -> {<<"ignore", "rules", "hooks", "save">>}
    [] u = "ears-linter" -> {<<"hooks", "save">>}
    [] u = "speckit" -> {<<"specify", "specs", "agent", "save">>,
                         <<"specify", "specs", "agent", "branch", "save">>}]

VARIABLES
  file,       \* file[f]: what is on disk, or Absent
  kit,        \* SpecKit's state: its own files are there, the feature directory,
              \* whether feature.json points to it, and workflow runs
  branch,     \* the feature branch: "none", made by the "user" or by "specere"
  installed,  \* the units in the manifest
  claim,      \* the manifest says that specere created the branch
  job,        \* the command that runs: unit, verb, steps left
  late,       \* history: commands that did not end well the last time
  touched,    \* history: the user added a "line"; a "file" was taken or
              \* replaced as a whole, by SpecKit or by the user; or the name of
              \* a file that was once cut short, or made unreadable
  swept,      \* history: claude-code-deploy has swept keys
  original,   \* history: the files before anything was done
  trouble     \* counts what MaxTrouble bounds

history == <<late, touched, swept, original, trouble>>
vars == <<file, kit, branch, installed, claim, job, history>>

NoJob == [unit |-> "none", verb |-> "none", todo |-> << >>, ours |-> FALSE]

Idle == job = NoJob

NoKit == [own |-> FALSE, feature |-> "none", pointer |-> FALSE, runs |-> FALSE]

Present(f) == file[f] # Absent

Readable(f) == Present(f) /\ ~Holds(file[f], Garbled)

TypeOK ==
  /\ file \in [File -> Docs(Line) \cup {Absent}]
  /\ kit \in [own : BOOLEAN, feature : {"none", "template", "filled"},
              pointer : BOOLEAN, runs : BOOLEAN]
  /\ branch \in {"none", "user", "specere"}
  /\ installed \subseteq Unit
  /\ claim => "speckit" \in installed
  /\ ~Idle => job.unit \in Unit \cup {"doctor"} /\ job.todo # << >>

Init ==
  /\ file \in Originals
  /\ original = file
  /\ kit = NoKit
  /\ branch \in {"none", "user"}
  /\ installed = {}
  /\ claim = FALSE
  /\ job = NoJob
  /\ late = {}
  /\ touched = {}
  /\ swept = FALSE
  /\ trouble = 0

----------------------------------------------------------------------------
(* The user, between commands.                                             *)

\* Is there a place for a line in front of position i that is in no block?
Outside(f, i) ==
  \A b \in Blocks(f) :
    ~\E s, t \in DOMAIN file[f].lines :
       /\ file[f].lines[s] = Begin(b) /\ file[f].lines[t] = End(b)
       /\ s < i /\ i <= t

\* One more line, outside the blocks; it may make extensions.yml invalid.
AddLine(f) ==
  /\ Present(f)
  /\ \E l \in {Text("mine"), Item("mine"), Broken} :
     \E i \in 1..(Len(file[f].lines) + 1) :
       /\ f # "hooks" => l = Text("mine")
       /\ Outside(f, i)
       /\ LET new == Doc(Put(file[f].lines, i, <<l>>), TRUE)
          IN  /\ f = "hooks" /\ l # Broken => ValidYaml(new)
              /\ file' = [file EXCEPT ![f] = new]
  /\ touched' = touched \cup {"line"}

\* The file is saved in another encoding than UTF-8.
Garble(f) ==
  /\ Readable(f)
  /\ file' = [file EXCEPT ![f] = Doc(Append(@.lines, Garbled), TRUE)]
  /\ touched' = touched \cup {"line", f}

\* The file as it was before, from git.
Revert(f) ==
  /\ file[f] # original[f]
  /\ file' = [file EXCEPT ![f] = original[f]]
  /\ touched' = touched \cup {"file"}

UserEdits ==
  /\ Idle
  /\ trouble < MaxTrouble
  /\ \E f \in File : AddLine(f) \/ Garble(f) \/ Revert(f)
  /\ trouble' = trouble + 1
  /\ UNCHANGED <<kit, branch, installed, claim, job,
                 late, swept, original>>

\* A workflow run: it creates a feature from the template and fills it in.
UserSpecifies ==
  /\ Idle
  /\ trouble < MaxTrouble
  /\ kit.own
  /\ \/ kit.feature = "none"
        /\ kit' = [kit EXCEPT !.feature = "template",
                              !.pointer = TRUE, !.runs = TRUE]
     \/ kit.feature = "template" /\ kit' = [kit EXCEPT !.feature = "filled"]
  /\ trouble' = trouble + 1
  /\ UNCHANGED <<file, branch, installed, claim, job,
                 late, touched, swept, original>>

----------------------------------------------------------------------------
(* Commands.                                                               *)

\* orphan::detect: feature.json points to a feature that is still the template.
Orphan == kit.pointer /\ kit.feature = "template"

Start(u, verb, steps) ==
  /\ Idle
  /\ job' = [unit |-> u, verb |-> verb, todo |-> steps, ours |-> FALSE]
  /\ swept' = (swept \/ (u = "claude-code-deploy" /\ verb = "remove"))
  /\ UNCHANGED <<file, kit, branch, installed, claim,
                 late, touched, original, trouble>>

AddUnit(u) ==
  /\ u \notin installed
  /\ u = "speckit" => ~Orphan
  /\ Start(u, "add", AddSteps[u])

RemoveUnit(u) ==
  /\ u \in installed
  /\ \E steps \in RemoveSteps[u] : Start(u, "remove", steps)

\* Mutant: the workflow runs stay.
CleanFeatureOnly == Orphan /\ Start("doctor", "clean", <<"feature", "pointer">>)

\* specere doctor --clean-orphans
CleanOrphans == Orphan /\ Start("doctor", "clean", <<"feature", "pointer", "runs">>)

Doing(verb, step) == job.verb = verb /\ Head(job.todo) = step

\* The step is done; the command has ended well when it was the last one.
Advance ==
  /\ job' = IF Len(job.todo) = 1 THEN NoJob ELSE [job EXCEPT !.todo = Tail(@)]
  /\ late' = IF Len(job.todo) = 1 THEN late \ {job.unit} ELSE late

\* The command ends without its last steps.
GiveUp ==
  /\ job' = NoJob
  /\ late' = late \cup {job.unit}

\* fs::write truncates the file and then fills it: the command is killed, or the
\* disk is full, when there is only a piece of `new` in file f.
CutShort(f, new) ==
  /\ trouble < MaxTrouble
  /\ trouble' = trouble + 1
  /\ \E d \in Pieces(new, Scraps(f)) : file' = [file EXCEPT ![f] = d]
  /\ touched' = touched \cup {f}
  /\ GiveUp

\* The step leaves `new` in file f, or fails.
Write(f, new) ==
  /\ \/ new = Refused /\ GiveUp /\ UNCHANGED <<file, touched, trouble>>
     \/ /\ new # Refused
        /\ Advance
        /\ file' = [file EXCEPT ![f] = new]
        /\ UNCHANGED <<touched, trouble>>
     \/ new \notin {Refused, Absent} /\ CutShort(f, new)
  /\ UNCHANGED <<kit, branch, installed, claim, swept, original>>

\* File f as an add reads it: what cannot be read counts as not there.
Bootstrap == Doc(<<Text("settings"), Hooks>>, TRUE)

Read(f) == IF Readable(f) THEN file[f]
           ELSE IF f = "hooks" THEN Bootstrap ELSE Nothing

AddIgnore ==
  /\ Doing("add", "ignore")
  /\ Write("ignore", TextAdd(Read("ignore"), <<job.unit>>))

AddHook ==
  /\ Doing("add", "hook")
  /\ Write("hooks", IF ~ValidYaml(Read("hooks")) THEN Refused
                    ELSE YamlAdd(Read("hooks"), <<job.unit>>, KeyOf[job.unit]))

\* File f with the hooks of the spans, added one by one.
WithSpans(f) ==
  LET upto[i \in 0..Len(Spans)] ==
        IF i = 0 THEN f ELSE YamlAdd(upto[i - 1], Span(Spans[i]), Spans[i])
  IN  upto[Len(Spans)]

AddSpans ==
  /\ Doing("add", "spans")
  /\ Write("hooks", WithSpans(Read("hooks")))

AddRules ==
  /\ Doing("add", "rules")
  /\ Write("rules", Upsert(Read("rules"), <<"rules">>))

\* A remove deletes a file that would be empty, skips one that is not there and
\* refuses one that it cannot read.
Leave(f, new) ==
  Write(f, IF ~Present(f) THEN Absent
           ELSE IF ~Readable(f) THEN Refused
           ELSE IF new # Refused /\ new.lines = << >> THEN Absent ELSE new)

RemoveIgnore ==
  /\ Doing("remove", "ignore")
  /\ Leave("ignore", RemoveBlock(file["ignore"], <<job.unit>>))

RemoveRules ==
  /\ Doing("remove", "rules")
  /\ Leave("rules", Strip(file["rules"], <<"rules">>))

\* Mutant: the workflow spans stay.
RemoveMainHook ==
  /\ Doing("remove", "hooks")
  /\ Write("hooks", IF ~Present("hooks") THEN Absent
                    ELSE IF ~Readable("hooks") \/ ~ValidYaml(file["hooks"]) THEN Refused
                    ELSE RemoveBlock(file["hooks"], <<job.unit>>))

\* File f without the blocks bs, removed one by one.
Without(f, bs) ==
  LET upto[i \in 0..Len(bs)] ==
        IF i = 0 THEN f
        ELSE IF upto[i - 1] = Refused THEN Refused ELSE RemoveBlock(upto[i - 1], bs[i])
  IN  upto[Len(bs)]

\* extensions.yml stays, whatever is left of it.
RemoveHooks ==
  /\ Doing("remove", "hooks")
  /\ LET left == Without(file["hooks"], BlocksOf(job.unit, "hooks"))
     IN  Write("hooks", IF ~Present("hooks") THEN Absent
                        ELSE IF ~Readable("hooks") \/ ~ValidYaml(file["hooks"])
                                \/ left = Refused
                          THEN Refused
                        ELSE IF job.unit = "claude-code-deploy"
                          THEN SweepKeys(left) ELSE left)

----------------------------------------------------------------------------
(* SpecKit.                                                                *)

\* `specify init --force` brings its files; whether it replaces an
\* extensions.yml that is there is its own affair.
SpecifyInit ==
  /\ Doing("add", "init")
  /\ \E over \in BOOLEAN :
       /\ file' = [f \in File |->
                     IF ~Present(f) \/ (f = "hooks" /\ over)
                       THEN SpeckitFile[f] ELSE file[f]]
       /\ touched' = IF file' = file THEN touched ELSE touched \cup {"file"}
  /\ kit' = [kit EXCEPT !.own = TRUE]
  /\ Advance
  /\ UNCHANGED <<branch, installed, claim, swept, original, trouble>>

\* Mutant: a branch that is there counts as created.
TakeAnyBranch ==
  /\ Doing("add", "branch")
  /\ branch' = IF branch = "none" THEN "specere" ELSE branch
  /\ job' = [job EXCEPT !.todo = Tail(@), !.ours = TRUE]
  /\ UNCHANGED <<file, kit, installed, claim, history>>

\* The feature branch is created, or checked out if it exists.
TakeBranch ==
  /\ Doing("add", "branch")
  /\ branch' = IF branch = "none" THEN "specere" ELSE branch
  /\ job' = [job EXCEPT !.todo = Tail(@), !.ours = (branch = "none")]
  /\ UNCHANGED <<file, kit, installed, claim, history>>

\* The whole of .specify goes, extensions.yml included; then specs/; then
\* CLAUDE.md if it looks like SpecKit's.
WipeSpecify ==
  /\ Doing("remove", "specify")
  /\ file' = [file EXCEPT !["hooks"] = Absent]
  /\ touched' = IF Present("hooks") THEN touched \cup {"file"} ELSE touched
  /\ kit' = [kit EXCEPT !.own = FALSE, !.pointer = FALSE, !.runs = FALSE]
  /\ Advance
  /\ UNCHANGED <<branch, installed, claim, swept, original, trouble>>

WipeSpecs ==
  /\ Doing("remove", "specs")
  /\ kit' = [kit EXCEPT !.feature = "none"]
  /\ Advance
  /\ UNCHANGED <<file, branch, installed, claim, touched, swept, original, trouble>>

WipeAgent ==
  /\ Doing("remove", "agent")
  /\ LET speckits == Readable("rules") /\ Holds(file["rules"], Text("spec-kit"))
     IN  /\ file' = IF speckits THEN [file EXCEPT !["rules"] = Absent] ELSE file
         /\ touched' = IF speckits THEN touched \cup {"file"} ELSE touched
  /\ Advance
  /\ UNCHANGED <<kit, branch, installed, claim, swept, original, trouble>>

\* --delete-branch: not one that it did not create.  SpecKit's files are gone
\* by now.
DropBranch ==
  /\ Doing("remove", "branch")
  /\ IF claim THEN branch' = "none" /\ Advance
     ELSE GiveUp /\ UNCHANGED branch
  /\ UNCHANGED <<file, kit, installed, claim, touched, swept, original, trouble>>

----------------------------------------------------------------------------
(* orphan::clean, and the end of every command.                            *)

CleanStep ==
  /\ job.verb = "clean"
  /\ kit' = CASE Head(job.todo) = "feature" -> [kit EXCEPT !.feature = "none"]
              [] Head(job.todo) = "pointer" -> [kit EXCEPT !.pointer = FALSE]
              [] Head(job.todo) = "runs" -> [kit EXCEPT !.runs = FALSE]
  /\ Advance
  /\ UNCHANGED <<file, branch, installed, claim, touched, swept, original, trouble>>

\* Mutant: the claim on the branch outlives SpecKit.
SaveClaim ==
  /\ ~Idle /\ Head(job.todo) = "save"
  /\ installed' = IF job.verb = "add" THEN installed \cup {job.unit}
                  ELSE installed \ {job.unit}
  /\ claim' = (claim \/ job.ours)
  /\ Advance
  /\ UNCHANGED <<file, kit, branch, touched, swept, original, trouble>>

Save ==
  /\ ~Idle /\ Head(job.todo) = "save"
  /\ installed' = IF job.verb = "add" THEN installed \cup {job.unit}
                  ELSE installed \ {job.unit}
  /\ claim' = IF job.unit = "speckit" THEN job.ours ELSE claim
  /\ Advance
  /\ UNCHANGED <<file, kit, branch, touched, swept, original, trouble>>

\* Killed, or failed for a reason that is not modelled: uvx, git, the disk, or
\* uncommitted changes when the branch is to be deleted.
Crash ==
  /\ ~Idle
  /\ trouble < MaxTrouble
  /\ trouble' = trouble + 1
  /\ GiveUp
  /\ UNCHANGED <<file, kit, branch, installed, claim, touched, swept, original>>

Step ==
  \/ AddIgnore \/ AddHook \/ AddSpans \/ AddRules
  \/ RemoveIgnore \/ RemoveRules \/ RemoveHooks
  \/ SpecifyInit \/ TakeBranch
  \/ WipeSpecify \/ WipeSpecs \/ WipeAgent \/ DropBranch
  \/ CleanStep \/ Save \/ Crash

Next ==
  \/ UserEdits \/ UserSpecifies
  \/ \E u \in Unit : AddUnit(u) \/ RemoveUnit(u)
  \/ CleanOrphans
  \/ Step

Spec == Init /\ [][Next]_vars

----------------------------------------------------------------------------
(* Properties.                                                             *)

Lines(f) == IF Present(f) THEN file[f].lines ELSE << >>

\* The positions of lines of block b in file f.
LinesOf(f, b) ==
  LET its == Range(Block(b)) IN {i \in DOMAIN Lines(f) : Lines(f)[i] \in its}

\* Block b is in file f once, with all its lines together.
WholeIn(f, b) ==
  LET P == LinesOf(f, b)
  IN  /\ P # {}
      /\ P = Min(P)..(Min(P) + 2)
      /\ SubSeq(Lines(f), Min(P), Min(P) + 2) = Block(b)

\* The manifest says nothing of the blocks, and yet: a unit that is in it has
\* every one of its blocks, or SpecKit's files, once and whole, whatever other
\* units came and went since, wherever the user added lines, and also if the add
\* had to be repeated after a crash.  But for a command on that unit that was cut
\* short, files that were taken as a whole, and a file that any unit's write left
\* in pieces or that was unreadable, so that an add wrote over it.
InstalledThere ==
  "file" \notin touched =>
    \A u \in installed \ (late \cup {job.unit}) :
      /\ u = "speckit" => kit.own
      /\ \A f \in File \ touched : \A b \in Range(BlocksOf(u, f)) : WholeIn(f, b)

\* A unit that is not in the manifest, and whose last command was not cut short,
\* has left no line of a block behind, not even one of an add that crashed and
\* was repeated before the unit was removed, and not in a file that some write
\* left in pieces or that was unreadable for a time.
NothingLeft ==
  \A u \in Unit \ (installed \cup late \cup {job.unit}) :
    \A f \in File : \A b \in Range(BlocksOf(u, f)) : LinesOf(f, b) = {}

\* A file that the round trip promises to restore: it ends with a newline and not
\* with a blank line; where whole files are tidied up, no two blank lines follow
\* each other; in extensions.yml neither `hooks:` nor the key of ears-linter is
\* synthesised, because no remove takes them out, and no key is empty.
Neat(f) ==
  LET d == original[f]
      s == d.lines
  IN  \/ f # "hooks" /\ d = Absent
      \/ /\ d # Absent
         /\ s # << >> /\ d.ended /\ s = TrimEnd(s)
         /\ f # "rules" => s = Collapse(s)
         /\ f = "hooks" => /\ SweepKeys(d) = d /\ Holds(d, Hooks)
                           /\ Holds(d, KeyLine(KeyOf["ears-linter"]))

\* add X and remove X leave the files byte-identical: whatever units were added
\* and removed, in whatever order and with whatever crashes between their steps,
\* once none is left each neat file is what it was.  It does not hold when a crash
\* cuts a write short, nor for files that are not neat, although the contract
\* makes neither exception.
RoundTrip ==
  (Idle /\ installed = {} /\ late = {} /\ touched = {}) =>
    \A f \in File : Neat(f) => file[f] = original[f]

\* The hook of block b lies in the list of key k, where SpecKit looks for it.
PlacedUnder(b, k) ==
  \A i \in DOMAIN Lines("hooks") : Lines("hooks")[i] = Body(b) =>
    LET o == OwnerOf(Lines("hooks"), i)
    IN  o # 0 /\ Lines("hooks")[o] = KeyLine(k)

\* claude-code-deploy's hooks always lie below their keys, whatever lists, blocks
\* of ears-linter and empty keys are there; and so does ears-linter's until
\* claude-code-deploy is removed.
HooksPlaced ==
  /\ \A i \in DOMAIN Spans : PlacedUnder(Span(Spans[i]), Spans[i])
  /\ \A u \in DOMAIN KeyOf :
       (u = "ears-linter" => ~swept) => PlacedUnder(<<u>>, KeyOf[u])

\* The user's lines in file f.
Mine(f) == Users(Lines(f))

\* No command but SpecKit's own drops, doubles or reorders a line of the user's,
\* and a file that holds one is not deleted; not in a file that was once left in
\* pieces either.  But for the write that leaves it so, and for a file that cannot
\* be read, which an add writes over.
UserLinesKept ==
  [][\A f \in File :
       (/\ ~Idle /\ job.unit # "speckit"
        /\ Readable(f) /\ file'[f] # file[f] /\ trouble' = trouble) =>
         Mine(f)' = Mine(f)]_vars

\* A branch that the user created is never deleted, not even if an add that
\* found it, or created its own, was cut short and repeated.
BranchesKept == [][branch = "user" => branch' = "user"]_vars

\* feature.json never names a directory that is gone, and no run stays without
\* it, but for a clean-up or a removal that was cut short.
NoDanglingPointer ==
  (Idle /\ late \cap {"doctor", "speckit"} = {}) =>
    (kit.pointer \/ kit.runs => kit.feature # "none")

----------------------------------------------------------------------------
(* Said of the code, and not so.                                           *)

\* extensions-mutation.md: adding or removing a block touches no other block; the
\* hook of ears-linter stays below before_clarify.
NoReflow == PlacedUnder(<<"ears-linter">>, KeyOf["ears-linter"])
==========================================================================
