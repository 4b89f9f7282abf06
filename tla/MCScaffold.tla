---------------------------- MODULE MCScaffold ----------------------------
(***************************************************************************)
(* Small instances of Scaffold.                                            *)
(***************************************************************************)
EXTENDS Scaffold, TLC

MCSpans == <<"before_clarify", "before_implement">>

\* A repository without the files, one where they are tidy, and one with
\* what users also write: blank lines, no newline at the end, an empty key.
Bare == [f \in File |-> Absent]

Tidy ==
  "ignore" :> Doc(<<Text("a"), Blank, Text("b")>>, TRUE) @@
  "hooks" :> Doc(<<Text("settings"), Hooks, KeyLine("before_clarify"), Item("u"),
                   KeyLine("after_implement"), Item("v")>>, TRUE) @@
  "rules" :> Doc(<<Text("a")>>, TRUE)

Loose ==
  "ignore" :> Doc(<<Text("a"), Blank, Blank, Text("b")>>, FALSE) @@
  "hooks" :> Doc(<<Hooks, KeyLine("before_implement"), KeyLine("before_clarify"),
                   Blank, Item("u"), Blank, Text("settings"), Blank>>, TRUE) @@
  "rules" :> Nothing

MCOriginals == {Bare, Tidy, Loose}

MCSpeckitFile ==
  "ignore" :> Absent @@
  "hooks" :> Doc(<<Text("settings"), Hooks, KeyLine("after_implement"), Item("git")>>,
                 TRUE) @@
  "rules" :> Doc(<<Text("spec-kit")>>, TRUE)

\* A branch that the user has already: in the bare repository only, and there the
\* user leaves the files alone, because branches and files have nothing to do with
\* each other.
MCInit == Init /\ (branch = "user" => original = Bare)

\* Bounds: writes are cut short in the tidy repository only, and SpecKit comes only
\* to the other two, so that pieces of files do not multiply with SpecKit's states.
MCNext ==
  /\ Next
  /\ (Idle /\ file' # file) => branch # "user"
  /\ (~Idle /\ trouble' # trouble /\ file' # file) => original = Tidy
  /\ job'.unit = "speckit" => original # Tidy

MCSpec == MCInit /\ [][MCNext]_vars
==========================================================================
