-------------------------- MODULE UnitLifecycle --------------------------
(***************************************************************************)
(* Installing and removing units: `specere add`, `add --adopt-edits` and   *)
(* `remove` as processes over the files that the units own and the         *)
(* manifest .specere/manifest.toml, which says which units are installed   *)
(* and holds, for each of their files, an owner and a digest.              *)
(*                                                                         *)
(* Units differ in two ways.  A cautious one (filter-state) leaves a file  *)
(* alone that is already there and records it as the user's; the others    *)
(* write theirs over it.  A digest-only one (claude-code-deploy) looks at  *)
(* the digest alone when it removes a file, the others also at the owner.  *)
(*                                                                         *)
(* The commands take no lock.  Each one reads the manifest, works on its   *)
(* files one by one, and writes back the manifest that it read, changed    *)
(* for its own unit.  It may be killed, or fail, between any two steps;    *)
(* the user may edit at any time, and so may `filter run` and `observe     *)
(* record` where the file is posterior.toml or events.sqlite.              *)
(*                                                                         *)
(* What is done to one file is several steps, and others can move between  *)
(* them: an install looks whether the file is there, truncates it and      *)
(* fills it; a cautious one then reads it back, and records what it finds. *)
(* A remove compares the file and then deletes it; an adoption looks for   *)
(* edited files and then reads each one again.                             *)
(*                                                                         *)
(* Simplifications: what is filled in is all of the file, whatever was put *)
(* into it since it was truncated; a digest is the content; fenced blocks  *)
(* in the user's own files, directories and the units that own no file     *)
(* (speckit) are left out.  A plain `add` of an installed unit, `verify`   *)
(* and dry runs change nothing and are no actions; `init` is a sequence of *)
(* adds.                                                                   *)
(***************************************************************************)
EXTENDS Naturals, Sequences, Subsequences

CONSTANTS
  Unit,
  File,
  FilesOf,     \* FilesOf[u]: the files of unit u, in the order it writes them
  Cautious,    \* units that install only what is absent
  DigestOnly,  \* units that remove by digest, whoever the owner is
  Command,     \* processes
  Edit,        \* contents that a user (or a run) may put into a file
  Skeleton,    \* the content that the unit brings for the file
  Shard,       \* a file of a unit, truncated and not filled yet
  Absent,      \* there is no such file
  Unlisted,    \* the manifest has no record of the file
  Blank        \* a manifest truncated and not written yet: not valid TOML

Owned(u) == {FilesOf[u][i] : i \in DOMAIN FilesOf[u]}

ASSUME UnitLifecycleAssumption ==
  /\ FilesOf \in [Unit -> Seq(File) \ {<< >>}]
  /\ \A u, v \in Unit : u # v => Owned(u) \cap Owned(v) = {}
  /\ \A u \in Unit : \A i, j \in DOMAIN FilesOf[u] :
       FilesOf[u][i] = FilesOf[u][j] => i = j
  /\ \A f \in File : \E u \in Unit : f \in Owned(u)
  /\ Cautious \subseteq Unit
  /\ DigestOnly \subseteq Unit
  /\ Skeleton \notin Edit
  /\ Shard \notin Edit \cup {Skeleton}
  /\ Absent \notin Edit \cup {Skeleton, Shard}

Content == Edit \cup {Skeleton, Shard}

Record == [owner : {"specere", "user"}, digest : Content]

ASSUME UnlistedAssumption == Unlisted \notin Record

Manifest == [File -> Record \cup {Unlisted}]

ASSUME BlankAssumption == Blank \notin Manifest

VARIABLES
  disk,       \* disk[f]: content of file f
  manifest,   \* content of .specere/manifest.toml; an absent one lists nothing
  pc,         \* pc[c]: what command c does next
  mem,        \* mem[c]: the manifest in c's memory
  todo,       \* todo[c]: files of its unit that c has yet to deal with
  disturbed,  \* history: commands overlapped, one failed, or the manifest was lost
  raced       \* history: files that the user edited right under a command

cmdVars == <<pc, mem, todo>>
vars == <<disk, manifest, cmdVars, disturbed, raced>>

NothingListed == [f \in File |-> Unlisted]

Listed(m, u) == \A f \in Owned(u) : m[f] # Unlisted

FilesOfUnits(S) == UNION {Owned(u) : u \in S}

Idle == \A c \in Command : pc[c] = "idle"

\* The steps on one file: on the way into it, with what to do next, and on the
\* way out; and looking for edits.
Installing == {"install", "open", "write", "wrote", "found"}
Removing == {"delete", "drop"}
Adopting == {"adopt", "rehash"}
OnFiles == Installing \cup Removing \cup Adopting

\* A manifest lists a unit with all its files or not at all.
Whole(m) ==
  \A u \in Unit : Listed(m, u) \/ \A f \in Owned(u) : m[f] = Unlisted

TypeOK ==
  /\ disk \in [File -> Content \cup {Absent}]
  /\ manifest \in Manifest \cup {Blank}
  /\ manifest # Blank => Whole(manifest)
  /\ pc \in [Command -> {"idle"} \cup OnFiles \cup {"save", "fill", "unlink"}]
  /\ mem \in [Command -> Manifest]
  /\ todo \in [Command -> Seq(File)]
  /\ \A c \in Command : pc[c] \in OnFiles => todo[c] # << >>
  /\ disturbed \in BOOLEAN
  /\ raced \subseteq File

\* The user may have files of these names before anything is installed.
Init ==
  /\ disk \in [File -> Edit \cup {Absent}]
  /\ manifest = NothingListed
  /\ pc = [c \in Command |-> "idle"]
  /\ mem = [c \in Command |-> NothingListed]
  /\ todo = [c \in Command |-> << >>]
  /\ disturbed = FALSE
  /\ raced = {}

----------------------------------------------------------------------------
(* The user.                                                               *)

\* Is a command between two steps on f that take f to be what it was before?
Exposed(f) ==
  \E c \in Command :
    /\ pc[c] \in {"open", "write", "wrote", "drop"}
    /\ f = Head(todo[c])
    /\ pc[c] \in {"open", "write"} => f \in FilesOfUnits(Cautious)

EditFile(f) ==
  /\ \E e \in Edit \ {disk[f]} : disk' = [disk EXCEPT ![f] = e]
  /\ raced' = IF Exposed(f) THEN raced \cup {f} ELSE raced
  /\ UNCHANGED <<manifest, cmdVars, disturbed>>

EraseFile(f) ==
  /\ disk[f] # Absent
  /\ disk' = [disk EXCEPT ![f] = Absent]
  /\ UNCHANGED <<manifest, cmdVars, disturbed, raced>>

\* Every command refuses a manifest that does not parse, until it is deleted.
DropManifest ==
  /\ manifest = Blank
  /\ manifest' = NothingListed
  /\ disturbed' = TRUE
  /\ UNCHANGED <<disk, cmdVars, raced>>

----------------------------------------------------------------------------
(* A command.                                                              *)

\* c starts to work on unit u with the manifest as it is now.
Begin(c, u, step) ==
  /\ pc[c] = "idle"
  /\ manifest # Blank
  /\ pc' = [pc EXCEPT ![c] = step]
  /\ mem' = [mem EXCEPT ![c] = manifest]
  /\ todo' = [todo EXCEPT ![c] = FilesOf[u]]
  /\ disturbed' = (disturbed \/ ~Idle)
  /\ UNCHANGED <<disk, manifest, raced>>

BeginInstall(c, u) == Begin(c, u, "install") /\ ~Listed(manifest, u)

BeginAdopt(c, u) == Begin(c, u, "adopt") /\ Listed(manifest, u)

BeginRemove(c, u) == Begin(c, u, "delete") /\ Listed(manifest, u)

\* c is over.
Leave(c) ==
  /\ pc' = [pc EXCEPT ![c] = "idle"]
  /\ mem' = [mem EXCEPT ![c] = NothingListed]
  /\ todo' = [todo EXCEPT ![c] = << >>]

\* c stops with an error.
Fail(c) == Leave(c) /\ disturbed' = TRUE

Goto(c, step) ==
  /\ pc' = [pc EXCEPT ![c] = step]
  /\ UNCHANGED <<mem, todo, disturbed>>

\* Mutant: the manifest is saved with the first file of the unit.
NextFileTooSoon(c, r, next, last) ==
  /\ mem' = [mem EXCEPT ![c][Head(todo[c])] = r]
  /\ todo' = [todo EXCEPT ![c] = Tail(@)]
  /\ pc' = [pc EXCEPT ![c] = last]
  /\ UNCHANGED disturbed

\* c has dealt with the first of its files, which leaves record r of it, and
\* goes on with step `next` on the next one, or with `last` after the last.
NextFile(c, r, next, last) ==
  /\ mem' = [mem EXCEPT ![c][Head(todo[c])] = r]
  /\ todo' = [todo EXCEPT ![c] = Tail(@)]
  /\ pc' = [pc EXCEPT ![c] = IF Len(todo[c]) = 1 THEN last ELSE next]
  /\ UNCHANGED disturbed

\* Does the unit of the file f leave it alone when it installs?
Spared(f) == f \in FilesOfUnits(Cautious) /\ disk[f] # Absent

\* Is the file there?
Look(c) ==
  /\ pc[c] = "install"
  /\ Goto(c, IF Spared(Head(todo[c])) THEN "found" ELSE "open")
  /\ UNCHANGED <<disk, manifest, raced>>

\* fs::write truncates the file, or creates it, and then fills it; if somebody
\* unlinked it between the two, nothing is seen of what it fills in.
Truncate(c) ==
  /\ pc[c] = "open"
  /\ disk' = [disk EXCEPT ![Head(todo[c])] = Shard]
  /\ Goto(c, "write")
  /\ UNCHANGED <<manifest, raced>>

\* Only a cautious unit reads the file back; the others record the digest of
\* what they meant to write.
Write(c) ==
  /\ pc[c] = "write"
  /\ LET f == Head(todo[c])
     IN  /\ disk' = [disk EXCEPT ![f] = IF @ = Absent THEN Absent ELSE Skeleton]
         /\ IF f \in FilesOfUnits(Cautious)
              THEN Goto(c, "wrote")
              ELSE NextFile(c, [owner |-> "specere", digest |-> Skeleton],
                            "install", "save")
  /\ UNCHANGED <<manifest, raced>>

\* Mutant: a file that was already there is recorded as specere's.
ReadBackClaiming(c) ==
  /\ pc[c] \in {"wrote", "found"}
  /\ LET f == Head(todo[c])
     IN  IF disk[f] = Absent THEN Fail(c)
         ELSE NextFile(c, [owner |-> "specere", digest |-> disk[f]], "install", "save")
  /\ UNCHANGED <<disk, manifest, raced>>

\* Mutant: a cautious unit records every file as the user's.
ReadBackDisowning(c) ==
  /\ pc[c] \in {"wrote", "found"}
  /\ LET f == Head(todo[c])
     IN  IF disk[f] = Absent THEN Fail(c)
         ELSE NextFile(c, [owner |-> "user", digest |-> disk[f]], "install", "save")
  /\ UNCHANGED <<disk, manifest, raced>>

\* A cautious unit records what is there now: as its own if it has just written
\* it, whoever wrote since.
ReadBack(c) ==
  /\ pc[c] \in {"wrote", "found"}
  /\ LET f == Head(todo[c])
         owner == IF pc[c] = "wrote" THEN "specere" ELSE "user"
     IN  IF disk[f] = Absent THEN Fail(c)
         ELSE NextFile(c, [owner |-> owner, digest |-> disk[f]], "install", "save")
  /\ UNCHANGED <<disk, manifest, raced>>

\* The files of F that differ from what m holds of them, unless adopted.
Diverged(m, F) ==
  {f \in F : m[f].owner = "specere" /\ disk[f] # m[f].digest}

\* add --adopt-edits: it refuses if an edited file is gone, and has nothing to
\* do if none is edited.
Adopt(c) ==
  /\ pc[c] = "adopt"
  /\ LET edited == Diverged(mem[c], {todo[c][i] : i \in DOMAIN todo[c]})
     IN  IF edited = {} \/ \E f \in edited : disk[f] = Absent
           THEN Leave(c)
           ELSE /\ todo' = [todo EXCEPT ![c] =
                     Only(todo[c], {i \in DOMAIN todo[c] : todo[c][i] \in edited})]
                /\ pc' = [pc EXCEPT ![c] = "rehash"]
                /\ UNCHANGED mem
  /\ UNCHANGED <<disk, manifest, disturbed, raced>>

\* The edited files become the user's, each as it is now; the digest of one that
\* is gone by now stays.
Rehash(c) ==
  /\ pc[c] = "rehash"
  /\ LET f == Head(todo[c])
         digest == IF disk[f] = Absent THEN mem[c][f].digest ELSE disk[f]
     IN  NextFile(c, [owner |-> "user", digest |-> digest], "rehash", "save")
  /\ UNCHANGED <<disk, manifest, raced>>

\* Mutant: an edited file is deleted like any other.
KeptUnchecked(f, r) == r.owner = "user" /\ f \notin FilesOfUnits(DigestOnly)

\* Does a remove that read record r leave the file f alone?
Kept(f, r) ==
  \/ disk[f] # r.digest
  \/ r.owner = "user" /\ f \notin FilesOfUnits(DigestOnly)

\* What c does after its last file: the manifest itself goes with the last unit.
Remains(c) ==
  IF [mem[c] EXCEPT ![Head(todo[c])] = Unlisted] = NothingListed THEN "unlink" ELSE "save"

Compare(c) ==
  /\ pc[c] = "delete"
  /\ LET f == Head(todo[c])
     IN  IF Kept(f, mem[c][f])
           THEN NextFile(c, Unlisted, "delete", Remains(c))
           ELSE Goto(c, "drop")
  /\ UNCHANGED <<disk, manifest, raced>>

\* Whatever is there now is deleted.
Drop(c) ==
  /\ pc[c] = "drop"
  /\ LET f == Head(todo[c])
     IN  /\ disk' = [disk EXCEPT ![f] = Absent]
         /\ IF disk[f] = Absent THEN Fail(c)
            ELSE NextFile(c, Unlisted, "delete", Remains(c))
  /\ UNCHANGED <<manifest, raced>>

\* Manifest::save is an fs::write: it truncates the file and then fills it.
Save(c) ==
  /\ pc[c] = "save"
  /\ manifest' = Blank
  /\ pc' = [pc EXCEPT ![c] = "fill"]
  /\ UNCHANGED <<disk, mem, todo, disturbed, raced>>

Fill(c) ==
  /\ pc[c] = "fill"
  /\ manifest' = mem[c]
  /\ Leave(c)
  /\ UNCHANGED <<disk, disturbed, raced>>

Unlink(c) ==
  /\ pc[c] = "unlink"
  /\ manifest' = NothingListed
  /\ Leave(c)
  /\ UNCHANGED <<disk, disturbed, raced>>

\* The command is killed, or fails for another reason than those above.
Crash(c) ==
  /\ pc[c] # "idle"
  /\ Fail(c)
  /\ UNCHANGED <<disk, manifest, raced>>

UserStep == DropManifest \/ \E f \in File : EditFile(f) \/ EraseFile(f)

CommandStep(c) ==
  \/ \E u \in Unit : BeginInstall(c, u) \/ BeginAdopt(c, u) \/ BeginRemove(c, u)
  \/ Look(c) \/ Truncate(c) \/ Write(c) \/ ReadBack(c)
  \/ Adopt(c) \/ Rehash(c) \/ Compare(c) \/ Drop(c)
  \/ Save(c) \/ Fill(c) \/ Unlink(c) \/ Crash(c)

Next == UserStep \/ \E c \in Command : CommandStep(c)

Spec == Init /\ [][Next]_vars

----------------------------------------------------------------------------
(* Properties.                                                             *)

\* In no manifest, on disk or in a command's memory, does specere own what a
\* user wrote, that a remove may then delete as specere's: neither a file of the
\* same name nor an edit that was adopted nor one that an earlier install left.
\* The exception is a file that the user edited just when a command was at it:
\* an install records as its own what it reads back.
NoFalseClaim(m) ==
  \A f \in File : (m[f] # Unlisted /\ m[f].owner = "specere")
                    => m[f].digest \notin Edit \/ f \in raced

NeverClaimsEdits ==
  /\ manifest # Blank => NoFalseClaim(manifest)
  /\ \A c \in Command : NoFalseClaim(mem[c])

\* Where a command is at f, does it write over whatever the user has there?
Overwrites(c, f) ==
  /\ pc[c] \in {"open", "write"} /\ f = Head(todo[c])
  /\ f \notin FilesOfUnits(Cautious)

\* Is c, about to delete f, of a unit that deletes what the user adopted?
DropsAdopted(c, f) ==
  /\ pc[c] = "drop" /\ f = Head(todo[c])
  /\ f \in FilesOfUnits(DigestOnly)
  /\ mem[c][f] = [owner |-> "user", digest |-> disk[f]]

\* A command never changes a file that holds a user's content, however commands
\* overlap, fail and are repeated; but for three cases: a unit that is not
\* cautious is installed over it, a digest-only unit whose file was adopted is
\* removed, or the user has edited the file just when a command was at it,
\* between its look and its write, its write and its reading back, or its
\* comparison and its deletion.
EditsKept ==
  [][\A f \in File : (disk[f] \in Edit /\ disk'[f] # disk[f]) =>
       \/ UNCHANGED <<cmdVars, manifest>>
       \/ \E c \in Command :
            /\ pc'[c] # pc[c] \/ todo'[c] # todo[c]
            /\ Overwrites(c, f) \/ DropsAdopted(c, f)
       \/ f \in raced]_vars

\* As long as commands ran one after the other and none failed, the manifest
\* can be read between them, and nothing that a unit brought is left on disk
\* once it is not in the manifest.
CleanRoundTrip ==
  (~disturbed /\ Idle) =>
    /\ manifest # Blank
    /\ \A f \in File : manifest[f] = Unlisted => disk[f] # Skeleton

----------------------------------------------------------------------------
(* Said of the code, and not so.                                           *)

\* A remove deletes "only the ones we installed and that haven't been
\* user-edited": no command deletes a file that holds a user's content, not even
\* if nobody touched the file since the command compared it.
RemoveKeepsEdits ==
  [][\A f \in File : (disk[f] \in Edit /\ disk'[f] = Absent) =>
       UNCHANGED <<cmdVars, manifest>> \/ f \in raced]_vars
==========================================================================
