----------------------- MODULE UnitLifecycleProofs -----------------------
(***************************************************************************)
(* Proofs about UnitLifecycle, for any units, files, contents and numbers  *)
(* of commands that overlap and fail.                                      *)
(*                                                                         *)
(* A manifest lists a unit wholly or not at all, except in the memory of a *)
(* command that is in the middle of that unit's files.  Working says how   *)
(* far such a command is: the files it still has to do are those that are  *)
(* not listed yet (install) or still listed (delete).  Watched says what   *)
(* may have become of the one file that a command is at, between two of    *)
(* its steps.  TypeOK, Working, Watched and NeverClaimsEdits together are  *)
(* inductive.  CleanRoundTrip needs more: Undisturbed, which speaks of the *)
(* middle of a command as well.                                            *)
(***************************************************************************)
EXTENDS UnitLifecycle, SequenceLemmas

Ran(s) == {s[i] : i \in DOMAIN s}

OneToOne(s) == \A i, j \in DOMAIN s : s[i] = s[j] => i = j

\* Of the files of u, m lists F; the other units it lists wholly or not.
Partly(m, u, F) ==
  /\ \A f \in Owned(u) : m[f] # Unlisted <=> f \in F
  /\ \A v \in Unit \ {u} : Listed(m, v) \/ \A f \in Owned(v) : m[f] = Unlisted

Pending(m, u, s, step) ==
  /\ Ran(s) \subseteq Owned(u)
  /\ Partly(m, u, IF step \in Installing THEN Owned(u) \ Ran(s) ELSE Ran(s))

\* How far command c has got with its unit.
AtWork(c) ==
  /\ pc[c] \notin Installing \cup Removing => Whole(mem[c])
  /\ pc[c] \in Adopting => \A f \in Ran(todo[c]) : mem[c][f] # Unlisted
  /\ pc[c] = "unlink" => mem[c] = NothingListed
  /\ pc[c] \in Installing \cup Removing =>
       /\ OneToOne(todo[c])
       /\ \E u \in Unit : Pending(mem[c], u, todo[c], pc[c])

Working == \A c \in Command : AtWork(c)

\* If the file that c is at holds what a user wrote, the user has edited it just
\* now; unless c writes over it anyhow, or deletes what the user adopted.
Watch(c) ==
  /\ (/\ pc[c] \in {"open", "write"}
      /\ Head(todo[c]) \in FilesOfUnits(Cautious)
      /\ disk[Head(todo[c])] \in Edit) => Head(todo[c]) \in raced
  /\ (pc[c] = "wrote" /\ disk[Head(todo[c])] \in Edit) => Head(todo[c]) \in raced
  /\ (pc[c] = "drop" /\ disk[Head(todo[c])] \in Edit) =>
       Head(todo[c]) \in raced \/ DropsAdopted(c, Head(todo[c]))

Watched == \A c \in Command : Watch(c)

UnitInv == TypeOK /\ Working /\ Watched /\ NeverClaimsEdits

\* Whatever is on disk as its unit brought it, m lists as specere's; F is left
\* out.
Tidy(m, F) ==
  \A f \in File \ F : disk[f] = Skeleton => m[f] = [owner |-> "specere", digest |-> Skeleton]

\* The file that c has written and not listed yet.
InHand(c) == IF pc[c] \in {"write", "wrote"} THEN {Head(todo[c])} ELSE {}

\* As long as nothing was disturbed, one command works at a time, on a tidy
\* manifest, and the one on disk is tidy unless that command is about to
\* replace it.
Undisturbed ==
  ~disturbed =>
    /\ \A c, d \in Command : pc[c] # "idle" /\ pc[d] # "idle" => c = d
    /\ \A c \in Command : pc[c] # "idle" => Tidy(mem[c], InHand(c))
    /\ \A c \in Command : pc[c] = "rehash" =>
         \A f \in Ran(todo[c]) : disk[f] # Skeleton
    /\ (\A c \in Command : pc[c] \in {"idle", "adopt"}) =>
         manifest # Blank /\ Tidy(manifest, {})

----------------------------------------------------------------------------
(* Sequences of files, and records of them.                                *)

LEMMA TailFacts ==
  ASSUME NEW s \in Seq(File), s # << >>, OneToOne(s)
  PROVE  /\ Tail(s) \in Seq(File)
         /\ OneToOne(Tail(s))
         /\ Head(s) \in File
         /\ Head(s) \in Ran(s)
         /\ Ran(Tail(s)) = Ran(s) \ {Head(s)}
         /\ Len(s) = 1 => Tail(s) = << >>
         /\ Len(s) # 1 => Tail(s) # << >>
<1>1. /\ Len(s) \in Nat /\ Len(s) > 0 /\ DOMAIN s = 1..Len(s)
      /\ Tail(s) \in Seq(File) /\ Head(s) = s[1] /\ Head(s) \in File
      /\ DOMAIN Tail(s) = 1..(Len(s) - 1) /\ Len(Tail(s)) = Len(s) - 1
      /\ \A i \in 1..(Len(s) - 1) : Tail(s)[i] = s[i + 1]
  OBVIOUS
<1>2. OneToOne(Tail(s))
  BY <1>1 DEF OneToOne
<1>3. Head(s) \in Ran(s)
  BY <1>1 DEF Ran
<1>4. Ran(Tail(s)) = Ran(s) \ {Head(s)}
  <2>1. ASSUME NEW f \in Ran(Tail(s))
        PROVE  f \in Ran(s) \ {Head(s)}
    <3>1. PICK i \in 1..(Len(s) - 1) : f = s[i + 1]
      BY <1>1, <2>1 DEF Ran
    <3>2. i + 1 \in DOMAIN s /\ 1 \in DOMAIN s /\ i + 1 # 1
      BY <1>1
    <3>3. s[i + 1] # s[1]
      BY <3>2 DEF OneToOne
    <3> QED
      BY <1>1, <3>1, <3>2, <3>3 DEF Ran
  <2>2. ASSUME NEW f \in Ran(s), f # Head(s)
        PROVE  f \in Ran(Tail(s))
    <3>1. PICK i \in DOMAIN s : f = s[i]
      BY <2>2 DEF Ran
    <3>2. i - 1 \in 1..(Len(s) - 1) /\ i = (i - 1) + 1
      BY <1>1, <2>2, <3>1
    <3>3. f = Tail(s)[i - 1]
      BY <1>1, <3>1, <3>2
    <3> QED
      BY <1>1, <3>2, <3>3 DEF Ran
  <2> QED
    BY <2>1, <2>2
<1>5. \A t \in Seq(File) : t = << >> <=> Len(t) = 0
  BY EmptySeq
<1>6. (Len(s) = 1 => Tail(s) = << >>) /\ (Len(s) # 1 => Tail(s) # << >>)
  <2>1. Tail(s) = << >> <=> Len(Tail(s)) = 0
    BY <1>1, <1>5, Zenon
  <2>2. Len(Tail(s)) = 0 <=> Len(s) = 1
    BY <1>1
  <2> QED
    BY <2>1, <2>2, Zenon
<1> QED
  BY <1>1, <1>2, <1>3, <1>4, <1>6

\* A unit that is not listed is not listed at all.
LEMMA WholeIsPartly ==
  ASSUME NEW m, Whole(m), NEW u \in Unit
  PROVE  /\ ~Listed(m, u) => Partly(m, u, {})
         /\ Listed(m, u) => Partly(m, u, Owned(u))
BY DEF Whole, Partly, Listed

LEMMA PartlyIsWhole ==
  ASSUME NEW m, NEW u \in Unit, Partly(m, u, {}) \/ Partly(m, u, Owned(u))
  PROVE  Whole(m)
BY DEF Whole, Partly, Listed

\* A record of one file of u changes nothing about the other units.
LEMMA PartlyUpdate ==
  ASSUME NEW m \in Manifest, NEW u \in Unit, NEW F, NEW f \in File,
         f \in Owned(u), Partly(m, u, F), NEW r
  PROVE  /\ r # Unlisted => Partly([m EXCEPT ![f] = r], u, F \cup {f})
         /\ r = Unlisted => Partly([m EXCEPT ![f] = r], u, F \ {f})
<1> DEFINE n == [m EXCEPT ![f] = r]
<1>1. \A g \in File : n[g] = IF g = f THEN r ELSE m[g]
  BY DEF Manifest
<1>2. \A v \in Unit : Owned(v) \subseteq File
  BY UnitLifecycleAssumption DEF Owned
<1>3. \A v \in Unit \ {u} : f \notin Owned(v)
  BY UnitLifecycleAssumption
<1>4. \A v \in Unit \ {u} : Listed(n, v) \/ \A g \in Owned(v) : n[g] = Unlisted
  BY <1>1, <1>2, <1>3 DEF Partly, Listed
<1>5. r # Unlisted => \A g \in Owned(u) : n[g] # Unlisted <=> g \in F \cup {f}
  BY <1>1, <1>2 DEF Partly
<1>6. r = Unlisted => \A g \in Owned(u) : n[g] # Unlisted <=> g \in F \ {f}
  BY <1>1, <1>2 DEF Partly
<1> QED
  BY <1>4, <1>5, <1>6 DEF Partly

LEMMA NothingWhole == NothingListed \in Manifest /\ Whole(NothingListed)
                        /\ NoFalseClaim(NothingListed)
BY UnitLifecycleAssumption
   DEF NothingListed, Manifest, Whole, NoFalseClaim, Owned

LEMMA UnitFiles ==
  ASSUME NEW u \in Unit
  PROVE  /\ FilesOf[u] \in Seq(File)
         /\ FilesOf[u] # << >>
         /\ OneToOne(FilesOf[u])
         /\ Ran(FilesOf[u]) = Owned(u)
         /\ Owned(u) \subseteq File
BY UnitLifecycleAssumption DEF OneToOne, Ran, Owned

----------------------------------------------------------------------------
(* The steps that several actions share.                                   *)

Steps == {"idle"} \cup OnFiles \cup {"save", "fill", "unlink"}

\* The file that a command is at.
LEMMA HeadFacts ==
  ASSUME TypeOK, NEW c \in Command, pc[c] \in OnFiles
  PROVE  /\ todo[c] \in Seq(File) /\ todo[c] # << >>
         /\ Head(todo[c]) \in File /\ Head(todo[c]) \in Ran(todo[c])
         /\ Tail(todo[c]) \in Seq(File) /\ Tail(todo[c]) # todo[c]
         /\ Ran(Tail(todo[c])) \subseteq Ran(todo[c])
         /\ Len(todo[c]) # 1 => Tail(todo[c]) # << >>
<1> DEFINE s == todo[c]
<1>1. s \in Seq(File) /\ s # << >>
  BY DEF TypeOK
<1> HIDE DEF s
<1>2. /\ Len(s) \in Nat /\ Len(s) > 0 /\ DOMAIN s = 1..Len(s)
      /\ Tail(s) \in Seq(File) /\ Head(s) = s[1] /\ Head(s) \in File
      /\ DOMAIN Tail(s) = 1..(Len(s) - 1) /\ Len(Tail(s)) = Len(s) - 1
      /\ \A i \in 1..(Len(s) - 1) : Tail(s)[i] = s[i + 1]
  BY <1>1
<1>3. Head(s) \in Ran(s) /\ Ran(Tail(s)) \subseteq Ran(s)
  BY <1>2 DEF Ran
<1>4. Tail(s) # s
  <2>1. ASSUME NEW n \in Nat
        PROVE  n - 1 # n
    OBVIOUS
  <2>2. Len(s) \in Nat /\ Len(Tail(s)) = Len(s) - 1
    BY <1>2
  <2>3. Len(Tail(s)) # Len(s)
    BY ONLY <2>1, <2>2
  <2> QED
    BY <2>3, Zenon
<1>5. Len(s) # 1 => Tail(s) # << >>
  BY <1>2
<1> QED
  BY <1>1, <1>2, <1>3, <1>4, <1>5 DEF s

\* A step of c that keeps its own part of the invariant keeps all of it: no
\* command puts a user's content into a file.
LEMMA CommandKeepsInv ==
  ASSUME UnitInv, NEW c \in Command,
         pc' = [pc EXCEPT ![c] = pc'[c]], pc'[c] \in Steps,
         mem' = [mem EXCEPT ![c] = mem'[c]], mem'[c] \in Manifest,
         todo' = [todo EXCEPT ![c] = todo'[c]], todo'[c] \in Seq(File),
         pc'[c] \in OnFiles => todo'[c] # << >>,
         AtWork(c)', Watch(c)',
         disk' \in [File -> Content \cup {Absent}],
         \A f \in File : disk'[f] \in Edit => disk'[f] = disk[f],
         \/ manifest' \in {manifest, NothingListed, Blank}
         \/ manifest' = mem[c] /\ Whole(mem[c]),
         NoFalseClaim(mem'[c]),
         raced' = raced, disturbed' \in BOOLEAN
  PROVE  UnitInv'
<1> USE DEF UnitInv
<1>1. ASSUME NEW d \in Command, d # c
      PROVE  pc'[d] = pc[d] /\ mem'[d] = mem[d] /\ todo'[d] = todo[d]
  BY <1>1 DEF TypeOK
<1>2. Working'
  <2>1. ASSUME NEW d \in Command, d # c
        PROVE  AtWork(d)'
    BY <1>1, <2>1 DEF Working, AtWork
  <2> QED
    BY <2>1 DEF Working
<1>3. Watched'
  <2>1. ASSUME NEW d \in Command, d # c
        PROVE  Watch(d)'
    <3>1. Watch(d)
      BY DEF Watched
    <3>2. CASE pc[d] \in OnFiles
      <4>1. Head(todo[d]) \in File
        BY <3>2, HeadFacts
      <4> QED
        BY <1>1, <2>1, <3>1, <4>1 DEF Watch, DropsAdopted
    <3>3. CASE pc[d] \notin OnFiles
      BY <1>1, <2>1, <3>3 DEF Watch, OnFiles, Installing, Removing
    <3> QED
      BY <3>2, <3>3
  <2> QED
    BY <2>1 DEF Watched
<1>4. NeverClaimsEdits'
  <2>1. \A d \in Command : NoFalseClaim(mem[d])' 
    <3>1. \A d \in Command : NoFalseClaim(mem'[d])
      BY <1>1 DEF NeverClaimsEdits
    <3> QED
      BY <3>1 DEF NoFalseClaim
  <2>2. manifest' # Blank => NoFalseClaim(manifest')
    BY NothingWhole DEF NeverClaimsEdits
  <2> QED
    BY <2>1, <2>2 DEF NeverClaimsEdits, NoFalseClaim
<1>5. TypeOK'
  <2>1. pc' \in [Command -> Steps] /\ mem' \in [Command -> Manifest]
        /\ todo' \in [Command -> Seq(File)]
    BY DEF TypeOK, Steps
  <2>2. \A d \in Command : pc'[d] \in OnFiles => todo'[d] # << >>
    BY <1>1 DEF TypeOK
  <2>3. manifest' \in Manifest \cup {Blank} /\ (manifest' # Blank => Whole(manifest)')
    <3>1. manifest' \in Manifest \cup {Blank} /\ (manifest' # Blank => Whole(manifest'))
      BY NothingWhole DEF TypeOK
    <3> QED
      BY <3>1
  <2> QED
    BY <2>1, <2>2, <2>3 DEF TypeOK, Steps
<1> QED
  BY <1>2, <1>3, <1>4, <1>5

\* What NextFile does to the command that takes it.
LEMMA NextFileFacts ==
  ASSUME TypeOK, Working, NEW c \in Command, pc[c] \in Installing \cup Removing,
         NEW r \in Record \cup {Unlisted}, NEW next, NEW last,
         pc[c] \in Installing => r # Unlisted /\ next = "install" /\ last = "save",
         pc[c] \in Removing =>
           /\ r = Unlisted /\ next = "delete" /\ last \in {"save", "unlink"}
           /\ last = "unlink" => [mem[c] EXCEPT ![Head(todo[c])] = r] = NothingListed,
         NextFile(c, r, next, last)
  PROVE  /\ mem' = [mem EXCEPT ![c] = mem'[c]] /\ mem'[c] \in Manifest
         /\ mem'[c] = [mem[c] EXCEPT ![Head(todo[c])] = r]
         /\ todo' = [todo EXCEPT ![c] = todo'[c]] /\ todo'[c] \in Seq(File)
         /\ todo'[c] # todo[c]
         /\ pc' = [pc EXCEPT ![c] = pc'[c]] /\ pc'[c] \in {next, last} /\ pc'[c] \in Steps
         /\ pc'[c] \in OnFiles => todo'[c] # << >>
         /\ AtWork(c)'
         /\ disturbed' = disturbed
<1> USE DEF Installing, Removing, Adopting, OnFiles, Steps
<1> DEFINE s == todo[c]
           f == Head(s)
           m == [mem[c] EXCEPT ![f] = r]
<1>1. /\ s \in Seq(File) /\ s # << >> /\ mem[c] \in Manifest
      /\ mem \in [Command -> Manifest] /\ todo \in [Command -> Seq(File)]
      /\ pc \in [Command -> Steps]
  BY DEF TypeOK
<1>2. PICK u \in Unit : OneToOne(s) /\ Pending(mem[c], u, s, pc[c])
  BY DEF Working, AtWork
<1>3. /\ Tail(s) \in Seq(File) /\ OneToOne(Tail(s))
      /\ f \in File /\ f \in Ran(s) /\ Ran(Tail(s)) = Ran(s) \ {f}
      /\ Len(s) = 1 => Tail(s) = << >>
      /\ Len(s) # 1 => Tail(s) # << >>
  BY <1>1, <1>2, TailFacts
<1>4. f \in Owned(u)
  BY <1>2, <1>3 DEF Pending
<1>6. m \in Manifest
  BY <1>1, <1>3 DEF Manifest
<1>7. /\ mem'[c] = m /\ todo'[c] = Tail(s)
      /\ pc'[c] = IF Len(s) = 1 THEN last ELSE next
      /\ mem' = [mem EXCEPT ![c] = m]
      /\ todo' = [todo EXCEPT ![c] = Tail(s)]
      /\ pc' = [pc EXCEPT ![c] = pc'[c]]
      /\ disturbed' = disturbed
  BY <1>1 DEF NextFile
<1>8. Pending(m, u, Tail(s), next)
  <2>1. Ran(Tail(s)) \subseteq Owned(u)
    BY <1>2, <1>3 DEF Pending
  <2>2. CASE pc[c] \in Installing
    <3>1. Partly(m, u, (Owned(u) \ Ran(s)) \cup {f})
      BY <1>1, <1>2, <1>3, <1>4, <2>2, PartlyUpdate DEF Pending
    <3>2. (Owned(u) \ Ran(s)) \cup {f} = Owned(u) \ Ran(Tail(s))
      BY <1>3, <1>4
    <3>3. next = "install"
      BY <2>2
    <3> QED
      BY <2>1, <3>1, <3>2, <3>3 DEF Pending
  <2>3. CASE pc[c] \in Removing
    <3>1. Partly(m, u, Ran(s) \ {f})
      BY <1>1, <1>2, <1>3, <1>4, <2>3, PartlyUpdate DEF Pending
    <3>2. next = "delete"
      BY <2>3
    <3> QED
      BY <1>3, <2>1, <3>1, <3>2 DEF Pending
  <2> QED
    BY <2>2, <2>3
<1>9. Len(s) = 1 => Whole(m)
  <2> SUFFICES ASSUME Len(s) = 1
               PROVE  Whole(m)
    OBVIOUS
  <2>1. Ran(Tail(s)) = {}
    BY <1>3 DEF Ran
  <2>2. Partly(m, u, {}) \/ Partly(m, u, Owned(u))
    BY <1>8, <2>1 DEF Pending
  <2> QED
    BY <2>2, PartlyIsWhole
<1>10. AtWork(c)'
  <2>1. CASE Len(s) = 1
    BY <1>7, <1>9, <2>1 DEF AtWork
  <2>2. CASE Len(s) # 1
    BY <1>2, <1>3, <1>7, <1>8, <2>2 DEF AtWork
  <2> QED
    BY <2>1, <2>2
<1>11. todo'[c] # todo[c]
  BY <1>7, HeadFacts
<1> QED
  BY <1>1, <1>3, <1>6, <1>7, <1>10, <1>11

\* What is known of the record of the file that c is at.
LEMMA RecordFacts ==
  ASSUME TypeOK, Working, NEW c \in Command, pc[c] \in Installing \cup Removing
  PROVE  /\ pc[c] \in Removing => mem[c][Head(todo[c])] \in Record
         /\ pc[c] \in Installing => mem[c][Head(todo[c])] = Unlisted
<1> USE DEF Installing, Removing, OnFiles
<1>1. Head(todo[c]) \in File /\ Head(todo[c]) \in Ran(todo[c])
  BY HeadFacts
<1>2. PICK u \in Unit : Pending(mem[c], u, todo[c], pc[c])
  BY DEF Working, AtWork
<1> QED
  BY <1>1, <1>2 DEF Pending, Partly, Manifest, TypeOK

\* A command that goes from one step on a file to another has got as far.
LEMMA GotoFacts ==
  ASSUME TypeOK, Working, NEW c \in Command, NEW step, Goto(c, step),
         \/ pc[c] \in Installing /\ step \in Installing
         \/ pc[c] \in Removing /\ step \in Removing
  PROVE  /\ mem' = [mem EXCEPT ![c] = mem'[c]] /\ mem'[c] = mem[c] /\ mem'[c] \in Manifest
         /\ todo' = [todo EXCEPT ![c] = todo'[c]] /\ todo'[c] = todo[c]
         /\ todo'[c] \in Seq(File)
         /\ pc' = [pc EXCEPT ![c] = pc'[c]] /\ pc'[c] = step /\ pc'[c] \in Steps
         /\ pc'[c] \in OnFiles => todo'[c] # << >>
         /\ AtWork(c)'
         /\ disturbed' = disturbed
<1> USE DEF Installing, Removing, Adopting, OnFiles, Steps
<1>1. /\ mem' = mem /\ todo' = todo /\ pc'[c] = step
      /\ pc' = [pc EXCEPT ![c] = pc'[c]] /\ disturbed' = disturbed
  BY DEF Goto, TypeOK
<1>2. /\ mem \in [Command -> Manifest] /\ todo \in [Command -> Seq(File)]
      /\ todo[c] # << >>
  BY DEF TypeOK
<1>3. OneToOne(todo[c]) /\ \E u \in Unit : Pending(mem[c], u, todo[c], step)
  BY DEF Working, AtWork, Pending
<1>4. AtWork(c)'
  BY <1>1, <1>3 DEF AtWork
<1> QED
  BY <1>1, <1>2, <1>4

\* A command that leaves is at no work.
LEMMA LeaveFacts ==
  ASSUME TypeOK, NEW c \in Command, Leave(c)
  PROVE  /\ mem' = [mem EXCEPT ![c] = mem'[c]] /\ mem'[c] = NothingListed
         /\ mem'[c] \in Manifest
         /\ todo' = [todo EXCEPT ![c] = todo'[c]] /\ todo'[c] \in Seq(File)
         /\ pc' = [pc EXCEPT ![c] = pc'[c]] /\ pc'[c] = "idle" /\ pc'[c] \in Steps
         /\ pc'[c] \in OnFiles => todo'[c] # << >>
         /\ AtWork(c)' /\ Watch(c)'
         /\ NoFalseClaim(mem'[c])
<1> USE DEF Installing, Removing, Adopting, OnFiles, Steps
<1>1. /\ mem'[c] = NothingListed /\ pc'[c] = "idle" /\ todo'[c] = << >>
      /\ mem' = [mem EXCEPT ![c] = mem'[c]] /\ pc' = [pc EXCEPT ![c] = pc'[c]]
      /\ todo' = [todo EXCEPT ![c] = todo'[c]]
  BY NothingWhole DEF TypeOK, Leave
<1>2. AtWork(c)' /\ Watch(c)'
  BY <1>1, NothingWhole DEF AtWork, Watch
<1>3. << >> \in Seq(File)
  BY EmptySeq
<1> QED
  BY <1>1, <1>2, <1>3, NothingWhole

\* A record keeps a manifest free of false claims if it makes none itself.
LEMMA HonestRecord ==
  ASSUME NEW m \in Manifest, NEW f \in File, NEW r, NoFalseClaim(m),
         r # Unlisted => (r.owner = "specere" => r.digest \notin Edit \/ f \in raced)
  PROVE  NoFalseClaim([m EXCEPT ![f] = r])
<1>1. \A g \in File : [m EXCEPT ![f] = r][g] = IF g = f THEN r ELSE m[g]
  BY DEF Manifest
<1> QED
  BY <1>1 DEF NoFalseClaim

----------------------------------------------------------------------------
(* UnitInv is inductive.                                                   *)

LEMMA InitInv == Init => UnitInv /\ Undisturbed
<1> SUFFICES ASSUME Init
             PROVE  UnitInv /\ Undisturbed
  OBVIOUS
<1>1. TypeOK
  <2>1. disk \in [File -> Content \cup {Absent}]
    BY DEF Init, Content
  <2>2. /\ manifest \in Manifest /\ Whole(manifest)
        /\ mem \in [Command -> Manifest]
    BY NothingWhole DEF Init
  <2>3. todo \in [Command -> Seq(File)]
    BY EmptySeq DEF Init
  <2> QED
    BY <2>1, <2>2, <2>3 DEF Init, TypeOK, OnFiles, Installing, Removing, Adopting
<1>2. Working
  BY NothingWhole DEF Init, Working, AtWork, Installing, Removing, Adopting
<1>3. Watched
  BY DEF Init, Watched, Watch
<1>4. NeverClaimsEdits
  BY NothingWhole DEF Init, NeverClaimsEdits
<1>5. Undisturbed
  BY BlankAssumption, NothingWhole, UnitLifecycleAssumption
     DEF Init, Undisturbed, Tidy
<1> QED
  BY <1>1, <1>2, <1>3, <1>4, <1>5 DEF UnitInv

\* A file that the user edits under a command is watched from then on.
LEMMA UserKeepsInv ==
  ASSUME UnitInv, UserStep
  PROVE  UnitInv'
<1>1. /\ UNCHANGED cmdVars
      /\ manifest' = manifest \/ manifest' = NothingListed
      /\ disk' \in [File -> Content \cup {Absent}]
      /\ disturbed' \in BOOLEAN
      /\ raced' \subseteq File /\ raced \subseteq raced'
  BY DEF UserStep, EditFile, EraseFile, DropManifest, UnitInv, TypeOK, Content
<1>2. TypeOK'
  BY <1>1, NothingWhole DEF UnitInv, TypeOK, cmdVars
<1>3. Working'
  BY <1>1 DEF UnitInv, Working, AtWork, cmdVars
<1>4. NeverClaimsEdits'
  BY <1>1, NothingWhole DEF UnitInv, NeverClaimsEdits, NoFalseClaim, cmdVars
<1>5. Watched'
  <2>1. ASSUME NEW f \in File, EditFile(f), NEW c \in Command
        PROVE  Watch(c)'
    <3>1. CASE pc[c] \in {"open", "write", "wrote", "drop"} /\ Head(todo[c]) = f
      <4>1. (pc[c] \in {"open", "write"} => f \in FilesOfUnits(Cautious)) => f \in raced'
        BY <2>1, <3>1 DEF EditFile, Exposed
      <4> QED
        BY <1>1, <3>1, <4>1 DEF Watch, cmdVars
    <3>2. CASE pc[c] \in OnFiles /\ Head(todo[c]) # f
      <4>1. Head(todo[c]) \in File
        BY <3>2, HeadFacts DEF UnitInv
      <4>2. disk'[Head(todo[c])] = disk[Head(todo[c])]
        BY <2>1, <3>2, <4>1 DEF EditFile, UnitInv, TypeOK
      <4> QED
        BY <1>1, <4>2 DEF Watch, DropsAdopted, cmdVars, UnitInv, Watched
    <3>3. CASE pc[c] \notin {"open", "write", "wrote", "drop"}
      BY <1>1, <3>3 DEF Watch, cmdVars
    <3> QED
      BY <3>1, <3>2, <3>3 DEF OnFiles, Installing, Removing
  <2>2. ASSUME NEW f \in File, EraseFile(f), NEW c \in Command
        PROVE  Watch(c)'
    <3>1. CASE pc[c] \in OnFiles
      <4>1. Head(todo[c]) \in File
        BY <3>1, HeadFacts DEF UnitInv
      <4>2. \/ disk'[Head(todo[c])] = disk[Head(todo[c])]
            \/ disk'[Head(todo[c])] \notin Edit
        BY <2>2, <4>1, UnitLifecycleAssumption DEF EraseFile, UnitInv, TypeOK
      <4> QED
        BY <1>1, <4>2 DEF Watch, DropsAdopted, cmdVars, UnitInv, Watched
    <3>2. CASE pc[c] \notin OnFiles
      BY <1>1, <3>2 DEF Watch, cmdVars, OnFiles, Installing, Removing
    <3> QED
      BY <3>1, <3>2
  <2>3. ASSUME DropManifest, NEW c \in Command
        PROVE  Watch(c)'
    BY <2>3 DEF DropManifest, Watch, DropsAdopted, cmdVars, UnitInv, Watched
  <2> QED
    BY <2>1, <2>2, <2>3 DEF UserStep, Watched
<1> QED
  BY <1>2, <1>3, <1>4, <1>5 DEF UnitInv

LEMMA BeginKeepsInv ==
  ASSUME UnitInv, NEW c \in Command, NEW u \in Unit,
         BeginInstall(c, u) \/ BeginAdopt(c, u) \/ BeginRemove(c, u)
  PROVE  UnitInv'
<1> USE DEF Installing, Removing, Adopting, OnFiles, Steps
<1>1. PICK step \in {"install", "adopt", "delete"} :
        /\ Begin(c, u, step)
        /\ step = "install" <=> ~Listed(manifest, u)
  BY DEF BeginInstall, BeginAdopt, BeginRemove
<1>2. /\ manifest \in Manifest /\ Whole(manifest) /\ NoFalseClaim(manifest)
      /\ pc'[c] = step /\ mem'[c] = manifest /\ todo'[c] = FilesOf[u]
      /\ pc' = [pc EXCEPT ![c] = pc'[c]]
      /\ mem' = [mem EXCEPT ![c] = mem'[c]]
      /\ todo' = [todo EXCEPT ![c] = todo'[c]]
      /\ disk' = disk /\ manifest' = manifest /\ raced' = raced
      /\ disturbed' \in BOOLEAN
  BY <1>1 DEF Begin, UnitInv, TypeOK, NeverClaimsEdits
<1>3. Pending(manifest, u, FilesOf[u], step) \/ step = "adopt"
  <2>1. step = "install" => Partly(manifest, u, Owned(u) \ Ran(FilesOf[u]))
    <3>1. Owned(u) \ Ran(FilesOf[u]) = {}
      BY UnitFiles
    <3> QED
      BY <1>1, <1>2, <3>1, WholeIsPartly
  <2>2. step = "delete" => Partly(manifest, u, Ran(FilesOf[u]))
    BY <1>1, <1>2, UnitFiles, WholeIsPartly
  <2> QED
    BY <2>1, <2>2, UnitFiles DEF Pending
<1>4. step = "adopt" => \A f \in Ran(FilesOf[u]) : manifest[f] # Unlisted
  BY <1>1, UnitFiles DEF Listed
<1>5. AtWork(c)' /\ Watch(c)'
  BY <1>2, <1>3, <1>4, UnitFiles DEF AtWork, Watch
<1>6. /\ pc'[c] \in Steps /\ mem'[c] \in Manifest
      /\ todo'[c] \in Seq(File) /\ todo'[c] # << >>
      /\ NoFalseClaim(mem'[c])
      /\ disk' \in [File -> Content \cup {Absent}]
      /\ \A f \in File : disk'[f] \in Edit => disk'[f] = disk[f]
  BY <1>2, UnitFiles DEF UnitInv, TypeOK
<1> QED
  BY <1>2, <1>5, <1>6, CommandKeepsInv

\* What c has in its memory claims no edits.
LEMMA MemClaims ==
  ASSUME UnitInv, NEW c \in Command
  PROVE  mem[c] \in Manifest /\ NoFalseClaim(mem[c])
BY DEF UnitInv, TypeOK, NeverClaimsEdits

LEMMA LookKeepsInv ==
  ASSUME UnitInv, NEW c \in Command, Look(c)
  PROVE  UnitInv'
<1> DEFINE f == Head(todo[c])
           step == IF Spared(f) THEN "found" ELSE "open"
<1>1. /\ pc[c] = "install" /\ Goto(c, step) /\ step \in {"found", "open"}
      /\ UNCHANGED <<disk, manifest, raced>>
  BY DEF Look
<1>2. /\ pc'[c] = step /\ todo'[c] = todo[c] /\ mem'[c] = mem[c]
      /\ pc' = [pc EXCEPT ![c] = pc'[c]] /\ pc'[c] \in Steps
      /\ mem' = [mem EXCEPT ![c] = mem'[c]] /\ mem'[c] \in Manifest
      /\ todo' = [todo EXCEPT ![c] = todo'[c]] /\ todo'[c] \in Seq(File)
      /\ pc'[c] \in OnFiles => todo'[c] # << >>
      /\ AtWork(c)' /\ disturbed' = disturbed
  <2> HIDE DEF step
  <2> QED
    BY <1>1, GotoFacts DEF UnitInv, Installing
<1>3. Watch(c)'
  BY <1>1, <1>2, UnitLifecycleAssumption DEF Watch, Spared
<1> QED
  BY <1>1, <1>2, <1>3, MemClaims, CommandKeepsInv DEF UnitInv, TypeOK

LEMMA TruncateKeepsInv ==
  ASSUME UnitInv, NEW c \in Command, Truncate(c)
  PROVE  UnitInv'
<1> DEFINE f == Head(todo[c])
<1>1. /\ pc[c] = "open" /\ Goto(c, "write")
      /\ disk' = [disk EXCEPT ![f] = Shard]
      /\ UNCHANGED <<manifest, raced>>
  BY DEF Truncate
<1>2. /\ pc'[c] = "write" /\ todo'[c] = todo[c] /\ mem'[c] = mem[c]
      /\ pc' = [pc EXCEPT ![c] = pc'[c]] /\ pc'[c] \in Steps
      /\ mem' = [mem EXCEPT ![c] = mem'[c]] /\ mem'[c] \in Manifest
      /\ todo' = [todo EXCEPT ![c] = todo'[c]] /\ todo'[c] \in Seq(File)
      /\ pc'[c] \in OnFiles => todo'[c] # << >>
      /\ AtWork(c)' /\ disturbed' = disturbed
  BY <1>1, GotoFacts DEF UnitInv, Installing
<1>3. f \in File
  BY <1>1, HeadFacts DEF UnitInv, OnFiles, Installing
<1>4. /\ disk' \in [File -> Content \cup {Absent}] /\ disk'[f] \notin Edit
      /\ \A g \in File : disk'[g] \in Edit => disk'[g] = disk[g]
  BY <1>1, <1>3, UnitLifecycleAssumption DEF UnitInv, TypeOK, Content
<1>5. Watch(c)'
  BY <1>2, <1>4 DEF Watch
<1> QED
  BY <1>1, <1>2, <1>4, <1>5, MemClaims, CommandKeepsInv DEF UnitInv, TypeOK

\* What a write does to the disk.
LEMMA WriteFacts ==
  ASSUME UnitInv, NEW c \in Command, Write(c)
  PROVE  LET f == Head(todo[c])
         IN  /\ pc[c] = "write" /\ f \in File
             /\ disk' = [disk EXCEPT ![f] = disk'[f]]
             /\ disk'[f] \in {Absent, Skeleton}
             /\ disk' \in [File -> Content \cup {Absent}] /\ disk'[f] \notin Edit
             /\ \A g \in File : disk'[g] \in Edit => disk'[g] = disk[g]
             /\ UNCHANGED <<manifest, raced, disturbed>>
<1> DEFINE f == Head(todo[c])
<1>1. /\ pc[c] = "write"
      /\ disk' = [disk EXCEPT ![f] = IF @ = Absent THEN Absent ELSE Skeleton]
      /\ UNCHANGED <<manifest, raced, disturbed>>
  BY DEF Write, Goto, NextFile
<1>2. f \in File
  BY <1>1, HeadFacts DEF UnitInv, OnFiles, Installing
<1>3. /\ disk' = [disk EXCEPT ![f] = disk'[f]]
      /\ disk'[f] \in {Absent, Skeleton}
      /\ disk' \in [File -> Content \cup {Absent}] /\ disk'[f] \notin Edit
      /\ \A g \in File : disk'[g] \in Edit => disk'[g] = disk[g]
  BY <1>1, <1>2, UnitLifecycleAssumption DEF UnitInv, TypeOK, Content
<1> QED
  BY <1>1, <1>2, <1>3

LEMMA WriteKeepsInv ==
  ASSUME UnitInv, NEW c \in Command, Write(c)
  PROVE  UnitInv'
<1> USE DEF UnitInv
<1> DEFINE f == Head(todo[c])
           r == [owner |-> "specere", digest |-> Skeleton]
<1>1. /\ pc[c] = "write" /\ f \in File /\ disk'[f] \notin Edit
      /\ disk' \in [File -> Content \cup {Absent}]
      /\ \A g \in File : disk'[g] \in Edit => disk'[g] = disk[g]
      /\ UNCHANGED <<manifest, raced, disturbed>>
  BY WriteFacts
<1>2. CASE f \in FilesOfUnits(Cautious)
  <2>1. Goto(c, "wrote")
    BY <1>2 DEF Write
  <2>2. /\ pc'[c] = "wrote" /\ todo'[c] = todo[c] /\ mem'[c] = mem[c]
        /\ pc' = [pc EXCEPT ![c] = pc'[c]] /\ pc'[c] \in Steps
        /\ mem' = [mem EXCEPT ![c] = mem'[c]] /\ mem'[c] \in Manifest
        /\ todo' = [todo EXCEPT ![c] = todo'[c]] /\ todo'[c] \in Seq(File)
        /\ pc'[c] \in OnFiles => todo'[c] # << >>
        /\ AtWork(c)'
    BY <1>1, <2>1, GotoFacts DEF Installing
  <2>3. Watch(c)'
    BY <1>1, <2>2 DEF Watch
  <2> QED
    BY <1>1, <2>2, <2>3, MemClaims, CommandKeepsInv DEF TypeOK
<1>3. CASE f \notin FilesOfUnits(Cautious)
  <2>1. NextFile(c, r, "install", "save")
    BY <1>3 DEF Write
  <2>2. r \in Record /\ r # Unlisted
    BY UnlistedAssumption DEF Record, Content
  <2>3. /\ pc'[c] \in {"install", "save"} /\ mem'[c] = [mem[c] EXCEPT ![f] = r]
        /\ pc' = [pc EXCEPT ![c] = pc'[c]] /\ pc'[c] \in Steps
        /\ mem' = [mem EXCEPT ![c] = mem'[c]] /\ mem'[c] \in Manifest
        /\ todo' = [todo EXCEPT ![c] = todo'[c]] /\ todo'[c] \in Seq(File)
        /\ pc'[c] \in OnFiles => todo'[c] # << >>
        /\ AtWork(c)'
    <3> HIDE DEF r
    <3> QED
      BY <1>1, <2>1, <2>2, NextFileFacts DEF Installing, Removing
  <2>4. NoFalseClaim(mem'[c])
    <3>1. r.owner = "specere" => r.digest \notin Edit \/ f \in raced
      BY UnitLifecycleAssumption
    <3> HIDE DEF r
    <3> QED
      BY <1>1, <2>3, <3>1, MemClaims, HonestRecord
  <2>5. Watch(c)'
    BY <2>3 DEF Watch
  <2> HIDE DEF r
  <2> QED
    BY <1>1, <2>3, <2>4, <2>5, CommandKeepsInv DEF TypeOK
<1> QED
  BY <1>2, <1>3

\* What a unit records that reads its file back.
LEMMA ReadBackFacts ==
  ASSUME UnitInv, NEW c \in Command, ReadBack(c), ~Fail(c)
  PROVE  \E r \in Record :
           /\ pc[c] \in {"wrote", "found"}
           /\ NextFile(c, r, "install", "save")
           /\ Head(todo[c]) \in File
           /\ r.owner = IF pc[c] = "wrote" THEN "specere" ELSE "user"
           /\ r.digest = disk[Head(todo[c])]
           /\ r = [owner |-> r.owner, digest |-> r.digest]
           /\ UNCHANGED <<disk, manifest, raced, disturbed>>
<1> DEFINE f == Head(todo[c])
           owner == IF pc[c] = "wrote" THEN "specere" ELSE "user"
           r == [owner |-> owner, digest |-> disk[f]]
<1>1. /\ pc[c] \in {"wrote", "found"} /\ disk[f] # Absent
      /\ NextFile(c, r, "install", "save")
      /\ UNCHANGED <<disk, manifest, raced, disturbed>>
  BY DEF ReadBack, NextFile
<1>2. f \in File
  BY <1>1, HeadFacts DEF UnitInv, OnFiles, Installing
<1>3. r \in Record
  BY <1>1, <1>2 DEF Record, UnitInv, TypeOK
<1> QED
  BY <1>1, <1>2, <1>3

LEMMA ReadBackKeepsInv ==
  ASSUME UnitInv, NEW c \in Command, ReadBack(c)
  PROVE  UnitInv'
<1> USE DEF UnitInv
<1>1. CASE Fail(c)
  <2>1. UNCHANGED <<disk, manifest, raced>> /\ disturbed' \in BOOLEAN /\ Leave(c)
    BY <1>1 DEF ReadBack, Fail
  <2> QED
    BY <2>1, LeaveFacts, CommandKeepsInv DEF TypeOK
<1>2. CASE ~Fail(c)
  <2>1. PICK r \in Record :
          /\ pc[c] \in {"wrote", "found"}
          /\ NextFile(c, r, "install", "save")
          /\ Head(todo[c]) \in File
          /\ r.owner = IF pc[c] = "wrote" THEN "specere" ELSE "user"
          /\ r.digest = disk[Head(todo[c])]
          /\ UNCHANGED <<disk, manifest, raced, disturbed>>
    BY <1>2, ReadBackFacts
  <2>2. r # Unlisted
    BY UnlistedAssumption
  <2>3. /\ pc'[c] \in {"install", "save"}
        /\ mem'[c] = [mem[c] EXCEPT ![Head(todo[c])] = r]
        /\ pc' = [pc EXCEPT ![c] = pc'[c]] /\ pc'[c] \in Steps
        /\ mem' = [mem EXCEPT ![c] = mem'[c]] /\ mem'[c] \in Manifest
        /\ todo' = [todo EXCEPT ![c] = todo'[c]] /\ todo'[c] \in Seq(File)
        /\ pc'[c] \in OnFiles => todo'[c] # << >>
        /\ AtWork(c)'
    BY <2>1, <2>2, NextFileFacts DEF Installing, Removing
  <2>4. r.owner = "specere" => r.digest \notin Edit \/ Head(todo[c]) \in raced
    BY <2>1 DEF Watched, Watch
  <2>5. NoFalseClaim(mem'[c])
    BY <2>1, <2>3, <2>4, MemClaims, HonestRecord
  <2>6. Watch(c)'
    BY <2>3 DEF Watch
  <2> QED
    BY <2>1, <2>3, <2>5, <2>6, CommandKeepsInv DEF TypeOK
<1> QED
  BY <1>1, <1>2

\* The files that an adoption has still to read again are files of the unit
\* that were edited.
LEMMA AdoptFacts ==
  ASSUME UnitInv, NEW c \in Command, Adopt(c), ~Leave(c)
  PROVE  /\ pc[c] = "adopt" /\ pc'[c] = "rehash"
         /\ pc' = [pc EXCEPT ![c] = pc'[c]]
         /\ todo' = [todo EXCEPT ![c] = todo'[c]]
         /\ todo'[c] \in Seq(File) /\ todo'[c] # << >>
         /\ \A f \in Ran(todo'[c]) :
              /\ f \in Ran(todo[c])
              /\ mem[c][f].owner = "specere" /\ disk[f] # mem[c][f].digest
         /\ UNCHANGED <<mem, disk, manifest, raced, disturbed>>
<1> DEFINE s == todo[c]
           edited == Diverged(mem[c], {s[i] : i \in DOMAIN s})
           P == {i \in DOMAIN s : s[i] \in edited}
           r == Only(s, P)
<1>1. /\ pc[c] = "adopt" /\ edited # {}
      /\ todo' = [todo EXCEPT ![c] = r]
      /\ pc' = [pc EXCEPT ![c] = "rehash"]
      /\ UNCHANGED <<mem, disk, manifest, raced, disturbed>>
  BY DEF Adopt
<1>2. s \in Seq(File) /\ Len(s) \in Nat /\ DOMAIN s = 1..Len(s)
  BY DEF UnitInv, TypeOK
<1>3. P \in SUBSET (1..Len(s)) /\ P # {} /\ \A i \in P : s[i] \in edited
  BY <1>1, <1>2 DEF Diverged
<1>4. \A f \in edited : f \in Ran(s) /\ mem[c][f].owner = "specere"
                         /\ disk[f] # mem[c][f].digest
  BY DEF Diverged, Ran
<1> HIDE DEF s, edited, P
<1>5. /\ r \in Seq(File)
      /\ \A k \in DOMAIN r : \E i \in P : r[k] = s[i]
  BY <1>2, <1>3, OnlyType
<1>6. r # << >>
  <2>1. PICK e : Enumerates(e, P) /\ r = [k \in DOMAIN e |-> s[e[k]]]
    BY <1>2, <1>3, OnlyEnumerates
  <2>2. PICK i \in P : TRUE
    BY <1>3
  <2>3. P \in SUBSET Nat
    BY <1>3
  <2>4. \E k \in DOMAIN e : e[k] = i
    BY <2>1, <2>2, <2>3, EnumeratesType
  <2>5. DOMAIN r # {}
    BY <2>1, <2>4
  <2> QED
    BY <2>5
<1> HIDE DEF r
<1>7. /\ todo'[c] = r /\ pc'[c] = "rehash"
      /\ pc' = [pc EXCEPT ![c] = pc'[c]] /\ todo' = [todo EXCEPT ![c] = todo'[c]]
  BY <1>1 DEF UnitInv, TypeOK
<1>8. \A f \in Ran(r) : f \in edited
  BY <1>3, <1>5 DEF Ran
<1> QED
  BY <1>1, <1>4, <1>5, <1>6, <1>7, <1>8 DEF s

LEMMA AdoptKeepsInv ==
  ASSUME UnitInv, NEW c \in Command, Adopt(c)
  PROVE  UnitInv'
<1> USE DEF UnitInv
<1>1. CASE Leave(c)
  BY <1>1, LeaveFacts, CommandKeepsInv DEF Adopt, TypeOK
<1>2. CASE ~Leave(c)
  <2>1. /\ pc[c] = "adopt" /\ pc'[c] = "rehash"
        /\ pc' = [pc EXCEPT ![c] = pc'[c]]
        /\ todo' = [todo EXCEPT ![c] = todo'[c]]
        /\ todo'[c] \in Seq(File) /\ todo'[c] # << >>
        /\ \A f \in Ran(todo'[c]) : f \in Ran(todo[c])
        /\ UNCHANGED <<mem, disk, manifest, raced, disturbed>>
    BY <1>2, AdoptFacts
  <2>2. AtWork(c)'
    BY <2>1 DEF Working, AtWork, Installing, Removing, Adopting
  <2>3. Watch(c)'
    BY <2>1 DEF Watch
  <2>4. /\ pc'[c] \in Steps /\ mem' = [mem EXCEPT ![c] = mem'[c]]
        /\ mem'[c] \in Manifest /\ NoFalseClaim(mem'[c])
    BY <2>1, MemClaims DEF TypeOK, Steps, OnFiles, Adopting
  <2> QED
    BY <2>1, <2>2, <2>3, <2>4, CommandKeepsInv DEF TypeOK
<1> QED
  BY <1>1, <1>2

\* The record of an adopted file, and what the command has left to do.
LEMMA RehashFacts ==
  ASSUME UnitInv, NEW c \in Command, Rehash(c)
  PROVE  \E r \in Record :
           /\ pc[c] = "rehash" /\ Head(todo[c]) \in File
           /\ Head(todo[c]) \in Ran(todo[c])
           /\ r.owner = "user"
           /\ mem' = [mem EXCEPT ![c] = mem'[c]]
           /\ mem'[c] = [mem[c] EXCEPT ![Head(todo[c])] = r]
           /\ todo' = [todo EXCEPT ![c] = todo'[c]] /\ todo'[c] \in Seq(File)
           /\ todo'[c] # todo[c] /\ Ran(todo'[c]) \subseteq Ran(todo[c])
           /\ pc' = [pc EXCEPT ![c] = pc'[c]] /\ pc'[c] \in {"rehash", "save"}
           /\ pc'[c] \in OnFiles => todo'[c] # << >>
           /\ UNCHANGED <<disk, manifest, raced, disturbed>>
<1> USE DEF UnitInv
<1> DEFINE f == Head(todo[c])
           r == [owner |-> "user",
                 digest |-> IF disk[f] = Absent THEN mem[c][f].digest ELSE disk[f]]
<1>1. /\ pc[c] = "rehash" /\ NextFile(c, r, "rehash", "save")
      /\ UNCHANGED <<disk, manifest, raced, disturbed>>
  BY DEF Rehash, NextFile
<1>2. /\ f \in File /\ f \in Ran(todo[c])
      /\ Tail(todo[c]) \in Seq(File) /\ Tail(todo[c]) # todo[c]
      /\ Ran(Tail(todo[c])) \subseteq Ran(todo[c])
      /\ Len(todo[c]) # 1 => Tail(todo[c]) # << >>
  BY <1>1, HeadFacts DEF OnFiles, Adopting
<1>3. mem[c] \in Manifest /\ mem[c][f] # Unlisted
  BY <1>1, <1>2 DEF TypeOK, Working, AtWork, Adopting
<1>4. mem[c][f] \in Record
  BY <1>2, <1>3 DEF Manifest
<1>5. r \in Record
  BY <1>2, <1>4 DEF Record, TypeOK
<1>6. /\ mem' = [mem EXCEPT ![c] = mem'[c]]
      /\ mem'[c] = [mem[c] EXCEPT ![f] = r]
      /\ todo' = [todo EXCEPT ![c] = todo'[c]] /\ todo'[c] = Tail(todo[c])
      /\ pc' = [pc EXCEPT ![c] = pc'[c]]
      /\ pc'[c] = IF Len(todo[c]) = 1 THEN "save" ELSE "rehash"
  <2> HIDE DEF r
  <2> QED
    BY <1>1 DEF NextFile, TypeOK
<1>7. /\ pc'[c] \in {"rehash", "save"}
      /\ pc'[c] \in OnFiles => todo'[c] # << >>
  BY <1>2, <1>6 DEF OnFiles, Installing, Removing, Adopting
<1>8. r.owner = "user"
  OBVIOUS
<1> HIDE DEF r
<1> QED
  BY <1>1, <1>2, <1>5, <1>6, <1>7, <1>8

LEMMA RehashKeepsInv ==
  ASSUME UnitInv, NEW c \in Command, Rehash(c)
  PROVE  UnitInv'
<1> USE DEF UnitInv
<1> DEFINE f == Head(todo[c])
<1>1. PICK r \in Record :
        /\ pc[c] = "rehash" /\ f \in File
        /\ r.owner = "user"
        /\ mem' = [mem EXCEPT ![c] = mem'[c]]
        /\ mem'[c] = [mem[c] EXCEPT ![f] = r]
        /\ todo' = [todo EXCEPT ![c] = todo'[c]] /\ todo'[c] \in Seq(File)
        /\ Ran(todo'[c]) \subseteq Ran(todo[c])
        /\ pc' = [pc EXCEPT ![c] = pc'[c]] /\ pc'[c] \in {"rehash", "save"}
        /\ pc'[c] \in OnFiles => todo'[c] # << >>
        /\ UNCHANGED <<disk, manifest, raced, disturbed>>
  BY RehashFacts
<1>2. /\ mem[c] \in Manifest /\ NoFalseClaim(mem[c]) /\ Whole(mem[c])
      /\ \A g \in Ran(todo[c]) : mem[c][g] # Unlisted
  BY <1>1, MemClaims DEF Working, AtWork, Installing, Removing, Adopting
<1>3. f \in Ran(todo[c])
  BY <1>1, HeadFacts DEF OnFiles, Adopting
<1>4. mem'[c] \in Manifest
  BY <1>1, <1>2 DEF Manifest
<1>5. \A g \in File : mem'[c][g] # Unlisted <=> mem[c][g] # Unlisted
  BY <1>1, <1>2, <1>3, UnlistedAssumption DEF Manifest
<1>6. Whole(mem'[c])
  BY <1>2, <1>5, UnitFiles DEF Whole, Listed
<1>7. \A g \in Ran(todo'[c]) : mem'[c][g] # Unlisted
  <2>1. Ran(todo[c]) \subseteq File
    BY DEF Ran, TypeOK
  <2> QED
    BY <1>1, <1>2, <1>5, <2>1
<1>8. AtWork(c)'
  BY <1>1, <1>6, <1>7 DEF AtWork, Installing, Removing
<1>9. Watch(c)'
  BY <1>1 DEF Watch
<1>10. NoFalseClaim(mem'[c])
  BY <1>1, <1>2, HonestRecord
<1>11. pc'[c] \in Steps
  BY <1>1 DEF Steps, OnFiles, Adopting
<1> QED
  BY <1>1, <1>4, <1>8, <1>9, <1>10, <1>11, CommandKeepsInv DEF TypeOK

\* What a remove does to its command when it is done with a file.
LEMMA ForgetFacts ==
  ASSUME UnitInv, NEW c \in Command, pc[c] \in Removing,
         NextFile(c, Unlisted, "delete", Remains(c))
  PROVE  /\ pc'[c] \in {"delete", "save", "unlink"}
         /\ mem'[c] = [mem[c] EXCEPT ![Head(todo[c])] = Unlisted]
         /\ pc' = [pc EXCEPT ![c] = pc'[c]] /\ pc'[c] \in Steps
         /\ mem' = [mem EXCEPT ![c] = mem'[c]] /\ mem'[c] \in Manifest
         /\ todo' = [todo EXCEPT ![c] = todo'[c]] /\ todo'[c] \in Seq(File)
         /\ todo'[c] # todo[c]
         /\ pc'[c] \in OnFiles => todo'[c] # << >>
         /\ AtWork(c)' /\ Watch(c)'
         /\ NoFalseClaim(mem'[c])
         /\ disturbed' = disturbed
<1> USE DEF UnitInv
<1> DEFINE last == Remains(c)
<1>1. /\ last \in {"save", "unlink"}
      /\ last = "unlink" => [mem[c] EXCEPT ![Head(todo[c])] = Unlisted] = NothingListed
  BY DEF Remains
<1>2. pc[c] \notin Installing
  BY DEF Installing, Removing
<1>3. /\ pc'[c] \in {"delete", last}
      /\ mem'[c] = [mem[c] EXCEPT ![Head(todo[c])] = Unlisted]
      /\ pc' = [pc EXCEPT ![c] = pc'[c]] /\ pc'[c] \in Steps
      /\ mem' = [mem EXCEPT ![c] = mem'[c]] /\ mem'[c] \in Manifest
      /\ todo' = [todo EXCEPT ![c] = todo'[c]] /\ todo'[c] \in Seq(File)
      /\ todo'[c] # todo[c]
      /\ pc'[c] \in OnFiles => todo'[c] # << >>
      /\ AtWork(c)'
      /\ disturbed' = disturbed
  <2> HIDE DEF last
  <2>1. NextFile(c, Unlisted, "delete", last)
    BY DEF last
  <2> QED
    BY <1>1, <1>2, <2>1, NextFileFacts
<1>4. pc'[c] \in {"delete", "save", "unlink"}
  BY <1>1, <1>3
<1>5. Watch(c)'
  BY <1>4 DEF Watch
<1>6. Head(todo[c]) \in File
  BY HeadFacts DEF OnFiles
<1>7. NoFalseClaim(mem'[c])
  <2>1. NoFalseClaim([mem[c] EXCEPT ![Head(todo[c])] = Unlisted])
    <3>1. mem[c] \in Manifest /\ NoFalseClaim(mem[c])
      BY MemClaims
    <3>2. Unlisted # Unlisted =>
            (Unlisted.owner = "specere" =>
               Unlisted.digest \notin Edit \/ Head(todo[c]) \in raced)
      OBVIOUS
    <3> QED
      BY ONLY <1>6, <3>1, <3>2, HonestRecord
  <2> QED
    BY <1>3, <2>1
<1> QED
  BY <1>3, <1>4, <1>5, <1>7

LEMMA CompareKeepsInv ==
  ASSUME UnitInv, NEW c \in Command, Compare(c)
  PROVE  UnitInv'
<1> USE DEF UnitInv
<1> DEFINE f == Head(todo[c])
           r == mem[c][f]
<1>1. pc[c] = "delete" /\ UNCHANGED <<disk, manifest, raced>>
  BY DEF Compare
<1>2. CASE Kept(f, r)
  <2>1. NextFile(c, Unlisted, "delete", Remains(c))
    BY <1>2 DEF Compare
  <2> QED
    BY <1>1, <2>1, ForgetFacts, CommandKeepsInv DEF Removing, TypeOK
<1>3. CASE ~Kept(f, r)
  <2>1. Goto(c, "drop")
    BY <1>3 DEF Compare
  <2>2. /\ pc'[c] = "drop" /\ todo'[c] = todo[c] /\ mem'[c] = mem[c]
        /\ pc' = [pc EXCEPT ![c] = pc'[c]] /\ pc'[c] \in Steps
        /\ mem' = [mem EXCEPT ![c] = mem'[c]] /\ mem'[c] \in Manifest
        /\ todo' = [todo EXCEPT ![c] = todo'[c]] /\ todo'[c] \in Seq(File)
        /\ pc'[c] \in OnFiles => todo'[c] # << >>
        /\ AtWork(c)' /\ disturbed' = disturbed
    BY <1>1, <2>1, GotoFacts DEF Removing
  <2>3. r \in Record /\ f \in File
    BY <1>1, RecordFacts, HeadFacts DEF Removing, OnFiles
  <2>4. disk[f] = r.digest /\ (r.owner = "user" => f \in FilesOfUnits(DigestOnly))
    BY <1>3 DEF Kept
  <2>5. (r.owner = "specere" /\ disk[f] \in Edit) => f \in raced
    BY <2>3, <2>4, MemClaims, UnlistedAssumption DEF NoFalseClaim
  <2>6. r.owner = "user" =>
          f \in FilesOfUnits(DigestOnly) /\ r = [owner |-> "user", digest |-> disk[f]]
    BY <2>3, <2>4 DEF Record
  <2>7. r.owner \in {"specere", "user"}
    BY <2>3 DEF Record
  <2>8. Watch(c)'
    BY <1>1, <2>2, <2>5, <2>6, <2>7 DEF Watch, DropsAdopted
  <2> QED
    BY <1>1, <2>2, <2>8, MemClaims, CommandKeepsInv DEF TypeOK
<1> QED
  BY <1>2, <1>3

LEMMA DropFacts ==
  ASSUME UnitInv, NEW c \in Command, Drop(c)
  PROVE  LET f == Head(todo[c])
         IN  /\ pc[c] = "drop" /\ f \in File
             /\ disk' = [disk EXCEPT ![f] = Absent]
             /\ disk' \in [File -> Content \cup {Absent}]
             /\ \A g \in File : disk'[g] \in Edit => disk'[g] = disk[g]
             /\ Fail(c) \/ NextFile(c, Unlisted, "delete", Remains(c))
             /\ UNCHANGED <<manifest, raced>>
<1> DEFINE f == Head(todo[c])
<1>1. /\ pc[c] = "drop" /\ disk' = [disk EXCEPT ![f] = Absent]
      /\ Fail(c) \/ NextFile(c, Unlisted, "delete", Remains(c))
      /\ UNCHANGED <<manifest, raced>>
  BY DEF Drop
<1>2. f \in File
  BY <1>1, HeadFacts DEF UnitInv, OnFiles, Removing
<1>3. /\ disk' \in [File -> Content \cup {Absent}]
      /\ \A g \in File : disk'[g] \in Edit => disk'[g] = disk[g]
  BY <1>1, <1>2, UnitLifecycleAssumption DEF UnitInv, TypeOK
<1> QED
  BY <1>1, <1>2, <1>3

LEMMA DropKeepsInv ==
  ASSUME UnitInv, NEW c \in Command, Drop(c)
  PROVE  UnitInv'
<1> USE DEF UnitInv
<1>1. /\ pc[c] = "drop"
      /\ disk' \in [File -> Content \cup {Absent}]
      /\ \A g \in File : disk'[g] \in Edit => disk'[g] = disk[g]
      /\ Fail(c) \/ NextFile(c, Unlisted, "delete", Remains(c))
      /\ UNCHANGED <<manifest, raced>>
  BY DropFacts
<1>2. CASE Fail(c)
  <2>1. disturbed' \in BOOLEAN /\ Leave(c)
    BY <1>2 DEF Fail
  <2> QED
    BY <1>1, <2>1, LeaveFacts, CommandKeepsInv DEF TypeOK
<1>3. CASE NextFile(c, Unlisted, "delete", Remains(c))
  BY <1>1, <1>3, ForgetFacts, CommandKeepsInv DEF Removing, TypeOK
<1> QED
  BY <1>1, <1>2, <1>3

LEMMA SaveKeepsInv ==
  ASSUME UnitInv, NEW c \in Command, Save(c)
  PROVE  UnitInv'
<1> USE DEF UnitInv, Steps, OnFiles, Installing, Removing, Adopting
<1>1. /\ pc[c] = "save" /\ pc'[c] = "fill" /\ mem' = mem /\ todo' = todo
      /\ pc' = [pc EXCEPT ![c] = pc'[c]] /\ manifest' = Blank
      /\ UNCHANGED <<disk, disturbed, raced>>
  BY DEF Save, TypeOK
<1>2. AtWork(c)' /\ Watch(c)'
  BY <1>1 DEF Working, AtWork, Watch
<1>3. /\ mem' = [mem EXCEPT ![c] = mem'[c]] /\ todo' = [todo EXCEPT ![c] = todo'[c]]
      /\ mem'[c] \in Manifest /\ todo'[c] \in Seq(File) /\ pc'[c] \in Steps
      /\ NoFalseClaim(mem'[c])
  BY <1>1, MemClaims DEF TypeOK
<1> QED
  BY <1>1, <1>2, <1>3, CommandKeepsInv DEF TypeOK

\* A command that stops, whether or not it has written the manifest.
LEMMA EndKeepsInv ==
  ASSUME UnitInv, NEW c \in Command, Fill(c) \/ Unlink(c) \/ Crash(c)
  PROVE  UnitInv'
<1> USE DEF UnitInv
<1>1. /\ Leave(c) /\ disk' = disk /\ raced' = raced /\ disturbed' \in BOOLEAN
      /\ \/ manifest' \in {manifest, NothingListed}
         \/ pc[c] = "fill" /\ manifest' = mem[c]
  BY DEF Fill, Unlink, Crash, Fail, TypeOK
<1>2. pc[c] = "fill" => Whole(mem[c])
  BY DEF Working, AtWork, Installing, Removing
<1> QED
  BY <1>1, <1>2, LeaveFacts, CommandKeepsInv DEF TypeOK

\* No step of a command or of the user breaks the invariant.
THEOREM StepKeepsInv == UnitInv /\ [Next]_vars => UnitInv'
<1> SUFFICES ASSUME UnitInv, [Next]_vars
             PROVE  UnitInv'
  OBVIOUS
<1>1. CASE UserStep
  BY <1>1, UserKeepsInv
<1>2. ASSUME NEW c \in Command, CommandStep(c)
      PROVE  UnitInv'
  <2>1. ASSUME NEW u \in Unit,
               BeginInstall(c, u) \/ BeginAdopt(c, u) \/ BeginRemove(c, u)
        PROVE  UnitInv'
    BY <2>1, BeginKeepsInv
  <2>2. CASE Look(c) \/ Truncate(c) \/ Write(c) \/ ReadBack(c)
    BY <2>2, LookKeepsInv, TruncateKeepsInv, WriteKeepsInv, ReadBackKeepsInv
  <2>3. CASE Adopt(c) \/ Rehash(c)
    BY <2>3, AdoptKeepsInv, RehashKeepsInv
  <2>4. CASE Compare(c) \/ Drop(c)
    BY <2>4, CompareKeepsInv, DropKeepsInv
  <2>5. CASE Save(c)
    BY <2>5, SaveKeepsInv
  <2>6. CASE Fill(c) \/ Unlink(c) \/ Crash(c)
    BY <2>6, EndKeepsInv
  <2> QED
    BY <1>2, <2>1, <2>2, <2>3, <2>4, <2>5, <2>6 DEF CommandStep
<1>3. CASE UNCHANGED vars
  BY <1>3 DEF vars, cmdVars, UnitInv, TypeOK, Working, AtWork, Watched, Watch,
              DropsAdopted, NeverClaimsEdits, NoFalseClaim
<1> QED
  BY <1>1, <1>2, <1>3 DEF Next

\* The invariant holds in every reachable state.
THEOREM UnitInvariant == Spec => []UnitInv
<1>1. Init => UnitInv
  BY InitInv
<1> QED
  BY <1>1, StepKeepsInv, PTL DEF Spec

\* Every reachable state is well typed; above all, a manifest that is on disk
\* lists each unit with all its files or not at all, whatever failed.
THEOREM TypeCorrect == Spec => []TypeOK
BY UnitInvariant, PTL DEF UnitInv

\* No manifest ever holds a user's content as specere's own, but of a file that
\* the user edited just when a command was at it.
THEOREM ClaimsNoEdits == Spec => []NeverClaimsEdits
BY UnitInvariant, PTL DEF UnitInv

----------------------------------------------------------------------------
(* What a step may do to a user's file.                                    *)

\* Commands keep what a user put into a file, but for the three known cases:
\* a write over it, a file that was adopted, and an edit right under a command.
THEOREM KeepsEdits == Spec => EditsKept
<1> DEFINE Allowed(f) ==
      \/ UNCHANGED <<cmdVars, manifest>>
      \/ \E c \in Command :
           /\ pc'[c] # pc[c] \/ todo'[c] # todo[c]
           /\ Overwrites(c, f) \/ DropsAdopted(c, f)
      \/ f \in raced
<1>1. ASSUME UnitInv, [Next]_vars, NEW f \in File,
             disk[f] \in Edit, disk'[f] # disk[f]
      PROVE  Allowed(f)
  <2>1. CASE UserStep
    <3>1. UNCHANGED <<cmdVars, manifest>> \/ DropManifest
      BY <2>1 DEF UserStep, EditFile, EraseFile
    <3> QED
      BY <1>1, <3>1 DEF DropManifest
  <2>2. ASSUME NEW c \in Command, Truncate(c)
        PROVE  Allowed(f)
    <3>1. /\ pc[c] = "open" /\ pc'[c] = "write"
          /\ disk' = [disk EXCEPT ![Head(todo[c])] = Shard]
      BY <1>1, <2>2 DEF Truncate, Goto, UnitInv, TypeOK
    <3>2. f = Head(todo[c])
      BY <1>1, <3>1 DEF UnitInv, TypeOK
    <3>3. f \in FilesOfUnits(Cautious) => f \in raced
      BY <1>1, <3>1, <3>2 DEF UnitInv, Watched, Watch
    <3>4. f \notin FilesOfUnits(Cautious) => Overwrites(c, f) /\ pc'[c] # pc[c]
      BY <3>1, <3>2 DEF Overwrites
    <3> QED
      BY <3>3, <3>4
  <2>3. ASSUME NEW c \in Command, Write(c)
        PROVE  Allowed(f)
    <3>1. /\ pc[c] = "write"
          /\ disk' = [disk EXCEPT ![Head(todo[c])] = disk'[Head(todo[c])]]
      BY <1>1, <2>3, WriteFacts
    <3>2. f = Head(todo[c])
      BY <1>1, <3>1 DEF UnitInv, TypeOK
    <3>3. f \in FilesOfUnits(Cautious) => f \in raced
      BY <1>1, <3>1, <3>2 DEF UnitInv, Watched, Watch
    <3>4. f \notin FilesOfUnits(Cautious) => Overwrites(c, f) /\ pc'[c] # pc[c]
      <4> SUFFICES ASSUME f \notin FilesOfUnits(Cautious)
                   PROVE  Overwrites(c, f) /\ pc'[c] # pc[c]
        OBVIOUS
      <4>1. pc'[c] \in {"install", "save"}
        BY <1>1, <2>3, <3>2 DEF Write, NextFile, UnitInv, TypeOK
      <4> QED
        BY <3>1, <3>2, <4>1 DEF Overwrites
    <3> QED
      BY <3>3, <3>4
  <2>4. ASSUME NEW c \in Command, Drop(c)
        PROVE  Allowed(f)
    <3>1. /\ pc[c] = "drop" /\ disk' = [disk EXCEPT ![Head(todo[c])] = Absent]
          /\ Fail(c) \/ NextFile(c, Unlisted, "delete", Remains(c))
      BY <1>1, <2>4, DropFacts
    <3>2. f = Head(todo[c])
      BY <1>1, <3>1 DEF UnitInv, TypeOK
    <3>3. f \in raced \/ DropsAdopted(c, f)
      BY <1>1, <3>1, <3>2 DEF UnitInv, Watched, Watch
    <3>4. pc'[c] # pc[c]
      <4>1. Fail(c) => pc'[c] = "idle"
        BY <1>1 DEF Fail, Leave, UnitInv, TypeOK
      <4>2. NextFile(c, Unlisted, "delete", Remains(c)) =>
              pc'[c] \in {"delete", "save", "unlink"}
        BY <1>1 DEF NextFile, Remains, UnitInv, TypeOK
      <4> QED
        BY <3>1, <4>1, <4>2
    <3> QED
      BY <3>3, <3>4
  <2>5. ASSUME NEW c \in Command, CommandStep(c), ~Truncate(c), ~Write(c), ~Drop(c)
        PROVE  disk' = disk
    BY <2>5 DEF CommandStep, BeginInstall, BeginAdopt, BeginRemove, Begin, Look,
                ReadBack, Adopt, Rehash, Compare, Save, Fill, Unlink, Crash
  <2>6. CASE UNCHANGED vars
    BY <1>1, <2>6 DEF vars
  <2> HIDE DEF Allowed
  <2> QED
    BY <1>1, <2>1, <2>2, <2>3, <2>4, <2>5, <2>6 DEF Next
<1>2. UnitInv /\ [Next]_vars =>
        [\A f \in File : (disk[f] \in Edit /\ disk'[f] # disk[f]) => Allowed(f)]_vars
  BY <1>1
<1> QED
  BY <1>2, UnitInvariant, PTL DEF Spec, EditsKept

----------------------------------------------------------------------------
(* One command after the other.                                            *)

\* Where a command works undisturbed, no other one does.
LEMMA AloneFacts ==
  ASSUME Undisturbed, ~disturbed, NEW c \in Command, pc[c] # "idle"
  PROVE  /\ \A d \in Command : d # c => pc[d] = "idle"
         /\ Tidy(mem[c], InHand(c))
BY DEF Undisturbed

\* After a step of the only command, its own state decides.
LEMMA UndisturbedAfter ==
  ASSUME UnitInv, NEW c \in Command,
         \A d \in Command : d # c => pc[d] = "idle",
         pc' = [pc EXCEPT ![c] = pc'[c]],
         pc'[c] # "idle" => Tidy(mem[c], InHand(c))',
         pc'[c] = "rehash" => \A f \in Ran(todo'[c]) : disk'[f] # Skeleton,
         pc'[c] \in {"idle", "adopt"} => manifest' # Blank /\ Tidy(manifest, {})'
  PROVE  Undisturbed'
<1>1. \A d \in Command : d # c => pc'[d] = "idle"
  BY DEF UnitInv, TypeOK
<1>2. \A d \in Command : pc'[d] # "idle" => d = c
  BY <1>1
<1>3. \A d, e \in Command : pc'[d] # "idle" /\ pc'[e] # "idle" => d = e
  BY <1>2
<1>4. (\A d \in Command : pc[d] # "idle" => Tidy(mem[d], InHand(d)))'
  BY <1>2
<1>5. \A d \in Command : pc'[d] = "rehash" => \A f \in Ran(todo'[d]) : disk'[f] # Skeleton
  BY <1>2
<1>6. (\A d \in Command : pc'[d] \in {"idle", "adopt"}) =>
        manifest' # Blank /\ Tidy(manifest, {})'
  OBVIOUS
<1> QED
  BY <1>3, <1>4, <1>5, <1>6 DEF Undisturbed, Ran

LEMMA UserStaysUndisturbed ==
  ASSUME UnitInv, Undisturbed, UserStep
  PROVE  Undisturbed'
<1>1. CASE DropManifest
  BY <1>1 DEF DropManifest, Undisturbed
<1>2. CASE ~DropManifest
  <2>1. UNCHANGED <<manifest, cmdVars, disturbed>>
    BY <1>2 DEF UserStep, EditFile, EraseFile
  <2>2. \A f \in File : disk'[f] = Skeleton => disk[f] = Skeleton
    BY <1>2, UnitLifecycleAssumption
       DEF UserStep, EditFile, EraseFile, UnitInv, TypeOK
  <2>3. /\ Tidy(manifest, {}) => Tidy(manifest, {})'
        /\ \A c \in Command : Tidy(mem[c], InHand(c)) => Tidy(mem[c], InHand(c))'
    BY <2>1, <2>2 DEF Tidy, InHand, cmdVars
  <2>4. \A c \in Command : pc[c] = "rehash" => Ran(todo[c]) \subseteq File
    BY DEF UnitInv, TypeOK, Ran
  <2>5. SUFFICES ASSUME ~disturbed
                 PROVE  Undisturbed'
    BY <2>1 DEF Undisturbed
  <2>6. \A c \in Command : pc'[c] = "rehash" =>
          \A f \in Ran(todo'[c]) : disk'[f] # Skeleton
    BY <2>1, <2>2, <2>4, <2>5 DEF Undisturbed, cmdVars
  <2> QED
    BY <2>1, <2>3, <2>5, <2>6 DEF Undisturbed, cmdVars, Ran
<1> QED
  BY <1>1, <1>2

LEMMA BeginStaysUndisturbed ==
  ASSUME UnitInv, Undisturbed, NEW c \in Command, NEW u \in Unit,
         NEW step \in {"install", "adopt", "delete"}, Begin(c, u, step)
  PROVE  Undisturbed'
<1> SUFFICES ASSUME ~disturbed'
             PROVE  Undisturbed'
  BY DEF Undisturbed
<1>1. /\ ~disturbed /\ Idle /\ pc'[c] = step
      /\ pc' = [pc EXCEPT ![c] = pc'[c]] /\ mem'[c] = manifest
      /\ UNCHANGED <<disk, manifest>>
  BY DEF Begin, UnitInv, TypeOK
<1>2. manifest # Blank /\ Tidy(manifest, {})
  BY <1>1 DEF Undisturbed, Idle
<1>3. Tidy(manifest, {})' /\ Tidy(mem[c], InHand(c))'
  BY <1>1, <1>2 DEF Tidy, InHand
<1> QED
  BY <1>1, <1>2, <1>3, UndisturbedAfter DEF Idle

LEMMA LookStaysUndisturbed ==
  ASSUME UnitInv, Undisturbed, NEW c \in Command, Look(c)
  PROVE  Undisturbed'
<1> SUFFICES ASSUME ~disturbed
             PROVE  Undisturbed'
  BY DEF Look, Goto, Undisturbed
<1>1. /\ pc[c] = "install" /\ pc' = [pc EXCEPT ![c] = pc'[c]]
      /\ pc'[c] \in {"found", "open"} /\ UNCHANGED <<disk, manifest, mem, todo>>
  BY DEF Look, Goto, UnitInv, TypeOK
<1>2. /\ \A d \in Command : d # c => pc[d] = "idle"
      /\ Tidy(mem[c], InHand(c))
  BY <1>1, AloneFacts
<1>3. Tidy(mem[c], InHand(c))'
  BY <1>1, <1>2 DEF Tidy, InHand
<1> QED
  BY <1>1, <1>2, <1>3, UndisturbedAfter

LEMMA TruncateStaysUndisturbed ==
  ASSUME UnitInv, Undisturbed, NEW c \in Command, Truncate(c)
  PROVE  Undisturbed'
<1> SUFFICES ASSUME ~disturbed
             PROVE  Undisturbed'
  BY DEF Truncate, Goto, Undisturbed
<1>1. /\ pc[c] = "open" /\ pc'[c] = "write" /\ pc' = [pc EXCEPT ![c] = pc'[c]]
      /\ disk' = [disk EXCEPT ![Head(todo[c])] = Shard]
      /\ UNCHANGED <<manifest, mem, todo>>
  BY DEF Truncate, Goto, UnitInv, TypeOK
<1>2. /\ \A d \in Command : d # c => pc[d] = "idle"
      /\ Tidy(mem[c], InHand(c))
  BY <1>1, AloneFacts
<1>3. \A f \in File : f # Head(todo[c]) => disk'[f] = disk[f]
  BY <1>1 DEF UnitInv, TypeOK
<1>4. Tidy(mem[c], InHand(c))'
  BY <1>1, <1>2, <1>3 DEF Tidy, InHand
<1> QED
  BY <1>1, <1>2, <1>4, UndisturbedAfter

LEMMA WriteStaysUndisturbed ==
  ASSUME UnitInv, Undisturbed, NEW c \in Command, Write(c)
  PROVE  Undisturbed'
<1> USE DEF UnitInv
<1> DEFINE f == Head(todo[c])
           r == [owner |-> "specere", digest |-> Skeleton]
<1>1. /\ pc[c] = "write" /\ f \in File
      /\ disk' = [disk EXCEPT ![f] = disk'[f]]
      /\ UNCHANGED <<manifest, raced, disturbed>>
  BY WriteFacts
<1> SUFFICES ASSUME ~disturbed
             PROVE  Undisturbed'
  BY <1>1 DEF Undisturbed
<1>2. /\ \A d \in Command : d # c => pc[d] = "idle"
      /\ Tidy(mem[c], {f})
  BY <1>1, AloneFacts DEF InHand
<1>3. \A g \in File : g # f => disk'[g] = disk[g]
  BY <1>1 DEF TypeOK
<1>4. CASE Goto(c, "wrote")
  <2>1. /\ pc'[c] = "wrote" /\ pc' = [pc EXCEPT ![c] = pc'[c]]
        /\ mem' = mem /\ todo' = todo
    BY <1>4 DEF Goto, TypeOK
  <2>2. Tidy(mem[c], InHand(c))'
    BY <1>2, <1>3, <2>1 DEF Tidy, InHand
  <2> QED
    BY <1>2, <2>1, <2>2, UndisturbedAfter
<1>5. CASE NextFile(c, r, "install", "save")
  <2>1. /\ pc'[c] \in {"install", "save"} /\ pc' = [pc EXCEPT ![c] = pc'[c]]
        /\ mem'[c] = [mem[c] EXCEPT ![f] = r] /\ mem[c] \in Manifest
    <3> HIDE DEF r
    <3> QED
      BY <1>5 DEF NextFile, TypeOK
  <2>2. mem'[c][f] = r /\ \A g \in File : g # f => mem'[c][g] = mem[c][g]
    BY <1>1, <2>1 DEF Manifest
  <2>3. Tidy(mem[c], InHand(c))'
    BY <1>2, <1>3, <2>1, <2>2 DEF Tidy, InHand
  <2> QED
    BY <1>2, <2>1, <2>3, UndisturbedAfter
<1> QED
  BY <1>4, <1>5 DEF Write

LEMMA ReadBackStaysUndisturbed ==
  ASSUME UnitInv, Undisturbed, NEW c \in Command, ReadBack(c)
  PROVE  Undisturbed'
<1> USE DEF UnitInv
<1> DEFINE f == Head(todo[c])
<1>1. CASE Fail(c)
  BY <1>1 DEF Fail, Undisturbed
<1>2. CASE ~Fail(c)
  <2>1. PICK r \in Record :
          /\ pc[c] \in {"wrote", "found"}
          /\ NextFile(c, r, "install", "save")
          /\ f \in File
          /\ r.owner = IF pc[c] = "wrote" THEN "specere" ELSE "user"
          /\ r.digest = disk[f]
          /\ r = [owner |-> r.owner, digest |-> r.digest]
          /\ UNCHANGED <<disk, manifest, raced, disturbed>>
    BY <1>2, ReadBackFacts
  <2> SUFFICES ASSUME ~disturbed
               PROVE  Undisturbed'
    BY <2>1 DEF Undisturbed
  <2>2. /\ \A d \in Command : d # c => pc[d] = "idle"
        /\ Tidy(mem[c], InHand(c))
    BY <2>1, AloneFacts
  <2>3. /\ pc'[c] \in {"install", "save"} /\ pc' = [pc EXCEPT ![c] = pc'[c]]
        /\ mem'[c] = [mem[c] EXCEPT ![f] = r] /\ mem[c] \in Manifest
    BY <2>1 DEF NextFile, TypeOK
  <2>4. mem'[c][f] = r /\ \A g \in File : g # f => mem'[c][g] = mem[c][g]
    BY <2>1, <2>3 DEF Manifest
  <2>5. pc[c] = "found" => disk[f] # Skeleton
    <3> SUFFICES ASSUME pc[c] = "found", disk[f] = Skeleton
                 PROVE  FALSE
      OBVIOUS
    <3>1. mem[c][f] = [owner |-> "specere", digest |-> Skeleton]
      BY <2>1, <2>2 DEF Tidy, InHand
    <3>2. mem[c][f] = Unlisted
      BY RecordFacts DEF Installing
    <3>3. [owner |-> "specere", digest |-> Skeleton] \in Record
      BY DEF Record, Content
    <3> QED
      BY <3>1, <3>2, <3>3, UnlistedAssumption
  <2>6. \A g \in File : g # f => g \notin InHand(c)
    BY DEF InHand
  <2>7. \A g \in File : g # f =>
          (disk'[g] = Skeleton => mem'[c][g] = [owner |-> "specere", digest |-> Skeleton])
    BY <2>1, <2>2, <2>4, <2>6 DEF Tidy
  <2>8. disk'[f] = Skeleton => mem'[c][f] = [owner |-> "specere", digest |-> Skeleton]
    BY <2>1, <2>4, <2>5
  <2>9. Tidy(mem[c], InHand(c))'
    BY <2>7, <2>8 DEF Tidy
  <2> QED
    BY <2>2, <2>3, <2>9, UndisturbedAfter
<1> QED
  BY <1>1, <1>2

LEMMA AdoptStaysUndisturbed ==
  ASSUME UnitInv, Undisturbed, NEW c \in Command, Adopt(c)
  PROVE  Undisturbed'
<1> SUFFICES ASSUME ~disturbed
             PROVE  Undisturbed'
  BY DEF Adopt, Undisturbed
<1>1. pc[c] = "adopt" /\ UNCHANGED <<disk, manifest, disturbed>>
  BY DEF Adopt
<1>2. /\ \A d \in Command : d # c => pc[d] = "idle"
      /\ Tidy(mem[c], {})
  BY <1>1, AloneFacts DEF InHand
<1>3. manifest # Blank /\ Tidy(manifest, {})
  BY <1>1, <1>2 DEF Undisturbed
<1>4. manifest' # Blank /\ Tidy(manifest, {})'
  BY <1>1, <1>3 DEF Tidy
<1>5. CASE Leave(c)
  <2>1. pc' = [pc EXCEPT ![c] = pc'[c]] /\ pc'[c] = "idle"
    BY <1>5 DEF Leave, UnitInv, TypeOK
  <2> QED
    BY <1>2, <1>4, <2>1, UndisturbedAfter
<1>6. CASE ~Leave(c)
  <2>1. /\ pc'[c] = "rehash" /\ pc' = [pc EXCEPT ![c] = pc'[c]] /\ mem' = mem
        /\ todo'[c] \in Seq(File)
        /\ \A f \in Ran(todo'[c]) :
             mem[c][f].owner = "specere" /\ disk[f] # mem[c][f].digest
    BY <1>6, AdoptFacts
  <2>2. \A f \in Ran(todo'[c]) : f \in File
    BY <2>1 DEF Ran
  <2>3. \A f \in Ran(todo'[c]) : disk'[f] # Skeleton
    BY <1>1, <1>2, <2>1, <2>2 DEF Tidy
  <2>4. Tidy(mem[c], InHand(c))'
    BY <1>1, <1>2, <2>1 DEF Tidy, InHand
  <2> QED
    BY <1>2, <2>1, <2>3, <2>4, UndisturbedAfter
<1> QED
  BY <1>5, <1>6

LEMMA RehashStaysUndisturbed ==
  ASSUME UnitInv, Undisturbed, NEW c \in Command, Rehash(c)
  PROVE  Undisturbed'
<1> DEFINE f == Head(todo[c])
<1>1. PICK r \in Record :
        /\ pc[c] = "rehash" /\ f \in File /\ f \in Ran(todo[c])
        /\ mem'[c] = [mem[c] EXCEPT ![f] = r]
        /\ Ran(todo'[c]) \subseteq Ran(todo[c])
        /\ pc' = [pc EXCEPT ![c] = pc'[c]] /\ pc'[c] \in {"rehash", "save"}
        /\ UNCHANGED <<disk, manifest, raced, disturbed>>
  BY RehashFacts
<1> SUFFICES ASSUME ~disturbed
             PROVE  Undisturbed'
  BY <1>1 DEF Undisturbed
<1>2. /\ \A d \in Command : d # c => pc[d] = "idle"
      /\ Tidy(mem[c], {})
  BY <1>1, AloneFacts DEF InHand
<1>3. \A g \in Ran(todo[c]) : disk[g] # Skeleton
  BY <1>1 DEF Undisturbed
<1>4. \A g \in Ran(todo'[c]) : disk'[g] # Skeleton
  BY <1>1, <1>3
<1>5. mem[c] \in Manifest
  BY DEF UnitInv, TypeOK
<1>6. \A g \in File : g # f => mem'[c][g] = mem[c][g]
  BY <1>1, <1>5 DEF Manifest
<1>7. Tidy(mem[c], InHand(c))'
  BY <1>1, <1>2, <1>3, <1>6 DEF Tidy, InHand
<1> QED
  BY <1>1, <1>2, <1>4, <1>7, UndisturbedAfter

\* A remove forgets a file that is not there as its unit brought it.
LEMMA ForgetStaysUndisturbed ==
  ASSUME UnitInv, NEW c \in Command, pc[c] \in Removing,
         \A d \in Command : d # c => pc[d] = "idle",
         Tidy(mem[c], {}),
         NextFile(c, Unlisted, "delete", Remains(c)),
         disk' = [disk EXCEPT ![Head(todo[c])] = disk'[Head(todo[c])]],
         disk'[Head(todo[c])] # Skeleton
  PROVE  Undisturbed'
<1> DEFINE f == Head(todo[c])
<1>1. /\ pc'[c] \in {"delete", "save", "unlink"} /\ pc' = [pc EXCEPT ![c] = pc'[c]]
      /\ mem'[c] = [mem[c] EXCEPT ![f] = Unlisted]
  BY ForgetFacts
<1>2. \A g \in File : g # f => disk'[g] = disk[g] /\ mem'[c][g] = mem[c][g]
  BY <1>1 DEF UnitInv, TypeOK, Manifest
<1>3. Tidy(mem[c], InHand(c))'
  BY <1>1, <1>2 DEF Tidy, InHand
<1> QED
  BY <1>1, <1>3, UndisturbedAfter

LEMMA CompareStaysUndisturbed ==
  ASSUME UnitInv, Undisturbed, NEW c \in Command, Compare(c)
  PROVE  Undisturbed'
<1> DEFINE f == Head(todo[c])
           r == mem[c][f]
<1>1. pc[c] = "delete" /\ UNCHANGED <<disk, manifest, raced, disturbed>>
  BY DEF Compare, NextFile, Goto
<1> SUFFICES ASSUME ~disturbed
             PROVE  Undisturbed'
  BY <1>1 DEF Undisturbed
<1>2. /\ \A d \in Command : d # c => pc[d] = "idle"
      /\ Tidy(mem[c], {})
  BY <1>1, AloneFacts DEF InHand
<1>3. f \in File
  BY <1>1, HeadFacts DEF UnitInv, OnFiles, Removing
<1>4. CASE Kept(f, r)
  <2>1. NextFile(c, Unlisted, "delete", Remains(c))
    BY <1>4 DEF Compare
  <2>2. disk[f] # Skeleton
    BY <1>2, <1>3, <1>4 DEF Kept, Tidy
  <2>3. disk' = [disk EXCEPT ![f] = disk'[f]] /\ disk'[f] # Skeleton
    BY <1>1, <2>2 DEF UnitInv, TypeOK
  <2> QED
    BY <1>1, <1>2, <2>1, <2>3, ForgetStaysUndisturbed DEF Removing
<1>5. CASE ~Kept(f, r)
  <2>1. /\ pc'[c] = "drop" /\ pc' = [pc EXCEPT ![c] = pc'[c]]
        /\ mem' = mem /\ todo' = todo
    BY <1>5 DEF Compare, Goto, UnitInv, TypeOK
  <2>2. Tidy(mem[c], InHand(c))'
    BY <1>1, <1>2, <2>1 DEF Tidy, InHand
  <2> QED
    BY <1>2, <2>1, <2>2, UndisturbedAfter
<1> QED
  BY <1>4, <1>5

LEMMA DropStaysUndisturbed ==
  ASSUME UnitInv, Undisturbed, NEW c \in Command, Drop(c)
  PROVE  Undisturbed'
<1> DEFINE f == Head(todo[c])
<1>1. /\ pc[c] = "drop" /\ f \in File
      /\ disk' = [disk EXCEPT ![f] = Absent]
      /\ Fail(c) \/ NextFile(c, Unlisted, "delete", Remains(c))
  BY DropFacts
<1>2. CASE Fail(c)
  BY <1>2 DEF Fail, Undisturbed
<1>3. CASE NextFile(c, Unlisted, "delete", Remains(c))
  <2> SUFFICES ASSUME ~disturbed
               PROVE  Undisturbed'
    BY <1>3 DEF NextFile, Undisturbed
  <2>1. /\ \A d \in Command : d # c => pc[d] = "idle"
        /\ Tidy(mem[c], {})
    BY <1>1, AloneFacts DEF InHand
  <2>2. disk' = [disk EXCEPT ![f] = disk'[f]] /\ disk'[f] # Skeleton
    BY <1>1, UnitLifecycleAssumption DEF UnitInv, TypeOK
  <2> QED
    BY <1>1, <1>3, <2>1, <2>2, ForgetStaysUndisturbed DEF Removing
<1> QED
  BY <1>1, <1>2, <1>3

LEMMA SaveStaysUndisturbed ==
  ASSUME UnitInv, Undisturbed, NEW c \in Command, Save(c)
  PROVE  Undisturbed'
<1> SUFFICES ASSUME ~disturbed
             PROVE  Undisturbed'
  BY DEF Save, Undisturbed
<1>1. /\ pc[c] = "save" /\ disk' = disk /\ mem' = mem
      /\ pc' = [pc EXCEPT ![c] = pc'[c]] /\ pc'[c] = "fill"
  BY DEF Save, UnitInv, TypeOK
<1>2. /\ \A d \in Command : d # c => pc[d] = "idle"
      /\ Tidy(mem[c], {})
  BY <1>1, AloneFacts DEF InHand
<1>3. Tidy(mem[c], InHand(c))'
  BY <1>1, <1>2 DEF Tidy, InHand
<1> QED
  BY <1>1, <1>2, <1>3, UndisturbedAfter

LEMMA FillStaysUndisturbed ==
  ASSUME UnitInv, Undisturbed, NEW c \in Command, Fill(c) \/ Unlink(c)
  PROVE  Undisturbed'
<1> SUFFICES ASSUME ~disturbed
             PROVE  Undisturbed'
  BY DEF Fill, Unlink, Undisturbed
<1>1. /\ pc[c] \in {"fill", "unlink"} /\ disk' = disk /\ manifest' = mem[c]
      /\ mem[c] \in Manifest
  BY DEF Fill, Unlink, UnitInv, Working, AtWork, TypeOK
<1>2. /\ \A d \in Command : d # c => pc[d] = "idle"
      /\ Tidy(mem[c], {})
  BY <1>1, AloneFacts DEF InHand
<1>3. manifest' # Blank /\ Tidy(manifest, {})'
  BY <1>1, <1>2, BlankAssumption DEF Tidy
<1>4. pc' = [pc EXCEPT ![c] = pc'[c]] /\ pc'[c] = "idle"
  BY DEF Fill, Unlink, Leave, UnitInv, TypeOK
<1> QED
  BY <1>2, <1>3, <1>4, UndisturbedAfter

\* As long as commands ran one after the other and none failed, the manifest
\* can be read between them and lists every file that is as its unit brought
\* it: nothing is left behind by a remove.
THEOREM RoundTripIsClean == Spec => []CleanRoundTrip
<1>1. ASSUME UnitInv, Undisturbed, [Next]_vars
      PROVE  Undisturbed'
  <2>1. CASE UserStep
    BY <1>1, <2>1, UserStaysUndisturbed
  <2>2. ASSUME NEW c \in Command, CommandStep(c)
        PROVE  Undisturbed'
    <3>1. ASSUME NEW u \in Unit,
                 BeginInstall(c, u) \/ BeginAdopt(c, u) \/ BeginRemove(c, u)
          PROVE  Undisturbed'
      BY <1>1, <3>1, BeginStaysUndisturbed
         DEF BeginInstall, BeginAdopt, BeginRemove
    <3>2. CASE Look(c) \/ Truncate(c) \/ Write(c) \/ ReadBack(c)
      BY <1>1, <3>2, LookStaysUndisturbed, TruncateStaysUndisturbed,
         WriteStaysUndisturbed, ReadBackStaysUndisturbed
    <3>3. CASE Adopt(c) \/ Rehash(c)
      BY <1>1, <3>3, AdoptStaysUndisturbed, RehashStaysUndisturbed
    <3>4. CASE Compare(c) \/ Drop(c)
      BY <1>1, <3>4, CompareStaysUndisturbed, DropStaysUndisturbed
    <3>5. CASE Save(c)
      BY <1>1, <3>5, SaveStaysUndisturbed
    <3>6. CASE Fill(c) \/ Unlink(c)
      BY <1>1, <3>6, FillStaysUndisturbed
    <3>7. CASE Crash(c)
      BY <3>7 DEF Crash, Fail, Undisturbed
    <3> QED
      BY <2>2, <3>1, <3>2, <3>3, <3>4, <3>5, <3>6, <3>7 DEF CommandStep
  <2>3. CASE UNCHANGED vars
    BY <1>1, <2>3 DEF vars, cmdVars, Undisturbed, Tidy, InHand, Ran
  <2> QED
    BY <1>1, <2>1, <2>2, <2>3 DEF Next
<1>2. Undisturbed => CleanRoundTrip
  <2> SUFFICES ASSUME Undisturbed, ~disturbed, Idle
               PROVE  manifest # Blank
                      /\ \A f \in File : manifest[f] = Unlisted => disk[f] # Skeleton
    BY DEF CleanRoundTrip
  <2>1. manifest # Blank /\ Tidy(manifest, {})
    BY DEF Undisturbed, Idle
  <2>2. [owner |-> "specere", digest |-> Skeleton] # Unlisted
    <3>1. [owner |-> "specere", digest |-> Skeleton] \in Record
      BY DEF Record, Content
    <3> QED
      BY <3>1, UnlistedAssumption
  <2> QED
    BY <2>1, <2>2 DEF Tidy
<1> QED
  BY <1>1, <1>2, InitInv, UnitInvariant, PTL DEF Spec
==========================================================================
