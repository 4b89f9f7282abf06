------------------------- MODULE EvaluatorsProofs -------------------------
(***************************************************************************)
(* What verbs that die, repeat and overlap may make of the log and of the  *)
(* review queue.                                                           *)
(*                                                                         *)
(* Each property rests on what the processes have in their memory:         *)
(* QueueRead on what doctors have read, SmellsRecorded on what lints have  *)
(* found and not recorded yet, Balanced on the verdicts that evaluations   *)
(* still have to record.                                                   *)
(***************************************************************************)
EXTENDS Evaluators, SequenceLemmas

Tests == UNION {Range(t) : t \in Suites}
SmellKinds == {"no-assertion", "mock-only", "tautological-assert"}
Whats == Classes \cup {"pass", "fail"} \cup ({t.fn : t \in Tests} \X SmellKinds)

Event == [kind : {"mutation_result", "test_smell_detected", "test_outcome"},
          spec : Specs \cup {NoSpec}, what : Whats]

Entry == Specs \cup {"judged", "garbled"}

Process == [verb : {"none", "evaluate", "lint", "doctor"},
            at : {"done", "gather", "parse", "emit", "query", "read", "write"},
            map : Maps \cup {<< >>},
            todo : Seq(Event) \cup Seq(Specs),
            found : Seq(Event),
            sees : Seq(Entry) \cup SUBSET Specs]

\* What a verb has in its memory, at each point of its way.
OnItsWay(p, r) ==
  /\ p.at = "parse" => p.verb = "evaluate" /\ r # NoReport
  /\ p.at = "emit" => p.verb \in {"evaluate", "lint"} /\ p.todo \in Seq(Event)
  /\ p.at \in {"query", "read", "write"} => p.verb = "doctor"
  /\ p.at \in {"read", "write"} => p.todo \in Seq(Specs)
  /\ p.at = "write" => p.sees \in Seq(Entry)
  /\ p.found # << >> => p.verb = "lint" /\ p.at = "emit"
  /\ p.verb = "lint" /\ p.at = "emit" =>
       \A i \in DOMAIN p.todo : p.todo[i].kind = "test_smell_detected"

Typed ==
  /\ map \in Maps /\ suite \in Suites /\ report \in Reports \cup {NoReport}
  /\ log \in Seq(Event)
  /\ certain \subseteq Specs
  /\ verbs \in Nat /\ edits \in Nat
  /\ queue \in Seq(Entry)
  /\ proc \in [Worker -> Process] /\ \A w \in Worker : OnItsWay(proc[w], report)
  /\ cut \in [{"evaluate", "lint", "doctor"} -> Nat]
  /\ judged \subseteq (Maps \cup {<< >>}) \X Reports
  /\ smelt \in [Specs -> SUBSET Whats] /\ linted \in [Specs -> SUBSET Whats]

----------------------------------------------------------------------------
(* The operators.                                                          *)

\* The first spec that supports a file is a spec.
LEMMA OwnerType ==
  ASSUME NEW m, NEW f
  PROVE  Owner(m, f) \in Specs \cup {NoSpec}
<1> DEFINE mine == {i \in DOMAIN SpecIds : f \in m[SpecIds[i]]}
<1>1. mine \in SUBSET Nat
  BY EvaluatorsAssumption
<1>2. CASE mine = {}
  BY <1>2 DEF Owner
<1>3. CASE mine # {}
  <2>1. \E i \in mine : \A j \in mine : i <= j
    <3> HIDE DEF mine
    <3> QED BY <1>1, <1>3, LeastNumber
  <2>2. (CHOOSE i \in mine : \A j \in mine : i <= j) \in mine
    <3> HIDE DEF mine
    <3> QED BY <2>1
  <2>3. \A i \in mine : SpecIds[i] \in Specs
    BY EvaluatorsAssumption
  <2>4. Owner(m, f) = SpecIds[CHOOSE i \in mine : \A j \in mine : i <= j]
    BY <1>3 DEF Owner
  <2> HIDE DEF mine
  <2> QED BY <2>2, <2>3, <2>4
<1> QED BY <1>2, <1>3


\* What an evaluation records of its report are events about mutants.
LEMMA JudgementsType ==
  ASSUME NEW m, NEW r \in Reports
  PROVE  /\ Judgements(m, r) \in Seq(Event)
         /\ \A k \in DOMAIN Judgements(m, r) : Judgements(m, r)[k].kind = "mutation_result"
<1> DEFINE P == {i \in DOMAIN r : r[i].summary \in Classes}
           mutants == Only(r, P)
<1>1. r \in Seq(Range(r))
  BY EvaluatorsAssumption
<1>2. P \in SUBSET (1..Len(r))
  BY <1>1
<1>3. /\ mutants \in Seq(Range(r))
      /\ \A k \in DOMAIN mutants : \E i \in P : mutants[k] = r[i]
  <2> HIDE DEF P
  <2> QED BY <1>1, <1>2, OnlyType
<1>4. Judgements(m, r) = [i \in DOMAIN mutants |-> Judgement(m, mutants[i])]
  BY DEF Judgements
<1>5. ASSUME NEW k \in DOMAIN mutants
      PROVE  Judgement(m, mutants[k]) \in Event
  <2>1. mutants[k].summary \in Classes
    <3>1. PICK i \in P : mutants[k] = r[i]
      BY <1>3
    <3> HIDE DEF mutants
    <3> QED BY <3>1
  <2>2. Owner(m, mutants[k].file) \in Specs \cup {NoSpec}
    BY OwnerType
  <2> HIDE DEF mutants, P
  <2> QED BY <2>1, <2>2 DEF Judgement, Event, Whats
<1>7. \A k \in DOMAIN mutants : Judgement(m, mutants[k]).kind = "mutation_result"
  BY DEF Judgement
<1>6. DOMAIN mutants = 1..Len(mutants) /\ Len(mutants) \in Nat
  <2> HIDE DEF mutants
  <2> QED BY <1>3
<1> HIDE DEF mutants, P
<1> QED BY <1>4, <1>5, <1>6, <1>7

\* What the linter finds in a test are the three smells it knows.
LEMMA SmellsType ==
  ASSUME NEW t, t.tautologies \in Nat
  PROVE  Smells(t) \in Seq(SmellKinds)
<1> DEFINE A == IF t.asserts = 0 THEN <<"no-assertion">> ELSE << >>
           B == IF t.calls >= 3 /\ t.mocks * 10 >= t.calls * 9 THEN <<"mock-only">> ELSE << >>
           C == [i \in 1..t.tautologies |-> "tautological-assert"]
<1>1. A \in Seq(SmellKinds) /\ B \in Seq(SmellKinds)
  <2>1. <<"no-assertion">> \in Seq(SmellKinds) /\ <<"mock-only">> \in Seq(SmellKinds)
    BY DEF SmellKinds
  <2>2. << >> \in Seq(SmellKinds)
    OBVIOUS
  <2> QED BY <2>1, <2>2
<1>2. C \in Seq(SmellKinds)
  BY DEF SmellKinds
<1>3. Smells(t) = A \o B \o C
  BY DEF Smells
<1> HIDE DEF A, B, C
<1> QED BY <1>1, <1>2, <1>3

\* What a lint records of the test files are events about smells.
LEMMA FindingsType ==
  ASSUME NEW m, NEW tests \in Suites
  PROVE  /\ Findings(m, tests) \in Seq(Event)
         /\ \A i \in DOMAIN Findings(m, tests) :
              Findings(m, tests)[i].kind = "test_smell_detected"
<1>1. tests \in Seq(Range(tests)) /\ \A i \in DOMAIN tests : Counted(tests[i])
  BY EvaluatorsAssumption
<1> DEFINE Smelt == {e \in Event : e.kind = "test_smell_detected"}
           Of(i, j) == [kind |-> "test_smell_detected", spec |-> Owner(m, tests[i].file),
                        what |-> <<tests[i].fn, Smells(tests[i])[j]>>]
           Row(i) == [j \in DOMAIN Smells(tests[i]) |-> Of(i, j)]
           rows == [i \in DOMAIN tests |-> Row(i)]
<1>2. ASSUME NEW i \in DOMAIN tests
      PROVE  Row(i) \in Seq(Smelt)
  <2>1. tests[i].tautologies \in Nat
    BY <1>1 DEF Counted
  <2>2. Smells(tests[i]) \in Seq(SmellKinds)
    BY <2>1, SmellsType
  <2>3. tests[i].fn \in {t.fn : t \in Tests}
    BY DEF Tests, Range
  <2>4. ASSUME NEW j \in DOMAIN Smells(tests[i])
        PROVE  Of(i, j) \in Smelt
    <3>1. Owner(m, tests[i].file) \in Specs \cup {NoSpec}
      BY OwnerType
    <3>2. Smells(tests[i])[j] \in SmellKinds
      BY <2>2
    <3>3. <<tests[i].fn, Smells(tests[i])[j]>> \in Whats
      BY <2>3, <3>2 DEF Whats
    <3> QED BY <3>1, <3>3 DEF Event
  <2>5. DOMAIN Smells(tests[i]) = 1..Len(Smells(tests[i])) /\ Len(Smells(tests[i])) \in Nat
    BY <2>2
  <2> HIDE DEF Of
  <2> QED BY <2>4, <2>5
<1>3. DOMAIN tests = 1..Len(tests) /\ Len(tests) \in Nat
  BY <1>1
<1>4. rows \in Seq(Seq(Smelt))
  <2> HIDE DEF Row
  <2> QED BY <1>2, <1>3
<1>5. Findings(m, tests) = FlattenSeq(rows)
  BY DEF Findings
<1> HIDE DEF rows, Smelt
<1>6. Findings(m, tests) \in Seq(Smelt)
  BY <1>4, <1>5, FlattenType
<1>7. Smelt \subseteq Event /\ \A e \in Smelt : e.kind = "test_smell_detected"
  BY DEF Smelt
<1> QED BY <1>6, <1>7

\* doctor flags declared specs, in the order of their ids.
LEMMA SuspiciousType ==
  ASSUME NEW l, NEW sure
  PROVE  Suspicious(l, sure) \in Seq(Specs)
<1> DEFINE P == {i \in DOMAIN SpecIds :
                   /\ SpecIds[i] \in sure
                   /\ Below(Quality(l, SpecIds[i]), [over |-> 1, under |-> 2])}
<1>1. SpecIds \in Seq(Specs)
  BY EvaluatorsAssumption
<1>2. P \in SUBSET (1..Len(SpecIds))
  BY <1>1
<1>3. Suspicious(l, sure) = Only(SpecIds, P)
  BY DEF Suspicious
<1> HIDE DEF P
<1> QED BY <1>1, <1>2, <1>3, OnlyType

----------------------------------------------------------------------------
(* Types.                                                                  *)

\* A process that runs nothing is a process.
LEMMA IdleType ==
  /\ Idle \in Process /\ Idle.at = "done" /\ Idle.found = << >> /\ Idle.verb = "none"
  /\ Idle.todo = << >>
BY DEF Idle, Process

\* At the start every variable has its type.
LEMMA TypedInit == ASSUME Init PROVE Typed
<1> DEFINE First == [kind : {"test_outcome"}, spec : Specs, what : {"pass", "fail"}]
<1>0. Earlier \in Seq(First)
  BY EvaluatorsAssumption
<1>1. Earlier \in Seq(Event)
  <2>1. First \subseteq Event
    BY DEF Event, Whats
  <2> HIDE DEF First
  <2> QED BY <1>0, <2>1
<1>2. certain \subseteq Specs
  <2>1. \A i \in DOMAIN Earlier : Earlier[i] \in First
    <3> HIDE DEF First
    <3> QED BY <1>0
  <2>2. \A e \in First : e.spec \in Specs
    OBVIOUS
  <2> HIDE DEF First
  <2>3. certain = {Earlier[i].spec : i \in DOMAIN Earlier}
    BY DEF Init
  <2> QED BY <2>1, <2>2, <2>3
<1>3. << >> \in Seq(Entry)
  OBVIOUS
<1>4. \A w \in Worker : proc[w] = Idle
  BY DEF Init
<1> QED
  BY <1>1, <1>2, <1>3, <1>4, IdleType DEF Init, Typed, OnItsWay

\* Nothing is asked of a process that runs nothing.
LEMMA IdleOnItsWay == ASSUME NEW r PROVE OnItsWay(Idle, r)
BY IdleType DEF OnItsWay

\* One process goes on, the others do not notice.
LEMMA GotoKeeps ==
  ASSUME Typed, NEW w \in Worker, NEW p \in Process, OnItsWay(p, report'),
         proc' = [proc EXCEPT ![w] = p],
         report' = report \/ report' # NoReport
  PROVE  /\ proc' \in [Worker -> Process]
         /\ \A v \in Worker : OnItsWay(proc'[v], report')
<1>1. proc' \in [Worker -> Process]
  BY DEF Typed
<1>2. ASSUME NEW v \in Worker
      PROVE  OnItsWay(proc'[v], report')
  <2>1. CASE v = w
    BY <2>1 DEF Typed
  <2>2. CASE v # w
    <3>1. proc'[v] = proc[v] /\ OnItsWay(proc[v], report)
      BY <2>2 DEF Typed
    <3> QED BY <3>1 DEF OnItsWay
  <2> QED BY <2>1, <2>2
<1> QED BY <1>1, <1>2

\* The keys of typed events are typed.
LEMMA SmellKeysType ==
  ASSUME NEW l \in Seq(Event), NEW s
  PROVE  SmellKeys(l, s) \in SUBSET Whats
<1>1. \A i \in DOMAIN l : l[i] \in Event
  OBVIOUS
<1>2. \A e \in Event : e.what \in Whats
  BY DEF Event
<1> QED BY <1>1, <1>2 DEF SmellKeys

\* Every step keeps the types, and what each verb has in its memory.
LEMMA TypedNext == ASSUME Typed, [Next]_vars PROVE Typed'
<1> USE DEF Typed
<1>1. CASE UNCHANGED vars
  BY <1>1 DEF vars, repoVars, history
<1>2. CASE EditRepository
  BY <1>2 DEF EditRepository, Change, history
<1>3. CASE FilterRun
  BY <1>3 DEF FilterRun, Change, history, repoVars
<1>4. ASSUME NEW s \in Specs, RecordOutcome(s)
      PROVE  Typed'
  <2>1. \A o \in {"pass", "fail"} :
          [kind |-> "test_outcome", spec |-> s, what |-> o] \in Event
    BY DEF Event, Whats
  <2>2. log' \in Seq(Event)
    BY <1>4, <2>1 DEF RecordOutcome
  <2> QED BY <1>4, <2>2 DEF RecordOutcome, history, repoVars
<1>5. CASE Adjudicate
  <2>1. queue' \in Seq(Entry)
    BY <1>5 DEF Adjudicate, Entry
  <2> QED BY <1>5, <2>1 DEF Adjudicate, Change, history, repoVars
<1>6. ASSUME NEW w \in Worker, Start(w)
      PROVE  Typed'
  <2>1. PICK p : /\ proc' = [proc EXCEPT ![w] = p]
                 /\ \/ \E v \in {"evaluate", "lint"} :
                         p = [Idle EXCEPT !.verb = v, !.at = "gather", !.map = map]
                    \/ p = [Idle EXCEPT !.verb = "doctor", !.at = "query", !.sees = certain]
    BY <1>6 DEF Start, Goto
  <2>2. p \in Process /\ OnItsWay(p, report)
    <3>1. ASSUME NEW v \in {"evaluate", "lint"},
                 p = [Idle EXCEPT !.verb = v, !.at = "gather", !.map = map]
          PROVE  p \in Process /\ p.at = "gather" /\ p.found = << >>
      <4>1. p = [verb |-> v, at |-> "gather", map |-> map, todo |-> << >>,
                 found |-> << >>, sees |-> << >>]
        BY <3>1 DEF Idle
      <4>2. map \in Maps \cup {<< >>} /\ << >> \in Seq(Event) /\ << >> \in Seq(Entry)
        OBVIOUS
      <4> QED BY <4>1, <4>2 DEF Process
    <3>2. CASE p = [Idle EXCEPT !.verb = "doctor", !.at = "query", !.sees = certain]
      <4>1. certain \in SUBSET Specs /\ << >> \in Seq(Event)
        OBVIOUS
      <4>2. p = [verb |-> "doctor", at |-> "query", map |-> << >>, todo |-> << >>,
                 found |-> << >>, sees |-> certain]
        BY <3>2 DEF Idle
      <4>3. p \in Process /\ p.at = "query" /\ p.found = << >> /\ p.verb = "doctor"
        BY <4>1, <4>2 DEF Process
      <4> QED BY <4>3 DEF OnItsWay
    <3> QED BY <2>1, <3>1, <3>2 DEF OnItsWay
  <2>3. report' = report
    BY <1>6 DEF Start, repoVars
  <2>4. /\ proc' \in [Worker -> Process]
        /\ \A v \in Worker : OnItsWay(proc'[v], report')
    BY <2>1, <2>2, <2>3, GotoKeeps
  <2> QED BY <1>6, <2>4 DEF Start, history, repoVars
<1>7. ASSUME NEW w \in Worker, RunMutants(w)
      PROVE  Typed'
  <2>1. report' \in Reports \cup {report} /\ proc[w] \in Process
    BY <1>7 DEF RunMutants
  <2>2. report' = report \/ report' # NoReport
    BY <2>1, EvaluatorsAssumption
  <2> DEFINE p == IF report' = NoReport THEN Idle ELSE [proc[w] EXCEPT !.at = "parse"]
  <2>3. p \in Process /\ OnItsWay(p, report')
    <3>1. CASE report' = NoReport
      BY <3>1, IdleType, IdleOnItsWay
    <3>2. CASE report' # NoReport
      <4>1. OnItsWay(proc[w], report) /\ proc[w].verb = "evaluate" /\ proc[w].at = "gather"
        BY <1>7 DEF RunMutants
      <4>2. p = [proc[w] EXCEPT !.at = "parse"]
        BY <3>2
      <4>3. /\ p \in Process /\ p.at = "parse" /\ p.verb = "evaluate" /\ p.found = << >>
        BY <2>1, <4>1, <4>2 DEF Process, OnItsWay
      <4> HIDE DEF p
      <4> QED BY <3>2, <4>3 DEF OnItsWay
    <3> QED BY <3>1, <3>2
  <2>4. /\ proc' \in [Worker -> Process]
        /\ \A v \in Worker : OnItsWay(proc'[v], report')
    <3>1. proc' = [proc EXCEPT ![w] = p]
      BY <1>7 DEF RunMutants, Goto
    <3> HIDE DEF p
    <3> QED BY <3>1, <2>2, <2>3, GotoKeeps
  <2> QED BY <1>7, <2>1, <2>4 DEF RunMutants, history
<1>8. ASSUME NEW w \in Worker, GatherReport(w)
      PROVE  Typed'
  <2> DEFINE p == [proc[w] EXCEPT !.at = "emit", !.todo = Judgements(proc[w].map, report)]
  <2>1. /\ proc[w] \in Process /\ OnItsWay(proc[w], report) /\ proc[w].at = "parse"
        /\ proc' = [proc EXCEPT ![w] = p] /\ report' = report
    BY <1>8 DEF GatherReport, Goto, repoVars
  <2>2. report \in Reports /\ proc[w].verb = "evaluate" /\ proc[w].found = << >>
    BY <2>1 DEF OnItsWay
  <2>3. Judgements(proc[w].map, report) \in Seq(Event)
    BY <2>2, JudgementsType
  <2>4. /\ p \in Process /\ p.at = "emit" /\ p.verb = "evaluate" /\ p.found = << >>
        /\ p.todo \in Seq(Event)
    BY <2>1, <2>2, <2>3 DEF Process
  <2> HIDE DEF p
  <2>5. OnItsWay(p, report')
    BY <2>4 DEF OnItsWay
  <2>6. /\ proc' \in [Worker -> Process]
        /\ \A v \in Worker : OnItsWay(proc'[v], report')
    BY <2>1, <2>4, <2>5, GotoKeeps
  <2>7. judged' \subseteq (Maps \cup {<< >>}) \X Reports
    <3>1. proc[w].map \in Maps \cup {<< >>}
      BY <2>1 DEF Process
    <3>2. judged' = judged \cup {<<proc[w].map, report>>}
      BY <1>8 DEF GatherReport
    <3> QED BY <2>2, <3>1, <3>2
  <2> QED BY <1>8, <2>6, <2>7 DEF GatherReport, repoVars
<1>9. ASSUME NEW w \in Worker, GatherSmells(w)
      PROVE  Typed'
  <2> DEFINE found == Findings(proc[w].map, suite)
             p == [proc[w] EXCEPT !.at = "emit", !.todo = found, !.found = found]
  <2>1. /\ proc[w] \in Process /\ proc[w].verb = "lint"
        /\ proc' = [proc EXCEPT ![w] = p] /\ report' = report
        /\ smelt' = [s \in Specs |-> smelt[s] \cup SmellKeys(found, s)]
    BY <1>9 DEF GatherSmells, Goto, repoVars
  <2>2. /\ found \in Seq(Event)
        /\ \A i \in DOMAIN found : found[i].kind = "test_smell_detected"
    BY FindingsType
  <2> HIDE DEF found
  <2>3. /\ p \in Process /\ p.at = "emit" /\ p.verb = "lint" /\ p.todo \in Seq(Event)
        /\ p.todo = found
    BY <2>1, <2>2 DEF Process
  <2>4. smelt' \in [Specs -> SUBSET Whats]
    <3>1. \A s \in Specs : SmellKeys(found, s) \in SUBSET Whats
      BY <2>2, SmellKeysType
    <3> QED BY <2>1, <3>1
  <2> HIDE DEF p
  <2>5. OnItsWay(p, report')
    BY <2>2, <2>3 DEF OnItsWay
  <2>6. /\ proc' \in [Worker -> Process]
        /\ \A v \in Worker : OnItsWay(proc'[v], report')
    BY <2>1, <2>3, <2>5, GotoKeeps
  <2> QED BY <1>9, <2>4, <2>6 DEF GatherSmells, repoVars
<1>10. ASSUME NEW w \in Worker, Emit(w)
       PROVE  Typed'
  <2> DEFINE p == [proc[w] EXCEPT !.todo = Tail(@)]
  <2>1. /\ proc[w] \in Process /\ OnItsWay(proc[w], report) /\ proc[w].at = "emit"
        /\ proc[w].todo # << >> /\ log' = Append(log, Head(proc[w].todo))
        /\ proc' = [proc EXCEPT ![w] = p] /\ report' = report
    BY <1>10 DEF Emit, Goto, repoVars
  <2>2. proc[w].todo \in Seq(Event)
    BY <2>1 DEF OnItsWay
  <2>3. Tail(proc[w].todo) \in Seq(Event) /\ Head(proc[w].todo) \in Event
    BY <2>1, <2>2
  <2>4. log' \in Seq(Event)
    BY <2>1, <2>3
  <2>5. /\ p \in Process /\ p.at = "emit" /\ p.verb = proc[w].verb
        /\ p.found = proc[w].found /\ p.todo \in Seq(Event) /\ p.todo = Tail(proc[w].todo)
    BY <2>1, <2>3 DEF Process
  <2> HIDE DEF p
  <2>6. OnItsWay(p, report')
    <3>1. \A i \in DOMAIN p.todo : \E k \in DOMAIN proc[w].todo : p.todo[i] = proc[w].todo[k]
      <4>1. \A i \in DOMAIN p.todo : i + 1 \in DOMAIN proc[w].todo
                                     /\ p.todo[i] = proc[w].todo[i + 1]
        BY <2>1, <2>2, <2>5
      <4> QED BY <4>1
    <3> QED BY <2>1, <2>5, <3>1 DEF OnItsWay
  <2>7. /\ proc' \in [Worker -> Process]
        /\ \A v \in Worker : OnItsWay(proc'[v], report')
    BY <2>1, <2>5, <2>6, GotoKeeps
  <2> QED BY <1>10, <2>4, <2>7 DEF Emit, repoVars, history
<1>11. ASSUME NEW w \in Worker, Finish(w)
       PROVE  Typed'
  <2>1. /\ proc' = [proc EXCEPT ![w] = Idle] /\ report' = report
        /\ linted' = [s \in Specs |-> linted[s] \cup SmellKeys(proc[w].found, s)]
    BY <1>11 DEF Finish, Goto, repoVars
  <2>2. /\ proc' \in [Worker -> Process]
        /\ \A v \in Worker : OnItsWay(proc'[v], report')
    BY <2>1, IdleType, IdleOnItsWay, GotoKeeps
  <2>3. linted' \in [Specs -> SUBSET Whats]
    <3>1. proc[w].found \in Seq(Event)
      BY DEF Process
    <3>2. \A s \in Specs : SmellKeys(proc[w].found, s) \in SUBSET Whats
      BY <3>1, SmellKeysType
    <3> QED BY <2>1, <3>2
  <2> QED BY <1>11, <2>2, <2>3 DEF Finish, repoVars
<1>12. ASSUME NEW w \in Worker, Query(w)
       PROVE  Typed'
  <2> DEFINE flagged == Suspicious(log, proc[w].sees)
             p == IF flagged = << >> THEN Idle
                  ELSE [proc[w] EXCEPT !.at = "read", !.todo = flagged]
  <2>1. /\ proc[w] \in Process /\ OnItsWay(proc[w], report) /\ proc[w].at = "query"
        /\ proc' = [proc EXCEPT ![w] = p] /\ report' = report
    BY <1>12 DEF Query, Goto, repoVars
  <2>2. flagged \in Seq(Specs)
    BY SuspiciousType
  <2>3. p \in Process /\ OnItsWay(p, report')
    <3>1. CASE flagged = << >>
      BY <3>1, IdleType, IdleOnItsWay
    <3>2. CASE flagged # << >>
      <4>1. p = [proc[w] EXCEPT !.at = "read", !.todo = flagged]
        BY <3>2
      <4> HIDE DEF flagged, p
      <4>2. /\ p \in Process /\ p.at = "read" /\ p.verb = proc[w].verb
            /\ p.found = proc[w].found /\ p.todo \in Seq(Specs)
        BY <2>1, <2>2, <4>1 DEF Process
      <4> QED BY <2>1, <4>2 DEF OnItsWay
    <3> QED BY <3>1, <3>2
  <2> HIDE DEF p
  <2>4. /\ proc' \in [Worker -> Process]
        /\ \A v \in Worker : OnItsWay(proc'[v], report')
    BY <2>1, <2>3, GotoKeeps
  <2> QED BY <1>12, <2>4 DEF Query, repoVars, history
<1>13. ASSUME NEW w \in Worker, ReadQueue(w)
       PROVE  Typed'
  <2>a. << >> \in Seq(Entry) /\ queue \in Seq(Entry)
    OBVIOUS
  <2>b. PICK text : /\ proc' = [proc EXCEPT
                                  ![w] = [proc[w] EXCEPT !.at = "write", !.sees = text]]
                    /\ text = << >> \/ text = queue
    BY <1>13 DEF ReadQueue, Goto
  <2>c. text \in Seq(Entry)
    BY <2>a, <2>b
  <2> DEFINE p == [proc[w] EXCEPT !.at = "write", !.sees = text]
  <2>1. /\ proc[w] \in Process /\ OnItsWay(proc[w], report) /\ proc[w].at = "read"
        /\ proc' = [proc EXCEPT ![w] = p] /\ report' = report /\ text \in Seq(Entry)
    BY <1>13, <2>b, <2>c DEF ReadQueue, repoVars
  <2>2. /\ p \in Process /\ p.at = "write" /\ p.verb = proc[w].verb
        /\ p.found = proc[w].found /\ p.todo = proc[w].todo /\ p.sees \in Seq(Entry)
    BY <2>1 DEF Process
  <2> HIDE DEF p
  <2>3. OnItsWay(p, report')
    BY <2>1, <2>2 DEF OnItsWay
  <2>4. /\ proc' \in [Worker -> Process]
        /\ \A v \in Worker : OnItsWay(proc'[v], report')
    BY <2>1, <2>2, <2>3, GotoKeeps
  <2> QED BY <1>13, <2>4 DEF ReadQueue, repoVars, history
<1>14. ASSUME NEW w \in Worker, WriteQueue(w) \/ Die(w)
       PROVE  Typed'
  <2>1. proc' = [proc EXCEPT ![w] = Idle] /\ report' = report
    BY <1>14 DEF WriteQueue, Die, Goto, repoVars
  <2>2. /\ proc' \in [Worker -> Process]
        /\ \A v \in Worker : OnItsWay(proc'[v], report')
    BY <2>1, IdleType, IdleOnItsWay, GotoKeeps
  <2>3. ASSUME proc[w].at = "write"
        PROVE  proc[w].sees \o proc[w].todo \in Seq(Entry)
    <3>1. proc[w].sees \in Seq(Entry) /\ proc[w].todo \in Seq(Entry)
      BY <2>3 DEF OnItsWay, Entry
    <3> QED BY <3>1
  <2>4. CASE WriteQueue(w)
    <3>1. queue' \in Seq(Entry)
      BY <2>3, <2>4 DEF WriteQueue
    <3> QED BY <2>2, <2>4, <3>1 DEF WriteQueue, repoVars, history
  <2>5. CASE Die(w)
    <3>1. queue' \in Seq(Entry)
      <4>1. CASE proc[w].at = "write"
        <5> DEFINE q == proc[w].sees \o proc[w].todo
        <5>1. q \in Seq(Entry)
          BY <2>3, <4>1
        <5>2. \E n \in 0..Len(q) : queue' = SubSeq(q, 1, n)
          BY <2>5, <4>1 DEF Die
        <5> HIDE DEF q
        <5> QED BY <5>1, <5>2
      <4>2. CASE proc[w].at # "write"
        BY <2>5, <4>2 DEF Die
      <4> QED BY <4>1, <4>2
    <3>2. cut' \in [{"evaluate", "lint", "doctor"} -> Nat]
      <4>1. CASE proc[w].at \in {"emit", "write"}
        <5>1. proc[w].verb \in {"evaluate", "lint", "doctor"}
          BY <4>1 DEF OnItsWay
        <5>2. cut' = [cut EXCEPT ![proc[w].verb] = @ + 1]
          BY <2>5, <4>1 DEF Die
        <5> QED BY <5>1, <5>2
      <4>2. CASE proc[w].at \notin {"emit", "write"}
        BY <2>5, <4>2 DEF Die
      <4> QED BY <4>1, <4>2
    <3> QED BY <2>2, <2>5, <3>1, <3>2 DEF Die, repoVars
  <2> QED BY <1>14, <2>4, <2>5
<1> QED
  BY <1>1, <1>2, <1>3, <1>4, <1>5, <1>6, <1>7, <1>8, <1>9, <1>10, <1>11, <1>12,
     <1>13, <1>14 DEF Next

----------------------------------------------------------------------------
(* The review queue.                                                       *)

\* Who is about to write the queue has read it as it is, or is stale.
QueueRead ==
  \A w \in Worker : (proc[w].at = "write" /\ w \notin stale) => proc[w].sees = queue

\* Every step keeps what a doctor about to write has read.
LEMMA QueueReadNext == ASSUME Typed, QueueRead, [Next]_vars PROVE QueueRead'
<1> SUFFICES ASSUME NEW v \in Worker, proc'[v].at = "write", v \notin stale'
             PROVE  proc'[v].sees = queue'
  BY DEF QueueRead
<1>0. proc \in [Worker -> Process]
  BY DEF Typed
<1>1. CASE UNCHANGED <<proc, queue, stale>>
  BY <1>1 DEF QueueRead
<1>2. CASE Adjudicate
  BY <1>2 DEF Adjudicate, Change, Writers
<1>3. ASSUME NEW w \in Worker, WriteQueue(w) \/ Die(w), proc[w].at = "write"
      PROVE  proc'[v].sees = queue'
  <2>1. stale' = Writers \ {w} /\ proc' = [proc EXCEPT ![w] = Idle]
    BY <1>3 DEF WriteQueue, Die, Goto
  <2>2. CASE v = w
    BY <1>0, <2>1, <2>2, IdleType
  <2>3. CASE v # w
    BY <1>0, <2>1, <2>3 DEF Writers
  <2> QED BY <2>2, <2>3
<1>4. ASSUME NEW w \in Worker, ReadQueue(w)
      PROVE  proc'[v].sees = queue'
  <2>1. PICK text :
          /\ proc' = [proc EXCEPT ![w] = [proc[w] EXCEPT !.at = "write", !.sees = text]]
          /\ stale' = IF text = queue THEN stale ELSE stale \cup {w}
    BY <1>4 DEF ReadQueue, Goto
  <2>4. queue' = queue /\ proc[w] \in Process
    BY <1>0, <1>4 DEF ReadQueue
  <2>2. CASE v = w
    BY <1>0, <2>1, <2>2, <2>4 DEF Process
  <2>3. CASE v # w
    BY <1>0, <2>1, <2>3, <2>4 DEF QueueRead
  <2> QED BY <2>2, <2>3
\* Whoever else moves does not get to writing.
<1>5. ASSUME NEW w \in Worker, NEW p, proc' = [proc EXCEPT ![w] = p],
             p.at # "write", UNCHANGED <<queue, stale>>
      PROVE  proc'[v].sees = queue'
  <2>1. v # w
    BY <1>0, <1>5
  <2> QED BY <1>0, <1>5, <2>1 DEF QueueRead
<1>6. ASSUME NEW w \in Worker, Die(w), proc[w].at # "write"
      PROVE  proc'[v].sees = queue'
  <2>1. proc' = [proc EXCEPT ![w] = Idle] /\ UNCHANGED <<queue, stale>>
    BY <1>6 DEF Die, Goto
  <2> QED BY <1>5, <2>1, IdleType
<1>7. ASSUME NEW w \in Worker, Start(w)
      PROVE  proc'[v].sees = queue'
  <2>1. UNCHANGED <<queue, stale>>
    BY <1>7 DEF Start
  <2>2. \E p : proc' = [proc EXCEPT ![w] = p] /\ p.at # "write"
    <3>1. ASSUME NEW x, Goto(w, [Idle EXCEPT !.verb = x, !.at = "gather", !.map = map])
          PROVE  \E p : proc' = [proc EXCEPT ![w] = p] /\ p.at # "write"
      <4>1. [Idle EXCEPT !.verb = x, !.at = "gather", !.map = map].at # "write"
        BY DEF Idle
      <4> QED BY <3>1, <4>1 DEF Goto
    <3>2. CASE Goto(w, [Idle EXCEPT !.verb = "doctor", !.at = "query", !.sees = certain])
      <4>1. [Idle EXCEPT !.verb = "doctor", !.at = "query", !.sees = certain].at # "write"
        BY DEF Idle
      <4> QED BY <3>2, <4>1 DEF Goto
    <3> QED BY <1>7, <3>1, <3>2 DEF Start
  <2> QED BY <1>5, <2>1, <2>2
<1>8. ASSUME NEW w \in Worker,
             RunMutants(w) \/ GatherReport(w) \/ GatherSmells(w) \/ Emit(w) \/ Query(w)
      PROVE  proc'[v].sees = queue'
  <2>0. proc[w] \in Process
    BY <1>0
  <2>1. UNCHANGED <<queue, stale>>
    BY <1>8 DEF RunMutants, GatherReport, GatherSmells, Emit, Query
  <2>2. CASE RunMutants(w)
    <3>1. \E p : proc' = [proc EXCEPT ![w] = p] /\ p.at # "write"
      <4>1. CASE report' = NoReport
        BY <2>2, <4>1, IdleType DEF RunMutants, Goto
      <4>2. CASE report' # NoReport
        <5>1. [proc[w] EXCEPT !.at = "parse"].at # "write"
          BY <2>0 DEF Process
        <5> QED BY <2>2, <4>2, <5>1 DEF RunMutants, Goto
      <4> QED BY <4>1, <4>2
    <3> QED BY <1>5, <2>1, <3>1
  <2>3. CASE GatherReport(w)
    <3> DEFINE p == [proc[w] EXCEPT !.at = "emit", !.todo = Judgements(proc[w].map, report)]
    <3>1. p.at # "write"
      BY <2>0 DEF Process
    <3> QED BY <1>5, <2>1, <2>3, <3>1 DEF GatherReport, Goto
  <2>4. CASE GatherSmells(w)
    <3> DEFINE found == Findings(proc[w].map, suite)
               p == [proc[w] EXCEPT !.at = "emit", !.todo = found, !.found = found]
    <3>1. p.at # "write"
      BY <2>0 DEF Process
    <3> QED BY <1>5, <2>1, <2>4, <3>1 DEF GatherSmells, Goto
  <2>5. CASE Emit(w)
    <3> DEFINE p == [proc[w] EXCEPT !.todo = Tail(@)]
    <3>1. p.at # "write"
      BY <2>0, <2>5 DEF Process, Emit
    <3> QED BY <1>5, <2>1, <2>5, <3>1 DEF Emit, Goto
  <2>6. CASE Query(w)
    <3>1. \E p : proc' = [proc EXCEPT ![w] = p] /\ p.at # "write"
      <4> DEFINE flagged == Suspicious(log, proc[w].sees)
      <4>1. CASE flagged = << >>
        BY <2>6, <4>1, IdleType DEF Query, Goto
      <4>2. CASE flagged # << >>
        <5>1. [proc[w] EXCEPT !.at = "read", !.todo = flagged].at # "write"
          BY <2>0 DEF Process
        <5> QED BY <2>6, <4>2, <5>1 DEF Query, Goto
      <4> QED BY <4>1, <4>2
    <3> QED BY <1>5, <2>1, <3>1
  <2> QED BY <1>8, <2>2, <2>3, <2>4, <2>5, <2>6
<1>9. ASSUME NEW w \in Worker, Finish(w)
      PROVE  proc'[v].sees = queue'
  BY <1>5, <1>9, IdleType DEF Finish, Goto
<1>10. CASE EditRepository \/ FilterRun \/ \E s \in Specs : RecordOutcome(s)
  BY <1>1, <1>10 DEF EditRepository, FilterRun, RecordOutcome, Change
<1>11. CASE UNCHANGED vars
  BY <1>1, <1>11 DEF vars
<1>12. \A w \in Worker : WriteQueue(w) => proc[w].at = "write"
  BY DEF WriteQueue
<1> QED
  BY <1>2, <1>3, <1>4, <1>6, <1>7, <1>8, <1>9, <1>10, <1>11, <1>12 DEF Next

\* Only doctor and a person change the queue; a doctor that is not stale writes
\* what is there with its own entries behind.
LEMMA QueueStep ==
  ASSUME Typed, QueueRead, [Next]_vars,
         edits' = edits, cut'["doctor"] = cut["doctor"],
         \A w \in stale : proc'[w] = proc[w]
  PROVE  IsPrefix(queue, queue')
<1>0. queue \in Seq(Entry) /\ proc \in [Worker -> Process] /\ edits \in Nat
  BY DEF Typed
<1>1. CASE queue' = queue
  BY <1>0, <1>1 DEF IsPrefix
<1>2. CASE Adjudicate
  BY <1>0, <1>2 DEF Adjudicate, Change
<1>3. ASSUME NEW w \in Worker, WriteQueue(w)
      PROVE  IsPrefix(queue, queue')
  <2>1. /\ proc[w].at = "write" /\ queue' = proc[w].sees \o proc[w].todo
        /\ proc'[w] = Idle
    BY <1>0, <1>3 DEF WriteQueue, Goto
  <2>2. w \notin stale
    BY <2>1, IdleType
  <2>3. proc[w].sees = queue /\ proc[w].todo \in Seq(Entry)
    BY <2>1, <2>2 DEF QueueRead, Typed, OnItsWay, Entry
  <2>4. queue' = queue \o proc[w].todo
    BY <2>1, <2>3
  <2> QED BY <1>0, <2>3, <2>4 DEF IsPrefix
<1>4. ASSUME NEW w \in Worker, Die(w), proc[w].at = "write"
      PROVE  FALSE
  <2>1. proc[w].verb = "doctor"
    BY <1>4 DEF Typed, OnItsWay
  <2>2. cut' = [cut EXCEPT !["doctor"] = @ + 1]
    BY <1>4, <2>1 DEF Die
  <2>3. cut["doctor"] \in Nat
    BY DEF Typed
  <2> QED BY <2>2, <2>3 DEF Typed
<1>5. CASE UNCHANGED vars
  BY <1>1, <1>5 DEF vars
<1>6. CASE EditRepository \/ FilterRun \/ \E s \in Specs : RecordOutcome(s)
  BY <1>1, <1>6 DEF EditRepository, FilterRun, RecordOutcome
<1>7. ASSUME NEW w \in Worker,
             \/ Start(w) \/ RunMutants(w) \/ GatherReport(w) \/ GatherSmells(w)
             \/ Emit(w) \/ Finish(w) \/ Query(w) \/ ReadQueue(w)
             \/ Die(w) /\ proc[w].at # "write"
      PROVE  queue' = queue
  BY <1>7 DEF Start, RunMutants, GatherReport, GatherSmells, Emit, Finish, Query,
              ReadQueue, Die
<1> QED BY <1>1, <1>2, <1>3, <1>4, <1>5, <1>6, <1>7 DEF Next

\* QueueKept: a doctor that writes the review queue adds to it, unless the
\* queue was changed or cut since it was read, or could not be read, which
\* doctor's run_suspicious takes for an empty queue.
THEOREM QueueStaysKept == Spec => QueueKept
<1>1. Init => Typed /\ QueueRead
  <2>1. ASSUME Init PROVE QueueRead
    BY <2>1, IdleType DEF Init, QueueRead
  <2> QED BY <2>1, TypedInit
<1>2. Typed /\ QueueRead /\ [Next]_vars => Typed' /\ QueueRead'
  BY TypedNext, QueueReadNext
<1>3. Typed /\ QueueRead /\ [Next]_vars =>
        [ (/\ edits' = edits
           /\ cut'["doctor"] = cut["doctor"]
           /\ \A w \in stale : proc'[w] = proc[w]) => IsPrefix(queue, queue') ]_vars
  BY QueueStep
<1> QED BY <1>1, <1>2, <1>3, PTL DEF Spec, QueueKept

----------------------------------------------------------------------------
(* Smells.                                                                 *)

IsSmell(e, s) == e.kind = "test_smell_detected" /\ e.spec = s

\* A smell is in the log where an event holds it.
LEMMA KeysOf ==
  ASSUME NEW l, NEW s, NEW k
  PROVE  k \in SmellKeys(l, s) <=> \E i \in DOMAIN l : IsSmell(l[i], s) /\ k = l[i].what
BY DEF SmellKeys, IsSmell

\* One more event is at most one more key.
LEMMA KeysAppend ==
  ASSUME NEW l \in Seq(Event), NEW e \in Event, NEW s
  PROVE  SmellKeys(Append(l, e), s)
           = SmellKeys(l, s) \cup (IF IsSmell(e, s) THEN {e.what} ELSE {})
<1> DEFINE m == Append(l, e)
<1>1. /\ DOMAIN m = 1..(Len(l) + 1) /\ DOMAIN l = 1..Len(l) /\ Len(l) \in Nat
      /\ m[Len(l) + 1] = e /\ \A i \in 1..Len(l) : m[i] = l[i]
  OBVIOUS
<1>2. \A i \in 1..(Len(l) + 1) : i \in 1..Len(l) \/ i = Len(l) + 1
  BY <1>1
<1>3. Len(l) + 1 \in 1..(Len(l) + 1) /\ \A i \in 1..Len(l) : i \in 1..(Len(l) + 1)
  BY <1>1
<1> HIDE DEF m
<1>4. ASSUME NEW k
      PROVE  k \in SmellKeys(m, s) <=>
               k \in SmellKeys(l, s) \/ (IsSmell(e, s) /\ k = e.what)
  BY <1>1, <1>2, <1>3, KeysOf
<1>5. SmellKeys(m, s) = SmellKeys(l, s) \cup (IF IsSmell(e, s) THEN {e.what} ELSE {})
  BY <1>4
<1> QED BY <1>5 DEF m

\* Recording the first of a sequence leaves the smells of the rest.
LEMMA KeysTail ==
  ASSUME NEW l \in Seq(Event), l # << >>, NEW s
  PROVE  SmellKeys(l, s)
           = SmellKeys(Tail(l), s) \cup (IF IsSmell(Head(l), s) THEN {Head(l).what} ELSE {})
<1> DEFINE t == Tail(l)
           e == Head(l)
<1>1. /\ DOMAIN t = 1..(Len(l) - 1) /\ DOMAIN l = 1..Len(l) /\ Len(l) \in Nat /\ Len(l) > 0
      /\ l[1] = e /\ \A i \in 1..(Len(l) - 1) : t[i] = l[i + 1]
  OBVIOUS
<1>2. \A i \in 1..Len(l) : i = 1 \/ (i - 1 \in 1..(Len(l) - 1) /\ (i - 1) + 1 = i)
  BY <1>1
<1>3. 1 \in 1..Len(l) /\ \A i \in 1..(Len(l) - 1) : i + 1 \in 1..Len(l)
  BY <1>1
<1> HIDE DEF t, e
<1>4. ASSUME NEW k
      PROVE  k \in SmellKeys(l, s) <=>
               k \in SmellKeys(t, s) \/ (IsSmell(e, s) /\ k = e.what)
  <2>1. ASSUME k \in SmellKeys(l, s)
        PROVE  k \in SmellKeys(t, s) \/ (IsSmell(e, s) /\ k = e.what)
    <3>1. PICK i \in 1..Len(l) : IsSmell(l[i], s) /\ k = l[i].what
      BY <1>1, <2>1, KeysOf
    <3>2. CASE i # 1
      <4>1. i - 1 \in DOMAIN t /\ t[i - 1] = l[i]
        BY <1>1, <1>2, <3>2
      <4> QED BY <3>1, <4>1, KeysOf
    <3> QED BY <1>1, <3>1, <3>2
  <2>2. ASSUME k \in SmellKeys(t, s)
        PROVE  k \in SmellKeys(l, s)
    <3>1. PICK i \in 1..(Len(l) - 1) : IsSmell(t[i], s) /\ k = t[i].what
      BY <1>1, <2>2, KeysOf
    <3>2. i + 1 \in DOMAIN l /\ l[i + 1] = t[i]
      BY <1>1, <1>3
    <3> QED BY <3>1, <3>2, KeysOf
  <2>3. (IsSmell(e, s) /\ k = e.what) => k \in SmellKeys(l, s)
    BY <1>1, <1>3, KeysOf
  <2> QED BY <2>1, <2>2, <2>3
<1>5. SmellKeys(l, s) = SmellKeys(t, s) \cup (IF IsSmell(e, s) THEN {e.what} ELSE {})
  BY <1>4
<1> QED BY <1>5 DEF t, e

\* A log holds finitely many smells.
LEMMA KeysFinite ==
  ASSUME NEW l \in Seq(Event), NEW s
  PROVE  IsFiniteSet(SmellKeys(l, s))
<1> DEFINE D == {i \in DOMAIN l : IsSmell(l[i], s)}
           f == [i \in D |-> l[i].what]
<1>1. IsFiniteSet(D)
  <2>1. DOMAIN l = 1..Len(l) /\ Len(l) \in Int /\ 1 \in Int
    OBVIOUS
  <2>2. IsFiniteSet(1..Len(l))
    BY <2>1, FS_Interval
  <2>3. D \in SUBSET (1..Len(l))
    BY <2>1
  <2> HIDE DEF D
  <2> QED BY <2>2, <2>3, FS_Subset
<1>2. f \in Surjection(D, SmellKeys(l, s))
  <2>1. \A i \in D : l[i].what \in SmellKeys(l, s)
    BY KeysOf
  <2>2. \A k \in SmellKeys(l, s) : \E i \in D : l[i].what = k
    BY KeysOf
  <2> HIDE DEF D
  <2> QED BY <2>1, <2>2 DEF Surjection
<1> HIDE DEF D, f
<1> QED BY <1>1, <1>2, FS_Surjection

\* An empty sequence holds no smell.
LEMMA NoKeys ==
  ASSUME NEW l, NEW s, \A i \in DOMAIN l : l[i].kind # "test_smell_detected"
  PROVE  SmellKeys(l, s) = {}
BY DEF SmellKeys

\* What a lint found is in the log or still to be recorded, and all that is
\* recorded was found.
Recorded(w, s) ==
  proc[w].at = "emit" =>
    /\ SmellKeys(proc[w].todo, s) \subseteq smelt[s]
    /\ SmellKeys(proc[w].found, s) \subseteq SmellKeys(log, s) \cup SmellKeys(proc[w].todo, s)

SmellsRecorded ==
  \A s \in Specs :
    /\ SmellKeys(log, s) \subseteq smelt[s]
    /\ linted[s] \subseteq SmellKeys(log, s)
    /\ IsFiniteSet(smelt[s])
    /\ \A w \in Worker : Recorded(w, s)

\* Who is not recording anything does not matter.
LEMMA SilentMove ==
  ASSUME Typed, SmellsRecorded, NEW w \in Worker, NEW p, p.at # "emit",
         proc' = [proc EXCEPT ![w] = p], UNCHANGED <<log, smelt, linted>>
  PROVE  SmellsRecorded'
<1>1. proc \in [Worker -> Process]
  BY DEF Typed
<1>2. ASSUME NEW v \in Worker, NEW s \in Specs
      PROVE  Recorded(v, s)'
  <2>1. CASE v = w
    BY <1>1, <2>1 DEF Recorded
  <2>2. CASE v # w
    BY <1>1, <2>2 DEF SmellsRecorded, Recorded
  <2> QED BY <2>1, <2>2
<1> QED BY <1>2 DEF SmellsRecorded

\* The moves that neither begin nor end in the middle of recording.
LEMMA SilentMoves ==
  ASSUME NEW w \in Worker, proc[w] \in Process,
         \/ Start(w) \/ RunMutants(w) \/ Query(w) \/ ReadQueue(w)
         \/ WriteQueue(w) \/ Die(w)
  PROVE  \E p : proc' = [proc EXCEPT ![w] = p] /\ p.at # "emit"
<1>1. CASE Start(w)
  <2>1. ASSUME NEW x, Goto(w, [Idle EXCEPT !.verb = x, !.at = "gather", !.map = map])
        PROVE  \E p : proc' = [proc EXCEPT ![w] = p] /\ p.at # "emit"
    <3>1. [Idle EXCEPT !.verb = x, !.at = "gather", !.map = map].at # "emit"
      BY DEF Idle
    <3> QED BY <2>1, <3>1 DEF Goto
  <2>2. CASE Goto(w, [Idle EXCEPT !.verb = "doctor", !.at = "query", !.sees = certain])
    <3>1. [Idle EXCEPT !.verb = "doctor", !.at = "query", !.sees = certain].at # "emit"
      BY DEF Idle
    <3> QED BY <2>2, <3>1 DEF Goto
  <2> QED BY <1>1, <2>1, <2>2 DEF Start
<1>2. CASE RunMutants(w)
  <2>1. [proc[w] EXCEPT !.at = "parse"].at # "emit"
    BY DEF Process
  <2>2. CASE report' = NoReport
    BY <1>2, <2>2, IdleType DEF RunMutants, Goto
  <2>3. CASE report' # NoReport
    BY <1>2, <2>1, <2>3 DEF RunMutants, Goto
  <2> QED BY <2>2, <2>3
<1>3. CASE Query(w)
  <2> DEFINE flagged == Suspicious(log, proc[w].sees)
  <2>1. [proc[w] EXCEPT !.at = "read", !.todo = flagged].at # "emit"
    BY DEF Process
  <2>2. CASE flagged = << >>
    BY <1>3, <2>2, IdleType DEF Query, Goto
  <2>3. CASE flagged # << >>
    BY <1>3, <2>1, <2>3 DEF Query, Goto
  <2> QED BY <2>2, <2>3
<1>4. CASE ReadQueue(w)
  <2>1. \A text : [proc[w] EXCEPT !.at = "write", !.sees = text].at # "emit"
    BY DEF Process
  <2> QED BY <1>4, <2>1 DEF ReadQueue, Goto
<1>5. CASE WriteQueue(w) \/ Die(w)
  BY <1>5, IdleType DEF WriteQueue, Die, Goto
<1> QED BY <1>1, <1>2, <1>3, <1>4, <1>5

\* Every step keeps what lints have found and recorded in step.
LEMMA SmellsNext == ASSUME Typed, Typed', SmellsRecorded, [Next]_vars PROVE SmellsRecorded'
<1>0. /\ proc \in [Worker -> Process] /\ log \in Seq(Event)
      /\ smelt \in [Specs -> SUBSET Whats] /\ linted \in [Specs -> SUBSET Whats]
  BY DEF Typed
<1>1. CASE UNCHANGED <<proc, log, smelt, linted>>
  BY <1>1 DEF SmellsRecorded, Recorded
<1>2. ASSUME NEW o \in Specs, RecordOutcome(o)
      PROVE  SmellsRecorded'
  <2>1. UNCHANGED <<proc, smelt, linted>>
    BY <1>2 DEF RecordOutcome, history
  <2>2. ASSUME NEW s \in Specs
        PROVE  SmellKeys(log', s) = SmellKeys(log, s)
    <3>1. PICK x \in {"pass", "fail"} :
            log' = Append(log, [kind |-> "test_outcome", spec |-> o, what |-> x])
      BY <1>2 DEF RecordOutcome
    <3> DEFINE e == [kind |-> "test_outcome", spec |-> o, what |-> x]
    <3>2. e \in Event /\ ~IsSmell(e, s)
      BY DEF Event, Whats, IsSmell
    <3> HIDE DEF e
    <3>3. log' = Append(log, e)
      BY <3>1 DEF e
    <3> QED BY <1>0, <3>2, <3>3, KeysAppend
  <2> QED BY <2>1, <2>2 DEF SmellsRecorded, Recorded
<1>3. ASSUME NEW w \in Worker, GatherReport(w)
      PROVE  SmellsRecorded'
  <2> DEFINE p == [proc[w] EXCEPT !.at = "emit", !.todo = Judgements(proc[w].map, report)]
  <2>1. /\ proc' = [proc EXCEPT ![w] = p] /\ UNCHANGED <<log, smelt, linted>>
        /\ proc[w] \in Process /\ report \in Reports /\ proc[w].found = << >>
    BY <1>0, <1>3 DEF GatherReport, Goto, Typed, OnItsWay
  <2>2. p.todo = Judgements(proc[w].map, report) /\ p.found = << >>
    BY <2>1 DEF Process
  <2>3. \A s \in Specs : SmellKeys(p.todo, s) = {} /\ SmellKeys(p.found, s) = {}
    <3>1. \A i \in DOMAIN p.todo : p.todo[i].kind = "mutation_result"
      BY <2>1, <2>2, JudgementsType
    <3>2. \A i \in DOMAIN p.found : p.found[i].kind # "test_smell_detected"
      BY <2>2
    <3> HIDE DEF p
    <3> QED BY <3>1, <3>2, NoKeys
  <2>4. ASSUME NEW v \in Worker, NEW s \in Specs
        PROVE  Recorded(v, s)'
    <3> HIDE DEF p
    <3>1. CASE v = w
      BY <1>0, <2>1, <2>3, <3>1 DEF Recorded
    <3>2. CASE v # w
      BY <1>0, <2>1, <3>2 DEF SmellsRecorded, Recorded
    <3> QED BY <3>1, <3>2
  <2> QED BY <2>1, <2>4 DEF SmellsRecorded
<1>4. ASSUME NEW w \in Worker, GatherSmells(w)
      PROVE  SmellsRecorded'
  <2> DEFINE found == Findings(proc[w].map, suite)
             p == [proc[w] EXCEPT !.at = "emit", !.todo = found, !.found = found]
  <2>1. /\ proc' = [proc EXCEPT ![w] = p] /\ UNCHANGED <<log, linted>>
        /\ smelt' = [s \in Specs |-> smelt[s] \cup SmellKeys(found, s)]
        /\ proc[w] \in Process
    BY <1>0, <1>4 DEF GatherSmells, Goto
  <2>2. found \in Seq(Event)
    BY FindingsType DEF Typed
  <2> HIDE DEF found
  <2>3. p.todo = found /\ p.found = found
    BY <2>1 DEF Process
  <2> HIDE DEF p
  <2>4. ASSUME NEW s \in Specs
        PROVE  smelt'[s] = smelt[s] \cup SmellKeys(found, s) /\ IsFiniteSet(smelt'[s])
    <3>1. IsFiniteSet(smelt[s]) /\ IsFiniteSet(SmellKeys(found, s))
      BY <2>2, KeysFinite DEF SmellsRecorded
    <3>2. smelt'[s] = smelt[s] \cup SmellKeys(found, s)
      BY <2>1
    <3> QED BY <3>1, <3>2, FS_Union
  <2>5. ASSUME NEW v \in Worker, NEW s \in Specs
        PROVE  Recorded(v, s)'
    <3>1. CASE v = w
      BY <1>0, <2>1, <2>3, <2>4, <3>1 DEF Recorded
    <3>2. CASE v # w
      BY <1>0, <2>1, <2>4, <3>2 DEF SmellsRecorded, Recorded
    <3> QED BY <3>1, <3>2
  <2> QED BY <2>1, <2>4, <2>5 DEF SmellsRecorded
<1>5. ASSUME NEW w \in Worker, Emit(w)
      PROVE  SmellsRecorded'
  <2> DEFINE p == [proc[w] EXCEPT !.todo = Tail(@)]
             e == Head(proc[w].todo)
  <2>1. /\ proc' = [proc EXCEPT ![w] = p] /\ UNCHANGED <<smelt, linted>>
        /\ log' = Append(log, e) /\ proc[w].at = "emit" /\ proc[w].todo # << >>
        /\ proc[w] \in Process /\ proc[w].todo \in Seq(Event)
    BY <1>0, <1>5 DEF Emit, Goto, Typed, OnItsWay, history
  <2>2. p.todo = Tail(proc[w].todo) /\ p.found = proc[w].found /\ e \in Event
    BY <2>1 DEF Process
  <2> HIDE DEF p
  <2>3. ASSUME NEW s \in Specs
        PROVE  \E K : /\ SmellKeys(log', s) = SmellKeys(log, s) \cup K
                      /\ SmellKeys(proc[w].todo, s) = SmellKeys(p.todo, s) \cup K
    <3> DEFINE K == IF IsSmell(e, s) THEN {e.what} ELSE {}
    <3>1. SmellKeys(log', s) = SmellKeys(log, s) \cup K
      BY <1>0, <2>1, <2>2, KeysAppend
    <3>2. SmellKeys(proc[w].todo, s) = SmellKeys(p.todo, s) \cup K
      BY <2>1, <2>2, KeysTail
    <3> HIDE DEF K
    <3> QED BY <3>1, <3>2
  <2> HIDE DEF e
  <2>4. ASSUME NEW s \in Specs
        PROVE  /\ SmellKeys(log', s) \subseteq smelt[s]
               /\ SmellKeys(log, s) \subseteq SmellKeys(log', s)
    BY <2>1, <2>3 DEF SmellsRecorded, Recorded
  <2>5. ASSUME NEW v \in Worker, NEW s \in Specs
        PROVE  Recorded(v, s)'
    <3>1. CASE v = w
      <4>1. /\ SmellKeys(proc[w].todo, s) \subseteq smelt[s]
            /\ SmellKeys(proc[w].found, s)
                 \subseteq SmellKeys(log, s) \cup SmellKeys(proc[w].todo, s)
        BY <2>1 DEF SmellsRecorded, Recorded
      <4>2. proc'[v] = p
        BY <1>0, <2>1, <3>1
      <4> QED BY <2>1, <2>2, <2>3, <4>1, <4>2 DEF Recorded
    <3>2. CASE v # w
      BY <1>0, <2>1, <2>4, <3>2 DEF SmellsRecorded, Recorded
    <3> QED BY <3>1, <3>2
  <2> QED BY <2>1, <2>4, <2>5 DEF SmellsRecorded
<1>6. ASSUME NEW w \in Worker, Finish(w)
      PROVE  SmellsRecorded'
  <2>1. /\ proc' = [proc EXCEPT ![w] = Idle] /\ UNCHANGED <<log, smelt>>
        /\ linted' = [s \in Specs |-> linted[s] \cup SmellKeys(proc[w].found, s)]
        /\ proc[w].at = "emit" /\ proc[w].todo = << >>
    BY <1>6 DEF Finish, Goto
  <2>2. ASSUME NEW s \in Specs
        PROVE  linted'[s] \subseteq SmellKeys(log, s)
    <3>1. SmellKeys(proc[w].todo, s) = {}
      BY <2>1, NoKeys
    <3>2. SmellKeys(proc[w].found, s) \subseteq SmellKeys(log, s)
      BY <2>1, <3>1 DEF SmellsRecorded, Recorded
    <3> QED BY <2>1, <3>2 DEF SmellsRecorded
  <2>3. ASSUME NEW v \in Worker, NEW s \in Specs
        PROVE  Recorded(v, s)'
    <3>1. CASE v = w
      BY <1>0, <2>1, <3>1, IdleType DEF Recorded
    <3>2. CASE v # w
      BY <1>0, <2>1, <3>2 DEF SmellsRecorded, Recorded
    <3> QED BY <3>1, <3>2
  <2> QED BY <2>1, <2>2, <2>3 DEF SmellsRecorded
<1>7. ASSUME NEW w \in Worker,
             \/ Start(w) \/ RunMutants(w) \/ Query(w) \/ ReadQueue(w)
             \/ WriteQueue(w) \/ Die(w)
      PROVE  SmellsRecorded'
  <2>0. proc[w] \in Process
    BY <1>0
  <2>1. UNCHANGED <<log, smelt, linted>>
    BY <1>7 DEF Start, RunMutants, Query, ReadQueue, WriteQueue, Die, history
  <2>2. \E p : proc' = [proc EXCEPT ![w] = p] /\ p.at # "emit"
    BY <1>7, <2>0, SilentMoves
  <2> QED BY <2>1, <2>2, SilentMove
<1>8. CASE EditRepository \/ FilterRun \/ Adjudicate
  BY <1>1, <1>8 DEF EditRepository, FilterRun, Adjudicate, Change, history
<1>9. CASE UNCHANGED vars
  BY <1>1, <1>9 DEF vars, history
<1> QED BY <1>2, <1>3, <1>4, <1>5, <1>6, <1>7, <1>8, <1>9 DEF Next

\* At the start no lint has found anything.
LEMMA SmellsInit == ASSUME Init PROVE SmellsRecorded
<1> DEFINE First == [kind : {"test_outcome"}, spec : Specs, what : {"pass", "fail"}]
<1>1. \A i \in DOMAIN log : log[i].kind # "test_smell_detected"
  <2>1. log \in Seq(First)
    BY EvaluatorsAssumption DEF Init
  <2>2. \A e \in First : e.kind # "test_smell_detected"
    OBVIOUS
  <2> HIDE DEF First
  <2> QED BY <2>1, <2>2
<1>2. \A s \in Specs : SmellKeys(log, s) = {}
  BY <1>1, NoKeys
<1>3. \A w \in Worker : proc[w].at # "emit"
  BY IdleType DEF Init
<1> QED BY <1>2, <1>3, FS_EmptySet DEF Init, SmellsRecorded, Recorded

\* How many events of a log a condition picks is a number.
LEMMA CountType ==
  ASSUME NEW l \in Seq(Event), NEW s
  PROVE  Caught(l, s) \in Nat /\ Missed(l, s) \in Nat
<1>1. DOMAIN l = 1..Len(l) /\ Len(l) \in Int /\ 1 \in Int
  OBVIOUS
<1>2. IsFiniteSet(DOMAIN l)
  BY <1>1, FS_Interval
<1>3. \A D \in SUBSET DOMAIN l : Cardinality(D) \in Nat
  BY <1>2, FS_Subset, FS_CardinalityType
<1>4. /\ {i \in DOMAIN l : /\ l[i].kind = "mutation_result" /\ l[i].spec = s
                           /\ l[i].what = "caught"} \in SUBSET DOMAIN l
      /\ {i \in DOMAIN l : /\ l[i].kind = "mutation_result" /\ l[i].spec = s
                           /\ l[i].what \in {"missed", "timeout"}} \in SUBSET DOMAIN l
  OBVIOUS
<1>5. /\ Caught(l, s) = Cardinality({i \in DOMAIN l : /\ l[i].kind = "mutation_result"
                           /\ l[i].spec = s /\ l[i].what = "caught"})
      /\ Missed(l, s) = Cardinality({i \in DOMAIN l : /\ l[i].kind = "mutation_result"
                           /\ l[i].spec = s /\ l[i].what \in {"missed", "timeout"}})
  BY DEF Caught, Missed
<1> QED BY <1>3, <1>4, <1>5, Zenon

\* More smells, no more trust.
LEMMA PenaltyFalls ==
  ASSUME NEW m \in Nat, NEW n \in Nat, m <= n
  PROVE  Penalty(n) <= Penalty(m) /\ Penalty(n) \in 30..100
BY DEF Penalty

\* A clamped fraction is a fraction.
LEMMA ClampedType ==
  ASSUME NEW q, q.over \in Int, q.under \in Nat \ {0}
  PROVE  /\ Clamped(q).over \in Nat /\ Clamped(q).under \in Nat \ {0}
         /\ 3 * Clamped(q).under <= 10 * Clamped(q).over
BY DEF Clamped

\* A fraction that is taken off does not raise a quality, whether or not what is
\* left is clamped.
LEMMA LessIsNotAbove ==
  ASSUME NEW o \in Nat, NEW u \in Nat \ {0}, 3 * u <= 10 * o,
         NEW a \in Nat \ {0}, NEW b \in Int, b <= a
  PROVE  ~Below([over |-> o, under |-> u], Clamped([over |-> o * b, under |-> u * a]))
<1> DEFINE t == [over |-> o * b, under |-> u * a]
<1>1. CASE 10 * (o * b) < 3 * (u * a)
  <2>1. Clamped(t) = [over |-> 3, under |-> 10]
    BY <1>1 DEF Clamped
  <2> QED BY <2>1 DEF Below
<1>2. CASE ~(10 * (o * b) < 3 * (u * a))
  <2>1. Clamped(t) = t
    BY <1>2 DEF Clamped
  <2>2. ~(o * (u * a) < (o * b) * u)
    <3> DEFINE p == o * u
    <3>1. p \in Nat
      OBVIOUS
    <3>2. p * b <= p * a
      <4> HIDE DEF p
      <4> QED BY <3>1
    <3>3. o * (u * a) = p * a /\ (o * b) * u = p * b
      OBVIOUS
    <3>4. p * a \in Int /\ p * b \in Int
      BY <3>1
    <3> HIDE DEF p
    <3> QED BY <3>2, <3>3, <3>4
  <2> QED BY <2>1, <2>2 DEF Below
<1> QED BY <1>1, <1>2

\* A sum of numbers is a number.
LEMMA SumType ==
  ASSUME NEW n \in Nat, NEW c, \A i \in 1..n : c[i] \in Nat
  PROVE  (CHOOSE f : f = [i \in 0..n |-> IF i = 0 THEN 0 ELSE f[i - 1] + c[i]])[n] \in Nat
<1> DEFINE Is(f) == f = [i \in 0..n |-> IF i = 0 THEN 0 ELSE f[i - 1] + c[i]]
           sum == CHOOSE f : Is(f)
<1> DEFINE step == [p \in Nat \X Nat |->
                      IF p[1] \in 1..n THEN p[2] + c[p[1]] ELSE p[2]]
<1>1. step \in [Nat \X Nat -> Nat]
  OBVIOUS
<1>2. PICK f \in [0..n -> Nat] : Follows(f, 0, step, n)
  <2> HIDE DEF step
  <2> QED BY <1>1, Recursion
<1>3. ASSUME NEW i \in 1..n
      PROVE  f[i] = f[i - 1] + c[i]
  <2>1. i \in Nat /\ i - 1 \in 0..n /\ f[i - 1] \in Nat
    BY <1>2
  <2>2. step[<<i, f[i - 1]>>] = f[i - 1] + c[i]
    BY <2>1
  <2> HIDE DEF step
  <2> QED BY <1>2, <2>2 DEF Follows
<1>4. \A i \in 0..n : i = 0 \/ i \in 1..n
  OBVIOUS
<1> HIDE DEF step
<1>5. Is(f)
  BY <1>2, <1>3, <1>4 DEF Follows
<1>6. Is(sum)
  <2> HIDE DEF Is
  <2> QED BY <1>5
<1>7. \A i \in 0..n : sum[i] = IF i = 0 THEN 0 ELSE sum[i - 1] + c[i]
  <2> HIDE DEF sum
  <2> QED BY <1>6
<1> DEFINE T == {i \in Nat : i <= n => sum[i] \in Nat}
<1> HIDE DEF sum, Is
<1>8. \A i \in Nat : i \in T <=> (i <= n => sum[i] \in Nat)
  OBVIOUS
<1> HIDE DEF T
<1>9. 0 \in T
  BY <1>7, <1>8
<1>10. ASSUME NEW i \in Nat, i \in T
       PROVE  i + 1 \in T
  <2> SUFFICES ASSUME i + 1 <= n PROVE sum[i + 1] \in Nat
    BY <1>8
  <2>1. i + 1 \in 0..n /\ i + 1 \in 1..n /\ (i + 1) - 1 = i /\ i + 1 # 0 /\ i <= n
    OBVIOUS
  <2>2. sum[i + 1] = sum[i] + c[i + 1] /\ sum[i] \in Nat
    BY <1>7, <1>8, <1>10, <2>1
  <2> QED BY <2>1, <2>2
<1>11. n \in T
  BY <1>9, <1>10, Induction
<1>12. sum[n] \in Nat
  BY <1>8, <1>11
<1> QED BY <1>12 DEF sum, Is

\* Flakiness is never negative.
LEMMA TrustIsLess ==
  ASSUME NEW l \in Seq(Event), NEW s \in Specs, IsFiniteSet(SmellKeys(l, s))
  PROVE  ~Below(Quality(l, s), Trust(l, s))
<1> DEFINE c == Caught(l, s)
           m == Missed(l, s)
           pen == Penalty(Cardinality(SmellKeys(l, s)))
           rate == IF c + m = 0 THEN [over |-> 1, under |-> 1]
                   ELSE [over |-> c, under |-> c + m]
           raw == [over |-> rate.over * pen, under |-> rate.under * 100]
           q == Quality(l, s)
<1>1. c \in Nat /\ m \in Nat
  BY CountType
<1>2. pen \in 30..100
  <2> DEFINE k == Cardinality(SmellKeys(l, s))
  <2>1. k \in Nat
    BY FS_CardinalityType
  <2> HIDE DEF k
  <2>2. Penalty(k) \in 30..100
    BY <2>1 DEF Penalty
  <2> QED BY <2>2 DEF k
<1>3. q = Clamped(raw)
  BY DEF Quality
<1>4. raw.over \in Int /\ raw.under \in Nat \ {0}
  <2> HIDE DEF c, m, pen
  <2> QED BY <1>1, <1>2
<1>5. q.over \in Nat /\ q.under \in Nat \ {0} /\ 3 * q.under <= 10 * q.over
  <2> HIDE DEF raw, q
  <2> QED BY <1>3, <1>4, ClampedType
<1>6. q = [over |-> q.over, under |-> q.under]
  <2> HIDE DEF c, m, pen
  <2> QED BY <1>3 DEF Clamped
<1> DEFINE n == Len(Clusters[s])
           Is(f) == f = [i \in 0..n |-> IF i = 0 THEN 0 ELSE f[i - 1] + Clusters[s][i]]
           sum == CHOOSE f : Is(f)
<1>7. Clusters[s] \in Seq(0..100) /\ n \in Nat
  BY EvaluatorsAssumption
<1>8. sum[n] \in Nat
  <2>1. \A i \in 1..n : Clusters[s][i] \in Nat
    <3> DEFINE c0 == Clusters[s]
    <3>1. c0 \in Seq(0..100) /\ n = Len(c0)
      BY <1>7
    <3> HIDE DEF c0, n
    <3>2. \A i \in 1..n : c0[i] \in 0..100
      BY <3>1
    <3>3. 0..100 \subseteq Nat
      OBVIOUS
    <3> QED BY <3>2, <3>3 DEF c0
  <2> HIDE DEF n
  <2> QED BY <1>7, <2>1, SumType
<1>9. Trust(l, s) = IF n = 0 THEN q
                    ELSE Clamped([over |-> q.over * (200 * n - sum[n]),
                                  under |-> q.under * (200 * n)])
  BY DEF Trust
<1> HIDE DEF sum, q, n, raw
<1>10. CASE n = 0
  <2>1. ~Below(q, q)
    BY <1>5 DEF Below
  <2> QED BY <1>9, <1>10, <2>1 DEF q
<1>11. CASE n # 0
  <2>1. 200 * n \in Nat \ {0} /\ 200 * n - sum[n] \in Int /\ 200 * n - sum[n] <= 200 * n
    BY <1>7, <1>8, <1>11
  <2> DEFINE a == 200 * n
             b == 200 * n - sum[n]
             o == q.over
             u == q.under
  <2>2. a \in Nat \ {0} /\ b \in Int /\ b <= a
    BY <2>1
  <2>3. o \in Nat /\ u \in Nat \ {0} /\ 3 * u <= 10 * o
    BY <1>5
  <2>4. Trust(l, s) = Clamped([over |-> o * b, under |-> u * a])
    BY <1>9, <1>11
  <2>5. q = [over |-> o, under |-> u]
    BY <1>6 DEF q
  <2> HIDE DEF a, b, o, u
  <2>6. ~Below([over |-> o, under |-> u], Trust(l, s))
    BY <2>2, <2>3, <2>4, LessIsNotAbove
  <2> QED BY <2>5, <2>6 DEF q
<1> QED BY <1>10, <1>11

\* Whatever lints die, overlap and repeat, a spec is blamed for what was found
\* and for all that an ended lint found, and clusters never add to its trust.
THEOREM TrustIsEarned == Spec => []TrustEarned
<1>1. Init => Typed /\ SmellsRecorded
  BY TypedInit, SmellsInit
<1>2. Typed /\ SmellsRecorded /\ [Next]_vars => Typed' /\ SmellsRecorded'
  BY TypedNext, SmellsNext
<1>3. Typed /\ SmellsRecorded => TrustEarned
  <2> SUFFICES ASSUME Typed, SmellsRecorded, NEW s \in Specs
               PROVE  LET penalty == Penalty(Cardinality(SmellKeys(log, s)))
                      IN  /\ Penalty(Cardinality(smelt[s])) <= penalty
                          /\ penalty <= Penalty(Cardinality(linted[s]))
                          /\ ~Below(Quality(log, s), Trust(log, s))
    BY DEF TrustEarned
  <2>1. /\ log \in Seq(Event) /\ IsFiniteSet(smelt[s])
        /\ linted[s] \subseteq SmellKeys(log, s) /\ SmellKeys(log, s) \subseteq smelt[s]
    BY DEF Typed, SmellsRecorded
  <2>2. IsFiniteSet(SmellKeys(log, s))
    BY <2>1, KeysFinite
  <2>3. /\ Cardinality(linted[s]) \in Nat /\ Cardinality(smelt[s]) \in Nat
        /\ Cardinality(SmellKeys(log, s)) \in Nat
        /\ Cardinality(linted[s]) <= Cardinality(SmellKeys(log, s))
        /\ Cardinality(SmellKeys(log, s)) <= Cardinality(smelt[s])
    BY <2>1, <2>2, FS_Subset, FS_CardinalityType
  <2>4. ~Below(Quality(log, s), Trust(log, s))
    BY <2>1, <2>2, TrustIsLess
  <2> QED BY <2>3, <2>4, PenaltyFalls
<1> QED BY <1>1, <1>2, <1>3, PTL DEF Spec

----------------------------------------------------------------------------
(* Rates.                                                                  *)

Sides == {{"caught"}, {"missed", "timeout"}}

Hit(e, s, C) == e.kind = "mutation_result" /\ e.spec = s /\ e.what \in C

Hits(l, s, C) == {i \in DOMAIN l : Hit(l[i], s, C)}

\* What a process still has to record, counted from the end: recording the first
\* of them does not move the others.
Waiting(w, t, s, C) ==
  {x \in {w} \X Nat : x[2] < Len(t) /\ Hit(t[Len(t) - x[2]], s, C)}

Pending(pr, s, C) ==
  {x \in Worker \X Nat : /\ pr[x[1]].at = "emit"
                         /\ x \in Waiting(x[1], pr[x[1]].todo, s, C)}

\* A sequence has as many positions as it is long.
LEMMA Domains ==
  ASSUME NEW S, NEW l \in Seq(S)
  PROVE  /\ DOMAIN l = 1..Len(l) /\ Len(l) \in Nat /\ IsFiniteSet(DOMAIN l)
         /\ Cardinality(DOMAIN l) = Len(l)
<1>1. DOMAIN l = 1..Len(l) /\ Len(l) \in Nat /\ Len(l) \in Int /\ 1 \in Int
  OBVIOUS
<1>2. /\ IsFiniteSet(1..Len(l))
      /\ Cardinality(1..Len(l)) = IF 1 > Len(l) THEN 0 ELSE Len(l) - 1 + 1
  BY <1>1, FS_Interval
<1> QED BY <1>1, <1>2

\* A log holds finitely many verdicts.
LEMMA HitsFinite ==
  ASSUME NEW l \in Seq(Event), NEW s, NEW C
  PROVE  IsFiniteSet(Hits(l, s, C)) /\ Cardinality(Hits(l, s, C)) \in Nat
<1>1. IsFiniteSet(DOMAIN l)
  BY Domains
<1>2. Hits(l, s, C) \in SUBSET DOMAIN l
  BY DEF Hits
<1> QED BY <1>1, <1>2, FS_Subset, FS_CardinalityType

\* Both counts of a calibration count verdicts.
LEMMA RatesAreHits ==
  ASSUME NEW l, NEW s
  PROVE  /\ Caught(l, s) = Cardinality(Hits(l, s, {"caught"}))
         /\ Missed(l, s) = Cardinality(Hits(l, s, {"missed", "timeout"}))
<1>1. Hits(l, s, {"caught"}) = {i \in DOMAIN l : /\ l[i].kind = "mutation_result"
                                                 /\ l[i].spec = s /\ l[i].what = "caught"}
  BY DEF Hits, Hit
<1>2. Hits(l, s, {"missed", "timeout"})
        = {i \in DOMAIN l : /\ l[i].kind = "mutation_result" /\ l[i].spec = s
                            /\ l[i].what \in {"missed", "timeout"}}
  BY DEF Hits, Hit
<1> QED BY <1>1, <1>2 DEF Caught, Missed

\* An event that is appended counts once.
LEMMA HitsAppend ==
  ASSUME NEW l \in Seq(Event), NEW e \in Event, NEW s, NEW C
  PROVE  Cardinality(Hits(Append(l, e), s, C))
           = Cardinality(Hits(l, s, C)) + (IF Hit(e, s, C) THEN 1 ELSE 0)
<1> DEFINE n == Len(l) + 1
           m == Append(l, e)
<1>1. /\ DOMAIN m = 1..n /\ DOMAIN l = 1..Len(l) /\ Len(l) \in Nat
      /\ m[n] = e /\ \A i \in 1..Len(l) : m[i] = l[i]
  OBVIOUS
<1>2. /\ \A i \in 1..n : i \in 1..Len(l) \/ i = n
      /\ n \in 1..n /\ n \notin 1..Len(l) /\ \A i \in 1..Len(l) : i \in 1..n
  BY <1>1
<1>3. IsFiniteSet(Hits(l, s, C)) /\ Cardinality(Hits(l, s, C)) \in Nat
  BY HitsFinite
<1> HIDE DEF n, m
<1>4. n \notin Hits(l, s, C)
  BY <1>1, <1>2 DEF Hits
<1>5. CASE Hit(e, s, C)
  <2>1. Hits(m, s, C) = Hits(l, s, C) \cup {n}
    BY <1>1, <1>2, <1>5 DEF Hits
  <2>2. Cardinality(Hits(m, s, C)) = Cardinality(Hits(l, s, C)) + 1
    BY <1>3, <1>4, <2>1, FS_AddElement
  <2> QED BY <1>5, <2>2 DEF m
<1>6. CASE ~Hit(e, s, C)
  <2>1. Hits(m, s, C) = Hits(l, s, C)
    BY <1>1, <1>2, <1>6 DEF Hits
  <2> QED BY <1>3, <1>6, <2>1 DEF m
<1> QED BY <1>5, <1>6

\* As many wait as there are hits.
LEMMA WaitingCounts ==
  ASSUME NEW w, NEW t \in Seq(Event), NEW s, NEW C
  PROVE  /\ IsFiniteSet(Waiting(w, t, s, C))
         /\ Cardinality(Waiting(w, t, s, C)) = Cardinality(Hits(t, s, C))
<1> DEFINE W == Waiting(w, t, s, C)
           H == Hits(t, s, C)
           n == Len(t)
           f == [x \in W |-> n - x[2]]
<1>1. n \in Nat /\ DOMAIN t = 1..n
  OBVIOUS
<1> HIDE DEF n
<1>2. ASSUME NEW x \in W
      PROVE  x[2] \in Nat /\ x[2] < n /\ x = <<w, x[2]>> /\ n - x[2] \in H
  <2>1. x \in {w} \X Nat /\ x[2] < n /\ Hit(t[n - x[2]], s, C)
    BY DEF Waiting, n
  <2>2. x[2] \in Nat /\ x = <<w, x[2]>> /\ n - x[2] \in 1..n
    BY <1>1, <2>1
  <2> QED BY <1>1, <2>1, <2>2 DEF Hits
<1>3. ASSUME NEW i \in H
      PROVE  <<w, n - i>> \in W /\ n - (n - i) = i
  <2>1. i \in 1..n /\ Hit(t[i], s, C)
    BY <1>1 DEF Hits
  <2>2. n - i \in Nat /\ n - i < n /\ n - (n - i) = i
    BY <1>1, <2>1
  <2>3. <<w, n - i>> \in {w} \X Nat /\ <<w, n - i>>[2] = n - i
    BY <2>2
  <2>4. Hit(t[n - <<w, n - i>>[2]], s, C)
    BY <2>1, <2>2, <2>3
  <2>5. <<w, n - i>>[2] < n
    BY <2>2, <2>3
  <2> QED BY <2>2, <2>3, <2>4, <2>5 DEF Waiting, n
<1> HIDE DEF W, H
<1>4. f \in [W -> H]
  BY <1>2
<1>5. f \in Injection(W, H)
  <2>1. ASSUME NEW x \in W, NEW y \in W, f[x] = f[y]
        PROVE  x = y
    <3>1. n - x[2] = n - y[2]
      BY <2>1
    <3>2. x[2] = y[2]
      BY <1>1, <1>2, <3>1
    <3> QED BY <1>2, <3>2
  <2> HIDE DEF f
  <2> QED BY <1>4, <2>1 DEF Injection, IsInjective
<1>6. f \in Surjection(W, H)
  <2>1. ASSUME NEW i \in H
        PROVE  \E x \in W : f[x] = i
    <3>1. <<w, n - i>> \in W /\ f[<<w, n - i>>] = n - (n - i)
      BY <1>3
    <3> QED BY <1>3, <3>1
  <2> HIDE DEF f
  <2> QED BY <1>4, <2>1 DEF Surjection
<1>7. IsFiniteSet(H)
  BY HitsFinite DEF H
<1> HIDE DEF f
<1>8. IsFiniteSet(W) /\ Cardinality(W) = Cardinality(H)
  BY <1>5, <1>6, <1>7, FS_Injection
<1> QED BY <1>8 DEF W, H

Foremost(w, t) == <<w, Len(t) - 1>>

\* The first of a sequence is the last of those that wait, counted from the end.
LEMMA WaitingTail ==
  ASSUME NEW w, NEW s, NEW C, NEW t \in Seq(Event), t # << >>
  PROVE  /\ Foremost(w, t) \notin Waiting(w, Tail(t), s, C)
         /\ Hit(Head(t), s, C) =>
              Waiting(w, t, s, C) = Waiting(w, Tail(t), s, C) \cup {Foremost(w, t)}
         /\ ~Hit(Head(t), s, C) =>
              \A y : y \in Waiting(w, t, s, C) <=> y \in Waiting(w, Tail(t), s, C)
<1> DEFINE n == Len(t)
           u == Tail(t)
           h == Head(t)
           x == Foremost(w, t)
<1>1. /\ n \in Nat /\ n > 0 /\ Len(u) = n - 1 /\ t[1] = h
      /\ \A i \in 1..(n - 1) : u[i] = t[i + 1]
  OBVIOUS
<1> HIDE DEF n, u, h
<1>2. \A k \in Nat : k < n - 1 => /\ (n - 1) - k \in 1..(n - 1)
                                  /\ u[(n - 1) - k] = t[n - k] /\ k < n
  <2> SUFFICES ASSUME NEW k \in Nat, k < n - 1
               PROVE  /\ (n - 1) - k \in 1..(n - 1)
                      /\ u[(n - 1) - k] = t[n - k] /\ k < n
    OBVIOUS
  <2>1. (n - 1) - k \in 1..(n - 1) /\ ((n - 1) - k) + 1 = n - k /\ k < n
    BY <1>1
  <2> QED BY <1>1, <2>1
<1>3. n - 1 \in Nat /\ n - (n - 1) = 1 /\ \A k \in Nat : k < n => k < n - 1 \/ k = n - 1
  BY <1>1
<1>4. \A y : y \in Waiting(w, t, s, C) <=>
        y \in {w} \X Nat /\ y[2] < n /\ Hit(t[n - y[2]], s, C)
  BY DEF Waiting, n
<1>5. \A y : y \in Waiting(w, u, s, C) <=>
        y \in {w} \X Nat /\ y[2] < n - 1 /\ Hit(u[(n - 1) - y[2]], s, C)
  BY <1>1 DEF Waiting
<1>6. x \in {w} \X Nat /\ x[2] = n - 1
  BY <1>3 DEF Foremost, n
<1>7. \A y \in {w} \X Nat : y[2] \in Nat /\ (y[2] = n - 1 => y = x)
  BY DEF Foremost, n
<1> HIDE DEF x
<1>8. x \notin Waiting(w, u, s, C)
  BY <1>1, <1>5, <1>6
<1>9. ASSUME NEW y
      PROVE  y \in Waiting(w, t, s, C) <=>
               y \in Waiting(w, u, s, C) \/ (Hit(h, s, C) /\ y = x)
  <2>1. CASE y \in {w} \X Nat /\ y[2] < n - 1
    <3>1. y[2] \in Nat /\ y # x
      BY <1>1, <1>6, <1>7, <2>1
    <3> QED BY <1>2, <1>4, <1>5, <2>1, <3>1
  <2>2. CASE y = x
    <3>1. t[n - y[2]] = h /\ y[2] < n
      BY <1>1, <1>3, <1>6, <2>2
    <3> QED BY <1>4, <1>6, <1>8, <2>2, <3>1
  <2>3. CASE ~(y \in {w} \X Nat /\ y[2] < n - 1) /\ y # x
    BY <1>3, <1>4, <1>5, <1>7, <2>3
  <2> QED BY <2>1, <2>2, <2>3
<1>10. /\ Hit(h, s, C) => Waiting(w, t, s, C) = Waiting(w, u, s, C) \cup {x}
       /\ ~Hit(h, s, C) => \A y : y \in Waiting(w, t, s, C) <=> y \in Waiting(w, u, s, C)
  BY <1>9
<1> QED BY <1>8, <1>10 DEF n, u, h, x

Own(w, p, s, C) == IF p.at = "emit" THEN Waiting(w, p.todo, s, C) ELSE {}

Others(pr, w, s, C) == {x \in Pending(pr, s, C) : x[1] # w}

\* Only w moves.
Moves(w, pr, pr2) == \A v \in Worker : v # w => pr2[v] = pr[v]

\* What is pending is what w and what the others still have to record.
LEMMA PendingParts ==
  ASSUME NEW pr, NEW s, NEW C, NEW w \in Worker
  PROVE  /\ Pending(pr, s, C) = Others(pr, w, s, C) \cup Own(w, pr[w], s, C)
         /\ \A x \in Others(pr, w, s, C) : x[1] # w
<1>1. \A t : \A x \in Waiting(w, t, s, C) : x[1] = w /\ x \in Worker \X Nat
  BY DEF Waiting
<1> QED BY <1>1 DEF Pending, Others, Own

\* Who moves changes nothing of what is pending of the others.
LEMMA OthersStay ==
  ASSUME NEW pr, NEW pr2, NEW s, NEW C, NEW w \in Worker, Moves(w, pr, pr2)
  PROVE  Others(pr2, w, s, C) = Others(pr, w, s, C)
BY DEF Moves, Pending, Others

Left(R, w, t, s, C) == R \cup Waiting(w, t, s, C)

\* Recording the first of a sequence takes it from those that wait.
LEMMA WaitingShrinks ==
  ASSUME NEW w, NEW s, NEW C, NEW R, NEW t \in Seq(Event), t # << >>, IsFiniteSet(R),
         \A x \in R : x[1] # w
  PROVE  /\ IsFiniteSet(Left(R, w, t, s, C))
         /\ IsFiniteSet(Left(R, w, Tail(t), s, C))
         /\ Cardinality(Left(R, w, Tail(t), s, C)) \in Nat
         /\ Cardinality(Left(R, w, t, s, C))
              = Cardinality(Left(R, w, Tail(t), s, C))
                  + (IF Hit(Head(t), s, C) THEN 1 ELSE 0)
<1> DEFINE x == Foremost(w, t)
           A == Left(R, w, Tail(t), s, C)
           B == Left(R, w, t, s, C)
<1>1. Tail(t) \in Seq(Event)
  OBVIOUS
<1>2. IsFiniteSet(A) /\ IsFiniteSet(B)
  BY <1>1, WaitingCounts, FS_Union DEF Left
<1>3. x[1] = w
  BY DEF Foremost
<1>4. x \notin A
  BY <1>3, WaitingTail DEF Left
<1>5. CASE Hit(Head(t), s, C)
  <2>1. Waiting(w, t, s, C) = Waiting(w, Tail(t), s, C) \cup {x}
    BY <1>5, WaitingTail
  <2>2. B = A \cup {x}
    BY <2>1 DEF Left
  <2> HIDE DEF A, B, x
  <2>3. Cardinality(A) \in Nat /\ Cardinality(B) = Cardinality(A) + 1
    BY <1>2, <1>4, <2>2, FS_AddElement, FS_CardinalityType
  <2> QED BY <1>2, <1>5, <2>3 DEF A, B
<1>6. CASE ~Hit(Head(t), s, C)
  <2>1. \A y : y \in Waiting(w, t, s, C) <=> y \in Waiting(w, Tail(t), s, C)
    BY <1>6, WaitingTail
  <2>2. B = A
    BY <2>1 DEF Left
  <2> HIDE DEF A, B
  <2>3. Cardinality(A) \in Nat
    BY <1>2, FS_CardinalityType
  <2> QED BY <1>2, <1>6, <2>2, <2>3 DEF A, B
<1> QED BY <1>5, <1>6

\* Where nothing is about a mutant, there is nothing to count.
LEMMA NoHits ==
  ASSUME NEW w, NEW t \in Seq(Event), \A i \in DOMAIN t : t[i].kind # "mutation_result",
         NEW s, NEW C
  PROVE  Hits(t, s, C) = {} /\ Waiting(w, t, s, C) = {}
<1>1. Hits(t, s, C) = {}
  BY DEF Hits, Hit
<1>2. Waiting(w, t, s, C) = {}
  <2>1. /\ IsFiniteSet(Waiting(w, t, s, C))
        /\ Cardinality(Waiting(w, t, s, C)) = Cardinality(Hits(t, s, C))
    BY WaitingCounts
  <2>2. Cardinality(Waiting(w, t, s, C)) = 0
    BY <1>1, <2>1, FS_EmptySet
  <2> QED BY <2>1, <2>2, FS_EmptySet
<1> QED BY <1>1, <1>2

\* A report holds finitely many verdicts.
LEMMA VerdictsType ==
  ASSUME NEW m, NEW r \in Reports, NEW s, NEW C
  PROVE  Verdicts(m, r, s, C) \in Nat
<1> DEFINE D == {i \in DOMAIN r : r[i].summary \in C /\ Owner(m, r[i].file) = s}
<1>1. r \in Seq(Range(r))
  BY EvaluatorsAssumption
<1>2. IsFiniteSet(DOMAIN r) /\ D \in SUBSET DOMAIN r
  BY <1>1, Domains
<1>3. Verdicts(m, r, s, C) = Cardinality(D)
  BY DEF Verdicts
<1> HIDE DEF D
<1> QED BY <1>2, <1>3, FS_Subset, FS_CardinalityType

\* What an evaluation records is what its report says.
LEMMA JudgementsCount ==
  ASSUME NEW m, NEW r \in Reports, NEW s, NEW C \in Sides
  PROVE  Cardinality(Hits(Judgements(m, r), s, C)) = Verdicts(m, r, s, C)
<1> DEFINE P == {i \in DOMAIN r : r[i].summary \in Classes}
           Q == {i \in DOMAIN r : r[i].summary \in C /\ Owner(m, r[i].file) = s}
           J == Judgements(m, r)
<1>1. r \in Seq(Range(r))
  BY EvaluatorsAssumption
<1>2. P \in SUBSET (1..Len(r)) /\ P \in SUBSET Nat /\ DOMAIN r = 1..Len(r)
  BY <1>1
<1>3. Q \in SUBSET P
  BY DEF Sides, Classes
<1>4. IsFiniteSet(Q)
  BY <1>1, Domains, FS_Subset
<1>5. PICK e : Enumerates(e, P) /\ Only(r, P) = [k \in DOMAIN e |-> r[e[k]]]
  <2> HIDE DEF P
  <2> QED BY <1>1, <1>2, OnlyEnumerates
<1>6. J = [k \in DOMAIN e |-> Judgement(m, r[e[k]])]
  BY <1>5 DEF Judgements
<1>7. \A k \in DOMAIN e : e[k] \in DOMAIN r
  <2>1. e \in Seq(P)
    BY <1>5 DEF Enumerates
  <2>2. \A k \in DOMAIN e : e[k] \in P
    <3> HIDE DEF P
    <3> QED BY <2>1
  <2> QED BY <2>2
<1>8. \A k \in DOMAIN e : Hit(J[k], s, C) <=> e[k] \in Q
  <2> SUFFICES ASSUME NEW k \in DOMAIN e
               PROVE  Hit(J[k], s, C) <=> e[k] \in Q
    OBVIOUS
  <2>1. J[k] = Judgement(m, r[e[k]])
    BY <1>6
  <2>2. /\ J[k].kind = "mutation_result" /\ J[k].spec = Owner(m, r[e[k]].file)
        /\ J[k].what = r[e[k]].summary
    BY <2>1 DEF Judgement
  <2> HIDE DEF J
  <2> QED BY <1>7, <2>2 DEF Hit
<1>9. Hits(J, s, C) = {k \in DOMAIN e : e[k] \in Q}
  <2>1. DOMAIN J = DOMAIN e
    BY <1>6
  <2> HIDE DEF J, Q
  <2> QED BY <1>8, <2>1 DEF Hits
<1>10. Cardinality({k \in DOMAIN e : e[k] \in Q}) = Cardinality(Q)
  <2> HIDE DEF P, Q
  <2>1. Enumerates(e, P)
    BY <1>5
  <2> QED BY <1>2, <1>3, <1>4, <2>1, EnumerationCounts
<1>11. Verdicts(m, r, s, C) = Cardinality(Q)
  BY DEF Verdicts
<1> QED BY <1>9, <1>10, <1>11

----------------------------------------------------------------------------
(* The log holds the report's verdicts a whole number of times.            *)

\* What is in the log and what is to come make j's report, times times.
Holds(l, pr, j, times) ==
  \A s \in Specs, C \in Sides :
    Cardinality(Hits(l, s, C)) + Cardinality(Pending(pr, s, C))
      = times * Verdicts(j[1], j[2], s, C)

Balanced ==
  /\ IsFiniteSet(judged)
  /\ \A s \in Specs, C \in Sides : IsFiniteSet(Pending(proc, s, C))
  /\ cut["evaluate"] = 0 =>
       /\ judged = {} => \A s \in Specs, C \in Sides :
                           /\ Cardinality(Hits(log, s, C)) = 0
                           /\ Cardinality(Pending(proc, s, C)) = 0
       /\ \A j : judged = {j} => \E times \in Nat \ {0} : Holds(log, proc, j, times)

\* At the start nothing was evaluated and nothing is in the log.
LEMMA BalancedInit == ASSUME Init PROVE Balanced
<1> DEFINE First == [kind : {"test_outcome"}, spec : Specs, what : {"pass", "fail"}]
<1>1. \A i \in DOMAIN log : log[i].kind # "mutation_result"
  <2>1. log \in Seq(First)
    BY EvaluatorsAssumption DEF Init
  <2>2. \A e \in First : e.kind # "mutation_result"
    OBVIOUS
  <2> HIDE DEF First
  <2> QED BY <2>1, <2>2
<1>2. log \in Seq(Event)
  BY TypedInit DEF Typed
<1>3. \A s, C : Hits(log, s, C) = {}
  BY <1>1, <1>2, NoHits
<1>4. \A s, C : Pending(proc, s, C) = {}
  BY IdleType DEF Init, Pending
<1>5. judged = {}
  BY DEF Init
<1> QED BY <1>3, <1>4, <1>5, FS_EmptySet DEF Balanced

\* A step that touches neither the log nor what is pending keeps the balance.
LEMMA BalancedSame ==
  ASSUME Balanced, UNCHANGED <<judged, log>>, cut'["evaluate"] = cut["evaluate"],
         \A s \in Specs, C \in Sides : Pending(proc', s, C) = Pending(proc, s, C)
  PROVE  Balanced'
<1>1. ASSUME NEW j, NEW times, Holds(log, proc, j, times)
      PROVE  Holds(log', proc', j, times)
  BY <1>1 DEF Holds
<1> QED BY <1>1 DEF Balanced

\* Who records nothing before and after changes nothing.
LEMMA PendingSame ==
  ASSUME Typed, NEW w \in Worker, NEW p, proc' = [proc EXCEPT ![w] = p],
         proc[w].at # "emit" \/ \A i \in DOMAIN proc[w].todo :
                                  proc[w].todo[i].kind # "mutation_result",
         p.at # "emit" \/ (/\ p.todo \in Seq(Event)
                           /\ \A i \in DOMAIN p.todo : p.todo[i].kind # "mutation_result"),
         NEW s, NEW C
  PROVE  Pending(proc', s, C) = Pending(proc, s, C)
<1>1. /\ proc'[w] = p /\ Moves(w, proc, proc')
      /\ proc[w].at = "emit" => proc[w].todo \in Seq(Event)
  BY DEF Typed, OnItsWay, Moves
<1>2. /\ Pending(proc, s, C) = Others(proc, w, s, C) \cup Own(w, proc[w], s, C)
      /\ Pending(proc', s, C) = Others(proc, w, s, C) \cup Own(w, proc'[w], s, C)
  <2>1. Others(proc', w, s, C) = Others(proc, w, s, C)
    BY <1>1, OthersStay
  <2>2. Pending(proc', s, C) = Others(proc', w, s, C) \cup Own(w, proc'[w], s, C)
    BY PendingParts
  <2>3. Pending(proc, s, C) = Others(proc, w, s, C) \cup Own(w, proc[w], s, C)
    BY PendingParts
  <2> QED BY <2>1, <2>2, <2>3
<1>3. Own(w, proc[w], s, C) = {} /\ Own(w, p, s, C) = {}
  BY <1>1, NoHits DEF Own
<1> QED BY <1>1, <1>2, <1>3

\* Every step keeps the balance: an event that moves from a process to the log
\* is counted before and after, and a new evaluation adds one report.
LEMMA BalancedNext == ASSUME Typed, Balanced, [Next]_vars PROVE Balanced'
<1>0. proc \in [Worker -> Process] /\ log \in Seq(Event)
      /\ cut \in [{"evaluate", "lint", "doctor"} -> Nat]
  BY DEF Typed
\* The moves that record nothing.
<1>1. ASSUME NEW w \in Worker, NEW p, proc' = [proc EXCEPT ![w] = p],
             proc[w].at # "emit" \/ \A i \in DOMAIN proc[w].todo :
                                      proc[w].todo[i].kind # "mutation_result",
             p.at # "emit" \/ (/\ p.todo \in Seq(Event)
                               /\ \A i \in DOMAIN p.todo : p.todo[i].kind # "mutation_result"),
             UNCHANGED <<judged, log>>, cut'["evaluate"] = cut["evaluate"]
      PROVE  Balanced'
  BY <1>1, PendingSame, BalancedSame
<1>2. CASE UNCHANGED <<proc, judged, log, cut>>
  BY <1>2, BalancedSame
<1>3. ASSUME NEW o \in Specs, RecordOutcome(o)
      PROVE  Balanced'
  <2>1. UNCHANGED <<proc, judged, cut>>
    BY <1>3 DEF RecordOutcome, history
  <2>2. ASSUME NEW s \in Specs, NEW C \in Sides
        PROVE  Cardinality(Hits(log', s, C)) = Cardinality(Hits(log, s, C))
    <3>1. PICK x \in {"pass", "fail"} :
            log' = Append(log, [kind |-> "test_outcome", spec |-> o, what |-> x])
      BY <1>3 DEF RecordOutcome
    <3> DEFINE e == [kind |-> "test_outcome", spec |-> o, what |-> x]
    <3>2. e \in Event /\ ~Hit(e, s, C)
      BY DEF Event, Whats, Hit
    <3> HIDE DEF e
    <3>3. log' = Append(log, e)
      BY <3>1 DEF e
    <3>4. Cardinality(Hits(log, s, C)) \in Nat
      BY <1>0, HitsFinite
    <3>5. Cardinality(Hits(Append(log, e), s, C)) = Cardinality(Hits(log, s, C))
                                                     + (IF Hit(e, s, C) THEN 1 ELSE 0)
      BY <1>0, <3>2, HitsAppend
    <3> QED BY <3>2, <3>3, <3>4, <3>5
  <2>3. ASSUME NEW j, NEW times, Holds(log, proc, j, times)
        PROVE  Holds(log', proc', j, times)
    BY <2>1, <2>2, <2>3 DEF Holds
  <2> QED BY <2>1, <2>2, <2>3 DEF Balanced
<1>4. ASSUME NEW w \in Worker, Emit(w)
      PROVE  Balanced'
  <2> DEFINE p == [proc[w] EXCEPT !.todo = Tail(@)]
             e == Head(proc[w].todo)
             t == proc[w].todo
  <2>1. /\ proc' = [proc EXCEPT ![w] = p] /\ UNCHANGED <<judged, cut>>
        /\ log' = Append(log, e) /\ proc[w].at = "emit" /\ t # << >>
        /\ proc[w] \in Process /\ t \in Seq(Event)
    BY <1>0, <1>4 DEF Emit, Goto, Typed, OnItsWay, history
  <2>2. p.todo = Tail(t) /\ p.at = "emit" /\ e \in Event
    BY <2>1 DEF Process
  <2>3. proc'[w] = p /\ Moves(w, proc, proc')
    BY <1>0, <2>1 DEF Moves
  <2> HIDE DEF p
  <2>4. ASSUME NEW s \in Specs, NEW C \in Sides
        PROVE  /\ IsFiniteSet(Pending(proc', s, C))
               /\ Cardinality(Hits(log', s, C)) + Cardinality(Pending(proc', s, C))
                    = Cardinality(Hits(log, s, C)) + Cardinality(Pending(proc, s, C))
               /\ Cardinality(Pending(proc, s, C)) # 0
                    \/ /\ Cardinality(Pending(proc', s, C)) = 0
                       /\ Cardinality(Hits(log', s, C)) = Cardinality(Hits(log, s, C))
    <3> DEFINE R == Others(proc, w, s, C)
               A == Left(R, w, Tail(t), s, C)
               B == Left(R, w, t, s, C)
    <3>1. Pending(proc, s, C) = B /\ Pending(proc', s, C) = A /\ \A x \in R : x[1] # w
      <4>1. /\ Pending(proc, s, C) = R \cup Own(w, proc[w], s, C)
            /\ Pending(proc', s, C) = R \cup Own(w, proc'[w], s, C)
            /\ \A x \in R : x[1] # w
        <5>1. Others(proc', w, s, C) = R
          BY <2>3, OthersStay
        <5>2. Pending(proc', s, C) = Others(proc', w, s, C) \cup Own(w, proc'[w], s, C)
          BY PendingParts
        <5>3. /\ Pending(proc, s, C) = R \cup Own(w, proc[w], s, C)
              /\ \A x \in R : x[1] # w
          BY PendingParts
        <5> QED BY <5>1, <5>2, <5>3
      <4>2. /\ Own(w, proc[w], s, C) = Waiting(w, t, s, C)
            /\ Own(w, proc'[w], s, C) = Waiting(w, Tail(t), s, C)
        BY <2>1, <2>2, <2>3 DEF Own
      <4> QED BY <4>1, <4>2 DEF Left
    <3>2. IsFiniteSet(Pending(proc, s, C)) /\ R \in SUBSET Pending(proc, s, C)
      BY DEF Balanced, Others
    <3>3. IsFiniteSet(R)
      BY <3>2, FS_Subset
    <3> HIDE DEF R, t
    <3>7. /\ IsFiniteSet(A) /\ Cardinality(A) \in Nat
          /\ Cardinality(B) = Cardinality(A) + (IF Hit(Head(t), s, C) THEN 1 ELSE 0)
          /\ IsFiniteSet(B)
      BY <2>1, <3>1, <3>3, WaitingShrinks
    <3> HIDE DEF A, B
    <3>4. /\ IsFiniteSet(Pending(proc', s, C))
          /\ Cardinality(Pending(proc', s, C)) \in Nat
          /\ Cardinality(Pending(proc, s, C))
               = Cardinality(Pending(proc', s, C)) + (IF Hit(Head(t), s, C) THEN 1 ELSE 0)
      BY <3>1, <3>7
    <3>5. /\ Cardinality(Hits(log, s, C)) \in Nat
          /\ Cardinality(Hits(log', s, C))
               = Cardinality(Hits(log, s, C)) + (IF Hit(e, s, C) THEN 1 ELSE 0)
      BY <1>0, <2>1, <2>2, HitsFinite, HitsAppend
    <3>6. e = Head(t)
      BY DEF t
    <3> HIDE DEF e
    <3> QED BY <3>4, <3>5, <3>6
  <2>5. ASSUME NEW j, NEW times, Holds(log, proc, j, times)
        PROVE  Holds(log', proc', j, times)
    BY <2>4, <2>5 DEF Holds
  <2>6. ASSUME NEW s \in Specs, NEW C \in Sides
        PROVE  IsFiniteSet(Pending(proc', s, C))
    BY <2>4
  <2>7. ASSUME judged = {}, cut["evaluate"] = 0, NEW s \in Specs, NEW C \in Sides
        PROVE  /\ Cardinality(Hits(log', s, C)) = 0
               /\ Cardinality(Pending(proc', s, C)) = 0
    <3>1. Cardinality(Hits(log, s, C)) = 0 /\ Cardinality(Pending(proc, s, C)) = 0
      BY <2>7 DEF Balanced
    <3> QED BY <2>4, <3>1
  <2> QED BY <2>1, <2>5, <2>6, <2>7 DEF Balanced
<1>5. ASSUME NEW w \in Worker, GatherReport(w)
      PROVE  Balanced'
  <2> DEFINE J == Judgements(proc[w].map, report)
             p == [proc[w] EXCEPT !.at = "emit", !.todo = J]
             m == proc[w].map
             now == <<m, report>>
  <2>1. /\ proc' = [proc EXCEPT ![w] = p] /\ UNCHANGED <<log, cut>>
        /\ judged' = judged \cup {now}
        /\ proc[w] \in Process /\ report \in Reports /\ proc[w].at # "emit"
    BY <1>0, <1>5 DEF GatherReport, Goto, Typed, OnItsWay
  <2>2. p.todo = J /\ p.at = "emit" /\ J \in Seq(Event)
    BY <2>1, JudgementsType DEF Process
  <2>3. proc'[w] = p /\ Moves(w, proc, proc')
    BY <1>0, <2>1 DEF Moves
  <2> HIDE DEF p
  <2>4. ASSUME NEW s \in Specs, NEW C \in Sides
        PROVE  /\ IsFiniteSet(Pending(proc', s, C))
               /\ Cardinality(Pending(proc, s, C)) \in Nat
               /\ Cardinality(Pending(proc', s, C))
                    = Cardinality(Pending(proc, s, C)) + Verdicts(m, report, s, C)
    <3> DEFINE rest == Others(proc, w, s, C)
               W == Waiting(w, J, s, C)
    <3>1. /\ Pending(proc, s, C) = rest /\ Pending(proc', s, C) = rest \cup W
          /\ \A x \in rest : x[1] # w
          /\ \A x \in W : x[1] = w
      <4>1. /\ Pending(proc, s, C) = rest \cup Own(w, proc[w], s, C)
            /\ Pending(proc', s, C) = rest \cup Own(w, proc'[w], s, C)
            /\ \A x \in rest : x[1] # w
        <5>1. Others(proc', w, s, C) = rest
          BY <2>3, OthersStay
        <5>2. Pending(proc', s, C) = Others(proc', w, s, C) \cup Own(w, proc'[w], s, C)
          BY PendingParts
        <5>3. /\ Pending(proc, s, C) = rest \cup Own(w, proc[w], s, C)
              /\ \A x \in rest : x[1] # w
          BY PendingParts
        <5> QED BY <5>1, <5>2, <5>3
      <4>2. Own(w, proc[w], s, C) = {} /\ Own(w, proc'[w], s, C) = W
        BY <2>1, <2>2, <2>3 DEF Own
      <4>3. \A x \in W : x[1] = w
        BY DEF Waiting
      <4> HIDE DEF W, rest
      <4> QED BY <4>1, <4>2, <4>3
    <3>2. IsFiniteSet(rest)
      BY <3>1 DEF Balanced
    <3>3. IsFiniteSet(W) /\ Cardinality(W) = Verdicts(m, report, s, C)
      BY <2>1, <2>2, WaitingCounts, JudgementsCount
    <3>4. Verdicts(m, report, s, C) \in Nat
      BY <2>1, VerdictsType
    <3>5. rest \cap W = {}
      BY <3>1
    <3> HIDE DEF rest, W
    <3>6. /\ IsFiniteSet(rest \cup W)
          /\ Cardinality(rest \cup W)
               = Cardinality(rest) + Cardinality(W) - Cardinality(rest \cap W)
      BY <3>2, <3>3, FS_Union
    <3>7. Cardinality(rest) \in Nat /\ Cardinality(rest \cap W) = 0
      BY <3>2, <3>5, FS_CardinalityType, FS_EmptySet
    <3> QED BY <3>1, <3>3, <3>4, <3>6, <3>7
  <2>5. now[1] = m /\ now[2] = report
    OBVIOUS
  <2> HIDE DEF m, J, now
  <2>6. ASSUME NEW s \in Specs, NEW C \in Sides
        PROVE  /\ Cardinality(Hits(log, s, C)) \in Nat /\ log' = log
               /\ Verdicts(now[1], now[2], s, C) \in Nat
               /\ Cardinality(Pending(proc, s, C)) \in Nat
               /\ Cardinality(Pending(proc', s, C))
                    = Cardinality(Pending(proc, s, C)) + Verdicts(now[1], now[2], s, C)
    BY <1>0, <2>1, <2>4, <2>5, HitsFinite, VerdictsType
  <2>7. ASSUME judged = {}, cut["evaluate"] = 0
        PROVE  Holds(log', proc', now, 1)
    <3> SUFFICES ASSUME NEW s \in Specs, NEW C \in Sides
                 PROVE  Cardinality(Hits(log', s, C)) + Cardinality(Pending(proc', s, C))
                          = 1 * Verdicts(now[1], now[2], s, C)
      BY DEF Holds
    <3>1. Cardinality(Hits(log, s, C)) = 0 /\ Cardinality(Pending(proc, s, C)) = 0
      BY <2>7 DEF Balanced
    <3> QED BY <2>6, <3>1
  <2>8. ASSUME NEW times \in Nat, Holds(log, proc, now, times)
        PROVE  Holds(log', proc', now, times + 1)
    <3> SUFFICES ASSUME NEW s \in Specs, NEW C \in Sides
                 PROVE  Cardinality(Hits(log', s, C)) + Cardinality(Pending(proc', s, C))
                          = (times + 1) * Verdicts(now[1], now[2], s, C)
      BY DEF Holds
    <3>1. Cardinality(Hits(log, s, C)) + Cardinality(Pending(proc, s, C))
            = times * Verdicts(now[1], now[2], s, C)
      BY <2>8 DEF Holds
    <3> DEFINE v == Verdicts(now[1], now[2], s, C)
    <3>2. v \in Nat
      BY <2>6
    <3> HIDE DEF v
    <3>3. (times + 1) * v = times * v + v /\ times * v \in Nat
      BY <3>2
    <3> DEFINE u == times * v
    <3>4. /\ Cardinality(Hits(log, s, C)) + Cardinality(Pending(proc, s, C)) = u
          /\ Cardinality(Pending(proc', s, C)) = Cardinality(Pending(proc, s, C)) + v
          /\ (times + 1) * v = u + v
          /\ u \in Nat
      BY <2>6, <3>1, <3>3 DEF v
    <3> HIDE DEF u
    <3>5. Cardinality(Hits(log, s, C)) + Cardinality(Pending(proc', s, C)) = (times + 1) * v
      BY <2>6, <3>2, <3>4
    <3> QED BY <2>6, <3>5 DEF v
  <2>9. ASSUME NEW j, judged' = {j}, cut'["evaluate"] = 0
        PROVE  \E times \in Nat \ {0} : Holds(log', proc', j, times)
    <3>1. j = now /\ (judged = {} \/ judged = {now}) /\ cut["evaluate"] = 0
      BY <2>1, <2>9
    <3>2. CASE judged = {}
      BY <2>7, <3>1, <3>2
    <3>3. CASE judged = {now}
      <4>1. PICK times \in Nat \ {0} : Holds(log, proc, now, times)
        BY <3>1, <3>3 DEF Balanced
      <4>2. Holds(log', proc', now, times + 1) /\ times + 1 \in Nat \ {0}
        BY <2>8, <4>1
      <4> QED BY <3>1, <4>2
    <3> QED BY <3>1, <3>2, <3>3
  <2>10. IsFiniteSet(judged') /\ judged' # {}
    BY <2>1, FS_AddElement DEF Balanced
  <2>11. ASSUME NEW s \in Specs, NEW C \in Sides
         PROVE  IsFiniteSet(Pending(proc', s, C))
    BY <2>4
  <2> QED BY <2>9, <2>10, <2>11 DEF Balanced
<1>6. ASSUME NEW w \in Worker, GatherSmells(w)
      PROVE  Balanced'
  <2> DEFINE found == Findings(proc[w].map, suite)
             p == [proc[w] EXCEPT !.at = "emit", !.todo = found, !.found = found]
  <2>1. /\ proc' = [proc EXCEPT ![w] = p] /\ UNCHANGED <<judged, log, cut>>
        /\ proc[w] \in Process /\ proc[w].at # "emit"
    BY <1>0, <1>6 DEF GatherSmells, Goto
  <2>2. /\ found \in Seq(Event)
        /\ \A i \in DOMAIN found : found[i].kind # "mutation_result"
    BY FindingsType DEF Typed
  <2> HIDE DEF found
  <2>3. p.todo = found
    BY <2>1 DEF Process
  <2> HIDE DEF p
  <2> QED BY <1>1, <2>1, <2>2, <2>3
<1>7. ASSUME NEW w \in Worker, Finish(w)
      PROVE  Balanced'
  <2>1. /\ proc' = [proc EXCEPT ![w] = Idle] /\ UNCHANGED <<judged, log, cut>>
        /\ proc[w].todo = << >>
    BY <1>7 DEF Finish, Goto
  <2>2. \A i \in DOMAIN proc[w].todo : proc[w].todo[i].kind # "mutation_result"
    BY <2>1
  <2> QED BY <1>1, <2>1, <2>2, IdleType
<1>8. ASSUME NEW w \in Worker, Die(w)
      PROVE  Balanced'
  <2>1. proc' = [proc EXCEPT ![w] = Idle] /\ UNCHANGED <<judged, log>>
    BY <1>8 DEF Die, Goto
  <2>2. OnItsWay(proc[w], report)
    BY DEF Typed
  \* An evaluation that is cut short: from now on nothing is claimed.
  <2>3. CASE proc[w].at = "emit" /\ proc[w].verb = "evaluate"
    <3>1. cut' = [cut EXCEPT !["evaluate"] = @ + 1]
      BY <1>8, <2>3 DEF Die
    <3>2. cut'["evaluate"] # 0
      BY <1>0, <3>1
    <3>3. ASSUME NEW s \in Specs, NEW C \in Sides
          PROVE  IsFiniteSet(Pending(proc', s, C))
      <4>1. Pending(proc', s, C) \in SUBSET Pending(proc, s, C)
        <5>1. proc'[w].at # "emit" /\ \A v \in Worker : v # w => proc'[v] = proc[v]
          BY <1>0, <2>1, IdleType
        <5> QED BY <5>1 DEF Pending
      <4> QED BY <4>1, FS_Subset DEF Balanced
    <3> QED BY <2>1, <3>2, <3>3 DEF Balanced
  <2>4. CASE ~(proc[w].at = "emit" /\ proc[w].verb = "evaluate")
    <3>1. proc[w].at # "emit" \/ \A i \in DOMAIN proc[w].todo :
                                   proc[w].todo[i].kind # "mutation_result"
      <4>1. CASE proc[w].at = "emit"
        <5>1. \A i \in DOMAIN proc[w].todo : proc[w].todo[i].kind = "test_smell_detected"
          BY <2>2, <2>4, <4>1 DEF OnItsWay
        <5> QED BY <5>1
      <4> QED BY <4>1
    <3>2. cut'["evaluate"] = cut["evaluate"]
      <4>1. CASE proc[w].at \in {"emit", "write"}
        <5>1. proc[w].verb # "evaluate"
          BY <2>2, <2>4, <4>1 DEF OnItsWay
        <5> QED BY <1>0, <1>8, <4>1, <5>1 DEF Die
      <4>2. CASE proc[w].at \notin {"emit", "write"}
        BY <1>8, <4>2 DEF Die
      <4> QED BY <4>1, <4>2
    <3> QED BY <1>1, <2>1, <3>1, <3>2, IdleType
  <2> QED BY <2>3, <2>4
<1>9. ASSUME NEW w \in Worker,
             Start(w) \/ RunMutants(w) \/ Query(w) \/ ReadQueue(w) \/ WriteQueue(w)
      PROVE  Balanced'
  <2>0. proc[w] \in Process
    BY <1>0
  <2>1. UNCHANGED <<log, judged, cut>> /\ proc[w].at # "emit"
    BY <1>9, IdleType DEF Start, RunMutants, Query, ReadQueue, WriteQueue, history
  <2>2. \E p : proc' = [proc EXCEPT ![w] = p] /\ p.at # "emit"
    BY <1>9, <2>0, SilentMoves
  <2> QED BY <1>1, <2>1, <2>2
<1>10. CASE EditRepository \/ FilterRun \/ Adjudicate
  BY <1>2, <1>10 DEF EditRepository, FilterRun, Adjudicate, Change, history
<1>11. CASE UNCHANGED vars
  BY <1>2, <1>11 DEF vars, history
<1> QED BY <1>3, <1>4, <1>5, <1>6, <1>7, <1>8, <1>9, <1>10, <1>11 DEF Next

----------------------------------------------------------------------------
(* The fit counts what the log holds.                                      *)

\* A finite set is counted in two parts.
LEMMA InTwo ==
  ASSUME NEW S, NEW P, IsFiniteSet(S)
  PROVE  /\ IsFiniteSet(S \cap P) /\ IsFiniteSet(S \ P)
         /\ Cardinality(S \cap P) \in Nat /\ Cardinality(S \ P) \in Nat
         /\ Cardinality(S) = Cardinality(S \cap P) + Cardinality(S \ P)
<1>1. IsFiniteSet(S \cap P) /\ IsFiniteSet(S \ P)
  <2>1. S \cap P \in SUBSET S /\ S \ P \in SUBSET S
    OBVIOUS
  <2> QED BY <2>1, FS_Subset
<1>2. Cardinality(S \cap P) \in Nat /\ Cardinality(S \ P) \in Nat
  BY <1>1, FS_CardinalityType
<1>3. Cardinality((S \cap P) \cap (S \ P)) = 0
  <2>1. (S \cap P) \cap (S \ P) = {}
    OBVIOUS
  <2> QED BY <2>1, FS_EmptySet
<1>4. (S \cap P) \cup (S \ P) = S
  OBVIOUS
<1>5. Cardinality(S) = Cardinality(S \cap P) + Cardinality(S \ P)
                         - Cardinality((S \cap P) \cap (S \ P))
  BY <1>1, <1>4, FS_Union
<1> QED BY <1>1, <1>2, <1>3, <1>5

Telling(l, s) == {i \in DOMAIN l : l[i].spec = s /\ Evidence(l[i]) # "none"}

Seen(l, s) == Only(l, Telling(l, s))

\* The pieces of evidence are those events of the spec that say something.
LEMMA SeenAre ==
  ASSUME NEW l \in Seq(Event), NEW s
  PROVE  /\ Len(Seen(l, s)) \in Nat /\ DOMAIN Seen(l, s) = 1..Len(Seen(l, s))
         /\ \A k \in DOMAIN Seen(l, s) : Evidence(Seen(l, s)[k]) \in {"SAT", "VIO"}
         /\ \E e : /\ Enumerates(e, Telling(l, s))
                   /\ Seen(l, s) = [k \in DOMAIN e |-> l[e[k]]]
<1> DEFINE P == Telling(l, s)
<1>1. P \in SUBSET (1..Len(l))
  BY DEF Telling
<1>2. Seen(l, s) = Only(l, P)
  BY DEF Seen
<1> HIDE DEF P
<1>3. PICK e : Enumerates(e, P) /\ Only(l, P) = [k \in DOMAIN e |-> l[e[k]]]
  BY <1>1, OnlyEnumerates, Zenon
<1> USE DEF P
<1>4. /\ Only(l, P) \in Seq(Event)
      /\ \A k \in DOMAIN Only(l, P) : \E i \in P : Only(l, P)[k] = l[i]
  <2> HIDE DEF P
  <2> QED BY <1>1, OnlyType
<1>5. \A i \in P : Evidence(l[i]) \in {"SAT", "VIO"}
  BY DEF Evidence, Telling
<1>6. /\ Len(Only(l, P)) \in Nat /\ DOMAIN Only(l, P) = 1..Len(Only(l, P))
      /\ \A k \in DOMAIN Only(l, P) : Evidence(Only(l, P)[k]) \in {"SAT", "VIO"}
  <2> HIDE DEF P
  <2> QED BY <1>4, <1>5
<1> QED BY <1>2, <1>3, <1>6, Zenon

Pairs(l, s, before, now) ==
  {i \in 2..Len(Seen(l, s)) : /\ Evidence(Seen(l, s)[i - 1]) = before
                              /\ Evidence(Seen(l, s)[i]) = now}

Says(l, s, now) == {i \in DOMAIN Seen(l, s) : Evidence(Seen(l, s)[i]) = now}

\* The fit counts pairs and pieces of evidence.
LEMMA FitIs ==
  ASSUME NEW l, NEW s
  PROVE  /\ Fit(l, s).good["SAT"] = Cardinality(Pairs(l, s, "SAT", "SAT"))
         /\ Fit(l, s).good["VIO"] = Cardinality(Pairs(l, s, "VIO", "SAT"))
         /\ Fit(l, s).bad["SAT"] = Cardinality(Pairs(l, s, "SAT", "VIO"))
         /\ Fit(l, s).bad["VIO"] = Cardinality(Pairs(l, s, "VIO", "VIO"))
         /\ Fit(l, s).events = Len(Seen(l, s))
         /\ Fit(l, s).caught = Cardinality(Says(l, s, "SAT"))
         /\ Fit(l, s).missed = Cardinality(Says(l, s, "VIO"))
BY DEF Fit, Seen, Telling, Pairs, Says

\* Every consecutive pair of a spec's evidence is in the matrices once.
LEMMA PairsCounted ==
  ASSUME NEW l \in Seq(Event), NEW s
  PROVE  Cardinality(Pairs(l, s, "SAT", "SAT")) + Cardinality(Pairs(l, s, "VIO", "SAT"))
           + Cardinality(Pairs(l, s, "SAT", "VIO")) + Cardinality(Pairs(l, s, "VIO", "VIO"))
         = IF Len(Seen(l, s)) = 0 THEN 0 ELSE Len(Seen(l, s)) - 1
<1> DEFINE n == Len(Seen(l, s))
           T == 2..n
           ev == [i \in 1..n |-> Evidence(Seen(l, s)[i])]
           B == {i \in T : ev[i - 1] = "SAT"}
           N == {i \in T : ev[i] = "SAT"}
           all == Cardinality(Pairs(l, s, "SAT", "SAT")) + Cardinality(Pairs(l, s, "VIO", "SAT"))
                    + Cardinality(Pairs(l, s, "SAT", "VIO"))
                    + Cardinality(Pairs(l, s, "VIO", "VIO"))
<1> SUFFICES all = IF n = 0 THEN 0 ELSE n - 1
  OBVIOUS
<1>1. n \in Nat /\ \A i \in 1..n : ev[i] \in {"SAT", "VIO"}
  BY SeenAre
<1>2. \A i \in T : i \in 1..n /\ i - 1 \in 1..n
  BY <1>1
<1>3. IsFiniteSet(T) /\ Cardinality(T) = IF n = 0 THEN 0 ELSE n - 1
  <2>1. n \in Int /\ 2 \in Int
    BY <1>1
  <2>2. IsFiniteSet(T) /\ Cardinality(T) = IF 2 > n THEN 0 ELSE n - 2 + 1
    BY <2>1, FS_Interval
  <2> HIDE DEF T, n
  <2> QED BY <1>1, <2>2
<1>4. \A x, y : Pairs(l, s, x, y) = {i \in T : ev[i - 1] = x /\ ev[i] = y}
  <2>1. \A i \in T : /\ ev[i] = Evidence(Seen(l, s)[i])
                     /\ ev[i - 1] = Evidence(Seen(l, s)[i - 1])
    BY <1>2
  <2> HIDE DEF ev
  <2> QED BY <2>1 DEF Pairs
<1>5. \A i \in T : ev[i] \in {"SAT", "VIO"} /\ ev[i - 1] \in {"SAT", "VIO"}
  <2> HIDE DEF ev, T, n
  <2> QED BY <1>1, <1>2
<1> HIDE DEF T, ev, n
<1>6. /\ Pairs(l, s, "SAT", "SAT") = (T \cap B) \cap N
      /\ Pairs(l, s, "SAT", "VIO") = (T \cap B) \ N
      /\ Pairs(l, s, "VIO", "SAT") = (T \ B) \cap N
      /\ Pairs(l, s, "VIO", "VIO") = (T \ B) \ N
  BY <1>4, <1>5
<1> HIDE DEF B, N
<1>7. /\ Cardinality(T) = Cardinality(T \cap B) + Cardinality(T \ B)
      /\ IsFiniteSet(T \cap B) /\ IsFiniteSet(T \ B)
  BY <1>3, InTwo
<1>8. /\ Cardinality(T \cap B) = Cardinality((T \cap B) \cap N) + Cardinality((T \cap B) \ N)
      /\ Cardinality((T \cap B) \cap N) \in Nat /\ Cardinality((T \cap B) \ N) \in Nat
  BY <1>7, InTwo
<1>9. /\ Cardinality(T \ B) = Cardinality((T \ B) \cap N) + Cardinality((T \ B) \ N)
      /\ Cardinality((T \ B) \cap N) \in Nat /\ Cardinality((T \ B) \ N) \in Nat
  BY <1>7, InTwo
<1>10. Cardinality(Pairs(l, s, "SAT", "SAT")) + Cardinality(Pairs(l, s, "VIO", "SAT"))
         + Cardinality(Pairs(l, s, "SAT", "VIO")) + Cardinality(Pairs(l, s, "VIO", "VIO"))
       = Cardinality(T)
  <2>1. /\ Cardinality(Pairs(l, s, "SAT", "SAT")) = Cardinality((T \cap B) \cap N)
        /\ Cardinality(Pairs(l, s, "SAT", "VIO")) = Cardinality((T \cap B) \ N)
        /\ Cardinality(Pairs(l, s, "VIO", "SAT")) = Cardinality((T \ B) \cap N)
        /\ Cardinality(Pairs(l, s, "VIO", "VIO")) = Cardinality((T \ B) \ N)
    BY <1>6
  <2> QED BY <1>7, <1>8, <1>9, <2>1
<1>11. all = Cardinality(T)
  BY <1>10
<1> HIDE DEF all
<1> QED BY <1>3, <1>11

\* Without test outcomes, the fit counts the same mutants as the calibration.
LEMMA FitCountsHits ==
  ASSUME NEW l \in Seq(Event), NEW s,
         \A i \in DOMAIN l : l[i].spec = s => l[i].kind # "test_outcome"
  PROVE  /\ Cardinality(Says(l, s, "SAT")) = Caught(l, s)
         /\ Cardinality(Says(l, s, "VIO")) = Missed(l, s)
<1> DEFINE P == Telling(l, s)
<1>1. PICK e : /\ Enumerates(e, P)
               /\ Seen(l, s) = [k \in DOMAIN e |-> l[e[k]]]
  BY SeenAre
<1>2. P \in SUBSET Nat
  BY DEF Telling
<1>3. \A k \in DOMAIN e : e[k] \in P
  <2>1. e \in Seq(P)
    BY <1>1 DEF Enumerates
  <2> QED BY <2>1
<1>4. ASSUME NEW now \in {"SAT", "VIO"}, NEW C,
             C = IF now = "SAT" THEN {"caught"} ELSE {"missed", "timeout"}
      PROVE  Cardinality(Says(l, s, now)) = Cardinality(Hits(l, s, C))
  <2>1. \A i \in DOMAIN l : i \in Hits(l, s, C) <=> i \in P /\ Evidence(l[i]) = now
    <3> SUFFICES ASSUME NEW i \in DOMAIN l
                 PROVE  i \in Hits(l, s, C) <=> i \in P /\ Evidence(l[i]) = now
      OBVIOUS
    <3>1. i \in P <=> l[i].spec = s /\ Evidence(l[i]) # "none"
      BY DEF Telling
    <3>2. l[i].spec = s => (Evidence(l[i]) = now
                              <=> l[i].kind = "mutation_result" /\ l[i].what \in C)
      BY <1>4 DEF Evidence
    <3>3. i \in Hits(l, s, C)
            <=> l[i].kind = "mutation_result" /\ l[i].spec = s /\ l[i].what \in C
      BY DEF Hits, Hit
    <3>4. now # "none"
      BY <1>4
    <3> QED BY <3>1, <3>2, <3>3, <3>4
  <2>2. Hits(l, s, C) \in SUBSET P
    BY <2>1 DEF Hits
  <2>3. IsFiniteSet(Hits(l, s, C))
    BY HitsFinite
  <2>4. Cardinality({k \in DOMAIN e : e[k] \in Hits(l, s, C)}) = Cardinality(Hits(l, s, C))
    <3>1. Enumerates(e, P)
      BY <1>1
    <3> DEFINE Q == Hits(l, s, C)
    <3>2. Q \in SUBSET P /\ IsFiniteSet(Q)
      BY <2>2, <2>3
    <3> HIDE DEF Q
    <3>3. Cardinality({k \in DOMAIN e : e[k] \in Q}) = Cardinality(Q)
      <4> HIDE DEF P
      <4> QED BY <1>2, <3>1, <3>2, EnumerationCounts
    <3> QED BY <3>3 DEF Q
  <2>5. Says(l, s, now) = {k \in DOMAIN e : e[k] \in Hits(l, s, C)}
    <3>1. DOMAIN Seen(l, s) = DOMAIN e /\ \A k \in DOMAIN e : Seen(l, s)[k] = l[e[k]]
      BY <1>1
    <3>2. \A k \in DOMAIN e : e[k] \in DOMAIN l
      BY <1>3 DEF Telling
    <3>3. \A k \in DOMAIN e : e[k] \in Hits(l, s, C) <=> Evidence(Seen(l, s)[k]) = now
      BY <1>3, <2>1, <3>1, <3>2
    <3> QED BY <3>1, <3>3 DEF Says
  <2> QED BY <2>4, <2>5
<1>5. /\ Cardinality(Says(l, s, "SAT")) = Cardinality(Hits(l, s, {"caught"}))
      /\ Cardinality(Says(l, s, "VIO")) = Cardinality(Hits(l, s, {"missed", "timeout"}))
  BY <1>4
<1> QED BY <1>5, RatesAreHits

\* The kill rate in the log is that of the report.
LEMMA RatesFollow ==
  ASSUME NEW a \in Nat, NEW b \in Nat, NEW v \in Nat, NEW u \in Nat,
         NEW times \in Nat \ {0}, a = times * v, b = times * u
  PROVE  a * u = b * v /\ a + b >= v + u
<1>1. a * u = times * (v * u) /\ b * v = times * (v * u)
  <2>1. (times * v) * u = times * (v * u) /\ (times * u) * v = times * (v * u)
    OBVIOUS
  <2> QED BY <2>1
<1>2. PICK k \in Nat : times = k + 1
  <2>1. times - 1 \in Nat /\ times = (times - 1) + 1
    OBVIOUS
  <2> QED BY <2>1
<1>3. a = k * v + v /\ b = k * u + u /\ k * v \in Nat /\ k * u \in Nat
  <2>1. (k + 1) * v = k * v + v /\ (k + 1) * u = k * u + u
    OBVIOUS
  <2>2. k * v \in Nat /\ k * u \in Nat
    OBVIOUS
  <2> QED BY <1>2, <2>1, <2>2
<1>4. a + b >= v + u
  <2> DEFINE x == k * v
             y == k * u
  <2>1. x \in Nat /\ y \in Nat /\ a = x + v /\ b = y + u
    BY <1>3
  <2> HIDE DEF x, y
  <2> QED BY <2>1
<1> QED BY <1>1, <1>4

\* RateRepeats: evaluating a report again and again leaves the kill rate that
\* it says (evaluate::run_mutations, Calibration::from_evidence, motion_fit::fit).
THEOREM RateStaysRepeatable == Spec => []RateRepeats
<1>1. Init => Typed /\ Balanced
  BY TypedInit, BalancedInit
<1>2. Typed /\ Balanced /\ [Next]_vars => Typed' /\ Balanced'
  BY TypedNext, BalancedNext
<1>3. Typed /\ Balanced => RateRepeats
  <2> SUFFICES ASSUME Typed, Balanced
               PROVE  RateRepeats
    OBVIOUS
  <2>1. log \in Seq(Event)
    BY DEF Typed
  <2>2. ASSUME \A w \in Worker : proc[w].verb = "evaluate" => proc[w].at # "emit",
               cut["evaluate"] = 0, Cardinality(judged) = 1,
               NEW j \in judged, NEW s \in Specs
        PROVE  LET caught == Verdicts(j[1], j[2], s, {"caught"})
                   missed == Verdicts(j[1], j[2], s, {"missed", "timeout"})
               IN  /\ Caught(log, s) * missed = Missed(log, s) * caught
                   /\ Caught(log, s) + Missed(log, s) >= caught + missed
    <3>1. judged = {j}
      <4>1. \E x : judged = {x}
        BY <2>2, FS_Singleton DEF Balanced
      <4> QED BY <2>2, <4>1
    <3>2. PICK times \in Nat \ {0} : Holds(log, proc, j, times)
      BY <2>2, <3>1 DEF Balanced
    <3>3. ASSUME NEW C
          PROVE  Pending(proc, s, C) = {}
      <4>1. ASSUME NEW w \in Worker, proc[w].at = "emit"
            PROVE  Waiting(w, proc[w].todo, s, C) = {}
        <5>1. /\ OnItsWay(proc[w], report) /\ proc[w].verb # "evaluate"
          BY <2>2, <4>1 DEF Typed
        <5>2. /\ proc[w].todo \in Seq(Event)
              /\ \A i \in DOMAIN proc[w].todo : proc[w].todo[i].kind = "test_smell_detected"
          BY <4>1, <5>1 DEF OnItsWay
        <5> QED BY <5>2, NoHits
      <4>2. \A x \in Pending(proc, s, C) :
              /\ x[1] \in Worker /\ proc[x[1]].at = "emit"
              /\ x \in Waiting(x[1], proc[x[1]].todo, s, C)
        BY DEF Pending
      <4> QED BY <4>1, <4>2
    <3>4. ASSUME NEW C \in Sides
          PROVE  /\ Cardinality(Hits(log, s, C)) \in Nat
                 /\ Cardinality(Hits(log, s, C)) = times * Verdicts(j[1], j[2], s, C)
                 /\ Verdicts(j[1], j[2], s, C) \in Nat
      <4>1. Cardinality(Pending(proc, s, C)) = 0
        BY <3>3, FS_EmptySet
      <4>2. Cardinality(Hits(log, s, C)) + Cardinality(Pending(proc, s, C))
              = times * Verdicts(j[1], j[2], s, C)
        BY <3>2 DEF Holds
      <4>3. Cardinality(Hits(log, s, C)) \in Nat
        BY <2>1, HitsFinite
      <4>4. Verdicts(j[1], j[2], s, C) \in Nat
        <5>1. j[2] \in Reports
          BY <2>2 DEF Typed
        <5> QED BY <5>1, VerdictsType
      <4> QED BY <4>1, <4>2, <4>3, <4>4
    <3> DEFINE a == Cardinality(Hits(log, s, {"caught"}))
               b == Cardinality(Hits(log, s, {"missed", "timeout"}))
               v == Verdicts(j[1], j[2], s, {"caught"})
               u == Verdicts(j[1], j[2], s, {"missed", "timeout"})
    <3>5. a \in Nat /\ b \in Nat /\ v \in Nat /\ u \in Nat /\ a = times * v /\ b = times * u
      BY <3>4 DEF Sides
    <3>6. a = Caught(log, s) /\ b = Missed(log, s)
      BY RatesAreHits
    <3> HIDE DEF a, b, v, u
    <3>7. a * u = b * v /\ a + b >= v + u
      BY <3>5, RatesFollow
    <3> QED BY <3>6, <3>7 DEF v, u
  <2>3. ASSUME NEW s \in Specs
        PROVE  LET fit == Fit(log, s)
               IN  /\ (\A i \in DOMAIN log :
                         log[i].spec = s => log[i].kind # "test_outcome") =>
                        fit.caught = Caught(log, s) /\ fit.missed = Missed(log, s)
                   /\ fit.good["SAT"] + fit.good["VIO"] + fit.bad["SAT"] + fit.bad["VIO"]
                        = IF fit.events = 0 THEN 0 ELSE fit.events - 1
    <3>1. (\A i \in DOMAIN log : log[i].spec = s => log[i].kind # "test_outcome") =>
            Fit(log, s).caught = Caught(log, s) /\ Fit(log, s).missed = Missed(log, s)
      BY <2>1, FitIs, FitCountsHits
    <3>2. Fit(log, s).good["SAT"] + Fit(log, s).good["VIO"]
            + Fit(log, s).bad["SAT"] + Fit(log, s).bad["VIO"]
          = IF Fit(log, s).events = 0 THEN 0 ELSE Fit(log, s).events - 1
      BY <2>1, FitIs, PairsCounted
    <3> QED BY <3>1, <3>2
  <2> QED BY <2>2, <2>3 DEF RateRepeats
<1> QED BY <1>1, <1>2, <1>3, PTL DEF Spec
===========================================================================
