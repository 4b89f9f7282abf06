---------------------------- MODULE Evaluators ----------------------------
(***************************************************************************)
(* The evidence about the tests themselves, and what is made of it.        *)
(*                                                                         *)
(* `evaluate mutations` and `lint tests` append what they find to the      *)
(* event log, one event at a time; either can die half-way, be repeated,   *)
(* and run beside others, while the repository changes.  From the log,     *)
(* `filter run` and `doctor --suspicious` compute how far each spec's      *)
(* tests can be trusted, `calibrate motion-from-evidence` fits its motion, *)
(* and doctor writes the specs that look better than their tests into      *)
(* .specere/review-queue.md, which people edit.                            *)
(*                                                                         *)
(* Simplifications: an event is appended whole (EventStore has the         *)
(* details); a test is what the linter sees of it; `filter run` may leave  *)
(* any set of specs with a belief above the threshold (EventFold has what  *)
(* it does), at the start those that passed in the log.  What the code     *)
(* computes in f64 is in hundredths here, and compared as fractions.       *)
(***************************************************************************)
EXTENDS Naturals, Sequences, FiniteSets, SequencesExt, Subsequences

CONSTANTS
  SpecIds,    \* the declared specs, in the order of their ids
  Maps,       \* sensor maps: the files that support each spec
  Reports,    \* what outcomes.json can hold: sequences of [summary, file]
  Suites,     \* what the test files can hold: sequences of tests
  Earlier,    \* passed tests in the log from before
  Clusters,   \* mean flakiness, in hundredths, of the clusters a spec's
              \* harness files are in; << >> where they are in none
  Worker,     \* processes that run a verb
  NoSpec,     \* no spec supports the file
  NoReport,   \* there is no outcomes.json
  MaxVerbs,   \* bound: verbs started
  MaxEdits    \* bound: changes by people and by `filter run`

Specs == Range(SpecIds)

\* OutcomeClass::from_summary: the baseline and unknown summaries are skipped.
Classes == {"caught", "missed", "timeout", "unviable"}

Counted(t) == {t.asserts, t.tautologies, t.calls, t.mocks} \subseteq Nat

\* Lists are lists; what the linter counts, and a flakiness in hundredths, are
\* numbers; the log holds test outcomes at first.
ASSUME EvaluatorsAssumption ==
  /\ SpecIds \in Seq(Specs) /\ NoSpec \notin Specs
  /\ \A r \in Reports : r \in Seq(Range(r))
  /\ NoReport \notin Reports
  /\ \A t \in Suites : t \in Seq(Range(t)) /\ \A i \in DOMAIN t : Counted(t[i])
  /\ Earlier \in Seq([kind : {"test_outcome"}, spec : Specs, what : {"pass", "fail"}])
  /\ Clusters \in [Specs -> Seq(0..100)]
  /\ IsFiniteSet(Worker)
  /\ MaxVerbs \in Nat /\ MaxEdits \in Nat

VARIABLES
  map,        \* the sensor map
  suite,      \* the tests in src/ and tests/
  report,     \* mutants.out/outcomes.json
  log,        \* the events, in the order of the log
  certain,    \* the specs whose posterior has p_sat above the threshold
  queue,      \* review-queue.md: a sequence of entries, << >> if there is none
  proc,       \* proc[w]: the verb that w runs
  verbs,      \* verbs started so far
  edits,      \* changes so far
  cut,        \* history: how many verbs of each kind died half-way
  judged,     \* history: the reports and maps that were evaluated
  smelt,      \* history: smells[s] that some lint was about to record
  linted,     \* history: those of the lints that ended
  stale       \* history: workers about to write a queue that changed since
              \* they read it, or that they could not read

repoVars == <<map, suite, report>>
history == <<cut, judged, smelt, linted>>
vars == <<repoVars, log, certain, queue, proc, verbs, edits, history, stale>>

----------------------------------------------------------------------------
(* What one verb finds.                                                    *)

\* evaluate::attribute_to_spec: the first spec that supports the file.
Owner(m, file) ==
  LET mine == {i \in DOMAIN SpecIds : file \in m[SpecIds[i]]}
  IN  IF mine = {} THEN NoSpec
      ELSE SpecIds[CHOOSE i \in mine : \A j \in mine : i <= j]

\* The event of one outcome of a report.
Judgement(m, o) ==
  [kind |-> "mutation_result", spec |-> Owner(m, o.file), what |-> o.summary]

Judgements(m, r) ==
  LET mutants == Only(r, {i \in DOMAIN r : r[i].summary \in Classes})
  IN  [i \in DOMAIN mutants |-> Judgement(m, mutants[i])]

\* SmellVisitor, in its order: a test without an assertion (a panic, a `?` or an
\* expected error is one), a test with nine calls in ten to mocks, and then one
\* smell for every assertion that compares a thing with itself.
Smells(t) ==
  (IF t.asserts = 0 THEN <<"no-assertion">> ELSE << >>)
  \o (IF t.calls >= 3 /\ t.mocks * 10 >= t.calls * 9 THEN <<"mock-only">> ELSE << >>)
  \o [i \in 1..t.tautologies |-> "tautological-assert"]

\* run_lint_tests: an event for every smell of every test.
Findings(m, tests) ==
  FlattenSeq([i \in DOMAIN tests |->
    [j \in DOMAIN Smells(tests[i]) |->
      [kind |-> "test_smell_detected", spec |-> Owner(m, tests[i].file),
       what |-> <<tests[i].fn, Smells(tests[i])[j]>>]]])

----------------------------------------------------------------------------
(* Mutants.                                                                *)

MissedOrUnviable(l, s) ==
  Cardinality({i \in DOMAIN l : /\ l[i].kind = "mutation_result" /\ l[i].spec = s
                                /\ l[i].what \in {"missed", "timeout", "unviable"}})

SmellEvents(l, s) ==
  {i \in DOMAIN l : l[i].kind = "test_smell_detected" /\ l[i].spec = s}

----------------------------------------------------------------------------
(* What is made of the log.                                                *)

Caught(l, s) ==
  Cardinality({i \in DOMAIN l : /\ l[i].kind = "mutation_result" /\ l[i].spec = s
                                /\ l[i].what = "caught"})

\* A mutant that ran out of time was missed; one that did not build is none.
Missed(l, s) ==
  Cardinality({i \in DOMAIN l : /\ l[i].kind = "mutation_result" /\ l[i].spec = s
                                /\ l[i].what \in {"missed", "timeout"}})

\* Test and kind: the same smell found again, or twice in a test, counts once.
SmellKeys(l, s) ==
  {l[i].what : i \in {j \in DOMAIN l : l[j].kind = "test_smell_detected" /\ l[j].spec = s}}

\* 0.15 off for each smell, within 0.3 and 1.
Penalty(n) == IF 15 * n > 70 THEN 30 ELSE 100 - 15 * n

\* Fractions [over, under]; clamped below by 0.3, and never above 1 here.
Below(p, q) == p.over * q.under < q.over * p.under
Clamped(q) == IF 10 * q.over < 3 * q.under THEN [over |-> 3, under |-> 10] ELSE q

\* Calibration::from_evidence: kill rate times penalty; no mutants, no blame.
Quality(l, s) ==
  LET c == Caught(l, s)
      m == Missed(l, s)
      rate == IF c + m = 0 THEN [over |-> 1, under |-> 1] ELSE [over |-> c, under |-> c + m]
  IN  Clamped([over  |-> rate.over * Penalty(Cardinality(SmellKeys(l, s))),
               under |-> rate.under * 100])

\* Calibration::from_cluster_evidence, for `filter run`: reduced by half the mean
\* flakiness of the clusters that the spec's harness files are in.
Trust(l, s) ==
  LET q == Quality(l, s)
      n == Len(Clusters[s])
      sum[i \in 0..n] == IF i = 0 THEN 0 ELSE sum[i - 1] + Clusters[s][i]
  IN  IF n = 0 THEN q
      ELSE Clamped([over  |-> q.over * (200 * n - sum[n]),
                    under |-> q.under * (200 * n)])

\* doctor --suspicious: a belief above 0.95 on a quality below 0.50.
Suspicious(l, sure) ==
  Only(SpecIds, {i \in DOMAIN SpecIds :
                   /\ SpecIds[i] \in sure
                   /\ Below(Quality(l, SpecIds[i]), [over |-> 1, under |-> 2])})

\* motion_fit::classify_event: which status an event is evidence of.
Evidence(e) ==
  IF <<e.kind, e.what>> \in {<<"mutation_result", "caught">>, <<"test_outcome", "pass">>}
    THEN "SAT"
  ELSE IF <<e.kind, e.what>> \in {<<"mutation_result", "missed">>,
                                  <<"mutation_result", "timeout">>, <<"test_outcome", "fail">>}
    THEN "VIO"
  ELSE "none"

\* motion_fit::fit: the transitions between consecutive pieces of evidence, in
\* the matrix of the class that the second one belongs to, and the kill rate.
Fit(l, s) ==
  LET seen == Only(l, {i \in DOMAIN l : l[i].spec = s /\ Evidence(l[i]) # "none"})
      To(now) == [before \in {"SAT", "VIO"} |->
                    Cardinality({i \in 2..Len(seen) : /\ Evidence(seen[i - 1]) = before
                                                      /\ Evidence(seen[i]) = now})]
      Count(now) == Cardinality({i \in DOMAIN seen : Evidence(seen[i]) = now})
  IN  [good |-> To("SAT"), bad |-> To("VIO"), events |-> Len(seen),
       caught |-> Count("SAT"), missed |-> Count("VIO")]

----------------------------------------------------------------------------
Idle == [verb |-> "none", at |-> "done", map |-> << >>, todo |-> << >>,
         found |-> << >>, sees |-> << >>]

Init ==
  /\ map \in Maps
  /\ suite \in Suites
  /\ report = NoReport
  /\ log = Earlier
  /\ certain = {Earlier[i].spec : i \in DOMAIN Earlier}
  /\ queue = << >>
  /\ proc = [w \in Worker |-> Idle]
  /\ verbs = 0
  /\ edits = 0
  /\ cut = [v \in {"evaluate", "lint", "doctor"} |-> 0]
  /\ judged = {}
  /\ smelt = [s \in Specs |-> {}]
  /\ linted = [s \in Specs |-> {}]
  /\ stale = {}

----------------------------------------------------------------------------
(* The surroundings.                                                       *)

Change ==
  /\ edits < MaxEdits
  /\ edits' = edits + 1
  /\ UNCHANGED <<log, proc, verbs, history>>

EditRepository ==
  /\ Change
  /\ \/ map' \in Maps \ {map} /\ UNCHANGED <<suite, report>>
     \/ suite' \in Suites \ {suite} /\ UNCHANGED <<map, report>>
  /\ UNCHANGED <<certain, queue, stale>>

\* `filter run` folds what it finds and believes what it then believes.
FilterRun ==
  /\ Change
  /\ certain' \in SUBSET Specs \ {certain}
  /\ UNCHANGED <<repoVars, queue, stale>>

\* `observe record` of a test's outcome.
RecordOutcome(s) ==
  /\ edits < MaxEdits
  /\ edits' = edits + 1
  /\ \E o \in {"pass", "fail"} :
       log' = Append(log, [kind |-> "test_outcome", spec |-> s, what |-> o])
  /\ UNCHANGED <<repoVars, certain, queue, proc, verbs, history, stale>>

\* Who has read the queue and is about to write it.
Writers == {w \in Worker : proc[w].at = "write"}

\* A reviewer writes their judgement under an entry, in UTF-8 or not.
Adjudicate ==
  /\ Change
  /\ \E i \in DOMAIN queue, text \in {"judged", "garbled"} :
       queue' = [queue EXCEPT ![i] = text]
  /\ stale' = Writers
  /\ UNCHANGED <<repoVars, certain>>

----------------------------------------------------------------------------
(* The verbs.                                                              *)

Goto(w, p) == proc' = [proc EXCEPT ![w] = p]

\* Each verb loads the sensor map, and doctor the posterior, before all else.
Start(w) ==
  /\ proc[w] = Idle
  /\ verbs < MaxVerbs
  /\ verbs' = verbs + 1
  /\ \/ \E v \in {"evaluate", "lint"} :
          Goto(w, [Idle EXCEPT !.verb = v, !.at = "gather", !.map = map])
     \/ /\ certain # {}
        /\ Goto(w, [Idle EXCEPT !.verb = "doctor", !.at = "query", !.sees = certain])
  /\ UNCHANGED <<repoVars, log, certain, queue, edits, history, stale>>

\* cargo-mutants writes its report.  If it fails while an older report is there,
\* the code takes that one; with --from-outcomes it is not started at all.
RunMutants(w) ==
  /\ proc[w].verb = "evaluate" /\ proc[w].at = "gather"
  /\ report' \in Reports \cup {report}
  /\ Goto(w, IF report' = NoReport THEN Idle ELSE [proc[w] EXCEPT !.at = "parse"])
  /\ UNCHANGED <<map, suite, log, certain, queue, verbs, edits, history, stale>>

\* Read the report that is there now.
GatherReport(w) ==
  /\ proc[w].at = "parse"
  /\ Goto(w, [proc[w] EXCEPT !.at = "emit", !.todo = Judgements(proc[w].map, report)])
  /\ judged' = judged \cup {<<proc[w].map, report>>}
  /\ UNCHANGED <<repoVars, log, certain, queue, verbs, edits, cut, smelt, linted, stale>>

\* Read every test file.
GatherSmells(w) ==
  /\ proc[w].verb = "lint" /\ proc[w].at = "gather"
  /\ LET found == Findings(proc[w].map, suite)
     IN  /\ Goto(w, [proc[w] EXCEPT !.at = "emit", !.todo = found, !.found = found])
         /\ smelt' = [s \in Specs |-> smelt[s] \cup SmellKeys(found, s)]
  /\ UNCHANGED <<repoVars, log, certain, queue, verbs, edits, cut, judged, linted, stale>>

\* Record the next event.
Emit(w) ==
  /\ proc[w].at = "emit" /\ proc[w].todo # << >>
  /\ log' = Append(log, Head(proc[w].todo))
  /\ Goto(w, [proc[w] EXCEPT !.todo = Tail(@)])
  /\ UNCHANGED <<repoVars, certain, queue, verbs, edits, history, stale>>

Finish(w) ==
  /\ proc[w].at = "emit" /\ proc[w].todo = << >>
  /\ Goto(w, Idle)
  /\ linted' = [s \in Specs |-> linted[s] \cup SmellKeys(proc[w].found, s)]
  /\ UNCHANGED <<repoVars, log, certain, queue, verbs, edits, cut, judged, smelt, stale>>

\* doctor compares the posterior it loaded with the log as it is now.
Query(w) ==
  /\ proc[w].at = "query"
  /\ LET flagged == Suspicious(log, proc[w].sees)
     IN  Goto(w, IF flagged = << >> THEN Idle
                 ELSE [proc[w] EXCEPT !.at = "read", !.todo = flagged])
  /\ UNCHANGED <<repoVars, log, certain, queue, verbs, edits, history, stale>>

\* A file that is not UTF-8 cannot be read, and the reading of any other can fail:
\* unwrap_or_default takes either for an empty queue.
ReadQueue(w) ==
  /\ proc[w].at = "read"
  /\ \E text \in {<< >>} \cup {q \in {queue} : "garbled" \notin Range(q)} :
       /\ Goto(w, [proc[w] EXCEPT !.at = "write", !.sees = text])
       /\ stale' = IF text = queue THEN stale ELSE stale \cup {w}
  /\ UNCHANGED <<repoVars, log, certain, queue, verbs, edits, history>>

\* Mutant: it writes what it flagged, without what it read.
WriteFlagged(w) ==
  /\ proc[w].at = "write"
  /\ queue' = proc[w].todo
  /\ stale' = Writers \ {w}
  /\ Goto(w, Idle)
  /\ UNCHANGED <<repoVars, log, certain, verbs, edits, history>>

\* The whole file again, with the new entries behind the old ones.
WriteQueue(w) ==
  /\ proc[w].at = "write"
  /\ queue' = proc[w].sees \o proc[w].todo
  /\ stale' = Writers \ {w}
  /\ Goto(w, Idle)
  /\ UNCHANGED <<repoVars, log, certain, verbs, edits, history>>

\* A verb is killed, or fails to record an event.  fs::write truncates the file
\* first: a doctor killed in it leaves any beginning of what it was to write.
Die(w) ==
  /\ proc[w] # Idle
  /\ Goto(w, Idle)
  /\ cut' = IF proc[w].at \in {"emit", "write"}
              THEN [cut EXCEPT ![proc[w].verb] = @ + 1] ELSE cut
  /\ IF proc[w].at = "write"
       THEN /\ \E n \in 0..Len(proc[w].sees \o proc[w].todo) :
                 queue' = SubSeq(proc[w].sees \o proc[w].todo, 1, n)
            /\ stale' = Writers \ {w}
       ELSE UNCHANGED <<queue, stale>>
  /\ UNCHANGED <<repoVars, log, certain, verbs, edits, judged, smelt, linted>>

Next ==
  \/ EditRepository
  \/ FilterRun
  \/ \E s \in Specs : RecordOutcome(s)
  \/ Adjudicate
  \/ \E w \in Worker :
       \/ Start(w) \/ RunMutants(w) \/ GatherReport(w) \/ GatherSmells(w)
       \/ Emit(w) \/ Finish(w) \/ Query(w) \/ ReadQueue(w) \/ WriteQueue(w)
       \/ Die(w)

Spec == Init /\ [][Next]_vars

----------------------------------------------------------------------------
(* Properties.                                                             *)

\* Of a report, what it says of the mutants in the files of spec s.
Verdicts(m, r, s, summaries) ==
  Cardinality({i \in DOMAIN r : r[i].summary \in summaries /\ Owner(m, r[i].file) = s})

\* As long as no evaluation of mutants was cut short and all evaluated the same
\* report under the same sensor map, the kill rate in the log is that of the
\* report, however often it was evaluated and whatever else was recorded between:
\* for `filter run` and doctor, and, where no test outcome was recorded, for
\* `calibrate motion-from-evidence`, which computes it a second time.  Its
\* matrices hold every consecutive pair of a spec's evidence once.
RateRepeats ==
  /\ (/\ \A w \in Worker : proc[w].verb = "evaluate" => proc[w].at # "emit"
      /\ cut["evaluate"] = 0
      /\ Cardinality(judged) = 1) =>
     \A j \in judged, s \in Specs :
       LET caught == Verdicts(j[1], j[2], s, {"caught"})
           missed == Verdicts(j[1], j[2], s, {"missed", "timeout"})
       IN  /\ Caught(log, s) * missed = Missed(log, s) * caught
           /\ Caught(log, s) + Missed(log, s) >= caught + missed
  /\ \A s \in Specs :
       LET fit == Fit(log, s)
       IN  /\ (\A i \in DOMAIN log : log[i].spec = s => log[i].kind # "test_outcome") =>
                fit.caught = Caught(log, s) /\ fit.missed = Missed(log, s)
           /\ fit.good["SAT"] + fit.good["VIO"] + fit.bad["SAT"] + fit.bad["VIO"]
                = IF fit.events = 0 THEN 0 ELSE fit.events - 1

\* A spec is blamed for smells that its tests had when a lint read them, each
\* once, and for all that a lint which ended found: dying, repeating and
\* overlapping lints change nothing.  And `filter run` never trusts a spec more
\* than doctor, which leaves the clusters out: a spec that doctor flags has
\* lost the filter's trust too.
TrustEarned ==
  \A s \in Specs :
    LET penalty == Penalty(Cardinality(SmellKeys(log, s)))
    IN  /\ Penalty(Cardinality(smelt[s])) <= penalty
        /\ penalty <= Penalty(Cardinality(linted[s]))
        /\ ~Below(Quality(log, s), Trust(log, s))

\* "Never removes entries": doctor only adds to the review queue, unless it is
\* killed while it writes, the queue changed between its read and its write, or
\* it could not read the queue: then it writes over whatever is there.
QueueKept ==
  [][ (/\ edits' = edits
       /\ cut'["doctor"] = cut["doctor"]
       /\ \A w \in stale : proc'[w] = proc[w]) => IsPrefix(queue, queue') ]_vars
===========================================================================
