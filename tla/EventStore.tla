---------------------------- MODULE EventStore ----------------------------
(***************************************************************************)
(* The event store: the SQLite table .specere/events.sqlite, which         *)
(* `observe query` reads, and its mirror .specere/events.jsonl, which      *)
(* `filter run` reads.                                                     *)
(*                                                                         *)
(* A client's request is a batch of events, handled one event at a time:   *)
(* first the insert into SQLite, then the append to the mirror.  It comes  *)
(* from `observe record` (a process of its own, one event), or over OTLP   *)
(* into `specere serve`, by HTTP or by gRPC; the three differ in what they *)
(* do when the mirror cannot be written.  A client that was refused, or    *)
(* whose server died, may send the whole request again.                    *)
(*                                                                         *)
(* A query first imports the mirror into an empty table, in three steps:   *)
(* count the rows, read the file, insert in one transaction.               *)
(*                                                                         *)
(* Simplifications: SQLite statements and transactions are atomic and      *)
(* durable (process death, not power loss); the receivers' mutex around    *)
(* the insert adds nothing to that; the table is how often it holds each   *)
(* event, since a query orders its answer by timestamp.                    *)
(***************************************************************************)
EXTENDS Integers, Sequences, FiniteSets

CONSTANTS
  Event,      \* what can be recorded: one member per distinct event
  History,    \* the mirror when SQLite was introduced: a sequence of events
  Client,
  Request,    \* Request[c]: the events of client c's request, in order
  Via,        \* Via[c]: how it arrives: "record", "http" or "grpc"
  Reader,     \* processes that run `observe query`
  Garbage,    \* a line of the mirror that does not parse
  MaxTries,   \* bound: times a client sends its request
  MaxTears    \* bound: appends to the mirror cut short

Old == {History[i] : i \in DOMAIN History}

Sent(c) == {Request[c][i] : i \in DOMAIN Request[c]}

ASSUME EventStoreAssumption ==
  /\ Garbage \notin Event
  /\ History \in Seq(Event)
  /\ Request \in [Client -> Seq(Event) \ {<< >>}]
  /\ Via \in [Client -> {"record", "http", "grpc"}]
  /\ \A c \in Client : Sent(c) \cap Old = {}
  /\ \A c, d \in Client : c # d => Sent(c) \cap Sent(d) = {}
  /\ MaxTries \in Nat
  /\ MaxTears \in Nat

VARIABLES
  rows,       \* rows[e]: copies of e in the SQLite table
  lines,      \* the lines of the mirror
  open,       \* the last line of the mirror has no newline yet
  tears,      \* appends that were cut short so far
  appended,   \* history: appends to the mirror that returned Ok
  cpc,        \* cpc[c]: where the handling of c's request stands
  at,         \* at[c]: the event of the batch being handled
  tries,      \* tries[c]: how often c sent its request
  qpc,        \* qpc[q]: where q's query stands
  text        \* text[q]: the mirror as q read it

storeVars == <<rows, lines, open, tears, appended>>
clientVars == <<cpc, at, tries>>
readerVars == <<qpc, text>>
vars == <<storeVars, clientVars, readerVars>>

Empty == \A e \in Event : rows[e] = 0

\* How often a list of lines holds e.
Copies(l, e) == Cardinality({i \in DOMAIN l : l[i] = e})

\* Positions of the lines that parse.
Readable == {i \in DOMAIN lines : lines[i] # Garbage}

TypeOK ==
  /\ rows \in [Event -> Nat]
  /\ lines \in Seq(Event \cup {Garbage})
  /\ open \in BOOLEAN
  /\ open => lines # << >>
  /\ tears \in 0..MaxTears
  /\ appended \in Nat
  /\ cpc \in [Client -> {"ready", "insert", "mirror", "acked", "refused"}]
  /\ at \in [Client -> Nat]
  /\ \A c \in Client : cpc[c] \in {"insert", "mirror"} => at[c] \in DOMAIN Request[c]
  /\ tries \in [Client -> 0..MaxTries]
  /\ qpc \in [Reader -> {"ready", "load", "import", "select", "done"}]
  /\ text \in [Reader -> Seq(Event \cup {Garbage})]

Init ==
  /\ rows = [e \in Event |-> 0]
  /\ lines = History
  /\ open = FALSE
  /\ tears = 0
  /\ appended = Len(History)
  /\ cpc = [c \in Client |-> "ready"]
  /\ at = [c \in Client |-> 0]
  /\ tries = [c \in Client |-> 0]
  /\ qpc = [q \in Reader |-> "ready"]
  /\ text = [q \in Reader |-> << >>]

----------------------------------------------------------------------------
(* Mutants.                                                                *)

ExtendedFromStart(l, line) ==
  IF open THEN [l EXCEPT ![Len(l)] = Garbage] ELSE <<line>>

----------------------------------------------------------------------------
(* The mirror.                                                             *)

\* What bytes written after l make of it: a line of their own, or, behind a
\* line that was never finished, part of that line, which then parses no more.
Extended(l, line) ==
  IF open THEN [l EXCEPT ![Len(l)] = Garbage] ELSE Append(l, line)

\* event_store::append wrote the whole line.
WriteLine(e) ==
  /\ lines' = Extended(lines, e)
  /\ open' = FALSE
  /\ appended' = appended + 1
  /\ UNCHANGED tears

\* It wrote nothing.
WriteNothing == UNCHANGED <<lines, open, tears, appended>>

\* It ran out of space in the middle of the line, or just before the newline:
\* then the event still parses, as the last line of the file.
WriteTorn(e) ==
  /\ tears < MaxTears
  /\ \E line \in {Garbage, e} : lines' = Extended(lines, line)
  /\ open' = TRUE
  /\ tears' = tears + 1
  /\ UNCHANGED appended

----------------------------------------------------------------------------
(* Recording.                                                              *)

\* The event of the batch that is being handled.
Current(c) == Request[c][at[c]]

\* The client sends its request: for the first time, or again after a failure.
Send(c) ==
  /\ cpc[c] \in {"ready", "refused"}
  /\ tries[c] < MaxTries
  /\ cpc' = [cpc EXCEPT ![c] = "insert"]
  /\ at' = [at EXCEPT ![c] = 1]
  /\ tries' = [tries EXCEPT ![c] = @ + 1]
  /\ UNCHANGED <<storeVars, readerVars>>

Insert(c) ==
  /\ cpc[c] = "insert"
  /\ rows' = [rows EXCEPT ![Current(c)] = @ + 1]
  /\ cpc' = [cpc EXCEPT ![c] = "mirror"]
  /\ UNCHANGED <<lines, open, tears, appended, at, tries, readerVars>>

\* Mutant: it looks for one event past the end of the batch.
NextEventTooFar(c) ==
  IF at[c] > Len(Request[c])
    THEN /\ cpc' = [cpc EXCEPT ![c] = "acked"]
         /\ UNCHANGED at
    ELSE /\ cpc' = [cpc EXCEPT ![c] = "insert"]
         /\ at' = [at EXCEPT ![c] = @ + 1]

\* The handler goes on to the next event of the batch or acknowledges it all.
NextEvent(c) ==
  IF at[c] = Len(Request[c])
    THEN /\ cpc' = [cpc EXCEPT ![c] = "acked"]
         /\ UNCHANGED at
    ELSE /\ cpc' = [cpc EXCEPT ![c] = "insert"]
         /\ at' = [at EXCEPT ![c] = @ + 1]

\* The request ends in an error; what was stored of it stays.
Refuse(c) ==
  /\ cpc' = [cpc EXCEPT ![c] = "refused"]
  /\ UNCHANGED at

Mirror(c) ==
  /\ cpc[c] = "mirror"
  /\ WriteLine(Current(c))
  /\ NextEvent(c)
  /\ UNCHANGED <<rows, tries, readerVars>>

\* Mutant: every receiver carries on.
MirrorFailsQuietly(c) ==
  /\ cpc[c] = "mirror"
  /\ WriteNothing \/ WriteTorn(Current(c))
  /\ NextEvent(c)
  /\ UNCHANGED <<rows, tries, readerVars>>

\* handle_traces logs a failed append and goes on; persist and record return it.
MirrorFails(c) ==
  /\ cpc[c] = "mirror"
  /\ WriteNothing \/ WriteTorn(Current(c))
  /\ IF Via[c] = "http" THEN NextEvent(c) ELSE Refuse(c)
  /\ UNCHANGED <<rows, tries, readerVars>>

\* Mutant: a failed insert is logged and the event still mirrored.
AbortQuietly(c) ==
  \/ /\ cpc[c] = "insert"
     /\ cpc' = [cpc EXCEPT ![c] = "mirror"]
     /\ UNCHANGED <<storeVars, at, tries, readerVars>>
  \/ /\ cpc[c] = "mirror"
     /\ Refuse(c)
     /\ UNCHANGED <<storeVars, tries, readerVars>>

\* The insert fails, or the process that handles the request dies.
Abort(c) ==
  /\ cpc[c] \in {"insert", "mirror"}
  /\ Refuse(c)
  /\ UNCHANGED <<storeVars, tries, readerVars>>

----------------------------------------------------------------------------
(* Querying.                                                               *)

\* Opens the table, then counts its rows: only an empty one is filled.
Count(q) ==
  /\ qpc[q] = "ready"
  /\ qpc' = [qpc EXCEPT
               ![q] = IF Empty /\ lines # << >> THEN "load" ELSE "select"]
  /\ UNCHANGED <<storeVars, clientVars, text>>

Load(q) ==
  /\ qpc[q] = "load"
  /\ text' = [text EXCEPT ![q] = lines]
  /\ qpc' = [qpc EXCEPT ![q] = "import"]
  /\ UNCHANGED <<storeVars, clientVars>>

\* Mutant: no transaction, the import can stop after any line.
ImportLineByLine(q) ==
  /\ qpc[q] = "import"
  /\ \E n \in 0..Len(text[q]) :
       rows' = [e \in Event |-> rows[e] + Copies(SubSeq(text[q], 1, n), e)]
  /\ qpc' = [qpc EXCEPT ![q] = "select"]
  /\ text' = [text EXCEPT ![q] = << >>]
  /\ UNCHANGED <<lines, open, tears, appended, clientVars>>

\* One transaction inserts every line that parses.
Import(q) ==
  /\ qpc[q] = "import"
  /\ rows' = [e \in Event |-> rows[e] + Copies(text[q], e)]
  /\ qpc' = [qpc EXCEPT ![q] = "select"]
  /\ text' = [text EXCEPT ![q] = << >>]
  /\ UNCHANGED <<lines, open, tears, appended, clientVars>>

\* The answer is what the table holds.
Select(q) ==
  /\ qpc[q] = "select"
  /\ qpc' = [qpc EXCEPT ![q] = "done"]
  /\ UNCHANGED <<storeVars, clientVars, text>>

\* The process is over, finished or killed; another may take its place.
Leave(q) ==
  /\ qpc[q] # "ready"
  /\ qpc' = [qpc EXCEPT ![q] = "ready"]
  /\ text' = [text EXCEPT ![q] = << >>]
  /\ UNCHANGED <<storeVars, clientVars>>

Next ==
  \/ \E c \in Client : \/ Send(c) \/ Insert(c) \/ Mirror(c)
                       \/ MirrorFails(c) \/ Abort(c)
  \/ \E q \in Reader : \/ Count(q) \/ Load(q) \/ Import(q)
                       \/ Select(q) \/ Leave(q)

Spec == Init /\ [][Next]_vars

----------------------------------------------------------------------------
(* Properties.                                                             *)

\* Whatever was acknowledged is in the table, and what is in the mirror beyond
\* the history is in the table too: `filter run`, which reads the mirror, never
\* sees an event that `observe query` cannot show.  No order of deaths, retries
\* and imports puts the mirror ahead of the store.
MirrorBehindStore ==
  /\ \A c \in Client : cpc[c] = "acked" => \A e \in Sent(c) : rows[e] > 0
  /\ \A i \in Readable : lines[i] \in Old \/ rows[lines[i]] > 0

\* An event acknowledged by `record` or over gRPC is one that `filter run` will
\* read, whatever failures its earlier attempts met, as long as no append was
\* ever cut short.  (HTTP acknowledges what it could not mirror.)
AckedReachesFilter ==
  tears = 0 =>
    \A c \in Client : (cpc[c] = "acked" /\ Via[c] # "http") =>
      \A e \in Sent(c) : \E i \in Readable : lines[i] = e

\* Each append that is cut short costs at most one append that succeeded: the
\* next one, which it swallows.  Nothing older is ever lost.
TornAppendCostsOne == Cardinality(Readable) >= appended - tears

\* The history is imported whole or not at all, however often it is imported
\* and wherever the importing process dies.
ImportAllOrNothing ==
  \A i, j \in DOMAIN History :
    rows[History[i]] * Copies(History, History[j])
      = rows[History[j]] * Copies(History, History[i])

----------------------------------------------------------------------------
(* Said of the code, and not so.                                           *)

\* "On a JSONL-only repo the backend backfills SQLite from JSONL once on first
\* call": when a query has ended, the table holds the history once.
HistoryImportedOnce ==
  \A q \in Reader : qpc[q] = "done" =>
    \A e \in Old : rows[e] = Copies(History, e)
===========================================================================
