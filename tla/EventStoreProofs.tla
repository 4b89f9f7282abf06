------------------------- MODULE EventStoreProofs -------------------------
(***************************************************************************)
(* Proofs about EventStore, for any clients, requests, readers, history    *)
(* and failures.                                                           *)
(*                                                                         *)
(* TypeOK is inductive.  Each of the other invariants is one part of what  *)
(* holds while a request is half-way through its batch:                    *)
(*                                                                         *)
(*   Stored       what precedes the current event of a batch is stored,    *)
(*                and so is the event itself once it goes to the mirror;   *)
(*   Mirrored     as long as no append was cut short, what precedes it is  *)
(*                in the mirror too, unless the request came over HTTP;    *)
(*   Slack        an unfinished last line is one that the next append may  *)
(*                cost, and a readable one may cost two;                   *)
(*   Intact       the mirror, and what a reader has read of it, begins     *)
(*                with the history, which occurs nowhere else in it.       *)
(***************************************************************************)
EXTENDS EventStore, FiniteSetTheorems, SequenceTheorems, TLAPS

----------------------------------------------------------------------------
(* Lists of lines.                                                         *)

\* A line of a mirror: an event, or what does not parse.
Line == Event \cup {Garbage}

\* Positions of the lines of l that parse.
Parsed(l) == {i \in DOMAIN l : l[i] # Garbage}

\* What Extended makes of a list of lines: one position gains a line, or the
\* last one loses its line.
LEMMA ExtendedLines ==
  ASSUME NEW l \in Seq(Line), NEW x \in Line, open => l # << >>
  PROVE  /\ Extended(l, x) \in Seq(Line)
         /\ Extended(l, x) # << >>
         /\ open => /\ Len(Extended(l, x)) = Len(l)
                    /\ Len(l) \in 1..Len(l)
                    /\ Extended(l, x)[Len(l)] = Garbage
                    /\ \A i \in 1..Len(l) : i # Len(l) => Extended(l, x)[i] = l[i]
         /\ ~open => /\ Len(Extended(l, x)) = Len(l) + 1
                     /\ Extended(l, x)[Len(l) + 1] = x
                     /\ \A i \in 1..Len(l) : Extended(l, x)[i] = l[i]
<1>0. Garbage \in Line BY DEF Line
<1>1. CASE open
  <2>1. /\ Len(l) \in Nat /\ Len(l) > 0 BY <1>1
  <2>2. Extended(l, x) = [l EXCEPT ![Len(l)] = Garbage] BY <1>1 DEF Extended
  <2>3. DOMAIN l = 1..Len(l) OBVIOUS
  <2>4. Len(l) \in 1..Len(l) BY <2>1
  <2>5. [l EXCEPT ![Len(l)] = Garbage] \in Seq(Line) BY <1>0, <2>4, ExceptSeq
  <2>6. Len([l EXCEPT ![Len(l)] = Garbage]) = Len(l) OBVIOUS
  <2>7. [l EXCEPT ![Len(l)] = Garbage] # << >> BY <2>1, <2>5, <2>6
  <2>8. /\ [l EXCEPT ![Len(l)] = Garbage][Len(l)] = Garbage
        /\ \A i \in 1..Len(l) : i # Len(l) => [l EXCEPT ![Len(l)] = Garbage][i] = l[i]
    BY <2>3, <2>4
  <2> QED BY <1>1, <2>2, <2>4, <2>5, <2>6, <2>7, <2>8
<1>2. CASE ~open
  <2>1. Extended(l, x) = Append(l, x) BY <1>2 DEF Extended
  <2>2. /\ Append(l, x) \in Seq(Line)
        /\ Len(Append(l, x)) = Len(l) + 1
        /\ Append(l, x)[Len(l) + 1] = x
        /\ \A i \in 1..Len(l) : Append(l, x)[i] = l[i]
        /\ Append(l, x) # << >>
    OBVIOUS
  <2> QED BY <1>2, <2>1, <2>2
<1> QED BY <1>1, <1>2

----------------------------------------------------------------------------
(* Types.                                                                  *)

\* How often a list of lines holds an event is a number.
LEMMA CopiesType ==
  ASSUME NEW l \in Seq(Line), NEW e
  PROVE  Copies(l, e) \in Nat
<1>1. IsFiniteSet(1..Len(l)) BY FS_Interval
<1>2. {i \in DOMAIN l : l[i] = e} \subseteq 1..Len(l) OBVIOUS
<1>3. IsFiniteSet({i \in DOMAIN l : l[i] = e}) BY <1>1, <1>2, FS_Subset
<1> QED BY <1>3, FS_CardinalityType DEF Copies

\* The event of a batch being handled is one that the client sent.
LEMMA CurrentSent ==
  ASSUME TypeOK, NEW c \in Client, cpc[c] \in {"insert", "mirror"}
  PROVE  /\ Current(c) \in Sent(c)
         /\ Current(c) \in Event
         /\ Current(c) \notin Old
         /\ at[c] \in 1..Len(Request[c])
         /\ Len(Request[c]) \in Nat
<1>1. at[c] \in DOMAIN Request[c] BY DEF TypeOK
<1>2. Request[c] \in Seq(Event) BY EventStoreAssumption
<1>3. Current(c) \in Sent(c) BY <1>1 DEF Current, Sent
<1>4. Current(c) \in Event BY <1>1, <1>2 DEF Current
<1>5. Current(c) \notin Old BY <1>3, EventStoreAssumption
<1> QED BY <1>1, <1>2, <1>3, <1>4, <1>5

\* The part of the type invariant that is about the mirror.
MirrorType ==
  /\ lines \in Seq(Line)
  /\ open \in BOOLEAN
  /\ open => lines # << >>
  /\ tears \in 0..MaxTears
  /\ appended \in Nat

\* Whatever an append does, the mirror stays a list of lines.
LEMMA WritesTyped ==
  ASSUME MirrorType, NEW e \in Event,
         \/ WriteLine(e) \/ WriteNothing \/ WriteTorn(e)
  PROVE  MirrorType'
<1>0. e \in Line /\ Garbage \in Line BY DEF Line
<1>1. CASE WriteLine(e)
  <2>1. lines' \in Seq(Line)
    BY <1>0, <1>1, ExtendedLines DEF MirrorType, WriteLine
  <2>2. appended' \in Nat BY <1>1 DEF MirrorType, WriteLine
  <2>3. open' = FALSE /\ tears' = tears BY <1>1 DEF WriteLine
  <2> QED BY <2>1, <2>2, <2>3 DEF MirrorType
<1>2. CASE WriteNothing
  BY <1>2 DEF MirrorType, WriteNothing
<1>3. CASE WriteTorn(e)
  <2>1. PICK x \in {Garbage, e} : lines' = Extended(lines, x) BY <1>3 DEF WriteTorn
  <2>2. lines' \in Seq(Line) /\ lines' # << >>
    BY <1>0, <2>1, ExtendedLines DEF MirrorType
  <2>3. tears' \in 0..MaxTears
    BY <1>3, EventStoreAssumption DEF WriteTorn, MirrorType
  <2> QED BY <1>3, <2>2, <2>3 DEF WriteTorn, MirrorType
<1> QED BY <1>1, <1>2, <1>3

\* The part about the clients.
ClientType ==
  /\ cpc \in [Client -> {"ready", "insert", "mirror", "acked", "refused"}]
  /\ at \in [Client -> Nat]
  /\ \A c \in Client : cpc[c] \in {"insert", "mirror"} => at[c] \in DOMAIN Request[c]
  /\ tries \in [Client -> 0..MaxTries]

\* The part about the readers.
ReaderType ==
  /\ qpc \in [Reader -> {"ready", "load", "import", "select", "done"}]
  /\ text \in [Reader -> Seq(Line)]

LEMMA TypeParts ==
  TypeOK <=> rows \in [Event -> Nat] /\ MirrorType /\ ClientType /\ ReaderType
BY DEF TypeOK, MirrorType, ClientType, ReaderType, Line

\* To go on within a batch, or to refuse it, keeps the clients typed.
LEMMA HandlerTyped ==
  ASSUME ClientType, NEW c \in Client, cpc[c] \in {"insert", "mirror"},
         NextEvent(c) \/ Refuse(c), tries' = tries
  PROVE  ClientType'
<1>1. at[c] \in DOMAIN Request[c] BY DEF ClientType
<1>2. Request[c] \in Seq(Event) BY EventStoreAssumption
<1>3. at[c] \in 1..Len(Request[c]) /\ Len(Request[c]) \in Nat BY <1>1, <1>2
<1>4. CASE at[c] = Len(Request[c]) /\ NextEvent(c)
  BY <1>4 DEF NextEvent, ClientType
<1>5. CASE at[c] # Len(Request[c]) /\ NextEvent(c)
  <2>1. at[c] + 1 \in 1..Len(Request[c]) BY <1>3, <1>5
  <2>2. at[c] + 1 \in DOMAIN Request[c] BY <1>2, <2>1
  <2>3. /\ cpc' = [cpc EXCEPT ![c] = "insert"]
        /\ at' = [at EXCEPT ![c] = @ + 1]
    BY <1>5 DEF NextEvent
  <2> QED BY <2>2, <2>3 DEF ClientType
<1>6. CASE Refuse(c)
  BY <1>6 DEF Refuse, ClientType
<1> QED BY <1>4, <1>5, <1>6

\* Every reachable state is well typed.
THEOREM StoreTypeCorrect == Spec => []TypeOK
<1>1. Init => TypeOK
  <2> SUFFICES ASSUME Init PROVE TypeOK OBVIOUS
  <2>1. History \in Seq(Line) /\ Len(History) \in Nat
    BY EventStoreAssumption DEF Line
  <2>2. rows \in [Event -> Nat] BY DEF Init
  <2>3. tears \in 0..MaxTears BY EventStoreAssumption DEF Init
  <2>4. MirrorType BY <2>1, <2>3 DEF Init, MirrorType
  <2>5. 0 \in 0..MaxTries BY EventStoreAssumption
  <2>6. ClientType BY <2>5 DEF Init, ClientType
  <2>7. << >> \in Seq(Line) OBVIOUS
  <2>8. ReaderType BY <2>7 DEF Init, ReaderType
  <2> QED BY <2>2, <2>4, <2>6, <2>8, TypeParts
<1>2. TypeOK /\ [Next]_vars => TypeOK'
  <2> SUFFICES ASSUME TypeOK, [Next]_vars PROVE TypeOK' OBVIOUS
  <2>0. rows \in [Event -> Nat] /\ MirrorType /\ ClientType /\ ReaderType BY TypeParts
  <2> SUFFICES (rows \in [Event -> Nat])' /\ MirrorType' /\ ClientType' /\ ReaderType'
    BY DEF TypeOK, MirrorType, ClientType, ReaderType, Line
  <2>1. ASSUME NEW c \in Client, Send(c)
        PROVE  (rows \in [Event -> Nat])' /\ MirrorType' /\ ClientType' /\ ReaderType'
    <3>1. 1 \in DOMAIN Request[c] BY EventStoreAssumption
    <3>2. tries[c] + 1 \in 0..MaxTries
      BY <2>0, <2>1, EventStoreAssumption DEF Send, ClientType
    <3>3. ClientType' BY <2>0, <2>1, <3>1, <3>2 DEF Send, ClientType
    <3> QED BY <2>0, <2>1, <3>3 DEF Send, storeVars, readerVars, MirrorType, ReaderType
  <2>2. ASSUME NEW c \in Client, Insert(c)
        PROVE  (rows \in [Event -> Nat])' /\ MirrorType' /\ ClientType' /\ ReaderType'
    <3>1. Current(c) \in Event BY <2>2, CurrentSent DEF Insert
    <3>2. rows' \in [Event -> Nat] BY <2>0, <2>2, <3>1 DEF Insert
    <3>3. ClientType' BY <2>0, <2>2 DEF Insert, ClientType
    <3> QED BY <2>0, <2>2, <3>2, <3>3 DEF Insert, readerVars, MirrorType, ReaderType
  <2>3. ASSUME NEW c \in Client, Mirror(c)
        PROVE  (rows \in [Event -> Nat])' /\ MirrorType' /\ ClientType' /\ ReaderType'
    <3>1. Current(c) \in Event BY <2>3, CurrentSent DEF Mirror
    <3>2. MirrorType' BY <2>0, <2>3, <3>1, WritesTyped DEF Mirror
    <3>3. ClientType' BY <2>0, <2>3, HandlerTyped DEF Mirror
    <3> QED BY <2>0, <2>3, <3>2, <3>3 DEF Mirror, readerVars, ReaderType
  <2>4. ASSUME NEW c \in Client, MirrorFails(c)
        PROVE  (rows \in [Event -> Nat])' /\ MirrorType' /\ ClientType' /\ ReaderType'
    <3>1. Current(c) \in Event BY <2>4, CurrentSent DEF MirrorFails
    <3>2. MirrorType' BY <2>0, <2>4, <3>1, WritesTyped DEF MirrorFails
    <3>3. NextEvent(c) \/ Refuse(c) BY <2>4 DEF MirrorFails
    <3>4. ClientType' BY <2>0, <2>4, <3>3, HandlerTyped DEF MirrorFails
    <3> QED BY <2>0, <2>4, <3>2, <3>4 DEF MirrorFails, readerVars, ReaderType
  <2>5. ASSUME NEW c \in Client, Abort(c)
        PROVE  (rows \in [Event -> Nat])' /\ MirrorType' /\ ClientType' /\ ReaderType'
    <3>1. ClientType' BY <2>0, <2>5, HandlerTyped DEF Abort
    <3> QED BY <2>0, <2>5, <3>1 DEF Abort, storeVars, readerVars, MirrorType, ReaderType
  <2>6. ASSUME NEW q \in Reader, Count(q)
        PROVE  (rows \in [Event -> Nat])' /\ MirrorType' /\ ClientType' /\ ReaderType'
    <3>1. (IF Empty /\ lines # << >> THEN "load" ELSE "select") \in {"load", "select"}
      OBVIOUS
    <3>2. ReaderType' BY <2>0, <2>6, <3>1 DEF Count, ReaderType
    <3> QED BY <2>0, <2>6, <3>2 DEF Count, storeVars, clientVars, MirrorType, ClientType
  <2>7. ASSUME NEW q \in Reader, Load(q)
        PROVE  (rows \in [Event -> Nat])' /\ MirrorType' /\ ClientType' /\ ReaderType'
    BY <2>0, <2>7 DEF Load, storeVars, clientVars, MirrorType, ClientType, ReaderType
  <2>8. ASSUME NEW q \in Reader, Import(q)
        PROVE  (rows \in [Event -> Nat])' /\ MirrorType' /\ ClientType' /\ ReaderType'
    <3>1. text[q] \in Seq(Line) BY <2>0 DEF ReaderType
    <3>2. \A e \in Event : rows[e] + Copies(text[q], e) \in Nat
      BY <2>0, <3>1, CopiesType
    <3>3. rows' \in [Event -> Nat] BY <2>8, <3>2 DEF Import
    <3>4. << >> \in Seq(Line) OBVIOUS
    <3>5. ReaderType' BY <2>0, <2>8, <3>4 DEF Import, ReaderType
    <3> QED BY <2>0, <2>8, <3>3, <3>5 DEF Import, clientVars, MirrorType, ClientType
  <2>9. ASSUME NEW q \in Reader, Select(q)
        PROVE  (rows \in [Event -> Nat])' /\ MirrorType' /\ ClientType' /\ ReaderType'
    BY <2>0, <2>9 DEF Select, storeVars, clientVars, MirrorType, ClientType, ReaderType
  <2>10. ASSUME NEW q \in Reader, Leave(q)
         PROVE  (rows \in [Event -> Nat])' /\ MirrorType' /\ ClientType' /\ ReaderType'
    <3>1. << >> \in Seq(Line) OBVIOUS
    <3> QED BY <2>0, <2>10, <3>1
         DEF Leave, storeVars, clientVars, MirrorType, ClientType, ReaderType
  <2>11. CASE UNCHANGED vars
    BY <2>0, <2>11 DEF vars, storeVars, clientVars, readerVars,
                       MirrorType, ClientType, ReaderType
  <2> QED BY <2>1, <2>2, <2>3, <2>4, <2>5, <2>6, <2>7, <2>8, <2>9, <2>10, <2>11 DEF Next
<1> QED BY <1>1, <1>2, PTL DEF Spec

----------------------------------------------------------------------------
(* What a step can do.                                                     *)

\* No step deletes a row.
LEMMA RowsGrow ==
  ASSUME TypeOK, [Next]_vars, NEW e \in Event
  PROVE  rows[e] \in Nat /\ rows'[e] \in Nat /\ rows'[e] >= rows[e]
<1>0. rows \in [Event -> Nat] /\ ReaderType BY TypeParts
<1>1. rows[e] \in Nat BY <1>0
<1>2. ASSUME NEW c \in Client, Insert(c)
      PROVE  rows'[e] \in Nat /\ rows'[e] >= rows[e]
  <2>1. rows' = [rows EXCEPT ![Current(c)] = @ + 1] BY <1>2 DEF Insert
  <2>2. CASE e = Current(c) BY <1>0, <1>1, <2>1, <2>2
  <2>3. CASE e # Current(c) BY <1>0, <1>1, <2>1, <2>3
  <2> QED BY <2>2, <2>3
<1>3. ASSUME NEW q \in Reader, Import(q)
      PROVE  rows'[e] \in Nat /\ rows'[e] >= rows[e]
  <2>1. text[q] \in Seq(Line) BY <1>0 DEF ReaderType
  <2>2. Copies(text[q], e) \in Nat BY <2>1, CopiesType
  <2>3. rows'[e] = rows[e] + Copies(text[q], e) BY <1>3 DEF Import
  <2> QED BY <1>1, <2>2, <2>3
<1>4. CASE UNCHANGED rows BY <1>1, <1>4
<1> QED
  BY <1>1, <1>2, <1>3, <1>4
  DEF Next, Send, Mirror, MirrorFails, Abort, Count, Load, Select, Leave,
      vars, storeVars

\* What a step makes of one client's request.
RequestStep(c) ==
  \/ cpc'[c] = cpc[c] /\ at'[c] = at[c]
  \/ cpc'[c] = "refused"
  \/ cpc'[c] = "insert" /\ at'[c] = 1
  \/ cpc'[c] = "mirror" /\ cpc[c] = "insert" /\ at'[c] = at[c]
       /\ rows' = [rows EXCEPT ![Current(c)] = @ + 1]
  \/ /\ cpc[c] = "mirror"
     /\ \/ cpc'[c] = "insert" /\ at'[c] = at[c] + 1
        \/ cpc'[c] = "acked" /\ at'[c] = at[c] /\ at[c] = Len(Request[c])
     /\ Via[c] = "http" \/ WriteLine(Current(c))

LEMMA RequestSteps ==
  ASSUME TypeOK, [Next]_vars, NEW c \in Client
  PROVE  RequestStep(c)
<1>0. ClientType BY TypeParts
<1>1. cpc \in [Client -> {"ready", "insert", "mirror", "acked", "refused"}]
      /\ at \in [Client -> Nat]
  BY <1>0 DEF ClientType
<1>2. ASSUME NEW d \in Client,
             Send(d) \/ Insert(d) \/ Mirror(d) \/ MirrorFails(d) \/ Abort(d)
      PROVE  RequestStep(c)
  <2>1. CASE c # d
    <3>1. cpc'[c] = cpc[c] /\ at'[c] = at[c]
      BY <1>1, <1>2, <2>1
      DEF Send, Insert, Mirror, MirrorFails, Abort, NextEvent, Refuse
    <3> QED BY <3>1 DEF RequestStep
  <2>2. CASE c = d
    <3>1. CASE Send(c) BY <1>1, <3>1 DEF Send, RequestStep
    <3>2. CASE Insert(c) BY <1>1, <3>2 DEF Insert, RequestStep
    <3>3. CASE Refuse(c) BY <1>1, <3>3 DEF Refuse, RequestStep
    <3>4. CASE /\ cpc[c] = "mirror" /\ NextEvent(c)
               /\ Via[c] = "http" \/ WriteLine(Current(c))
      BY <1>1, <3>4 DEF NextEvent, RequestStep
    <3> QED BY <1>2, <2>2, <3>1, <3>2, <3>3, <3>4 DEF Mirror, MirrorFails, Abort
  <2> QED BY <2>1, <2>2
<1>3. CASE UNCHANGED <<cpc, at>> BY <1>3 DEF RequestStep
<1> QED
  BY <1>2, <1>3
  DEF Next, Count, Load, Import, Select, Leave, vars, clientVars

\* What a step makes of the mirror.
LEMMA MirrorSteps ==
  ASSUME TypeOK, [Next]_vars
  PROVE  \/ UNCHANGED <<lines, open, tears, appended>>
         \/ \E c \in Client : /\ cpc[c] = "mirror"
                              /\ WriteLine(Current(c)) \/ WriteTorn(Current(c))
<1>1. ASSUME NEW c \in Client, Mirror(c) \/ MirrorFails(c)
      PROVE  \/ UNCHANGED <<lines, open, tears, appended>>
             \/ /\ cpc[c] = "mirror"
                /\ WriteLine(Current(c)) \/ WriteTorn(Current(c))
  BY <1>1 DEF Mirror, MirrorFails, WriteNothing
<1> QED
  BY <1>1
  DEF Next, Send, Insert, Abort, Count, Load, Import, Select, Leave, vars, storeVars

----------------------------------------------------------------------------
(* The mirror is behind the store.                                         *)

\* What precedes the current event of a batch is stored, and so is that event
\* when it goes to the mirror.
Stored ==
  \A c \in Client :
    /\ cpc[c] \in {"insert", "mirror"} =>
         \A i \in 1..Len(Request[c]) : i < at[c] => rows[Request[c][i]] > 0
    /\ cpc[c] = "mirror" => rows[Current(c)] > 0
    /\ cpc[c] = "acked" => \A i \in 1..Len(Request[c]) : rows[Request[c][i]] > 0

\* Every event that the mirror holds beyond the history is stored.
Mirrorable(e) == e = Garbage \/ e \in Old \/ rows[e] > 0

LEMMA StoredStep == TypeOK /\ Stored /\ [Next]_vars => Stored'
<1> SUFFICES ASSUME TypeOK, Stored, [Next]_vars, NEW c \in Client
             PROVE  /\ (cpc[c] \in {"insert", "mirror"})' =>
                         \A i \in 1..Len(Request[c]) :
                           i < at'[c] => rows'[Request[c][i]] > 0
                    /\ (cpc[c] = "mirror")' => rows'[Current(c)'] > 0
                    /\ (cpc[c] = "acked")' =>
                         \A i \in 1..Len(Request[c]) : rows'[Request[c][i]] > 0
  BY DEF Stored
<1>0. Request[c] \in Seq(Event) BY EventStoreAssumption
<1>1. \A i \in 1..Len(Request[c]) : Request[c][i] \in Event BY <1>0
<1>2. \A e \in Event : rows[e] \in Nat /\ rows'[e] \in Nat /\ rows'[e] >= rows[e]
  BY RowsGrow
<1>3. \A e \in Event : rows[e] > 0 => rows'[e] > 0 BY <1>2
<1>4. Len(Request[c]) \in Nat /\ at[c] \in Nat BY <1>0 DEF TypeOK
<1>5. CASE cpc'[c] = cpc[c] /\ at'[c] = at[c]
  <2>1. Current(c)' = Current(c) BY <1>5 DEF Current
  <2>2. cpc[c] = "mirror" => Current(c) \in Event BY CurrentSent
  <2> QED BY <1>1, <1>3, <1>5, <2>1, <2>2 DEF Stored
<1>6. CASE cpc'[c] = "refused" BY <1>6
<1>7. CASE cpc'[c] = "insert" /\ at'[c] = 1
  <2>1. \A i \in 1..Len(Request[c]) : ~(i < 1) BY <1>4
  <2> QED BY <1>7, <2>1
<1>8. CASE /\ cpc'[c] = "mirror" /\ cpc[c] = "insert" /\ at'[c] = at[c]
           /\ rows' = [rows EXCEPT ![Current(c)] = @ + 1]
  <2>1. Current(c)' = Current(c) BY <1>8 DEF Current
  <2>2. Current(c) \in Event BY <1>8, CurrentSent
  <2>3. rows'[Current(c)] = rows[Current(c)] + 1
    BY <1>8, <2>2 DEF TypeOK
  <2>4. rows'[Current(c)] > 0 BY <1>2, <2>2, <2>3
  <2> QED BY <1>1, <1>3, <1>8, <2>1, <2>4 DEF Stored
<1>9. CASE cpc[c] = "mirror" /\ cpc'[c] = "insert" /\ at'[c] = at[c] + 1
  <2>1. rows[Current(c)] > 0 BY <1>9 DEF Stored
  <2>2. \A i \in 1..Len(Request[c]) : i < at[c] + 1 => i < at[c] \/ i = at[c] BY <1>4
  <2>3. \A i \in 1..Len(Request[c]) : i < at[c] + 1 => rows[Request[c][i]] > 0
    BY <1>9, <2>1, <2>2 DEF Stored, Current
  <2> QED BY <1>1, <1>3, <1>9, <2>3
<1>10. CASE cpc[c] = "mirror" /\ cpc'[c] = "acked" /\ at[c] = Len(Request[c])
  <2>1. rows[Current(c)] > 0 BY <1>10 DEF Stored
  <2>2. \A i \in 1..Len(Request[c]) : i < at[c] \/ i = at[c] BY <1>4, <1>10
  <2>3. \A i \in 1..Len(Request[c]) : rows[Request[c][i]] > 0
    BY <1>10, <2>1, <2>2 DEF Stored, Current
  <2> QED BY <1>1, <1>3, <1>10, <2>3
<1> QED BY <1>5, <1>6, <1>7, <1>8, <1>9, <1>10, RequestSteps DEF RequestStep

\* What an append leaves on a line was there before or is what it wrote.
LEMMA LinesStep ==
  ASSUME TypeOK, [Next]_vars, NEW i \in DOMAIN lines'
  PROVE  \/ i \in DOMAIN lines /\ lines'[i] = lines[i]
         \/ lines'[i] = Garbage
         \/ \E c \in Client : cpc[c] = "mirror" /\ lines'[i] = Current(c)
<1>0. MirrorType BY TypeParts
<1>1. CASE UNCHANGED lines BY <1>1
<1>2. ASSUME NEW c \in Client, cpc[c] = "mirror",
             NEW x \in {Garbage, Current(c)}, lines' = Extended(lines, x)
      PROVE  \/ i \in DOMAIN lines /\ lines'[i] = lines[i]
             \/ lines'[i] = Garbage
             \/ lines'[i] = Current(c)
  <2>1. x \in Line BY <1>2, CurrentSent DEF Line
  <2>2. lines \in Seq(Line) /\ Len(lines) \in Nat BY <1>0 DEF MirrorType
  <2>3. lines' \in Seq(Line) BY <1>0, <1>2, <2>1, <2>2, ExtendedLines DEF MirrorType
  <2>4. i \in 1..Len(lines') BY <2>3
  <2>5. CASE open
    <3>1. /\ Len(lines') = Len(lines)
          /\ lines'[Len(lines)] = Garbage
          /\ \A j \in 1..Len(lines) : j # Len(lines) => lines'[j] = lines[j]
      BY <1>0, <1>2, <2>1, <2>2, <2>5, ExtendedLines DEF MirrorType
    <3> QED BY <2>2, <2>4, <3>1
  <2>6. CASE ~open
    <3>1. /\ Len(lines') = Len(lines) + 1
          /\ lines'[Len(lines) + 1] = x
          /\ \A j \in 1..Len(lines) : lines'[j] = lines[j]
      BY <1>0, <1>2, <2>1, <2>2, <2>6, ExtendedLines DEF MirrorType
    <3>2. i \in 1..Len(lines) \/ i = Len(lines) + 1 BY <2>2, <2>4, <3>1
    <3> QED BY <1>2, <2>2, <3>1, <3>2
  <2> QED BY <2>5, <2>6
<1> QED BY <1>1, <1>2, MirrorSteps DEF WriteLine, WriteTorn

\* `filter run` never sees an event that `observe query` cannot show, and what
\* was acknowledged is stored.
THEOREM MirrorStaysBehind == Spec => []MirrorBehindStore
<1> DEFINE Behind == \A i \in DOMAIN lines : Mirrorable(lines[i])
<1>1. Init => Stored /\ Behind
  BY DEF Init, Stored, Mirrorable, Old
<1>2. TypeOK /\ Stored /\ Behind /\ [Next]_vars => Behind'
  <2> SUFFICES ASSUME TypeOK, Stored, Behind, [Next]_vars, NEW i \in DOMAIN lines'
               PROVE  lines'[i] = Garbage \/ lines'[i] \in Old \/ rows'[lines'[i]] > 0
    BY DEF Mirrorable
  <2>1. \A e \in Event : rows[e] > 0 => rows'[e] > 0 BY RowsGrow
  <2>2. lines \in Seq(Event \cup {Garbage}) BY DEF TypeOK
  <2>3. CASE i \in DOMAIN lines /\ lines'[i] = lines[i]
    <3>1. lines[i] \in Event \cup {Garbage} BY <2>2, <2>3
    <3>2. Mirrorable(lines[i]) BY <2>3
    <3> QED BY <2>1, <2>3, <3>1, <3>2 DEF Mirrorable
  <2>4. CASE lines'[i] = Garbage BY <2>4
  <2>5. ASSUME NEW c \in Client, cpc[c] = "mirror", lines'[i] = Current(c)
        PROVE  rows'[lines'[i]] > 0
    <3>1. Current(c) \in Event BY <2>5, CurrentSent
    <3>2. rows[Current(c)] > 0 BY <2>5 DEF Stored
    <3> QED BY <2>1, <2>5, <3>1, <3>2
  <2> QED BY <2>3, <2>4, <2>5, LinesStep
<1>3. TypeOK /\ Stored /\ Behind => MirrorBehindStore
  <2> SUFFICES ASSUME TypeOK, Stored, Behind PROVE MirrorBehindStore OBVIOUS
  <2>1. ASSUME NEW c \in Client, cpc[c] = "acked", NEW e \in Sent(c)
        PROVE  rows[e] > 0
    <3>1. Request[c] \in Seq(Event) BY EventStoreAssumption
    <3>2. PICK i \in DOMAIN Request[c] : e = Request[c][i] BY <2>1 DEF Sent
    <3>3. i \in 1..Len(Request[c]) BY <3>1
    <3> QED BY <2>1, <3>2, <3>3 DEF Stored
  <2>2. ASSUME NEW i \in Readable
        PROVE  lines[i] \in Old \/ rows[lines[i]] > 0
    BY <2>2 DEF Readable, Mirrorable
  <2> QED BY <2>1, <2>2 DEF MirrorBehindStore
<1> HIDE DEF Behind
<1> QED BY <1>1, <1>2, <1>3, StoredStep, StoreTypeCorrect, PTL DEF Spec

----------------------------------------------------------------------------
(* What was acknowledged reaches the filter.                               *)

InMirror(e) == \E i \in DOMAIN lines : lines[i] = e

\* As long as no append was cut short: no line is unfinished, and all of a batch
\* that was handled is in the mirror, unless the request came over HTTP.
Mirrored ==
  tears = 0 =>
    /\ ~open
    /\ \A c \in Client : Via[c] # "http" =>
         /\ cpc[c] \in {"insert", "mirror"} =>
              \A i \in 1..Len(Request[c]) : i < at[c] => InMirror(Request[c][i])
         /\ cpc[c] = "acked" =>
              \A i \in 1..Len(Request[c]) : InMirror(Request[c][i])

\* Until an append is cut short, the mirror only grows.
LEMMA MirrorGrows ==
  ASSUME TypeOK, Mirrored, [Next]_vars, tears' = 0
  PROVE  /\ tears = 0
         /\ open' = FALSE
         /\ \A e : InMirror(e) => InMirror(e)'
<1>0. MirrorType BY TypeParts
<1>1. tears \in Nat BY <1>0, EventStoreAssumption DEF MirrorType
<1>2. CASE UNCHANGED <<lines, open, tears, appended>>
  BY <1>0, <1>2 DEF Mirrored, InMirror, MirrorType
<1>3. ASSUME NEW c \in Client, cpc[c] = "mirror", WriteLine(Current(c))
      PROVE  /\ tears = 0
             /\ open' = FALSE
             /\ \A e : InMirror(e) => InMirror(e)'
  <2>1. tears = 0 /\ open' = FALSE BY <1>3 DEF WriteLine
  <2>2. ~open BY <2>1 DEF Mirrored
  <2>3. lines' = Append(lines, Current(c)) BY <1>3, <2>2 DEF WriteLine, Extended
  <2>4. lines \in Seq(Line) /\ Current(c) \in Line
    BY <1>0, <1>3, CurrentSent DEF MirrorType, Line
  <2>5. \A i \in DOMAIN lines : i \in DOMAIN lines' /\ lines'[i] = lines[i]
    BY <2>3, <2>4
  <2> QED BY <2>1, <2>5 DEF InMirror
<1>4. ASSUME NEW c \in Client, WriteTorn(Current(c)) PROVE FALSE
  BY <1>1, <1>4 DEF WriteTorn
<1> QED BY <1>2, <1>3, <1>4, MirrorSteps

\* What was written as a line of its own is in the mirror.
LEMMA WrittenIsThere ==
  ASSUME TypeOK, NEW e \in Event, ~open, WriteLine(e)
  PROVE  \E j \in DOMAIN lines' : lines'[j] = e
<1>1. lines \in Seq(Line) /\ e \in Line BY DEF TypeOK, Line
<1>2. lines' = Append(lines, e) BY DEF WriteLine, Extended
<1>3. Len(lines) + 1 \in DOMAIN lines' /\ lines'[Len(lines) + 1] = e BY <1>1, <1>2
<1> QED BY <1>3

LEMMA MirroredStep == TypeOK /\ Mirrored /\ [Next]_vars => Mirrored'
<1> SUFFICES ASSUME TypeOK, Mirrored, [Next]_vars, tears' = 0
             PROVE  /\ ~open'
                    /\ \A c \in Client : Via[c] # "http" =>
                         /\ cpc'[c] \in {"insert", "mirror"} =>
                              \A i \in 1..Len(Request[c]) :
                                i < at'[c] => InMirror(Request[c][i])'
                         /\ cpc'[c] = "acked" =>
                              \A i \in 1..Len(Request[c]) : InMirror(Request[c][i])'
  BY DEF Mirrored, InMirror
<1>1. tears = 0 /\ ~open' /\ \A e : InMirror(e) => InMirror(e)' BY MirrorGrows
<1>2. ASSUME NEW c \in Client, Via[c] # "http"
      PROVE  /\ cpc'[c] \in {"insert", "mirror"} =>
                  \A i \in 1..Len(Request[c]) : i < at'[c] => InMirror(Request[c][i])'
             /\ cpc'[c] = "acked" =>
                  \A i \in 1..Len(Request[c]) : InMirror(Request[c][i])'
  <2>0. Request[c] \in Seq(Event) BY EventStoreAssumption
  <2>1. Len(Request[c]) \in Nat /\ at[c] \in Nat BY <2>0 DEF TypeOK
  <2>2. CASE cpc'[c] = cpc[c] /\ at'[c] = at[c]
    BY <1>1, <1>2, <2>2 DEF Mirrored
  <2>3. CASE cpc'[c] = "refused" BY <2>3
  <2>4. CASE cpc'[c] = "insert" /\ at'[c] = 1
    <3>1. \A i \in 1..Len(Request[c]) : ~(i < 1) BY <2>1
    <3> QED BY <2>4, <3>1
  <2>5. CASE cpc'[c] = "mirror" /\ cpc[c] = "insert" /\ at'[c] = at[c]
    BY <1>1, <1>2, <2>5 DEF Mirrored
  <2>6. ASSUME cpc[c] = "mirror", WriteLine(Current(c))
        PROVE  \A i \in 1..Len(Request[c]) :
                 i < at[c] + 1 => InMirror(Request[c][i])'
    <3>1. ~open BY <1>1 DEF Mirrored
    <3>2. PICK j \in DOMAIN lines' : lines'[j] = Current(c)
      BY <2>6, <3>1, CurrentSent, WrittenIsThere
    <3>3. \A i \in 1..Len(Request[c]) : i < at[c] + 1 => i < at[c] \/ i = at[c] BY <2>1
    <3>4. \A i \in 1..Len(Request[c]) : i < at[c] => InMirror(Request[c][i])'
      BY <1>1, <1>2, <2>6 DEF Mirrored
    <3>5. \A i \in 1..Len(Request[c]) : i = at[c] => InMirror(Request[c][i])'
      BY <3>2 DEF InMirror, Current
    <3> QED BY <3>3, <3>4, <3>5
  <2>7. CASE cpc[c] = "mirror" /\ cpc'[c] = "insert" /\ at'[c] = at[c] + 1
             /\ WriteLine(Current(c))
    BY <2>6, <2>7
  <2>8. CASE cpc[c] = "mirror" /\ cpc'[c] = "acked" /\ at[c] = Len(Request[c])
             /\ WriteLine(Current(c))
    <3>1. \A i \in 1..Len(Request[c]) : i < at[c] + 1 BY <2>1, <2>8
    <3> QED BY <2>6, <2>8, <3>1
  <2> QED BY <1>2, <2>2, <2>3, <2>4, <2>5, <2>7, <2>8, RequestSteps DEF RequestStep
<1> QED BY <1>1, <1>2

\* Whatever attempts failed before, an event that was acknowledged by `record` or
\* over gRPC is one that `filter run` reads, until an append is cut short.
THEOREM AckedIsMirrored == Spec => []AckedReachesFilter
<1>1. Init => Mirrored BY DEF Init, Mirrored
<1>2. TypeOK /\ Mirrored => AckedReachesFilter
  <2> SUFFICES ASSUME TypeOK, Mirrored, tears = 0, NEW c \in Client, cpc[c] = "acked",
                      Via[c] # "http", NEW e \in Sent(c)
               PROVE  \E i \in Readable : lines[i] = e
    BY DEF AckedReachesFilter
  <2>1. Request[c] \in Seq(Event) BY EventStoreAssumption
  <2>2. PICK j \in DOMAIN Request[c] : e = Request[c][j] BY DEF Sent
  <2>3. j \in 1..Len(Request[c]) /\ e \in Event BY <2>1, <2>2
  <2>4. InMirror(e) BY <2>2, <2>3 DEF Mirrored
  <2>5. e # Garbage BY <2>3, EventStoreAssumption
  <2> QED BY <2>4, <2>5 DEF InMirror, Readable
<1> QED BY <1>1, <1>2, MirroredStep, StoreTypeCorrect, PTL DEF Spec

----------------------------------------------------------------------------
(* What an append that is cut short costs.                                 *)

\* How many lines parse, after an append.
LEMMA ParsedCount ==
  ASSUME NEW l \in Seq(Line), NEW x \in Line, open => l # << >>
  PROVE  /\ Cardinality(Parsed(l)) \in Nat
         /\ ~open => Cardinality(Parsed(Extended(l, x)))
                       = Cardinality(Parsed(l)) + (IF x = Garbage THEN 0 ELSE 1)
         /\ open => Cardinality(Parsed(Extended(l, x)))
                      = Cardinality(Parsed(l)) - (IF l[Len(l)] = Garbage THEN 0 ELSE 1)
<1> DEFINE n == Len(l)
<1>0. n \in Nat /\ DOMAIN l = 1..n OBVIOUS
<1>1. IsFiniteSet(Parsed(l))
  <2>1. IsFiniteSet(1..n) BY <1>0, FS_Interval
  <2>2. Parsed(l) \subseteq 1..n BY <1>0 DEF Parsed
  <2> QED BY <2>1, <2>2, FS_Subset
<1>2. Cardinality(Parsed(l)) \in Nat BY <1>1, FS_CardinalityType
<1>3. ASSUME ~open
      PROVE  Cardinality(Parsed(Extended(l, x)))
               = Cardinality(Parsed(l)) + (IF x = Garbage THEN 0 ELSE 1)
  <2>1. /\ Extended(l, x) \in Seq(Line)
        /\ Len(Extended(l, x)) = n + 1
        /\ Extended(l, x)[n + 1] = x
        /\ \A i \in 1..n : Extended(l, x)[i] = l[i]
    BY <1>3, ExtendedLines
  <2>2. DOMAIN Extended(l, x) = 1..(n + 1) BY <2>1
  <2>3. \A i : i \in 1..(n + 1) <=> i \in 1..n \/ i = n + 1 BY <1>0
  <2>4. n + 1 \notin Parsed(l) BY <1>0 DEF Parsed
  <2>5. CASE x = Garbage
    <3>1. Parsed(Extended(l, x)) = Parsed(l)
      BY <1>0, <2>1, <2>2, <2>3, <2>5 DEF Parsed
    <3> QED BY <1>2, <2>5, <3>1
  <2>6. CASE x # Garbage
    <3>1. Parsed(Extended(l, x)) = Parsed(l) \cup {n + 1}
      BY <1>0, <2>1, <2>2, <2>3, <2>6 DEF Parsed
    <3>2. Cardinality(Parsed(l) \cup {n + 1}) = Cardinality(Parsed(l)) + 1
      BY <1>1, <2>4, FS_AddElement
    <3> QED BY <2>6, <3>1, <3>2
  <2> QED BY <2>5, <2>6
<1>4. ASSUME open
      PROVE  Cardinality(Parsed(Extended(l, x)))
               = Cardinality(Parsed(l)) - (IF l[n] = Garbage THEN 0 ELSE 1)
  <2>1. /\ Extended(l, x) \in Seq(Line)
        /\ Len(Extended(l, x)) = n
        /\ n \in 1..n
        /\ Extended(l, x)[n] = Garbage
        /\ \A i \in 1..n : i # n => Extended(l, x)[i] = l[i]
    BY <1>4, ExtendedLines
  <2>2. DOMAIN Extended(l, x) = 1..n BY <2>1
  <2>3. Parsed(Extended(l, x)) = Parsed(l) \ {n}
    BY <1>0, <2>1, <2>2 DEF Parsed
  <2>4. CASE l[n] = Garbage
    <3>1. Parsed(l) \ {n} = Parsed(l) BY <2>4 DEF Parsed
    <3>2. Parsed(Extended(l, x)) = Parsed(l) BY <2>3, <3>1
    <3>3. Cardinality(Parsed(Extended(l, x))) = Cardinality(Parsed(l)) BY <3>2
    <3>4. Cardinality(Parsed(l)) - 0 = Cardinality(Parsed(l)) BY <1>2
    <3> HIDE DEF n
    <3> QED BY <2>4, <3>3, <3>4
  <2>5. CASE l[n] # Garbage
    <3>1. n \in Parsed(l) BY <1>0, <2>1, <2>5 DEF Parsed
    <3>2. Cardinality(Parsed(l) \ {n}) = Cardinality(Parsed(l)) - 1
      BY <1>1, <3>1, FS_RemoveElement
    <3>3. Cardinality(Parsed(Extended(l, x))) = Cardinality(Parsed(l)) - 1
      BY <2>3, <3>2
    <3> QED BY <2>5, <3>3
  <2> QED BY <2>4, <2>5
<1> QED BY <1>2, <1>3, <1>4

\* What the next append will cost: an unfinished line, and its own.
Owed == IF ~open THEN 0 ELSE IF lines[Len(lines)] = Garbage THEN 1 ELSE 2

Slack == Cardinality(Parsed(lines)) >= appended - tears + Owed

LEMMA SlackStep == TypeOK /\ Slack /\ [Next]_vars => Slack'
<1> SUFFICES ASSUME TypeOK, Slack, [Next]_vars PROVE Slack' OBVIOUS
<1>0. MirrorType BY TypeParts
<1>1. /\ lines \in Seq(Line) /\ (open => lines # << >>)
      /\ appended \in Nat /\ tears \in Nat
  BY <1>0, EventStoreAssumption DEF MirrorType
<1>2. CASE UNCHANGED <<lines, open, tears, appended>>
  BY <1>2 DEF Slack, Owed, Parsed
<1>3. ASSUME NEW c \in Client, cpc[c] = "mirror", WriteLine(Current(c))
      PROVE  Slack'
  <2>1. /\ Current(c) \in Line /\ Current(c) # Garbage
    BY <1>3, CurrentSent, EventStoreAssumption DEF Line
  <2>2. /\ lines' = Extended(lines, Current(c))
        /\ open' = FALSE /\ appended' = appended + 1 /\ tears' = tears
    BY <1>3 DEF WriteLine
  <2>3. Owed' = 0 BY <2>2 DEF Owed
  <2>4. /\ Cardinality(Parsed(lines)) \in Nat
        /\ ~open => Cardinality(Parsed(lines')) = Cardinality(Parsed(lines)) + 1
        /\ open => Cardinality(Parsed(lines'))
                     = Cardinality(Parsed(lines))
                         - (IF lines[Len(lines)] = Garbage THEN 0 ELSE 1)
    BY <1>1, <2>1, <2>2, ParsedCount
  <2>5. Parsed(lines)' = Parsed(lines') BY DEF Parsed
  <2>6. Cardinality(Parsed(lines')) >= appended + 1 - tears
    <3>1. CASE ~open
      <4>1. Cardinality(Parsed(lines)) >= appended - tears BY <1>1, <3>1 DEF Slack, Owed
      <4> QED BY <1>1, <2>4, <3>1, <4>1
    <3>2. CASE open /\ lines[Len(lines)] = Garbage
      <4>1. Cardinality(Parsed(lines)) >= appended - tears + 1
        BY <3>2 DEF Slack, Owed
      <4> QED BY <1>1, <2>4, <3>2, <4>1
    <3>3. CASE open /\ lines[Len(lines)] # Garbage
      <4>1. Cardinality(Parsed(lines)) >= appended - tears + 2
        BY <3>3 DEF Slack, Owed
      <4> QED BY <1>1, <2>4, <3>3, <4>1
    <3> QED BY <3>1, <3>2, <3>3
  <2> QED BY <1>1, <2>2, <2>3, <2>5, <2>6 DEF Slack
<1>4. ASSUME NEW c \in Client, cpc[c] = "mirror", WriteTorn(Current(c))
      PROVE  Slack'
  <2>1. PICK x \in {Garbage, Current(c)} : lines' = Extended(lines, x)
    BY <1>4 DEF WriteTorn
  <2>2. x \in Line BY <1>4, CurrentSent DEF Line
  <2>3. open' = TRUE /\ appended' = appended /\ tears' = tears + 1
    BY <1>4 DEF WriteTorn
  <2>4. /\ Cardinality(Parsed(lines)) \in Nat
        /\ ~open => Cardinality(Parsed(lines'))
                      = Cardinality(Parsed(lines)) + (IF x = Garbage THEN 0 ELSE 1)
        /\ open => Cardinality(Parsed(lines'))
                     = Cardinality(Parsed(lines))
                         - (IF lines[Len(lines)] = Garbage THEN 0 ELSE 1)
    BY <1>1, <2>1, <2>2, ParsedCount
  <2>5. Parsed(lines)' = Parsed(lines') BY DEF Parsed
  <2>6. CASE ~open
    <3>1. Len(lines') = Len(lines) + 1 /\ lines'[Len(lines) + 1] = x
      BY <1>1, <2>1, <2>2, <2>6, ExtendedLines
    <3>2. Owed' = IF x = Garbage THEN 1 ELSE 2 BY <2>3, <3>1 DEF Owed
    <3>3. Cardinality(Parsed(lines)) >= appended - tears BY <1>1, <2>6 DEF Slack, Owed
    <3>4. CASE x = Garbage
      <4>1. Cardinality(Parsed(lines')) >= appended - (tears + 1) + 1
        BY <1>1, <2>4, <2>6, <3>3, <3>4
      <4> QED BY <2>3, <2>5, <3>2, <3>4, <4>1 DEF Slack
    <3>5. CASE x # Garbage
      <4>1. Cardinality(Parsed(lines')) >= appended - (tears + 1) + 2
        BY <1>1, <2>4, <2>6, <3>3, <3>5
      <4> QED BY <2>3, <2>5, <3>2, <3>5, <4>1 DEF Slack
    <3> QED BY <3>4, <3>5
  <2>7. CASE open
    <3>1. Len(lines') = Len(lines) /\ lines'[Len(lines)] = Garbage
      BY <1>1, <2>1, <2>2, <2>7, ExtendedLines
    <3>2. Owed' = 1 BY <2>3, <3>1 DEF Owed
    <3>3. Cardinality(Parsed(lines')) >= appended - (tears + 1) + 1
      <4>1. CASE lines[Len(lines)] = Garbage
        <5>1. Cardinality(Parsed(lines)) >= appended - tears + 1
          BY <2>7, <4>1 DEF Slack, Owed
        <5> QED BY <1>1, <2>4, <2>7, <4>1, <5>1
      <4>2. CASE lines[Len(lines)] # Garbage
        <5>1. Cardinality(Parsed(lines)) >= appended - tears + 2
          BY <2>7, <4>2 DEF Slack, Owed
        <5> QED BY <1>1, <2>4, <2>7, <4>2, <5>1
      <4> QED BY <4>1, <4>2
    <3> QED BY <2>3, <2>5, <3>2, <3>3 DEF Slack
  <2> QED BY <2>6, <2>7
<1> QED BY <1>2, <1>3, <1>4, MirrorSteps

\* The first n positions are n.
LEMMA CountTo ==
  ASSUME NEW n \in Nat
  PROVE  Cardinality(1..n) = n
<1>1. 1 \in Int /\ n \in Int OBVIOUS
<1>2. Cardinality(1..n) = IF 1 > n THEN 0 ELSE n - 1 + 1 BY ONLY <1>1, FS_Interval
<1> QED BY <1>2

\* Each append that is cut short costs at most one that succeeded.
THEOREM TearsCostOne == Spec => []TornAppendCostsOne
<1>1. Init => Slack
  <2> SUFFICES ASSUME Init PROVE Slack OBVIOUS
  <2>1. lines \in Seq(Event) BY EventStoreAssumption DEF Init
  <2>2. Parsed(lines) = 1..Len(lines) BY <2>1, EventStoreAssumption DEF Parsed
  <2>3. Len(lines) \in Nat BY <2>1
  <2>4. Cardinality(1..Len(lines)) = Len(lines) BY <2>3, CountTo
  <2>5. appended = Len(lines) /\ tears = 0 /\ Owed = 0 BY DEF Init, Owed
  <2> QED BY <2>2, <2>3, <2>4, <2>5 DEF Slack
<1>2. TypeOK /\ Slack => TornAppendCostsOne
  <2> SUFFICES ASSUME TypeOK, Slack PROVE TornAppendCostsOne OBVIOUS
  <2>0. MirrorType BY TypeParts
  <2>1. /\ lines \in Seq(Line) /\ (open => lines # << >>)
        /\ appended \in Nat /\ tears \in Nat
    BY <2>0, EventStoreAssumption DEF MirrorType
  <2>2. Cardinality(Parsed(lines)) \in Nat
    BY <2>1, ParsedCount DEF Line
  <2>3. Owed \in {0, 1, 2} BY DEF Owed
  <2>4. Readable = Parsed(lines) BY DEF Readable, Parsed
  <2>5. Cardinality(Parsed(lines)) >= appended - tears BY <2>1, <2>2, <2>3 DEF Slack
  <2> QED BY <2>4, <2>5 DEF TornAppendCostsOne
<1> QED BY <1>1, <1>2, SlackStep, StoreTypeCorrect, PTL DEF Spec

----------------------------------------------------------------------------
(* The import of the history.                                              *)

\* A list of lines begins with the history, which occurs nowhere else in it.
HasHistory(l) ==
  /\ Len(l) >= Len(History)
  /\ \A i \in 1..Len(l) : i <= Len(History) => l[i] = History[i]
  /\ \A i \in 1..Len(l) : i > Len(History) => l[i] \notin Old

Intact ==
  /\ HasHistory(lines)
  /\ open => Len(lines) > Len(History)
  /\ \A q \in Reader : qpc[q] = "import" => HasHistory(text[q])

\* Such a list holds an event of the history as often as the history does.
LEMMA HistoryCopies ==
  ASSUME NEW l \in Seq(Line), HasHistory(l), NEW e \in Old
  PROVE  Copies(l, e) = Copies(History, e)
<1>1. History \in Seq(Event) /\ Len(History) \in Nat /\ Len(l) \in Nat
  BY EventStoreAssumption
<1>2. \A i \in 1..Len(l) : l[i] = e => i <= Len(History) /\ History[i] = e
  BY <1>1 DEF HasHistory
<1>3. \A i \in 1..Len(History) : i \in 1..Len(l) /\ l[i] = History[i]
  BY <1>1 DEF HasHistory
<1>4. DOMAIN l = 1..Len(l) /\ DOMAIN History = 1..Len(History) BY <1>1
<1>5. \A i : i \in 1..Len(l) /\ i <= Len(History) => i \in 1..Len(History)
  BY <1>1
<1>6. {i \in DOMAIN l : l[i] = e} = {i \in DOMAIN History : History[i] = e}
  BY <1>2, <1>3, <1>4, <1>5
<1> QED BY <1>6 DEF Copies

\* An append leaves the history where it is: an unfinished line is never its.
LEMMA HistoryExtended ==
  ASSUME NEW l \in Seq(Line), NEW x \in Line, x \notin Old,
         HasHistory(l), open => Len(l) > Len(History)
  PROVE  HasHistory(Extended(l, x)) /\ Len(Extended(l, x)) > Len(History)
<1>1. Len(History) \in Nat /\ Len(l) \in Nat BY EventStoreAssumption
<1>2. open => l # << >>
  <2>1. l = << >> => Len(l) = 0 OBVIOUS
  <2> QED BY <1>1, <2>1
<1>3. Garbage \notin Old
  BY EventStoreAssumption DEF Old
<1>4. CASE open
  <2>1. /\ Len(Extended(l, x)) = Len(l)
        /\ Extended(l, x)[Len(l)] = Garbage
        /\ \A i \in 1..Len(l) : i # Len(l) => Extended(l, x)[i] = l[i]
    BY <1>2, <1>4, ExtendedLines
  <2> QED BY <1>1, <1>3, <1>4, <2>1 DEF HasHistory
<1>5. CASE ~open
  <2>1. /\ Len(Extended(l, x)) = Len(l) + 1
        /\ Extended(l, x)[Len(l) + 1] = x
        /\ \A i \in 1..Len(l) : Extended(l, x)[i] = l[i]
    BY <1>2, <1>5, ExtendedLines
  <2>2. \A i \in 1..(Len(l) + 1) : i \in 1..Len(l) \/ i = Len(l) + 1 BY <1>1
  <2> QED BY <1>1, <2>1, <2>2 DEF HasHistory
<1> QED BY <1>4, <1>5

LEMMA IntactStep == TypeOK /\ Intact /\ [Next]_vars => Intact'
<1> SUFFICES ASSUME TypeOK, Intact, [Next]_vars PROVE Intact' OBVIOUS
<1>0. MirrorType /\ ReaderType BY TypeParts
<1>1. HasHistory(lines') /\ (open' => Len(lines') > Len(History))
  <2>1. CASE UNCHANGED <<lines, open, tears, appended>>
    BY <2>1 DEF Intact
  <2>2. ASSUME NEW c \in Client, cpc[c] = "mirror", NEW x \in {Garbage, Current(c)},
               lines' = Extended(lines, x)
        PROVE  HasHistory(lines') /\ Len(lines') > Len(History)
    <3>1. x \in Line /\ x \notin Old
      BY <2>2, CurrentSent, EventStoreAssumption DEF Line, Old
    <3> QED BY <1>0, <2>2, <3>1, HistoryExtended DEF Intact, MirrorType
  <2> QED BY <2>1, <2>2, MirrorSteps DEF WriteLine, WriteTorn
<1>2. ASSUME NEW q \in Reader, qpc'[q] = "import"
      PROVE  HasHistory(text'[q])
  <2>1. CASE qpc[q] = "import" /\ text'[q] = text[q]
    BY <2>1 DEF Intact
  <2>2. CASE text'[q] = lines
    BY <2>2 DEF Intact
  <2>3. ASSUME NEW r \in Reader,
               Count(r) \/ Load(r) \/ Import(r) \/ Select(r) \/ Leave(r)
        PROVE  \/ qpc[q] = "import" /\ text'[q] = text[q]
               \/ text'[q] = lines
    BY <1>0, <1>2, <2>3 DEF Count, Load, Import, Select, Leave, ReaderType
  <2>4. CASE UNCHANGED <<qpc, text>>
    BY <1>2, <2>1, <2>4
  <2> QED
    BY <2>1, <2>2, <2>3, <2>4
    DEF Next, Send, Insert, Mirror, MirrorFails, Abort, vars, readerVars
<1> QED BY <1>1, <1>2 DEF Intact, HasHistory

\* Adding m and n to a and b keeps their ratio, if it is that of m and n.
LEMMA Distribute ==
  ASSUME NEW a \in Nat, NEW b \in Nat, NEW m \in Nat, NEW n \in Nat, a * n = b * m,
         NEW c, NEW d, c = a + m, d = b + n
  PROVE  c * n = d * m
<1>1. (a + m) * n = a * n + m * n OBVIOUS
<1>2. (b + n) * m = b * m + n * m OBVIOUS
<1>3. m * n = n * m OBVIOUS
<1> QED BY <1>1, <1>2, <1>3

\* The history is imported whole or not at all, wherever an import dies.
THEOREM ImportIsWhole == Spec => []ImportAllOrNothing
<1>1. Init => Intact
  <2> SUFFICES ASSUME Init PROVE Intact OBVIOUS
  <2>1. lines = History /\ Len(History) \in Nat BY EventStoreAssumption DEF Init
  <2>2. HasHistory(lines) BY <2>1 DEF HasHistory
  <2> QED BY <2>2 DEF Init, Intact
<1>2. Init => ImportAllOrNothing
  <2> SUFFICES ASSUME Init, NEW i \in DOMAIN History, NEW j \in DOMAIN History
               PROVE  rows[History[i]] * Copies(History, History[j])
                        = rows[History[j]] * Copies(History, History[i])
    BY DEF ImportAllOrNothing
  <2>1. History \in Seq(Line) /\ History[i] \in Event /\ History[j] \in Event
    BY EventStoreAssumption DEF Line
  <2>2. rows[History[i]] = 0 /\ rows[History[j]] = 0 BY <2>1 DEF Init
  <2>3. Copies(History, History[i]) \in Nat /\ Copies(History, History[j]) \in Nat
    BY <2>1, CopiesType
  <2> QED BY <2>2, <2>3
<1>3. TypeOK /\ Intact /\ ImportAllOrNothing /\ [Next]_vars => ImportAllOrNothing'
  <2> SUFFICES ASSUME TypeOK, Intact, ImportAllOrNothing, [Next]_vars,
                      NEW i \in DOMAIN History, NEW j \in DOMAIN History
               PROVE  rows'[History[i]] * Copies(History, History[j])
                        = rows'[History[j]] * Copies(History, History[i])
    BY DEF ImportAllOrNothing
  <2>0. rows \in [Event -> Nat] /\ ReaderType BY TypeParts
  <2>1. /\ History \in Seq(Line)
        /\ History[i] \in Event /\ History[j] \in Event
        /\ History[i] \in Old /\ History[j] \in Old
    BY EventStoreAssumption DEF Line, Old
  <2>2. Copies(History, History[i]) \in Nat /\ Copies(History, History[j]) \in Nat
    BY <2>1, CopiesType
  <2>3. rows[History[i]] * Copies(History, History[j])
          = rows[History[j]] * Copies(History, History[i])
    BY DEF ImportAllOrNothing
  <2>4. ASSUME NEW c \in Client, Insert(c)
        PROVE  rows'[History[i]] = rows[History[i]] /\ rows'[History[j]] = rows[History[j]]
    <3>1. Current(c) \notin Old BY <2>4, CurrentSent DEF Insert
    <3>2. Current(c) # History[i] /\ Current(c) # History[j] BY <2>1, <3>1
    <3> QED BY <2>0, <2>1, <2>4, <3>2 DEF Insert
  <2>5. ASSUME NEW q \in Reader, Import(q)
        PROVE  rows'[History[i]] * Copies(History, History[j])
                 = rows'[History[j]] * Copies(History, History[i])
    <3>1. text[q] \in Seq(Line) /\ HasHistory(text[q])
      BY <2>0, <2>5 DEF ReaderType, Intact, Import
    <3>2. /\ Copies(text[q], History[i]) = Copies(History, History[i])
          /\ Copies(text[q], History[j]) = Copies(History, History[j])
      BY <2>1, <3>1, HistoryCopies
    <3>3. /\ rows'[History[i]] = rows[History[i]] + Copies(History, History[i])
          /\ rows'[History[j]] = rows[History[j]] + Copies(History, History[j])
      BY <2>1, <2>5, <3>2 DEF Import
    <3>4. rows[History[i]] \in Nat /\ rows[History[j]] \in Nat BY <2>0, <2>1
    <3> QED BY ONLY <2>2, <2>3, <3>3, <3>4, Distribute
  <2>6. CASE UNCHANGED rows BY <2>3, <2>6
  <2> QED
    BY <2>3, <2>4, <2>5, <2>6
    DEF Next, Send, Mirror, MirrorFails, Abort, Count, Load, Select, Leave,
        vars, storeVars
<1> QED BY <1>1, <1>2, <1>3, IntactStep, StoreTypeCorrect, PTL DEF Spec
===========================================================================
