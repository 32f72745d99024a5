----------------------- MODULE StrategyRegistry_proofs -----------------------
(***************************************************************************)
(* Proofs about StrategyRegistry, for any number of requests, keys,        *)
(* commands, strategies and versions, and any page size.                   *)
(*                                                                         *)
(* The shell: a key's record is written once, by the request that finds it *)
(* free, and only the entity of the record is ever sent; that others may   *)
(* have created an entity under the key does not show in an answer.        *)
(*                                                                         *)
(* The lists: a strategy that matched all along either has been returned   *)
(* or comes after the cursor, and what has been returned does not.  A page *)
(* is a prefix of the rows after the cursor because the rows left have a   *)
(* first one, which the well-foundedness of the naturals gives.            *)
(*                                                                         *)
(* The read model: a strategy whose row is out of date has a job, or the   *)
(* only worker has read its row since the last job was taken and can still *)
(* give the job back, or a refresh was given up and none begun since.      *)
(***************************************************************************)
EXTENDS StrategyRegistry, TLAPS, WellFoundedInduction, FiniteSetTheorems, SequenceTheorems

RecordsAreRows == records = [k \in Keys |-> records[k]]

RequestsAreSound ==
    \A r \in Requests :
        /\ request[r].at \in {"act", "record"} => request[r].key \in Keys /\ request[r].body \in Bodies

(* An answer is the entity of its key's record. *)
AnswersAreRecorded ==
    \A a \in answers : \E k \in Keys :
        /\ a = <<k, records[k].entity>>
        /\ records[k].body # NoBody

(* No body that a client sends is taken for a missing record. *)
LEMMA BodiesAreRecorded == \A body \in Bodies : fingerprint(body) # NoBody
<1> SUFFICES ASSUME NEW body \in Bodies PROVE fingerprint(body) # NoBody
  OBVIOUS
<1>1. body \in [op : {"campaign", "strategy", "version"}, strategy : Nat, parent : Nat]
  BY RegistryAssumption
<1>2. fingerprint(body).op = body.op
  BY <1>1 DEF fingerprint
<1>3. NoBody.op = "none"
  BY DEF NoBody
<1> QED
  BY <1>1, <1>2, <1>3

IInv ==
    /\ RecordsAreRows
    /\ request = [r \in Requests |-> request[r]]
    /\ RequestsAreSound
    /\ AnswersAreRecorded

LEMMA InvInit == Init => IInv
  BY DEF Init, IInv, RecordsAreRows, RequestsAreSound, AnswersAreRecorded, Free

(* A step that sends no answer and records nothing keeps the invariant if   *)
(* the request it moves keeps its key and its body.                         *)
LEMMA RequestMoves ==
    ASSUME IInv, UNCHANGED <<records, answers>>, NEW r \in Requests, NEW t,
           request' = [request EXCEPT ![r] = t],
           t.at \in {"act", "record"} => t.key \in Keys /\ t.body \in Bodies
    PROVE  IInv'
<1>1. request'[r] = t /\ \A q \in Requests \ {r} : request'[q] = request[q]
  BY DEF IInv
<1>2. request' = [q \in Requests |-> request'[q]]
  BY DEF IInv
<1> QED
  BY <1>1, <1>2 DEF IInv, RecordsAreRows, RequestsAreSound, AnswersAreRecorded

LEMMA ShellSteps ==
    ASSUME IInv, NEW r \in Requests, RequestStep(r)
    PROVE  IInv'
<1> USE DEF IInv
<1>0. Free.at = "idle"
  BY DEF Free
<1>1. ASSUME NEW key \in Keys, NEW body \in Bodies, checkIdempotency(r, key, body) PROVE IInv'
  <2>1. CASE evaluateIdempotency(key, body) = "FRESH"
    <3> DEFINE t == [at |-> "act", key |-> key, body |-> body]
    <3>1. request' = [request EXCEPT ![r] = t] /\ UNCHANGED <<records, answers>>
      BY <1>1, <2>1 DEF checkIdempotency
    <3> QED
      BY <3>1, RequestMoves
  <2>2. CASE evaluateIdempotency(key, body) = "CONFLICT"
    <3>1. request' = [request EXCEPT ![r] = Free] /\ UNCHANGED <<records, answers>>
      BY <1>1, <2>2 DEF checkIdempotency
    <3> QED
      BY <1>0, <3>1, RequestMoves
  <2>3. CASE evaluateIdempotency(key, body) = "REPLAY"
    <3>1. /\ request' = [request EXCEPT ![r] = Free] /\ UNCHANGED records
          /\ answers' = answers \cup {<<key, records[key].entity>>}
      BY <1>1, <2>3 DEF checkIdempotency
    <3>2. records[key].body # NoBody
      BY <2>3 DEF evaluateIdempotency
    <3>3. AnswersAreRecorded'
      BY <3>1, <3>2 DEF AnswersAreRecorded
    <3>4. RequestsAreSound'
      BY <3>1, <1>0 DEF RequestsAreSound
    <3> QED
      BY <3>1, <3>3, <3>4 DEF RecordsAreRows
  <2> QED
    BY <2>1, <2>2, <2>3 DEF evaluateIdempotency
<1>2. ASSUME createCampaign(r) \/ (\E t \in Times : createStrategy(r, t)) \/ createChildStrategyVersion(r)
      PROVE  IInv'
  <2>1. PICK entity : Created(r, entity)
    BY <1>2 DEF createCampaign, createStrategy, createChildStrategyVersion
  <2>2. request[r].at = "act" /\ UNCHANGED <<records, answers>>
    BY <1>2 DEF createCampaign, createStrategy, createChildStrategyVersion, Acting
  <2> DEFINE t == [at |-> "record", key |-> request[r].key, body |-> request[r].body,
                   entity |-> entity]
  <2>3. request' = [request EXCEPT ![r] = t]
    BY <2>1 DEF Created
  <2> QED
    BY <2>2, <2>3, RequestMoves DEF RequestsAreSound
<1>3. CASE refuseCommand(r) \/ loseRequest(r)
  <2>1. request' = [request EXCEPT ![r] = Free] /\ UNCHANGED <<records, answers>>
    BY <1>3 DEF refuseCommand, loseRequest
  <2> QED
    BY <2>1, <1>0, RequestMoves
<1>4. CASE recordIdempotency(r)
  <2> DEFINE key == request[r].key
             body == request[r].body
             row == [body |-> fingerprint(body), entity |-> request[r].entity]
  <2>1. /\ key \in Keys /\ body \in Bodies
        /\ request' = [request EXCEPT ![r] = Free]
    BY <1>4 DEF recordIdempotency, RequestsAreSound
  <2>2. CASE records[key].body = NoBody
    <3>1. /\ records' = [records EXCEPT ![key] = row]
          /\ answers' = answers \cup {<<key, request[r].entity>>}
      BY <1>4, <2>2 DEF recordIdempotency
    <3>2. row.entity = request[r].entity /\ row.body # NoBody
      BY <2>1, BodiesAreRecorded
    <3> HIDE DEF row
    <3>3. RecordsAreRows' /\ records'[key] = row /\ \A k \in Keys \ {key} : records'[k] = records[k]
      BY <3>1, <2>1 DEF RecordsAreRows
    <3>4. AnswersAreRecorded'
      BY <3>1, <3>2, <3>3, <2>1, <2>2 DEF AnswersAreRecorded
    <3>5. RequestsAreSound'
      BY <2>1, <1>0 DEF RequestsAreSound
    <3> QED
      BY <2>1, <3>3, <3>4, <3>5
  <2>3. CASE records[key].body # NoBody
    <3>1. UNCHANGED <<records, answers>>
      BY <1>4, <2>3 DEF recordIdempotency
    <3> QED
      BY <2>1, <3>1, <1>0, RequestMoves
  <2> QED
    BY <2>2, <2>3
<1> QED
  BY <1>1, <1>2, <1>3, <1>4 DEF RequestStep

LEMMA InvNext == IInv /\ [Next]_vars => IInv'
<1> SUFFICES ASSUME IInv, [Next]_vars PROVE IInv'
  OBVIOUS
<1>1. ASSUME NEW r \in Requests, RequestStep(r) PROVE IInv'
  BY <1>1, ShellSteps
<1>2. ASSUME UNCHANGED shell PROVE IInv'
  BY <1>2 DEF shell, IInv, RecordsAreRows, RequestsAreSound, AnswersAreRecorded
<1>3. ASSUME NEW v \in DOMAIN versions, applyTransition(v) PROVE IInv'
  BY <1>2, <1>3 DEF applyTransition
<1>4. ASSUME NEW v \in DOMAIN versions, NEW document \in Documents, saveDocument(v, document) PROVE IInv'
  BY <1>2, <1>4 DEF saveDocument
<1>5. ASSUME NEW w \in Workers, WorkerStep(w) PROVE IInv'
  <2>1. CASE readLatest(w)
    BY <1>2, <2>1 DEF readLatest
  <2>2. CASE writeRow(w) \/ failRefresh(w) \/ stallRefresh(w)
    BY <1>2, <2>2 DEF writeRow, failRefresh, stallRefresh
  <2> QED
    BY <1>5, <2>1, <2>2 DEF WorkerStep
<1>6. CASE ListStep
  BY <1>2, <1>6 DEF ListStep, startList, listStrategies, forgetList
<1>7. CASE UNCHANGED vars
  BY <1>2, <1>7 DEF vars
<1>8. ASSUME NEW v \in DOMAIN versions, NEW moves \in 1..MaxMoves, dropEvent(v, moves) PROVE IInv'
  BY <1>2, <1>8 DEF dropEvent
<1> QED
  BY <1>1, <1>3, <1>4, <1>5, <1>6, <1>7, <1>8 DEF Next

(* Whatever requests race, repeat or are lost under a key, all that succeed *)
(* are answered with the same entity.                                       *)
THEOREM RegistryAnswersOnce == Spec => []AnswersNameOneEntity
<1>1. Spec => []IInv
  BY InvInit, InvNext, PTL DEF Spec
<1>2. IInv => AnswersNameOneEntity
  BY DEF IInv, AnswersAreRecorded, AnswersNameOneEntity
<1> QED
  BY <1>1, <1>2, PTL

-----------------------------------------------------------------------------
(* The order of the naturals is well founded, so that a non-empty set of   *)
(* naturals has a least element and a finite order a maximal one.          *)
LEMMA NatWF == IsWellFoundedOn({ss \in Nat \X Nat : ss[1] < ss[2]}, Nat)
  BY NatLessThanWellFounded DEF OpToRel

LEMMA Least ==
    ASSUME NEW T, T \subseteq Nat, T # {}
    PROVE  \E n \in T : \A m \in T : n <= m
<1> DEFINE R == {ss \in Nat \X Nat : ss[1] < ss[2]}
<1>1. IsWellFoundedOn(R, Nat)
  BY NatWF
<1>2. \A x, y \in Nat : y < x => <<y, x>> \in R
  OBVIOUS
<1> HIDE DEF R
<1>3. PICK x \in T : \A y \in T : ~(<<y, x>> \in R)
  BY <1>1, WFMin
<1>4. ASSUME NEW m \in T PROVE x <= m
  <2>1. ~(m < x)
    BY <1>2, <1>3
  <2> QED
    BY <2>1
<1> QED
  BY <1>4

LEMMA Maximal ==
  ASSUME NEW T, IsFiniteSet(T), T # {}, NEW R,
         \A a \in T : <<a, a>> \notin R,
         \A a, b, c \in T : <<a, b>> \in R /\ <<b, c>> \in R => <<a, c>> \in R
  PROVE  \E m \in T : \A t \in T : <<m, t>> \notin R
<1> DEFINE Above(s) == {t \in T : <<s, t>> \in R}
           rank == [s \in T |-> Cardinality(Above(s))]
           N == {rank[s] : s \in T}
<1>1. \A s \in T : IsFiniteSet(Above(s)) /\ Cardinality(Above(s)) \in Nat
  BY FS_Subset, FS_CardinalityType
<1>2. rank \in [T -> Nat] /\ \A s \in T : rank[s] = Cardinality(Above(s))
  BY <1>1
<1>3. PICK n \in N : \A m \in N : n <= m
  <2> HIDE DEF rank
  <2>1. N \subseteq Nat /\ N # {}
    BY <1>2
  <2> HIDE DEF N
  <2> QED BY <2>1, Least
<1>4. PICK s \in T : n = rank[s]
  OBVIOUS
<1>5. ASSUME NEW t \in T, <<s, t>> \in R PROVE FALSE
  <2>1. Above(t) \subseteq Above(s) /\ t \in Above(s) /\ t \notin Above(t)
    BY <1>5
  <2>2. Cardinality(Above(t)) <= Cardinality(Above(s)) /\ Cardinality(Above(t)) # Cardinality(Above(s))
    BY <2>1, <1>1, FS_Subset
  <2>3. rank[s] <= rank[t]
    <3> HIDE DEF rank
    <3> QED BY <1>3, <1>4
  <2> HIDE DEF Above, rank
  <2> QED
    BY <1>1, <1>2, <2>2, <2>3
<1> QED
  BY <1>5

-----------------------------------------------------------------------------
(* Lists. *)

(* A row's cursor is its key in the list: nothing is lost by the rounding.  *)
RowsAreSound ==
    /\ strategies \in Seq(Nat)
    /\ Len(strategies) <= MaxStrategies
    /\ \A s \in DOMAIN strategies : encodeCursor(s) = <<strategies[s], s>>

(* A strategy is on the page that the client has not fetched, or it has it. *)
ListIsSound ==
    /\ list.at \in {"idle", "page", "end"}
    /\ list.known \cup list.returned \subseteq DOMAIN strategies
    /\ ~list.repeated
    /\ list.at = "page" =>
          /\ list.cursor = << >> \/ \E c \in DOMAIN strategies : list.cursor = encodeCursor(c)
          /\ \A s \in list.returned : ~AfterCursor(s, list.cursor)
          /\ \A s \in list.known \ list.returned : AfterCursor(s, list.cursor)
    /\ list.at = "end" => list.known \subseteq list.returned

PInv == RowsAreSound /\ ListIsSound

(* A stored time is a whole number of milliseconds. *)
LEMMA StoredIsExact ==
    ASSUME NEW t \in Times
    PROVE  Stored(t) \in Nat /\ (Stored(t) \div PerMilli) * PerMilli = Stored(t)
<1> DEFINE h == PerMilli \div 2
           k == (t + h) \div PerMilli
<1>1. t \in Nat /\ PerMilli \in Nat \ {0}
  BY RegistryAssumption
<1>2. h \in Nat
  BY <1>1, SMTT(30)
<1>3. k \in Nat
  <2> HIDE DEF h
  <2>1. t + h \in Nat
    BY <1>1, <1>2
  <2> QED
    BY <1>1, <2>1, SMTT(30)
<1>4. Stored(t) = k * PerMilli
  BY DEF Stored
<1> HIDE DEF k
<1>5. k * PerMilli \in Nat /\ (k * PerMilli) \div PerMilli = k
  BY <1>1, <1>3, SMTT(30)
<1> QED
  BY <1>4, <1>5

(* The list's order is a strict total order of the strategies. *)
LEMMA PrecedesIsAnOrder ==
    ASSUME RowsAreSound
    PROVE  /\ \A s \in DOMAIN strategies : ~Precedes(s, s)
           /\ \A s, t, u \in DOMAIN strategies : Precedes(s, t) /\ Precedes(t, u) => Precedes(s, u)
           /\ \A s, t \in DOMAIN strategies : s = t \/ Precedes(s, t) \/ Precedes(t, s)
<1>1. \A s \in DOMAIN strategies : s \in Nat /\ strategies[s] \in Nat
  BY DEF RowsAreSound
<1> QED
  BY <1>1 DEF Precedes

LEMMA FiniteRows == RowsAreSound => IsFiniteSet(DOMAIN strategies)
<1> SUFFICES ASSUME RowsAreSound PROVE IsFiniteSet(DOMAIN strategies)
  OBVIOUS
<1>1. DOMAIN strategies = 1..Len(strategies) /\ Len(strategies) \in Int
  BY DEF RowsAreSound
<1>2. 1 \in Int
  OBVIOUS
<1> QED
  BY <1>1, <1>2, FS_Interval

(* A page is a prefix of the rows in the order of the list: it is not empty *)
(* when rows are left, has a last row, and the rows cut off come after it.  *)
LEMMA PageIsAPrefix ==
    ASSUME RowsAreSound, NEW rows \in SUBSET DOMAIN strategies
    PROVE  LET items == {s \in rows : Cardinality({t \in rows : Precedes(t, s)}) < Limit} IN
           /\ rows # {} => items # {}
           /\ items # {} => \E m \in items : \A t \in items : t = m \/ Precedes(t, m)
           /\ \A s \in rows \ items, t \in items : Precedes(t, s)
<1> DEFINE items == {s \in rows : Cardinality({t \in rows : Precedes(t, s)}) < Limit}
           Before(s) == {t \in rows : Precedes(t, s)}
<1>0. /\ IsFiniteSet(rows)
      /\ \A s \in rows : IsFiniteSet(Before(s)) /\ Cardinality(Before(s)) \in Nat
  BY FiniteRows, FS_Subset, FS_CardinalityType
<1>1. ASSUME rows # {} PROVE items # {}
  <2> DEFINE R == {ss \in rows \X rows : Precedes(ss[2], ss[1])}
  <2>0. \A a, b \in rows : <<a, b>> \in R <=> Precedes(b, a)
    OBVIOUS
  <2>1. \A a \in rows : <<a, a>> \notin R
    BY PrecedesIsAnOrder
  <2>2. \A a, b, c \in rows : <<a, b>> \in R /\ <<b, c>> \in R => <<a, c>> \in R
    BY PrecedesIsAnOrder, <2>0
  <2> HIDE DEF R
  <2>3. PICK m \in rows : \A t \in rows : <<m, t>> \notin R
    BY <1>0, <1>1, <2>1, <2>2, Maximal
  <2>4. Before(m) = {}
    BY <2>0, <2>3
  <2>5. Cardinality({t \in rows : Precedes(t, m)}) = 0
    BY <2>4, FS_EmptySet
  <2> QED
    BY <2>5, RegistryAssumption
<1>2. ASSUME items # {} PROVE \E m \in items : \A t \in items : t = m \/ Precedes(t, m)
  <2> DEFINE R == {ss \in rows \X rows : Precedes(ss[1], ss[2])}
  <2>0. \A a, b \in rows : <<a, b>> \in R <=> Precedes(a, b)
    OBVIOUS
  <2>1. \A a \in items : <<a, a>> \notin R
    BY PrecedesIsAnOrder
  <2>2. \A a, b, c \in items : <<a, b>> \in R /\ <<b, c>> \in R => <<a, c>> \in R
    BY PrecedesIsAnOrder, <2>0
  <2>3. IsFiniteSet(items)
    BY <1>0, FS_Subset
  <2> HIDE DEF R, items
  <2>4. PICK m \in items : \A t \in items : <<m, t>> \notin R
    BY <1>2, <2>1, <2>2, <2>3, Maximal
  <2> USE DEF items
  <2> QED
    BY <2>0, <2>4, PrecedesIsAnOrder
<1>3. ASSUME NEW s \in rows \ items, NEW t \in items PROVE Precedes(t, s)
  <2>1. CASE Precedes(s, t)
    <3>1. Before(s) \subseteq Before(t)
      BY <2>1, PrecedesIsAnOrder
    <3>2. Cardinality(Before(s)) <= Cardinality(Before(t))
      BY <3>1, <1>0, FS_Subset
    <3>3. Cardinality(Before(t)) < Limit /\ ~(Cardinality(Before(s)) < Limit)
      OBVIOUS
    <3> HIDE DEF Before
    <3>4. Limit \in Nat
      BY RegistryAssumption
    <3> QED
      BY <1>0, <3>2, <3>3, <3>4
  <2> QED
    BY <2>1, PrecedesIsAnOrder
<1> QED
  BY <1>1, <1>2, <1>3

(* The rows after a row's cursor are those that the row precedes. *)
LEMMA CursorIsExact ==
    ASSUME RowsAreSound, NEW s \in DOMAIN strategies, NEW c \in DOMAIN strategies
    PROVE  AfterCursor(s, encodeCursor(c)) <=> Precedes(c, s)
<1>1. encodeCursor(c) = <<strategies[c], c>>
  BY DEF RowsAreSound
<1>2. <<strategies[c], c>> # << >>
  OBVIOUS
<1>3. {s, c, strategies[s], strategies[c]} \subseteq Nat
  BY DEF RowsAreSound
<1> QED
  BY <1>1, <1>2, <1>3 DEF AfterCursor, Precedes

(* Fetching a page. *)
LEMMA PageStep ==
    ASSUME PInv, listStrategies
    PROVE  PInv'
<1> DEFINE matching == resolveFilteredStrategyIds(list.filter)
           rows == {s \in matching : AfterCursor(s, list.cursor)}
           items == {s \in rows : Cardinality({t \in rows : Precedes(t, s)}) < Limit}
           last == CHOOSE s \in items : \A t \in items : t = s \/ Precedes(t, s)
           D == DOMAIN strategies
<1>1. matching \subseteq D /\ rows \subseteq D /\ items \subseteq rows
  BY DEF resolveFilteredStrategyIds
<1>2. /\ rows # {} => items # {}
      /\ items # {} => \E m \in items : \A t \in items : t = m \/ Precedes(t, m)
      /\ \A s \in rows \ items, t \in items : Precedes(t, s)
  <2> HIDE DEF rows
  <2> QED
    BY <1>1, PageIsAPrefix DEF PInv
<1>3. /\ strategies' = strategies
      /\ \A s : encodeCursor(s)' = encodeCursor(s)
      /\ \A s, c : AfterCursor(s, c)' = AfterCursor(s, c)
  BY DEF listStrategies, tables, encodeCursor, AfterCursor
<1>4. /\ list.at = "page"
      /\ list' = [at |-> IF items # rows THEN "page" ELSE "end", filter |-> list.filter,
                  cursor |-> IF items # rows THEN encodeCursor(last) ELSE << >>,
                  known |-> list.known \cap matching,
                  returned |-> list.returned \cup items,
                  repeated |-> list.repeated \/ items \cap list.returned # {}]
  BY DEF listStrategies
<1>5. RowsAreSound'
  BY <1>3 DEF PInv, RowsAreSound
<1>6. /\ list.known \cup list.returned \subseteq D
      /\ ~list.repeated
      /\ list.cursor = << >> \/ \E c \in D : list.cursor = encodeCursor(c)
      /\ \A s \in list.returned : ~AfterCursor(s, list.cursor)
      /\ \A s \in list.known \ list.returned : AfterCursor(s, list.cursor)
  BY <1>4 DEF PInv, ListIsSound
<1>7. items \cap list.returned = {}
  BY <1>6
<1>8. list.known \cap matching \subseteq list.returned \cup rows
  BY <1>6
<1> HIDE DEF matching, rows, items
<1>9. ListIsSound'
  <2>1. CASE items = rows
    <3>1. /\ list'.at = "end"
          /\ list'.known = list.known \cap matching
          /\ list'.returned = list.returned \cup items
          /\ list'.repeated = FALSE
      BY <1>4, <1>6, <1>7, <2>1
    <3> QED
      BY <3>1, <2>1, <1>1, <1>3, <1>6, <1>8 DEF ListIsSound
  <2>2. CASE items # rows
    <3>1. /\ list'.at = "page"
          /\ list'.cursor = encodeCursor(last)
          /\ list'.known = list.known \cap matching
          /\ list'.returned = list.returned \cup items
          /\ list'.repeated = FALSE
      BY <1>4, <1>6, <1>7, <2>2
    <3>2. last \in items /\ \A t \in items : t = last \/ Precedes(t, last)
      BY <1>1, <1>2, <2>2
    <3> HIDE DEF last
    <3>3. last \in D /\ AfterCursor(last, list.cursor)
      BY <3>2, <1>1 DEF rows
    <3>4. \A s \in list.returned : ~AfterCursor(s, encodeCursor(last))
      <4> SUFFICES ASSUME NEW s \in list.returned, AfterCursor(s, encodeCursor(last)) PROVE FALSE
        OBVIOUS
      <4>1. s \in D /\ Precedes(last, s)
        BY <1>6, <3>3, CursorIsExact DEF PInv
      <4>2. list.cursor # << >>
        BY <1>6 DEF AfterCursor
      <4>3. PICK c \in D : list.cursor = encodeCursor(c)
        BY <1>6, <4>2
      <4>4. Precedes(c, last) /\ ~Precedes(c, s)
        BY <4>1, <4>3, <3>3, <1>6, CursorIsExact DEF PInv
      <4> QED
        BY <4>1, <4>4, <3>3, PrecedesIsAnOrder DEF PInv
    <3>5. \A s \in items : ~AfterCursor(s, encodeCursor(last))
      <4> SUFFICES ASSUME NEW s \in items, AfterCursor(s, encodeCursor(last)) PROVE FALSE
        OBVIOUS
      <4>1. s \in D /\ Precedes(last, s)
        BY <1>1, <3>3, CursorIsExact DEF PInv
      <4> QED
        BY <3>2, <4>1, <3>3, PrecedesIsAnOrder DEF PInv
    <3>6. \A s \in rows \ items : AfterCursor(s, encodeCursor(last))
      BY <1>1, <1>2, <3>2, <3>3, CursorIsExact DEF PInv
    <3> QED
      BY <3>1, <3>3, <3>4, <3>5, <3>6, <1>1, <1>3, <1>6, <1>8 DEF ListIsSound
  <2> QED
    BY <2>1, <2>2
<1> QED
  BY <1>5, <1>9 DEF PInv

LEMMA PagesInit == Init => PInv
<1> SUFFICES ASSUME Init PROVE PInv
  OBVIOUS
<1>1. strategies = << >> /\ list = NoList
  BY DEF Init
<1>2. strategies \in Seq(Nat) /\ Len(strategies) = 0 /\ DOMAIN strategies = {}
  BY <1>1
<1> QED
  BY <1>1, <1>2, RegistryAssumption DEF PInv, RowsAreSound, ListIsSound, NoList

(* A new strategy changes no row that a list has seen. *)
LEMMA StrategyIsSound ==
    ASSUME RowsAreSound, NEW t \in Times, strategies' = Append(strategies, Stored(t)),
           Len(strategies) < MaxStrategies
    PROVE  /\ RowsAreSound'
           /\ DOMAIN strategies \subseteq DOMAIN strategies'
           /\ \A s \in DOMAIN strategies : encodeCursor(s)' = encodeCursor(s)
           /\ \A s \in DOMAIN strategies : \A c : AfterCursor(s, c)' = AfterCursor(s, c)
<1> DEFINE x == Stored(t)
<1>1. x \in Nat /\ (x \div PerMilli) * PerMilli = x
  BY StoredIsExact
<1> HIDE DEF x
<1>2. PICK n \in Nat :
      /\ n = Len(strategies) + 1
      /\ strategies' \in Seq(Nat) /\ Len(strategies') = n
      /\ DOMAIN strategies' = DOMAIN strategies \cup {n}
      /\ strategies'[n] = x
      /\ \A s \in DOMAIN strategies : strategies'[s] = strategies[s]
  <2>1. strategies \in Seq(Nat) /\ strategies' = Append(strategies, x)
    BY DEF RowsAreSound, x
  <2> QED
    BY <1>1, <2>1, AppendProperties
<1>3. /\ \A s \in DOMAIN strategies : encodeCursor(s)' = encodeCursor(s)
      /\ \A s \in DOMAIN strategies : \A c : AfterCursor(s, c)' = AfterCursor(s, c)
  BY <1>2 DEF encodeCursor, AfterCursor
<1>4. encodeCursor(n)' = <<strategies'[n], n>>
  BY <1>1, <1>2 DEF encodeCursor
<1>5. n <= MaxStrategies
  BY <1>2, RegistryAssumption DEF RowsAreSound
<1>6. RowsAreSound'
  BY <1>2, <1>3, <1>4, <1>5 DEF RowsAreSound
<1> QED
  BY <1>2, <1>3, <1>6

LEMMA StrategyAdded ==
    ASSUME PInv, NEW t \in Times, strategies' = Append(strategies, Stored(t)),
           Len(strategies) < MaxStrategies, list' = list
    PROVE  PInv'
<1>1. /\ RowsAreSound'
      /\ \A c \in DOMAIN strategies : c \in DOMAIN strategies' /\ encodeCursor(c)' = encodeCursor(c)
      /\ \A s \in DOMAIN strategies : \A c : AfterCursor(s, c)' = AfterCursor(s, c)
  BY StrategyIsSound DEF PInv
<1>2. /\ list'.known \cup list'.returned \subseteq DOMAIN strategies'
      /\ list.known \cup list.returned \subseteq DOMAIN strategies
  BY <1>1 DEF PInv, ListIsSound
<1> QED
  BY <1>1, <1>2 DEF PInv, ListIsSound

LEMMA PagesNext == PInv /\ [Next]_vars => PInv'
<1> SUFFICES ASSUME PInv, [Next]_vars PROVE PInv'
  OBVIOUS
<1>1. ASSUME UNCHANGED <<strategies, list>> PROVE PInv'
  BY <1>1 DEF PInv, RowsAreSound, ListIsSound, encodeCursor, AfterCursor
<1>2. ASSUME NEW r \in Requests, RequestStep(r) PROVE PInv'
  <2>1. CASE \E t \in Times : createStrategy(r, t)
    BY <2>1, StrategyAdded DEF createStrategy
  <2>2. CASE ~\E t \in Times : createStrategy(r, t)
    BY <1>1, <1>2, <2>2 DEF RequestStep, checkIdempotency, createCampaign,
       createChildStrategyVersion, refuseCommand, recordIdempotency, loseRequest, tables
  <2> QED
    BY <2>1, <2>2
<1>3. ASSUME NEW v \in DOMAIN versions, applyTransition(v) PROVE PInv'
  BY <1>1, <1>3 DEF applyTransition
<1>4. ASSUME NEW v \in DOMAIN versions, NEW document \in Documents, saveDocument(v, document) PROVE PInv'
  BY <1>1, <1>4 DEF saveDocument
<1>5. ASSUME NEW w \in Workers, WorkerStep(w) PROVE PInv'
  <2>1. CASE readLatest(w)
    BY <1>1, <2>1 DEF readLatest, tables
  <2>2. CASE writeRow(w) \/ failRefresh(w) \/ stallRefresh(w)
    BY <1>1, <2>2 DEF writeRow, failRefresh, stallRefresh, tables
  <2> QED
    BY <1>5, <2>1, <2>2 DEF WorkerStep
<1>6. ASSUME NEW filter \in Filters, startList(filter) PROVE PInv'
  <2>1. strategies' = strategies
    BY <1>6 DEF startList, tables
  <2>2. /\ list'.at = "page" /\ list'.cursor = << >>
        /\ list'.known = resolveFilteredStrategyIds(filter)
        /\ list'.returned = {} /\ list'.repeated = FALSE
    BY <1>6 DEF startList, NoList
  <2>3. list'.known \subseteq DOMAIN strategies
    BY <2>2 DEF resolveFilteredStrategyIds
  <2>4. RowsAreSound'
    BY <2>1 DEF PInv, RowsAreSound, encodeCursor
  <2> QED
    BY <2>1, <2>2, <2>3, <2>4 DEF PInv, ListIsSound, AfterCursor
<1>7. CASE listStrategies
  BY <1>7, PageStep
<1>8. CASE forgetList
  BY <1>8 DEF forgetList, PInv, RowsAreSound, ListIsSound, NoList, encodeCursor, tables
<1>9. CASE UNCHANGED vars
  BY <1>1, <1>9 DEF vars, tables
<1>10. ASSUME NEW v \in DOMAIN versions, NEW moves \in 1..MaxMoves, dropEvent(v, moves) PROVE PInv'
  BY <1>1, <1>10 DEF dropEvent, tables
<1> QED
  BY <1>2, <1>3, <1>4, <1>5, <1>6, <1>7, <1>8, <1>9, <1>10 DEF Next, ListStep

(* A client that follows the cursor to the end got each strategy that       *)
(* matched all along, and none twice, whatever was created since and        *)
(* however many share a millisecond.                                        *)
THEOREM RegistryPagesAreExact == Spec => []PagesAreExact
<1>1. PInv => PagesAreExact
  BY DEF PInv, ListIsSound, PagesAreExact
<1> QED
  BY <1>1, PagesInit, PagesNext, PTL DEF Spec

-----------------------------------------------------------------------------
(* The read model. *)

(* One worker-analytics process is deployed. *)
OneWorker == \A v, w \in Workers : v = w

VersionRows == [strategy : Nat, parent : Nat, number : Nat, moves : Nat, saved : SUBSET Documents]

VersionsAreSound ==
    /\ versions \in Seq(VersionRows)
    /\ \A v \in DOMAIN versions : versions[v].strategy \in DOMAIN strategies
    /\ \A s \in DOMAIN strategies : VersionsOf(s) # {}

JobRows == [version : Nat, moves : Nat, attempts : Nat, stalls : Nat]

RefreshIsSound ==
    /\ readModel = [s \in 1..MaxStrategies |-> readModel[s]]
    /\ \A s \in (1..MaxStrategies) \ DOMAIN strategies : readModel[s] = NoRow
    /\ jobs \subseteq JobRows
    /\ \A job \in jobs : job.version \in DOMAIN versions
    /\ worker = [w \in Workers |-> worker[w]]
    /\ \A w \in Workers :
          /\ worker[w].at \in {"idle", "write", "stray"}
          /\ Writes(w) =>
                /\ worker[w] = [at |-> worker[w].at, job |-> worker[w].job,
                               strategy |-> worker[w].strategy, row |-> worker[w].row]
                /\ worker[w].job \in JobRows
                /\ worker[w].job.version \in DOMAIN versions
                /\ worker[w].strategy = versions[worker[w].job.version].strategy

(* A row shows the present state of a version with nothing newer that moved. *)
Good(s, r) == r.version \in VersionsOf(s) /\ Current(s, r)

Waiting(s) == s \in abandoned \/ \E job \in jobs : versions[job.version].strategy = s
Writing(w, s) == Writes(w) /\ worker[w].strategy = s

(* A strategy whose row is not good has a job left or lost one, or the     *)
(* worker has read a good row for it and still holds its job.              *)
Refreshed(s) ==
    \/ Waiting(s)
    \/ \E w \in Workers : Writing(w, s) /\ worker[w].at = "write" /\ Good(s, worker[w].row)
    \/ /\ \A w \in Workers : ~Writing(w, s)
       /\ readModel[s].version = 0 \/ Good(s, readModel[s])

StaleIsWaiting == \A s \in DOMAIN strategies : Refreshed(s)

RInv == RowsAreSound /\ VersionsAreSound /\ RefreshIsSound /\ StaleIsWaiting

LEMMA RefreshInit == Init => RInv
<1> SUFFICES ASSUME Init PROVE RInv
  OBVIOUS
<1>1. RowsAreSound
  BY PagesInit DEF PInv
<1>2. versions = << >> /\ strategies = << >> /\ jobs = {}
  BY DEF Init
<1>3. Len(versions) = 0 /\ DOMAIN versions = {} /\ DOMAIN versions = 1..0 /\ DOMAIN strategies = {}
  BY <1>2
<1> QED
  BY <1>1, <1>2, <1>3 DEF Init, RInv, VersionsAreSound, RefreshIsSound, Writes, StaleIsWaiting

LEMMA NumbersAreNat ==
    ASSUME VersionsAreSound
    PROVE  /\ \A v \in DOMAIN versions : versions[v] \in VersionRows /\ versions[v].number \in Nat
           /\ \A s : \A v \in VersionsOf(s) : versions[v].number \in Nat
<1>1. \A v \in DOMAIN versions : versions[v] \in VersionRows
  BY DEF VersionsAreSound
<1>2. \A x \in VersionRows : x.number \in Nat
  BY DEF VersionRows
<1> QED
  BY <1>1, <1>2 DEF VersionsOf

(* A strategy has a latest version. *)
LEMMA SomeIsLatest ==
    ASSUME VersionsAreSound, NEW s \in DOMAIN strategies
    PROVE  Latest(s) # {}
<1> DEFINE T == VersionsOf(s)
           R == {ss \in T \X T : versions[ss[1]].number < versions[ss[2]].number}
<1>1. IsFiniteSet(T) /\ T # {}
  <2>1. IsFiniteSet(1..Len(versions))
    <3>1. Len(versions) \in Int /\ 1 \in Int
      BY DEF VersionsAreSound
    <3> QED
      BY <3>1, FS_Interval
  <2>2. T \subseteq DOMAIN versions /\ DOMAIN versions = 1..Len(versions)
    BY DEF VersionsAreSound, VersionsOf
  <2> QED
    BY <2>1, <2>2, FS_Subset DEF VersionsAreSound
<1>2. \A v \in T : versions[v].number \in Nat
  BY NumbersAreNat
<1>3. \A v, w \in T : <<v, w>> \in R <=> versions[v].number < versions[w].number
  OBVIOUS
<1> HIDE DEF T, R
<1>4. /\ \A a \in T : <<a, a>> \notin R
      /\ \A a, b, c \in T : <<a, b>> \in R /\ <<b, c>> \in R => <<a, c>> \in R
  BY <1>2, <1>3
<1>5. PICK m \in T : \A t \in T : <<m, t>> \notin R
  BY <1>1, <1>4, Maximal
<1>6. \A t \in T : versions[t].number <= versions[m].number
  <2> SUFFICES ASSUME NEW t \in T PROVE versions[t].number <= versions[m].number
    OBVIOUS
  <2>1. ~(versions[m].number < versions[t].number)
    BY <1>3, <1>5
  <2>2. versions[m].number \in Nat /\ versions[t].number \in Nat
    BY <1>2
  <2> QED
    BY <2>1, <2>2
<1> QED
  BY <1>5, <1>6 DEF T, Latest

LEMMA LatestIsGood ==
    ASSUME VersionsAreSound, NEW s, NEW v \in Latest(s)
    PROVE  Good(s, Row(v)) /\ Row(v).version = v /\ v # 0
<1>1. v \in VersionsOf(s) /\ \A w \in VersionsOf(s) : versions[w].number <= versions[v].number
  BY DEF Latest
<1>2. \A w \in VersionsOf(s) : w # 0 /\ versions[w].number \in Nat
  BY NumbersAreNat DEF VersionsAreSound, VersionsOf
<1>3. Row(v).version = v /\ Row(v).number = versions[v].number
  BY DEF Row
<1>4. \A w \in VersionsOf(s) : ~(versions[w].number > versions[v].number)
  BY <1>1, <1>2
<1> QED
  BY <1>1, <1>2, <1>3, <1>4 DEF Good, Current

(* Steps that leave the tables and the refreshes alone. *)
LEMMA RefreshStutter ==
    ASSUME RInv, UNCHANGED <<strategies, versions, readModel, jobs, worker, abandoned>>
    PROVE  RInv'
<1>1. /\ \A t : VersionsOf(t)' = VersionsOf(t)
      /\ \A t : Waiting(t)' <=> Waiting(t)
      /\ \A w, t : Writing(w, t)' <=> Writing(w, t)
      /\ \A v : Row(v)' = Row(v)
  BY DEF VersionsOf, Waiting, Writing, Writes, Row
<1>2. \A t, r : Good(t, r)' <=> Good(t, r)
  BY <1>1 DEF Good, Current
<1>3. RowsAreSound' /\ VersionsAreSound' /\ RefreshIsSound'
  BY <1>1 DEF RInv, RowsAreSound, VersionsAreSound, RefreshIsSound, Writes, encodeCursor
<1>4. ASSUME NEW t \in DOMAIN strategies PROVE Refreshed(t)'
  <2>1. Refreshed(t)
    BY DEF RInv, StaleIsWaiting
  <2> QED
    BY <1>1, <1>2, <2>1 DEF Refreshed
<1> QED
  BY <1>3, <1>4 DEF RInv, StaleIsWaiting

(* A version is added, with no move, to a strategy.  A new strategy has no  *)
(* row, and no good row becomes bad.                                        *)
LEMMA VersionAdded ==
    ASSUME RInv, RowsAreSound', NEW s \in 1..MaxStrategies, NEW p \in Nat, NEW n \in Nat,
           versions' = Append(versions, NewVersion(s, p, n)),
           DOMAIN strategies' = DOMAIN strategies \cup {s},
           UNCHANGED <<readModel, jobs, worker, abandoned>>
    PROVE  RInv'
<1> DEFINE D == DOMAIN versions
<1>1. PICK k \in Nat \ {0} :
      /\ k \notin D /\ DOMAIN versions' = D \cup {k}
      /\ versions'[k].strategy = s /\ versions'[k].moves = 0
      /\ \A v \in D : versions'[v] = versions[v]
      /\ versions' \in Seq(VersionRows)
  <2> DEFINE x == NewVersion(s, p, n)
  <2>1. x \in VersionRows /\ x.strategy = s /\ x.moves = 0
    BY DEF NewVersion, VersionRows
  <2>2. versions \in Seq(VersionRows)
    BY DEF RInv, VersionsAreSound
  <2> HIDE DEF x
  <2>3. /\ versions' \in Seq(VersionRows) /\ Len(versions') = Len(versions) + 1
        /\ versions'[Len(versions) + 1] = x
        /\ \A v \in D : versions'[v] = versions[v]
    <3> USE DEF x
    <3> QED
      BY <2>1, <2>2, AppendProperties
  <2>4. Len(versions) \in Nat /\ D = 1..Len(versions) /\ DOMAIN versions' = 1..(Len(versions) + 1)
    BY <2>2, <2>3
  <2> QED
    BY <2>1, <2>3, <2>4
<1>2. VersionsAreSound'
  <2>1. \A t \in DOMAIN strategies : VersionsOf(t) \subseteq VersionsOf(t)'
    BY <1>1 DEF VersionsOf
  <2>2. k \in VersionsOf(s)'
    BY <1>1 DEF VersionsOf
  <2>3. \A t \in DOMAIN strategies' : VersionsOf(t)' # {}
    BY <2>1, <2>2 DEF RInv, VersionsAreSound
  <2>4. \A v \in DOMAIN versions' : versions'[v].strategy \in DOMAIN strategies'
    BY <1>1 DEF RInv, VersionsAreSound
  <2> QED
    BY <1>1, <2>3, <2>4 DEF VersionsAreSound
<1>3. RefreshIsSound'
  BY <1>1 DEF RInv, RefreshIsSound, Writes
<1>4. ASSUME NEW t \in DOMAIN strategies', NEW r, Good(t, r) PROVE Good(t, r)'
  <2>1. r.version \in D /\ r.version \in VersionsOf(t) /\ r.version \in VersionsOf(t)'
    BY <1>1, <1>4 DEF Good, Current, VersionsOf
  <2>2. Row(r.version)' = Row(r.version)
    BY <1>1, <2>1 DEF Row
  <2>3. \A v \in VersionsOf(t)' : v \in VersionsOf(t) \/ versions'[v].moves = 0
    BY <1>1 DEF VersionsOf
  <2>4. \A v \in VersionsOf(t) : versions'[v] = versions[v]
    BY <1>1 DEF VersionsOf
  <2> QED
    BY <1>4, <2>1, <2>2, <2>3, <2>4 DEF Good, Current
<1>5. ASSUME NEW t \in DOMAIN strategies' PROVE Refreshed(t)'
  <2>1. \A job \in jobs : versions'[job.version].strategy = versions[job.version].strategy
    BY <1>1 DEF RInv, RefreshIsSound
  <2>2. \A w \in Workers : Writing(w, t)' <=> Writing(w, t)
    BY DEF Writing, Writes
  <2>3. CASE t \in DOMAIN strategies
    <3>1. Refreshed(t)
      BY <2>3 DEF RInv, StaleIsWaiting
    <3> QED
      BY <3>1, <2>1, <2>2, <1>4 DEF Refreshed, Waiting
  <2>4. CASE t \notin DOMAIN strategies
    <3>1. t \in (1..MaxStrategies) \ DOMAIN strategies
      BY <2>4
    <3>2. readModel[t].version = 0
      BY <3>1 DEF RInv, RefreshIsSound, NoRow
    <3>3. \A w \in Workers : ~Writing(w, t)
      BY <2>4 DEF RInv, RefreshIsSound, VersionsAreSound, Writing
    <3> QED
      BY <3>2, <3>3, <2>2 DEF Refreshed
  <2> QED
    BY <2>3, <2>4
<1> QED
  BY <1>2, <1>3, <1>5 DEF RInv, StaleIsWaiting

LEMMA CreationSteps ==
    ASSUME RInv, NEW r \in Requests,
           (\E t \in Times : createStrategy(r, t)) \/ createChildStrategyVersion(r)
    PROVE  RInv'
<1>1. ASSUME NEW t \in Times, createStrategy(r, t) PROVE RInv'
  <2> DEFINE s == Len(strategies) + 1
  <2>1. Stored(t) \in Nat /\ (Stored(t) \div PerMilli) * PerMilli = Stored(t)
    BY StoredIsExact
  <2>2. strategies \in Seq(Nat) /\ strategies' = Append(strategies, Stored(t))
    BY <1>1 DEF createStrategy, RInv, RowsAreSound
  <2>3. /\ Len(strategies) \in Nat /\ Len(strategies') = s
        /\ DOMAIN strategies = 1..Len(strategies) /\ DOMAIN strategies' = 1..s
    BY <2>1, <2>2, AppendProperties
  <2>4. s \in 1..MaxStrategies
    BY <1>1, <2>3, RegistryAssumption DEF createStrategy
  <2>5. RowsAreSound'
    BY <1>1, StrategyIsSound DEF createStrategy, RInv
  <2>6. versions' = Append(versions, NewVersion(s, 0, 1))
    BY <1>1, <2>3 DEF createStrategy
  <2>7. DOMAIN strategies' = DOMAIN strategies \cup {s}
    BY <2>3
  <2>8. UNCHANGED <<readModel, jobs, worker, abandoned>>
    BY <1>1 DEF createStrategy, refresh
  <2> HIDE DEF s
  <2> QED
    BY <2>4, <2>5, <2>6, <2>7, <2>8, VersionAdded
<1>2. CASE createChildStrategyVersion(r)
  <2> DEFINE body == request[r].body
  <2>1. /\ body.parent \in DOMAIN versions /\ body.strategy \in DOMAIN strategies
        /\ versions' = Append(versions,
              NewVersion(body.strategy, body.parent, versions[body.parent].number + 1))
        /\ UNCHANGED <<strategies, readModel, jobs, worker, abandoned>>
    BY <1>2 DEF createChildStrategyVersion, refresh
  <2> HIDE DEF body
  <2>2. body.strategy \in 1..MaxStrategies
    BY <2>1, RegistryAssumption DEF RInv, RowsAreSound
  <2>3. body.parent \in Nat /\ versions[body.parent].number + 1 \in Nat
    <3>1. body.parent \in Nat
      BY <2>1 DEF RInv, VersionsAreSound
    <3>2. versions[body.parent].number \in Nat
      BY <2>1, NumbersAreNat DEF RInv
    <3> QED
      BY <3>1, <3>2
  <2>4. RowsAreSound'
    BY <2>1 DEF RInv, RowsAreSound, encodeCursor
  <2>5. DOMAIN strategies' = DOMAIN strategies \cup {body.strategy}
    BY <2>1
  <2> QED
    BY <2>1, <2>2, <2>3, <2>4, <2>5, VersionAdded
<1> QED
  BY <1>1, <1>2

(* A transition leaves a job for its strategy; the rows of others stay good. *)
LEMMA VersionChanged ==
    ASSUME RInv, NEW v \in DOMAIN versions, NEW x,
           x.strategy = versions[v].strategy, x.number = versions[v].number,
           x \in VersionRows,
           versions' = [versions EXCEPT ![v] = x],
           (x.moves = versions[v].moves /\ jobs' = jobs) \/ jobs' = jobs \cup {Job(v, x.moves)},
           UNCHANGED <<strategies, readModel, worker, abandoned>>
    PROVE  RInv'
<1> DEFINE D == DOMAIN versions
<1>1. /\ versions' \in Seq(VersionRows) /\ DOMAIN versions' = D
      /\ \A u \in D : /\ versions'[u].strategy = versions[u].strategy
                      /\ versions'[u].number = versions[u].number
                      /\ u # v \/ x.moves = versions[v].moves => versions'[u].moves = versions[u].moves
  BY DEF RInv, VersionsAreSound
<1>2. \A s : VersionsOf(s)' = VersionsOf(s)
  BY <1>1 DEF VersionsOf
<1>3. VersionsAreSound' /\ RowsAreSound'
  BY <1>1, <1>2 DEF RInv, VersionsAreSound, RowsAreSound, encodeCursor
<1>9. Job(v, x.moves) \in JobRows /\ Job(v, x.moves).version = v
  <2>1. v \in Nat /\ x.moves \in Nat
    BY DEF VersionRows, RInv, VersionsAreSound
  <2> QED
    BY <2>1 DEF Job, JobRows
<1>4. RefreshIsSound'
  <2>1. jobs' \subseteq JobRows /\ \A job \in jobs' : job.version \in D
    BY <1>9 DEF RInv, RefreshIsSound
  <2> QED
    BY <1>1, <2>1 DEF RInv, RefreshIsSound, Writes
<1>5. ASSUME NEW s \in DOMAIN strategies PROVE Refreshed(s)'
  <2>1. CASE s = versions[v].strategy /\ Job(v, x.moves) \in jobs'
    <3>1. \E job \in jobs' : versions'[job.version].strategy = s
      BY <1>1, <1>9, <2>1
    <3> QED
      BY <3>1 DEF Refreshed, Waiting
  <2>2. CASE s # versions[v].strategy \/ (x.moves = versions[v].moves /\ jobs' = jobs)
    <3>1. \A u \in VersionsOf(s) : u \in D /\ Row(u)' = Row(u) /\ versions'[u].moves = versions[u].moves
                                   /\ versions'[u].number = versions[u].number
      BY <1>1, <2>2 DEF VersionsOf, Row
    <3>2. \A r : Good(s, r) => Good(s, r)'
      BY <1>2, <3>1 DEF Good, Current
    <3>3. Waiting(s) => Waiting(s)'
      BY <1>1 DEF Waiting, RInv, RefreshIsSound
    <3>4. \A w \in Workers : Writing(w, s)' <=> Writing(w, s)
      BY DEF Writing, Writes
    <3>5. Refreshed(s)
      BY DEF RInv, StaleIsWaiting
    <3> QED
      BY <3>2, <3>3, <3>4, <3>5 DEF Refreshed
  <2> QED
    BY <2>1, <2>2
<1> QED
  BY <1>3, <1>4, <1>5 DEF RInv, StaleIsWaiting

LEMMA TransitionStep ==
    ASSUME RInv, NEW v \in DOMAIN versions, applyTransition(v)
    PROVE  RInv'
<1> DEFINE x == [versions[v] EXCEPT !.moves = @ + 1]
<1>1. versions[v] \in VersionRows
  BY DEF RInv, VersionsAreSound
<1>2. /\ x.strategy = versions[v].strategy /\ x.number = versions[v].number
      /\ x \in VersionRows
  BY <1>1 DEF VersionRows
<1>3. versions' = [versions EXCEPT ![v] = x]
  BY DEF applyTransition
<1>4. versions'[v] = x
  BY <1>3
<1>5. jobs' = jobs \cup {Job(v, x.moves)}
  BY <1>4 DEF applyTransition
<1>6. UNCHANGED <<strategies, readModel, worker, abandoned>>
  BY DEF applyTransition
<1> HIDE DEF x
<1> QED
  BY <1>2, <1>3, <1>5, <1>6, VersionChanged

LEMMA DocumentStep ==
    ASSUME RInv, NEW v \in DOMAIN versions, NEW document \in Documents, saveDocument(v, document)
    PROVE  RInv'
<1> DEFINE x == [versions[v] EXCEPT !.saved = @ \cup {document}]
<1>1. versions[v] \in VersionRows
  BY DEF RInv, VersionsAreSound
<1>2. /\ x.strategy = versions[v].strategy /\ x.number = versions[v].number
      /\ x.moves = versions[v].moves
      /\ x \in VersionRows
  BY <1>1 DEF VersionRows
<1>3. versions' = [versions EXCEPT ![v] = x] /\ UNCHANGED <<strategies, readModel, jobs, worker, abandoned>>
  BY DEF saveDocument, refresh
<1> HIDE DEF x
<1> QED
  BY <1>2, <1>3, VersionChanged

(* A step that loses a job of a strategy, if not without a trace. *)
LEMMA EventDropped ==
    ASSUME RInv, NEW v \in DOMAIN versions, NEW moves, dropEvent(v, moves)
    PROVE  RInv'
<1> DEFINE job == Job(v, moves)
<1>1. /\ job.version = v /\ jobs' = jobs \ {job}
      /\ abandoned' = abandoned \cup {versions[v].strategy}
      /\ UNCHANGED <<strategies, versions, readModel, worker>>
  BY DEF dropEvent, Job, tables
<1> HIDE DEF job
<1>2. /\ \A t : VersionsOf(t)' = VersionsOf(t)
      /\ \A w, t : Writing(w, t)' <=> Writing(w, t)
      /\ \A t, r : Good(t, r)' <=> Good(t, r)
      /\ VersionsAreSound' /\ RowsAreSound' /\ RefreshIsSound'
  BY <1>1 DEF VersionsOf, Writing, Writes, Good, Current, Row, RInv, VersionsAreSound, RowsAreSound,
     RefreshIsSound, encodeCursor
<1>3. \A t : Waiting(t) => Waiting(t)'
  BY <1>1 DEF Waiting
<1>4. ASSUME NEW t \in DOMAIN strategies PROVE Refreshed(t)'
  <2>1. Refreshed(t)
    BY DEF RInv, StaleIsWaiting
  <2> QED
    BY <1>1, <1>2, <1>3, <2>1 DEF Refreshed
<1> QED
  BY <1>1, <1>2, <1>4 DEF RInv, StaleIsWaiting

(* The only worker reads a good row, and writes it or gives its job back. *)
LEMMA WorkerSteps ==
    ASSUME OneWorker, RInv, NEW w \in Workers, WorkerStep(w)
    PROVE  RInv'
<1>0. \A u \in Workers : u = w
  BY DEF OneWorker
<1>1. CASE readLatest(w)
  <2>0. PICK job \in jobs : \E latest \in Latest(versions[job.version].strategy) :
        /\ worker[w].at = "idle"
        /\ worker' = [worker EXCEPT ![w] = [at |-> "write", job |-> job,
              strategy |-> versions[job.version].strategy, row |-> Row(latest)]]
        /\ jobs' = jobs \ {job}
        /\ abandoned' = abandoned \ {versions[job.version].strategy}
        /\ UNCHANGED <<strategies, versions, readModel>>
    BY <1>1 DEF readLatest, tables
  <2>1. PICK latest \in Latest(versions[job.version].strategy) :
        /\ worker[w].at = "idle"
        /\ worker' = [worker EXCEPT ![w] = [at |-> "write", job |-> job,
              strategy |-> versions[job.version].strategy, row |-> Row(latest)]]
        /\ jobs' = jobs \ {job}
        /\ abandoned' = abandoned \ {versions[job.version].strategy}
        /\ UNCHANGED <<strategies, versions, readModel>>
    BY <2>0
  <2>9. PICK t : t = versions[job.version].strategy
    OBVIOUS
  <2>2. /\ worker'[w] = [at |-> "write", job |-> job, strategy |-> t, row |-> Row(latest)]
        /\ worker' = [u \in Workers |-> worker'[u]]
    BY <2>1, <2>9 DEF RInv, RefreshIsSound
  <2>3. Good(t, Row(latest))
    BY <2>1, <2>9, LatestIsGood DEF RInv
  <2>4. /\ \A s, r : Good(s, r)' <=> Good(s, r)
        /\ VersionsAreSound' /\ RowsAreSound'
    BY <2>1 DEF Good, Current, VersionsOf, Row, RInv, VersionsAreSound, RowsAreSound, encodeCursor
  <2>5. RefreshIsSound'
    <3>1. job.version \in DOMAIN versions
      BY DEF RInv, RefreshIsSound
    <3> QED
      BY <1>0, <2>1, <2>2, <2>9, <3>1 DEF RInv, RefreshIsSound
  <2>6. ASSUME NEW s \in DOMAIN strategies PROVE Refreshed(s)'
    <3>1. CASE s = t
      <4>1. Writing(w, s)'
        BY <2>2, <3>1 DEF Writing, Writes
      <4>2. PICK r : r = worker'[w].row
        OBVIOUS
      <4>3. Good(s, r)'
        BY <2>2, <2>3, <2>4, <3>1, <4>2
      <4> QED
        BY <2>2, <4>1, <4>2, <4>3 DEF Refreshed
    <3>2. CASE s # t
      <4>1. Waiting(s) => Waiting(s)'
        BY <2>1, <2>9, <3>2 DEF Waiting
      <4>2. \A u \in Workers : ~Writing(u, s) /\ ~Writing(u, s)'
        BY <1>0, <2>1, <2>2, <3>2 DEF Writing, Writes
      <4> QED
        BY <2>1, <2>4, <4>1, <4>2 DEF RInv, StaleIsWaiting, Refreshed
    <3> QED
      BY <3>1, <3>2
  <2> QED
    BY <2>1, <2>4, <2>5, <2>6 DEF RInv, StaleIsWaiting
<1>2. ASSUME Writes(w), worker' = [worker EXCEPT ![w] = [at |-> "idle"]],
             UNCHANGED <<strategies, versions>>
      PROVE  /\ worker' = [u \in Workers |-> worker'[u]] /\ worker'[w].at = "idle"
             /\ \A s : ~Writing(w, s)'
             /\ \A s, r : Good(s, r)' <=> Good(s, r)
             /\ VersionsAreSound' /\ RowsAreSound'
  <2>1. worker' = [u \in Workers |-> worker'[u]] /\ worker'[w].at = "idle"
    BY <1>2 DEF RInv, RefreshIsSound
  <2> QED
    BY <1>2, <2>1 DEF Writing, Writes, Good, Current, VersionsOf, Row, RInv, VersionsAreSound, RowsAreSound, encodeCursor
<1>3. CASE writeRow(w)
  <2> DEFINE t == worker[w].strategy
             r == worker[w].row
  <2>1. /\ Writes(w) /\ worker' = [worker EXCEPT ![w] = [at |-> "idle"]]
        /\ readModel' = [readModel EXCEPT ![t] = r]
        /\ UNCHANGED <<strategies, versions, jobs, abandoned>>
    BY <1>3 DEF writeRow, Rest, tables
  <2>2. t \in DOMAIN strategies /\ t \in 1..MaxStrategies
    <3>1. t \in DOMAIN strategies
      BY <2>1 DEF RInv, RefreshIsSound, VersionsAreSound
    <3> QED
      BY <3>1, RegistryAssumption DEF RInv, RowsAreSound
  <2>3. /\ readModel' = [s \in 1..MaxStrategies |-> readModel'[s]]
        /\ readModel'[t] = r
        /\ \A s \in (1..MaxStrategies) \ {t} : readModel'[s] = readModel[s]
    BY <2>1, <2>2 DEF RInv, RefreshIsSound
  <2>4. RefreshIsSound'
    BY <1>0, <1>2, <2>1, <2>2, <2>3 DEF RInv, RefreshIsSound, Writes
  <2>5. ASSUME NEW s \in DOMAIN strategies PROVE Refreshed(s)'
    <3>1. s \in 1..MaxStrategies /\ Refreshed(s)
      BY RegistryAssumption DEF RInv, RowsAreSound, StaleIsWaiting
    <3>2. Waiting(s)' <=> Waiting(s)
      BY <2>1 DEF Waiting
    <3>3. CASE s = t
      <4>1. Waiting(s) \/ Good(s, readModel'[s])
        BY <1>0, <2>1, <2>3, <3>1, <3>3 DEF Refreshed, Writing, Writes
      <4>2. Waiting(s)' \/ Good(s, readModel[s])'
        BY <1>2, <2>1, <3>2, <4>1
      <4> QED
        BY <1>0, <1>2, <2>1, <4>2 DEF Refreshed
    <3>4. CASE s # t
      <4>1. readModel'[s] = readModel[s] /\ ~Writing(w, s)
        BY <2>3, <3>1, <3>4 DEF Writing, Writes
      <4>2. Waiting(s) \/ readModel[s].version = 0 \/ Good(s, readModel[s])
        BY <1>0, <3>1, <4>1 DEF Refreshed
      <4> QED
        BY <1>0, <1>2, <2>1, <3>2, <4>1, <4>2 DEF Refreshed
    <3> QED
      BY <3>3, <3>4
  <2> QED
    BY <1>2, <2>1, <2>4, <2>5 DEF RInv, StaleIsWaiting
<1>4. CASE failRefresh(w) \/ stallRefresh(w)
  <2>0. PICK t : t = worker[w].strategy
    OBVIOUS
  <2>1. Writes(w) /\ UNCHANGED <<strategies, versions, readModel>>
    BY <1>4 DEF failRefresh, stallRefresh, tables, Writes
  <2>2. /\ worker[w].job.version \in DOMAIN versions /\ worker[w].job \in JobRows
        /\ t = versions[worker[w].job.version].strategy
        /\ worker[w] = [at |-> worker[w].at, job |-> worker[w].job, strategy |-> t,
                       row |-> worker[w].row]
    BY <2>0, <2>1 DEF RInv, RefreshIsSound
  <2>3. \/ worker' = [worker EXCEPT ![w] = [at |-> "idle"]]
        \/ worker' = [worker EXCEPT ![w].at = "stray"]
    BY <1>4 DEF failRefresh, stallRefresh, Rest
  <2>4. \/ worker[w].at # "write" /\ UNCHANGED <<jobs, abandoned>>
        \/ \E job \in JobRows : job.version = worker[w].job.version /\ putBack(job, t)
    <3>1. PICK job : job = worker[w].job
      OBVIOUS
    <3>2. /\ [job EXCEPT !.attempts = @ + 1] \in JobRows
          /\ [job EXCEPT !.attempts = @ + 1].version = job.version
          /\ [job EXCEPT !.stalls = @ + 1] \in JobRows
          /\ [job EXCEPT !.stalls = @ + 1].version = job.version
      BY <2>2, <3>1 DEF JobRows
    <3>3. CASE failRefresh(w)
      BY <2>0, <3>1, <3>2, <3>3 DEF failRefresh
    <3>4. CASE stallRefresh(w)
      BY <2>0, <3>1, <3>2, <3>4 DEF stallRefresh
    <3> QED
      BY <1>4, <3>3, <3>4
  <2>5. /\ jobs' \subseteq JobRows
        /\ \A job \in jobs' : job.version \in DOMAIN versions
        /\ \A s : Waiting(s) => Waiting(s)'
        /\ worker[w].at # "write" \/ Waiting(t)'
    <3>1. jobs \subseteq JobRows /\ \A job \in jobs : job.version \in DOMAIN versions
      BY DEF RInv, RefreshIsSound
    <3>2. CASE UNCHANGED <<jobs, abandoned>> /\ worker[w].at # "write"
      BY <2>1, <3>1, <3>2 DEF Waiting
    <3>3. ASSUME NEW job \in JobRows, job.version = worker[w].job.version, putBack(job, t)
          PROVE  /\ jobs' \subseteq JobRows
                 /\ \A k \in jobs' : k.version \in DOMAIN versions
                 /\ \A s : Waiting(s) => Waiting(s)'
                 /\ Waiting(t)'
      <4>1. CASE jobs' = jobs \cup {job} /\ UNCHANGED abandoned
        BY <2>1, <2>2, <3>1, <3>3, <4>1 DEF Waiting
      <4>2. CASE abandoned' = abandoned \cup {t} /\ UNCHANGED jobs
        BY <2>1, <3>1, <4>2 DEF Waiting
      <4> QED
        BY <3>3, <4>1, <4>2 DEF putBack
    <3> QED
      BY <2>4, <3>2, <3>3
  <2>6. /\ worker' = [u \in Workers |-> worker'[u]]
        /\ \/ worker'[w].at = "idle"
           \/ worker'[w] = [at |-> "stray", job |-> worker[w].job, strategy |-> t,
                           row |-> worker[w].row]
    <3>1. worker = [u \in Workers |-> worker[u]]
      BY DEF RInv, RefreshIsSound
    <3>2. CASE worker' = [worker EXCEPT ![w] = [at |-> "idle"]]
      BY <3>1, <3>2
    <3>3. CASE worker' = [worker EXCEPT ![w].at = "stray"]
      <4>1. worker' = [u \in Workers |-> worker'[u]] /\ worker'[w] = [worker[w] EXCEPT !.at = "stray"]
        BY <3>1, <3>3
      <4>2. PICK r : r = worker[w].row
        OBVIOUS
      <4>3. PICK j : j = worker[w].job
        OBVIOUS
      <4>4. PICK a : a = worker[w].at
        OBVIOUS
      <4>5. worker[w] = [at |-> a, job |-> j, strategy |-> t, row |-> r]
        BY <2>2, <4>2, <4>3, <4>4
      <4>6. [worker[w] EXCEPT !.at = "stray"] = [at |-> "stray", job |-> j, strategy |-> t, row |-> r]
        BY <4>5
      <4> QED
        BY <4>1, <4>2, <4>3, <4>6
    <3> QED
      BY <2>3, <3>2, <3>3
  <2>7. RefreshIsSound'
    BY <1>0, <2>1, <2>2, <2>5, <2>6 DEF RInv, RefreshIsSound, Writes
  <2>8. /\ \A s, r : Good(s, r)' <=> Good(s, r)
        /\ VersionsAreSound' /\ RowsAreSound'
    BY <2>1 DEF Good, Current, VersionsOf, Row, RInv, VersionsAreSound, RowsAreSound, encodeCursor
  <2>9. ASSUME NEW s \in DOMAIN strategies PROVE Refreshed(s)'
    <3>1. Refreshed(s)
      BY DEF RInv, StaleIsWaiting
    <3>2. CASE s = t
      <4>1. Writing(w, s)
        BY <2>0, <2>1, <3>2 DEF Writing
      <4>2. Waiting(s) \/ worker[w].at = "write"
        BY <1>0, <3>1, <4>1 DEF Refreshed
      <4> QED
        BY <2>5, <3>2, <4>2 DEF Refreshed
    <3>3. CASE s # t
      <4>1. \A u \in Workers : ~Writing(u, s) /\ ~Writing(u, s)'
        BY <1>0, <2>0, <2>6, <3>3 DEF Writing, Writes
      <4>2. Waiting(s) \/ readModel[s].version = 0 \/ Good(s, readModel[s])
        BY <3>1, <4>1 DEF Refreshed
      <4> QED
        BY <2>1, <2>5, <2>8, <4>1, <4>2 DEF Refreshed
    <3> QED
      BY <3>2, <3>3
  <2> QED
    BY <2>1, <2>7, <2>8, <2>9 DEF RInv, StaleIsWaiting
<1> QED
  BY <1>1, <1>3, <1>4 DEF WorkerStep

LEMMA RefreshNext ==
    ASSUME OneWorker
    PROVE  RInv /\ [Next]_vars => RInv'
<1> SUFFICES ASSUME RInv, [Next]_vars PROVE RInv'
  OBVIOUS
<1>1. ASSUME NEW r \in Requests, RequestStep(r) PROVE RInv'
  <2>1. CASE (\E t \in Times : createStrategy(r, t)) \/ createChildStrategyVersion(r)
    BY <2>1, CreationSteps
  <2>2. CASE ~((\E t \in Times : createStrategy(r, t)) \/ createChildStrategyVersion(r))
    <3>1. UNCHANGED <<strategies, versions, readModel, jobs, worker, abandoned>>
      BY <1>1, <2>2 DEF RequestStep, checkIdempotency, createCampaign, refuseCommand,
         recordIdempotency, loseRequest, tables, refresh
    <3> QED
      BY <3>1, RefreshStutter
  <2> QED
    BY <2>1, <2>2
<1>2. ASSUME NEW v \in DOMAIN versions, applyTransition(v) PROVE RInv'
  BY <1>2, TransitionStep
<1>3. ASSUME NEW v \in DOMAIN versions, NEW document \in Documents, saveDocument(v, document) PROVE RInv'
  BY <1>3, DocumentStep
<1>4. ASSUME NEW w \in Workers, WorkerStep(w) PROVE RInv'
  BY <1>4, WorkerSteps
<1>6. ASSUME NEW v \in DOMAIN versions, NEW moves \in 1..MaxMoves, dropEvent(v, moves) PROVE RInv'
  BY <1>6, EventDropped
<1>5. CASE ListStep \/ UNCHANGED vars
  <2>1. UNCHANGED <<strategies, versions, readModel, jobs, worker, abandoned>>
    BY <1>5 DEF ListStep, startList, listStrategies, forgetList, tables, refresh, vars
  <2> QED
    BY <2>1, RefreshStutter
<1> QED
  BY <1>1, <1>2, <1>3, <1>4, <1>5, <1>6 DEF Next

LEMMA RefreshedIsListed == RInv => ListedIsLatestMoved
<1> SUFFICES ASSUME RInv, jobs = {}, \A w \in Workers : worker[w].at = "idle",
                    NEW s \in DOMAIN strategies \ abandoned
             PROVE  \E row \in listed(s) : Current(s, row)
  BY DEF ListedIsLatestMoved
<1>1. readModel[s].version = 0 \/ Good(s, readModel[s])
  BY DEF RInv, StaleIsWaiting, Refreshed, Waiting, Writing, Writes
<1>2. CASE readModel[s].version # 0
  <2>1. readModel[s] \in listed(s)
    BY <1>2 DEF listed
  <2> QED
    BY <1>1, <1>2, <2>1 DEF Good
<1>3. CASE readModel[s].version = 0
  <2>1. PICK v \in Latest(s) : TRUE
    BY SomeIsLatest DEF RInv
  <2>2. Row(v) \in listed(s)
    BY <1>3 DEF listed
  <2> QED
    BY <2>1, <2>2, LatestIsGood DEF RInv, Good
<1> QED
  BY <1>2, <1>3

(* With one worker and no refresh left, a listed strategy shows the present *)
(* state of a version that no version with a greater number has moved past, *)
(* whatever refreshes failed, repeated or were overtaken by transitions,    *)
(* except a strategy of which a refresh was given up and none begun since.  *)
THEOREM RegistryListsLatestMoved ==
    ASSUME OneWorker
    PROVE  Spec => []ListedIsLatestMoved
<1>1. Spec => []RInv
  BY RefreshInit, RefreshNext, PTL DEF Spec
<1> QED
  BY <1>1, RefreshedIsListed, PTL
=============================================================================
