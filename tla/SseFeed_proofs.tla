--------------------------- MODULE SseFeed_proofs ---------------------------
(***************************************************************************)
(* Proofs about the event streams, for any number of pages, tickets,       *)
(* requests, rows and overlapping polls: a stream keeps the promise of     *)
(* EventFeed whatever the order of polls, catch-up reads, lost connections *)
(* and restarts.  A ticket opens one stream while its requests are claimed *)
(* one after the other.                                                    *)
(***************************************************************************)
EXTENDS SseFeed, FiniteSetTheorems, SequenceTheorems, TLAPS

(* The inductive invariant.                                                *)
OrgValues == {"none"} \cup {PageOrg[p] : p \in Pages}
RunValues == {NoRun} \cup {PageRun[p] : p \in Pages}

TicketRecords == [state : {"none", "minted", "expired", "used"}, org : OrgValues]
StreamRecords ==
    [phase : {"none", "arrived", "valid", "refused", "claimed", "caughtUp", "attached", "gone"},
     org : OrgValues, run : RunValues, last : Events \cup {0}, rows : SUBSET Events,
     sent : Seq(Events), alive : BOOLEAN]
PageRecords ==
    [phase : {"mint", "connect", "open", "left"}, ticket : Tickets \cup {NoTicket},
     seen : JobEvents \cup {0}, got : Nat, refreshed : SUBSET JobEvents]

Typed ==
    /\ row \in [Events -> {"NONE", "PENDING", "PUBLISHED"}]
    /\ globalCursor \in Events \cup {0}
    /\ poll \in [Slots -> SUBSET Events]
    /\ ticket \in [Tickets -> TicketRecords]
    /\ conn \in [Requests -> StreamRecords]
    /\ page \in [Pages -> PageRecords]

(* A poll has read published rows only. *)
PollsAreSound == \A s \in Slots : poll[s] \subseteq Published

InOrder(events) == \A i, j \in DOMAIN events : i < j => events[i] < events[j]

(* What was written to a stream is in order and not above its cursor; an    *)
(* open stream has its ticket's organisation, and its catch-up read found   *)
(* published rows of its own above its cursor.                              *)
StreamSound(q) ==
    /\ InOrder(conn[q].sent)
    /\ \A i \in DOMAIN conn[q].sent : conn[q].sent[i] <= conn[q].last
    /\ conn[q].phase = "none" => conn[q].sent = << >> /\ conn[q].run = NoRun
    /\ conn[q].phase # "none" => ticket[q[1]].state # "none"
    /\ conn[q].phase \in {"claimed", "caughtUp", "attached"} => conn[q].org = ticket[q[1]].org
    /\ conn[q].phase = "caughtUp" =>
          \A e \in conn[q].rows : e \in Published /\ matchesSubscriber(conn[q], e)

(* No request was made with the ticket of a page that is going to connect.  *)
PageSound(p) ==
    page[p].phase \in {"connect", "open"} =>
        /\ page[p].ticket \in Tickets
        /\ ticket[page[p].ticket].state # "none"
        /\ page[p].phase = "connect" =>
              \A q \in Requests : q[1] = page[p].ticket => conn[q].phase = "none"

(* Two pages have two tickets. *)
TicketsAreOwn ==
    \A p, r \in Pages :
        page[p].phase \in {"connect", "open"} /\ page[r].phase \in {"connect", "open"} /\ p # r
            => page[p].ticket # page[r].ticket

SInv ==
    /\ Typed /\ PollsAreSound
    /\ \A q \in Requests : StreamSound(q)
    /\ \A p \in Pages : PageSound(p)
    /\ TicketsAreOwn

-----------------------------------------------------------------------------
(* Finite sets of numbers: ranks, the greatest element, InIdOrder. *)

(* The rank of each element of a finite set of numbers: all ranks occur. *)
LEMMA RanksOccur ==
    ASSUME NEW S \in SUBSET Nat, IsFiniteSet(S), NEW i \in 1..Cardinality(S)
    PROVE  \E e \in S : Cardinality({g \in S : g < e}) = i - 1
<1> DEFINE below(e) == {g \in S : g < e}
           rank == [e \in S |-> Cardinality(below(e))]
           n == Cardinality(S)
<1>1. n \in Nat /\ \A e \in S : IsFiniteSet(below(e)) /\ Cardinality(below(e)) \in 0..(n - 1)
  <2>1. n \in Nat
    BY FS_CardinalityType
  <2>2. ASSUME NEW e \in S PROVE IsFiniteSet(below(e)) /\ Cardinality(below(e)) \in 0..(n - 1)
    <3>1. below(e) \in SUBSET S /\ e \notin below(e)
      OBVIOUS
    <3> HIDE DEF below
    <3>2. IsFiniteSet(below(e)) /\ Cardinality(below(e)) \in Nat
      BY <3>1, FS_Subset, FS_CardinalityType
    <3>3. Cardinality(below(e)) <= n /\ Cardinality(below(e)) # n
      BY <3>1, FS_Subset
    <3> QED
      BY <2>1, <3>2, <3>3
  <2> QED
    BY <2>1, <2>2
<1>2. ASSUME NEW e \in S, NEW g \in S, e < g PROVE Cardinality(below(e)) # Cardinality(below(g))
  <2>0. e \in Nat /\ g \in Nat
    OBVIOUS
  <2>1. e \in below(g) /\ e \notin below(e)
    BY <1>2, <2>0
  <2>2. ASSUME NEW x \in below(e) PROVE x \in below(g)
    <3>1. x \in S /\ x \in Nat /\ x < e
      BY <2>2
    <3> QED
      BY <1>2, <2>0, <3>1
  <2> HIDE DEF below
  <2>3. below(e) \subseteq below(g)
    BY <2>2
  <2> QED
    BY <1>1, <2>1, <2>3, FS_Subset
<1> HIDE DEF below, n
<1>3. rank \in Injection(S, 0..(n - 1))
  <2>1. rank \in [S -> 0..(n - 1)]
    BY <1>1
  <2>2. ASSUME NEW e \in S, NEW g \in S, rank[e] = rank[g] PROVE e = g
    <3>1. Cardinality(below(e)) = Cardinality(below(g))
      BY <2>2
    <3>2. e < g \/ g < e \/ e = g
      OBVIOUS
    <3> QED
      BY <1>2, <3>1, <3>2
  <2> QED
    BY <2>1, <2>2 DEF Injection, IsInjective
<1>4. IsFiniteSet(0..(n - 1)) /\ Cardinality(0..(n - 1)) = n
  BY <1>1, FS_Interval
<1> HIDE DEF rank
<1>5. rank \in Surjection(S, 0..(n - 1))
  BY <1>3, <1>4, FS_Injection DEF n
<1>6. i - 1 \in 0..(n - 1)
  BY <1>1 DEF n
<1>7. PICK e \in S : rank[e] = i - 1
  BY <1>5, <1>6 DEF Surjection
<1> QED
  BY <1>7 DEF rank, below

(* A smaller number has a smaller rank. *)
LEMMA RanksGrow ==
    ASSUME NEW S \in SUBSET Nat, IsFiniteSet(S), NEW e \in S, NEW g \in S,
           Cardinality({f \in S : f < e}) < Cardinality({f \in S : f < g})
    PROVE  e < g
<1> DEFINE below(x) == {f \in S : f < x}
<1> SUFFICES ASSUME g <= e PROVE FALSE
  OBVIOUS
<1>1. below(g) \subseteq below(e) /\ below(e) \subseteq S
  <2>1. e \in Nat /\ g \in Nat /\ below(e) \subseteq S
    OBVIOUS
  <2>2. ASSUME NEW x \in below(g) PROVE x \in below(e)
    <3>1. x \in S /\ x \in Nat /\ x < g
      BY <2>2
    <3> QED
      BY <2>1, <3>1
  <2> HIDE DEF below
  <2> QED
    BY <2>1, <2>2
<1>2. Cardinality(below(e)) < Cardinality(below(g))
  OBVIOUS
<1> HIDE DEF below
<1>3. /\ Cardinality(below(g)) \in Nat /\ Cardinality(below(e)) \in Nat
      /\ Cardinality(below(g)) <= Cardinality(below(e))
  BY <1>1, FS_Subset, FS_CardinalityType
<1> QED
  BY <1>2, <1>3

(* A finite set of numbers that is not empty has a greatest element. *)
LEMMA MaxIsGreatest ==
    ASSUME NEW S \in SUBSET Nat, IsFiniteSet(S), S # {}
    PROVE  Max(S) \in S /\ \A e \in S : e <= Max(S)
<1> DEFINE below(x) == {f \in S : f < x}
<1>1. Cardinality(S) \in Nat \ {0}
  BY FS_CardinalityType, FS_EmptySet
<1>2. PICK m \in S : Cardinality(below(m)) = Cardinality(S) - 1
  BY <1>1, RanksOccur
<1>3. ASSUME NEW e \in S, m < e PROVE FALSE
  <2>0. m \in Nat /\ e \in Nat
    OBVIOUS
  <2>1. m \in below(e) /\ m \notin below(m) /\ e \notin below(e) /\ below(e) \subseteq S /\ below(m) \subseteq S
    BY <1>3, <2>0
  <2>5. ASSUME NEW x \in below(m) PROVE x \in below(e)
    <3>1. x \in S /\ x \in Nat /\ x < m
      BY <2>5
    <3> QED
      BY <1>3, <2>0, <3>1
  <2> HIDE DEF below
  <2>6. below(m) \subseteq below(e)
    BY <2>5
  <2>2. IsFiniteSet(below(e)) /\ IsFiniteSet(below(m)) /\ Cardinality(below(e)) \in Nat
    BY <2>1, FS_Subset, FS_CardinalityType
  <2>3. Cardinality(below(e)) <= Cardinality(S) /\ Cardinality(below(e)) # Cardinality(S)
    BY <2>1, FS_Subset
  <2>4. Cardinality(below(m)) <= Cardinality(below(e)) /\ Cardinality(below(m)) # Cardinality(below(e))
    BY <2>1, <2>2, <2>6, FS_Subset
  <2> QED
    BY <1>1, <1>2, <2>2, <2>3, <2>4
<1>4. \E x \in S : \A y \in S : x >= y
  BY <1>3
<1> QED
  BY <1>4 DEF Max

(* InIdOrder enumerates a finite set of numbers in their order. *)
LEMMA OrderedSequence ==
    ASSUME NEW S \in SUBSET Nat, IsFiniteSet(S)
    PROVE  /\ InIdOrder(S) \in [1..Cardinality(S) -> S]
           /\ \A i, j \in 1..Cardinality(S) : i < j => InIdOrder(S)[i] < InIdOrder(S)[j]
<1> DEFINE n == Cardinality(S)
           rank(e) == Cardinality({g \in S : g < e})
           s == [i \in 1..n |-> CHOOSE e \in S : rank(e) = i - 1]
<1>1. \A i \in 1..n : s[i] \in S /\ rank(s[i]) = i - 1
  BY RanksOccur
<1>2. n \in Nat
  BY FS_CardinalityType
<1>3. ASSUME NEW i \in 1..n, NEW j \in 1..n, i < j PROVE s[i] < s[j]
  <2>0. i - 1 < j - 1
    BY <1>2, <1>3
  <2>1. s[i] \in S /\ s[j] \in S /\ rank(s[i]) = i - 1 /\ rank(s[j]) = j - 1
    BY <1>1
  <2>2. s[i] \in S /\ s[j] \in S /\ rank(s[i]) < rank(s[j])
    BY ONLY <2>0, <2>1
  <2>3. \A e, g \in S : rank(e) < rank(g) => e < g
    BY RanksGrow
  <2> HIDE DEF s, rank
  <2> QED
    BY <2>2, <2>3
<1>4. s \in [1..n -> S]
  BY <1>1
<1> HIDE DEF s
<1>5. \E r \in [1..n -> S] : \A i, j \in DOMAIN r : i < j => r[i] < r[j]
  BY <1>3, <1>4
<1> HIDE DEF n
<1>6. InIdOrder(S) = CHOOSE r \in [1..n -> S] : \A i, j \in DOMAIN r : i < j => r[i] < r[j]
  BY DEF InIdOrder, n
<1>7. InIdOrder(S) \in [1..n -> S] /\ \A i, j \in DOMAIN InIdOrder(S) : i < j => InIdOrder(S)[i] < InIdOrder(S)[j]
  BY <1>5, <1>6
<1> QED
  BY <1>7 DEF n

-----------------------------------------------------------------------------
(* Send. *)

(* The ids of events are numbers. *)
LEMMA EventsAreNumbers == \A e \in Events \cup {0} : e \in Nat
  BY EventsAssumption

(* What a sequence of events holds. *)
LEMMA SequenceOfEvents ==
    ASSUME NEW seq \in Seq(Events)
    PROVE  \A i \in DOMAIN seq : seq[i] \in Events /\ seq[i] \in Nat
<1>1. \A i \in DOMAIN seq : seq[i] \in Events
  BY ElementOfSeq, LenProperties
<1> QED
  BY <1>1, EventsAreNumbers

(* What is written to a stream whose cursor is below it goes to its end. *)
LEMMA Appended ==
    ASSUME NEW old \in Seq(Events), NEW S \in SUBSET Events, NEW last \in Events \cup {0},
           InOrder(old), \A i \in DOMAIN old : old[i] <= last, \A e \in S : e > last
    PROVE  /\ old \o InIdOrder(S) \in Seq(Events)
           /\ InOrder(old \o InIdOrder(S))
           /\ \A i \in DOMAIN (old \o InIdOrder(S)) :
                 (old \o InIdOrder(S))[i] \in S \/ (old \o InIdOrder(S))[i] <= last
           /\ IsPrefix(old, old \o InIdOrder(S))
           /\ \A i \in (Len(old) + 1)..Len(old \o InIdOrder(S)) : (old \o InIdOrder(S))[i] \in S
<1>1. PICK new : new = InIdOrder(S)
  OBVIOUS
<1>2. PICK n : n = Cardinality(S)
  OBVIOUS
<1>3. IsFiniteSet(S) /\ S \in SUBSET Nat
  BY FS_Subset, EventsAssumption
<1>4. n \in Nat
  BY <1>2, <1>3, FS_CardinalityType
<1>5. new \in [1..n -> S] /\ \A i, j \in 1..n : i < j => new[i] < new[j]
  BY <1>1, <1>2, <1>3, OrderedSequence
<1>6. new \in Seq(Events) /\ Len(new) = n /\ DOMAIN new = 1..n
  BY <1>4, <1>5
<1>7. PICK all : all = old \o new
  OBVIOUS
<1>8. /\ all \in Seq(Events) /\ Len(all) = Len(old) + n /\ Len(old) \in Nat
      /\ \A i \in 1..Len(old) : all[i] = old[i]
      /\ \A i \in (Len(old) + 1)..Len(all) : all[i] = new[i - Len(old)] /\ i - Len(old) \in 1..n
  <2>1. all \in Seq(Events) /\ Len(all) = Len(old) + n /\ Len(old) \in Nat
    BY <1>6, <1>7, ConcatProperties, LenProperties
  <2>2. \A i \in 1..Len(old) : all[i] = old[i]
    BY <1>4, <1>6, <1>7, <2>1
  <2>3. ASSUME NEW i \in (Len(old) + 1)..Len(all)
        PROVE  all[i] = new[i - Len(old)] /\ i - Len(old) \in 1..n
    <3>1. i \in 1..Len(all) /\ i > Len(old) /\ i - Len(old) \in 1..n
      BY <1>4, <2>1, <2>3
    <3> QED
      BY <1>6, <1>7, <2>1, <3>1
  <2> QED
    BY <2>1, <2>2, <2>3
<1>9. \A i \in (Len(old) + 1)..Len(all) : all[i] \in S
  <2> SUFFICES ASSUME NEW i \in (Len(old) + 1)..Len(all) PROVE all[i] \in S
    OBVIOUS
  <2>1. all[i] = new[i - Len(old)] /\ i - Len(old) \in 1..n
    BY <1>8
  <2> QED
    BY <1>5, <2>1
<1>10. \A i \in DOMAIN old : old[i] \in Events /\ old[i] \in Nat
  BY SequenceOfEvents
<1>11. last \in Nat /\ DOMAIN all = 1..Len(all) /\ DOMAIN old = 1..Len(old)
  BY <1>8, EventsAssumption
<1>12. InOrder(all)
  <2> SUFFICES ASSUME NEW i \in 1..Len(all), NEW j \in 1..Len(all), i < j PROVE all[i] < all[j]
    BY <1>11 DEF InOrder
  <2>1. CASE j <= Len(old)
    <3>1. i \in DOMAIN old /\ j \in DOMAIN old /\ all[i] = old[i] /\ all[j] = old[j]
      BY <2>1, <1>8, <1>11
    <3> QED
      BY <3>1 DEF InOrder
  <2>2. CASE i <= Len(old) /\ j > Len(old)
    <3>1. i \in DOMAIN old /\ all[i] = old[i] /\ all[j] \in S
      BY <2>2, <1>8, <1>9, <1>11
    <3>2. all[i] <= last /\ all[j] > last /\ all[i] \in Nat /\ all[j] \in Nat
      BY <3>1, <1>10, <1>3
    <3> QED
      BY <3>2, <1>11
  <2>3. CASE i > Len(old)
    <3>1. all[i] = new[i - Len(old)] /\ all[j] = new[j - Len(old)] /\ i - Len(old) < j - Len(old)
      BY <2>3, <1>8
    <3>2. i - Len(old) \in 1..n /\ j - Len(old) \in 1..n
      BY <2>3, <1>8
    <3> QED
      BY <3>1, <3>2, <1>5
  <2> QED
    BY <2>1, <2>2, <2>3, <1>8
<1>13. \A i \in DOMAIN all : all[i] \in S \/ all[i] <= last
  BY <1>8, <1>9, <1>11
<1>14. IsPrefix(old, all)
  <2>1. Len(old) <= Len(all)
    BY <1>4, <1>8
  <2>2. SubSeq(old, 1, Len(old)) = SubSeq(all, 1, Len(old))
    BY <2>1, <1>8, <1>11
  <2> QED
    BY <2>1, <2>2 DEF IsPrefix
<1> QED
  BY <1>1, <1>7, <1>8, <1>9, <1>12, <1>13, <1>14

(* The new cursor is above the old one and everything that was sent. *)
LEMMA CursorOf ==
    ASSUME NEW S \in SUBSET Events, NEW last \in Events \cup {0}
    PROVE  /\ Max(S \cup {last}) \in Events \cup {0}
           /\ Max(S \cup {last}) >= last
           /\ \A e \in S : e <= Max(S \cup {last})
<1>1. IsFiniteSet(S)
  BY FS_Subset, EventsAssumption
<1>2. PICK T : T = S \cup {last}
  OBVIOUS
<1>3. T \in SUBSET Nat /\ T # {} /\ IsFiniteSet(T)
  <2>1. IsFiniteSet(T)
    BY <1>1, <1>2, FS_AddElement
  <2>2. T \in SUBSET Nat /\ T # {}
    BY <1>2, EventsAssumption
  <2> QED
    BY <2>1, <2>2
<1>4. Max(T) \in T /\ \A e \in T : e <= Max(T)
  BY <1>3, MaxIsGreatest
<1> QED
  BY <1>2, <1>4

(* Send appends to a stream and moves its cursor to the last event sent. *)
LEMMA Sending ==
    ASSUME NEW c \in StreamRecords, NEW S \in SUBSET Events,
           InOrder(c.sent), \A i \in DOMAIN c.sent : c.sent[i] <= c.last, \A e \in S : e > c.last,
           NEW d, d = Send(c, S)
    PROVE  /\ d \in StreamRecords
           /\ InOrder(d.sent)
           /\ \A i \in DOMAIN d.sent : d.sent[i] <= d.last
           /\ IsPrefix(c.sent, d.sent)
           /\ \A i \in (Len(c.sent) + 1)..Len(d.sent) : d.sent[i] \in S
           /\ d.phase = c.phase /\ d.org = c.org /\ d.run = c.run /\ d.rows = c.rows
<1>1. PICK all : all = c.sent \o InIdOrder(S)
  OBVIOUS
<1>2. PICK max : max = Max(S \cup {c.last})
  OBVIOUS
<1>3. c.sent \in Seq(Events) /\ c.last \in Events \cup {0}
  BY DEF StreamRecords
<1>4. /\ all \in Seq(Events) /\ InOrder(all)
      /\ \A i \in DOMAIN all : all[i] \in S \/ all[i] <= c.last
      /\ IsPrefix(c.sent, all)
      /\ \A i \in (Len(c.sent) + 1)..Len(all) : all[i] \in S
  BY <1>1, <1>3, Appended
<1>5. max \in Events \cup {0} /\ max >= c.last /\ \A e \in S : e <= max
  BY <1>2, <1>3, CursorOf
<1>6. d = [c EXCEPT !.last = max, !.sent = IF c.alive THEN all ELSE c.sent]
  BY <1>1, <1>2, Zenon DEF Send, StreamRecords
<1>7. /\ d \in StreamRecords /\ d.last = max /\ d.sent = (IF c.alive THEN all ELSE c.sent)
      /\ d.phase = c.phase /\ d.org = c.org /\ d.run = c.run /\ d.rows = c.rows
  <2>1. PICK sent : sent = (IF c.alive THEN all ELSE c.sent)
    OBVIOUS
  <2>2. sent \in Seq(Events) /\ d = [c EXCEPT !.last = max, !.sent = sent]
    BY <1>3, <1>4, <1>6, <2>1
  <2> QED
    BY <1>5, <2>1, <2>2 DEF StreamRecords
<1>8. \A i \in DOMAIN d.sent : d.sent[i] \in Nat
  <2>1. d.sent \in Seq(Events)
    BY <1>7 DEF StreamRecords
  <2> QED
    BY <2>1, SequenceOfEvents
<1>9. c.last \in Nat /\ max \in Nat
  BY <1>3, <1>5, EventsAreNumbers
<1>10. \A i \in DOMAIN d.sent : d.sent[i] <= d.last
  BY <1>4, <1>5, <1>7, <1>8, <1>9
<1>11. IsPrefix(c.sent, c.sent) /\ (Len(c.sent) + 1)..Len(c.sent) = {}
  <2>1. Len(c.sent) \in Nat
    BY <1>3
  <2> QED
    BY <2>1 DEF IsPrefix
<1> QED
  BY <1>4, <1>7, <1>10, <1>11

-----------------------------------------------------------------------------
(* The steps keep the invariant. *)

TicketKept(t) ==
    /\ ticket'[t].org = ticket[t].org
    /\ ticket[t].state # "none" => ticket'[t].state # "none"

(* A stream nothing happens to stays sound. *)
LEMMA StreamKept ==
    ASSUME NEW q \in Requests, StreamSound(q), conn'[q] = conn[q],
           conn[q].phase = "none" \/ TicketKept(q[1]), Published \subseteq Published'
    PROVE  StreamSound(q)'
<1>1. conn'[q].phase = "none" => conn'[q].sent = << >> /\ conn'[q].run = NoRun
  BY DEF StreamSound
<1>2. conn'[q].phase # "none" => ticket'[q[1]].state # "none"
  BY DEF StreamSound, TicketKept
<1>3. conn'[q].phase \in {"claimed", "caughtUp", "attached"} => conn'[q].org = ticket'[q[1]].org
  BY DEF StreamSound, TicketKept
<1>4. conn'[q].phase = "caughtUp" =>
         \A e \in conn'[q].rows : e \in Published' /\ matchesSubscriber(conn'[q], e)
  BY DEF StreamSound
<1> QED
  BY <1>1, <1>2, <1>3, <1>4 DEF StreamSound, InOrder, matchesSubscriber, InScope

(* A page nothing happens to stays sound. *)
LEMMA PageKept ==
    ASSUME NEW p \in Pages, PageSound(p), page'[p].phase = page[p].phase, page'[p].ticket = page[p].ticket,
           page[p].phase \in {"connect", "open"} => TicketKept(page[p].ticket),
           \A q \in Requests :
              q[1] = page[p].ticket /\ page[p].phase = "connect" => conn'[q].phase = conn[q].phase
    PROVE  PageSound(p)'
BY DEF PageSound, TicketKept

(* Pages that take no ticket keep theirs apart. *)
LEMMA OwnKept ==
    ASSUME TicketsAreOwn,
           \A p \in Pages : /\ page'[p].ticket = page[p].ticket
                            /\ page'[p].phase \in {"connect", "open"} => page[p].phase \in {"connect", "open"}
    PROVE  TicketsAreOwn'
BY DEF TicketsAreOwn

(* Transactions and the relay. *)
LEMMA RowsPreserve ==
    ASSUME SInv, NEW e \in Events, WriteRow(e) \/ PublishRow(e)
    PROVE  SInv' /\ Published \subseteq Published'
<1>1. UNCHANGED <<globalCursor, poll, ticket, conn, page>>
  BY DEF WriteRow, PublishRow
<1>2. row' \in [Events -> {"NONE", "PENDING", "PUBLISHED"}]
  BY DEF SInv, Typed, WriteRow, PublishRow
<1>3. Published \subseteq Published'
  BY DEF SInv, Typed, WriteRow, PublishRow, Published
<1>4. Typed'
  BY <1>1, <1>2 DEF SInv, Typed
<1>5. PollsAreSound'
  BY <1>1, <1>3 DEF SInv, PollsAreSound
<1>6. ASSUME NEW q \in Requests PROVE StreamSound(q)'
  BY <1>1, <1>3, StreamKept DEF SInv, TicketKept
<1>7. ASSUME NEW p \in Pages PROVE PageSound(p)'
  BY <1>1, PageKept DEF SInv, TicketKept
<1>8. TicketsAreOwn'
  BY <1>1, OwnKept DEF SInv
<1> QED
  BY <1>3, <1>4, <1>5, <1>6, <1>7, <1>8 DEF SInv

(* A ticket that expires. *)
LEMMA ExpirePreserves ==
    ASSUME SInv, NEW t \in Tickets, expireTicket(t)
    PROVE  SInv'
<1>1. UNCHANGED <<row, globalCursor, poll, conn, page>>
  BY DEF expireTicket
<1>2. ticket' = [ticket EXCEPT ![t].state = "expired"] /\ ticket[t].state = "minted"
  BY DEF expireTicket
<1>3. ticket \in [Tickets -> TicketRecords]
  BY DEF SInv, Typed
<1>4. ASSUME NEW u \in Tickets PROVE TicketKept(u) /\ ticket'[u] \in TicketRecords
  BY <1>2, <1>3 DEF TicketKept, TicketRecords
<1>5. Typed'
  BY <1>1, <1>2, <1>3, <1>4 DEF SInv, Typed
<1>6. PollsAreSound' /\ Published' = Published
  BY <1>1 DEF SInv, PollsAreSound, Published
<1>7. ASSUME NEW q \in Requests PROVE StreamSound(q)'
  <2>1. q[1] \in Tickets
    BY DEF Requests
  <2> QED
    BY <1>1, <1>4, <1>6, <2>1, StreamKept DEF SInv
<1>8. ASSUME NEW p \in Pages PROVE PageSound(p)'
  <2>1. page[p].phase \in {"connect", "open"} => page[p].ticket \in Tickets
    BY DEF SInv, PageSound
  <2> QED
    BY <1>1, <1>4, <2>1, PageKept DEF SInv
<1>9. TicketsAreOwn'
  BY <1>1, OwnKept DEF SInv
<1> QED
  BY <1>5, <1>6, <1>7, <1>8, <1>9 DEF SInv

(* A new ticket has no requests and belongs to no other page. *)
LEMMA MintPreserves ==
    ASSUME SInv, NEW p \in Pages, NEW t \in Tickets, mintSseTicket(p, t)
    PROVE  SInv'
<1>1. UNCHANGED <<row, globalCursor, poll, conn>>
  BY DEF mintSseTicket, feedVars
<1>2. /\ ticket' = [ticket EXCEPT ![t] = [state |-> "minted", org |-> PageOrg[p]]]
      /\ ticket[t].state = "none"
      /\ page' = [page EXCEPT ![p].phase = "connect", ![p].ticket = t, ![p].got = 0]
  BY DEF mintSseTicket, Fresh
<1>3. ticket \in [Tickets -> TicketRecords] /\ page \in [Pages -> PageRecords]
  BY DEF SInv, Typed
<1>4. ASSUME NEW u \in Tickets, u # t PROVE ticket'[u] = ticket[u] /\ TicketKept(u)
  BY <1>2, <1>3, <1>4 DEF TicketKept
<1>5. ticket'[t] = [state |-> "minted", org |-> PageOrg[p]]
  BY <1>2, <1>3
<1>6. ASSUME NEW r \in Pages, r # p PROVE page'[r] = page[r]
  BY <1>2, <1>3, <1>6
<1>7. page'[p] = [page[p] EXCEPT !.phase = "connect", !.ticket = t, !.got = 0]
  BY <1>2, <1>3
<1>8. page'[p] \in PageRecords /\ page'[p].phase = "connect" /\ page'[p].ticket = t
  <2>1. page[p] \in PageRecords
    BY <1>3
  <2>2. PICK x : x = page'[p]
    OBVIOUS
  <2>3. PICK r : r = page[p]
    OBVIOUS
  <2>4. x = [r EXCEPT !.phase = "connect", !.ticket = t, !.got = 0] /\ r \in PageRecords
    BY <1>7, <2>1, <2>2, <2>3
  <2>5. x \in PageRecords /\ x.phase = "connect" /\ x.ticket = t
    BY ONLY <2>4, t \in Tickets DEF PageRecords
  <2> QED
    BY <2>2, <2>5
<1>9. ticket'[t] \in TicketRecords
  BY <1>5 DEF TicketRecords, OrgValues
<1>10. ticket' \in [Tickets -> TicketRecords]
  BY <1>2, <1>3, <1>4, <1>9
<1>11. page' \in [Pages -> PageRecords]
  BY <1>2, <1>3, <1>6, <1>8
<1>12. Typed'
  BY <1>1, <1>10, <1>11 DEF SInv, Typed
<1>13. PollsAreSound' /\ Published' = Published
  BY <1>1 DEF SInv, PollsAreSound, Published
<1>14. ASSUME NEW q \in Requests, q[1] = t PROVE conn[q].phase = "none"
  BY <1>2, <1>14 DEF SInv, StreamSound
<1>15. ASSUME NEW q \in Requests PROVE StreamSound(q)'
  <2>1. q[1] \in Tickets
    BY DEF Requests
  <2>2. conn[q].phase = "none" \/ TicketKept(q[1])
    BY <1>4, <1>14, <2>1
  <2> QED
    BY <1>1, <1>13, <2>2, StreamKept DEF SInv
<1>16. ASSUME NEW r \in Pages, r # p PROVE PageSound(r)' /\ (page[r].phase \in {"connect", "open"} => page[r].ticket # t)
  <2>1. page[r].phase \in {"connect", "open"} => page[r].ticket \in Tickets /\ page[r].ticket # t
    BY <1>2 DEF SInv, PageSound
  <2> QED
    BY <1>1, <1>4, <1>6, <1>16, <2>1, PageKept DEF SInv
<1>17. PageSound(p)'
  BY <1>1, <1>5, <1>8, <1>14 DEF PageSound
<1>18. TicketsAreOwn'
  BY <1>6, <1>8, <1>16 DEF SInv, TicketsAreOwn
<1> QED
  BY <1>12, <1>13, <1>15, <1>16, <1>17, <1>18 DEF SInv

(* A step that moves pages away from their streams, if it moves any. *)
LEMMA PagesLeave ==
    ASSUME SInv, UNCHANGED <<row, ticket>>,
           globalCursor' \in Events \cup {0}, poll' \in [Slots -> SUBSET Events],
           \A s \in Slots : poll'[s] \subseteq Published,
           conn' \in [Requests -> StreamRecords], page' \in [Pages -> PageRecords],
           \A q \in Requests : StreamSound(q)' /\ (conn[q].phase = "none" => conn'[q].phase = "none"),
           \A p \in Pages : /\ page'[p].ticket = page[p].ticket
                            /\ \/ page'[p].phase = page[p].phase
                               \/ page'[p].phase \notin {"connect", "open"}
    PROVE  SInv'
<1>1. Typed'
  BY DEF SInv, Typed
<1>2. PollsAreSound'
  BY DEF PollsAreSound, Published
<1>3. ASSUME NEW p \in Pages PROVE PageSound(p)'
  BY DEF SInv, PageSound
<1>4. TicketsAreOwn'
  <2>1. ASSUME NEW p \in Pages, page'[p].phase \in {"connect", "open"}
        PROVE  page[p].phase \in {"connect", "open"} /\ page'[p].ticket = page[p].ticket
    BY <2>1
  <2> QED
    BY <2>1 DEF SInv, TicketsAreOwn
<1> QED
  BY <1>1, <1>2, <1>3, <1>4 DEF SInv

(* A step of the route or of the hub. *)
LEMMA StreamsOnly ==
    ASSUME SInv, UNCHANGED <<row, ticket, page>>,
           globalCursor' \in Events \cup {0}, poll' \in [Slots -> SUBSET Events],
           \A s \in Slots : poll'[s] \subseteq Published,
           conn' \in [Requests -> StreamRecords],
           \A q \in Requests : StreamSound(q)' /\ (conn[q].phase = "none" => conn'[q].phase = "none")
    PROVE  SInv'
<1>1. page' \in [Pages -> PageRecords] /\ page' = page
  BY DEF SInv, Typed
<1> QED
  BY <1>1, PagesLeave

(* A step of the route that leaves what was sent. *)
LEMMA OneStream ==
    ASSUME SInv, NEW q \in Requests, UNCHANGED <<row, globalCursor, poll, page, ticket>>,
           NEW c, conn' = [conn EXCEPT ![q] = c], c \in StreamRecords, conn[q].phase # "none", c.phase # "none",
           StreamSound(q)'
    PROVE  SInv'
<1>1. conn \in [Requests -> StreamRecords] /\ Published' = Published
  BY DEF SInv, Typed, Published
<1>2. ASSUME NEW r \in Requests, r # q PROVE conn'[r] = conn[r] /\ StreamSound(r)'
  <2>1. conn'[r] = conn[r]
    BY <1>1, <1>2
  <2> QED
    BY <1>1, <2>1, StreamKept DEF SInv, TicketKept
<1>3. conn'[q] = c
  BY <1>1
<1>4. conn' \in [Requests -> StreamRecords]
  BY <1>1, <1>2, <1>3
<1>5. \A r \in Requests : StreamSound(r)' /\ (conn[r].phase = "none" => conn'[r].phase = "none")
  BY <1>2, <1>3
<1>6. globalCursor' \in Events \cup {0} /\ poll' \in [Slots -> SUBSET Events]
  BY DEF SInv, Typed
<1>7. \A s \in Slots : poll'[s] \subseteq Published
  BY DEF SInv, PollsAreSound
<1> QED
  BY <1>4, <1>5, <1>6, <1>7, StreamsOnly

(* claimSseTicket, the SELECT. *)
LEMMA ReadPreserves ==
    ASSUME SInv, NEW q \in Requests, readTicket(q)
    PROVE  SInv'
<1>1. PICK phase : phase = IF ticket[q[1]].state = "minted" THEN "valid" ELSE "refused"
  OBVIOUS
<1>2. PICK c : c = [conn[q] EXCEPT !.phase = phase]
  OBVIOUS
<1>3. conn[q] \in StreamRecords /\ conn \in [Requests -> StreamRecords]
  BY DEF SInv, Typed
<1>4. conn' = [conn EXCEPT ![q] = c] /\ conn[q].phase = "arrived"
  BY <1>1, <1>2 DEF readTicket
<1>5. UNCHANGED <<row, globalCursor, poll, page, ticket>>
  BY DEF readTicket, feedVars
<1>6. /\ c \in StreamRecords /\ c.phase \in {"valid", "refused"}
      /\ c.sent = conn[q].sent /\ c.last = conn[q].last
  BY <1>1, <1>2, <1>3 DEF StreamRecords
<1>7. conn'[q] = c
  BY <1>3, <1>4
<1>8. StreamSound(q)'
  BY <1>4, <1>5, <1>6, <1>7 DEF SInv, StreamSound, InOrder
<1> QED
  BY <1>4, <1>5, <1>6, <1>8, OneStream

(* claimSseTicket, the UPDATE. *)
LEMMA MarkPreserves ==
    ASSUME SInv, NEW q \in Requests, markTicket(q)
    PROVE  SInv'
<1>1. PICK c : c = [conn[q] EXCEPT !.phase = "claimed", !.org = ticket[q[1]].org]
  OBVIOUS
<1>2. /\ conn[q] \in StreamRecords /\ conn \in [Requests -> StreamRecords]
      /\ ticket \in [Tickets -> TicketRecords] /\ q[1] \in Tickets
  BY DEF SInv, Typed, Requests
<1>3. /\ conn' = [conn EXCEPT ![q] = c] /\ conn[q].phase = "valid"
      /\ ticket' = [ticket EXCEPT ![q[1]].state = "used"]
  BY <1>1, <1>2 DEF markTicket
<1>4. UNCHANGED <<row, globalCursor, poll, page>>
  BY DEF markTicket, feedVars
<1>5. ticket[q[1]] \in TicketRecords /\ ticket[q[1]].org \in OrgValues
  BY <1>2 DEF TicketRecords
<1>6. /\ c \in StreamRecords /\ c.phase = "claimed" /\ c.org = ticket[q[1]].org
      /\ c.sent = conn[q].sent /\ c.last = conn[q].last
  BY <1>1, <1>2, <1>5 DEF StreamRecords
<1>7. conn'[q] = c
  BY <1>2, <1>3
<1>8. ASSUME NEW t \in Tickets PROVE TicketKept(t) /\ ticket'[t] \in TicketRecords
  BY <1>2, <1>3 DEF TicketKept, TicketRecords
<1>9. ticket' \in [Tickets -> TicketRecords] /\ ticket'[q[1]].state = "used"
  BY <1>2, <1>3, <1>5, <1>8 DEF TicketRecords
<1>10. ASSUME NEW r \in Requests, r # q PROVE conn'[r] = conn[r]
  BY <1>2, <1>3, <1>10
<1>11. conn' \in [Requests -> StreamRecords]
  BY <1>2, <1>3, <1>6
<1>12. Typed'
  BY <1>4, <1>9, <1>11 DEF SInv, Typed
<1>13. PollsAreSound' /\ Published' = Published
  BY <1>4 DEF SInv, PollsAreSound, Published
<1>14. StreamSound(q)'
  BY <1>2, <1>6, <1>7, <1>8, <1>9 DEF SInv, StreamSound, InOrder, TicketKept
<1>15. ASSUME NEW r \in Requests, r # q PROVE StreamSound(r)'
  <2>1. r[1] \in Tickets
    BY DEF Requests
  <2> QED
    BY <1>8, <1>10, <1>13, <1>15, <2>1, StreamKept DEF SInv
<1>16. ASSUME NEW p \in Pages PROVE PageSound(p)'
  <2>1. page[p].phase \in {"connect", "open"} => page[p].ticket \in Tickets
    BY DEF SInv, PageSound
  <2>2. page[p].phase = "connect" => q[1] # page[p].ticket
    BY <1>3 DEF SInv, PageSound
  <2> QED
    BY <1>4, <1>8, <1>10, <2>1, <2>2, PageKept DEF SInv
<1>17. TicketsAreOwn'
  BY <1>4, OwnKept DEF SInv
<1> QED
  BY <1>12, <1>13, <1>14, <1>15, <1>16, <1>17 DEF SInv

(* The catch-up read finds published rows of the subscriber's above its cursor. *)
LEMMA CatchUpPreserves ==
    ASSUME SInv, NEW q \in Requests, queryPublishedForSubscriber(q)
    PROVE  SInv'
<1>1. PICK found : found = Lowest({e \in Published : matchesSubscriber(conn[q], e)}, Batch)
  OBVIOUS
<1>2. PICK c : c = [conn[q] EXCEPT !.phase = "caughtUp", !.rows = found]
  OBVIOUS
<1>3. conn[q] \in StreamRecords /\ conn \in [Requests -> StreamRecords]
  BY DEF SInv, Typed
<1>4. conn' = [conn EXCEPT ![q] = c] /\ conn[q].phase = "claimed"
  BY <1>1, <1>2 DEF queryPublishedForSubscriber
<1>5. UNCHANGED <<row, globalCursor, poll, page, ticket>>
  BY DEF queryPublishedForSubscriber, feedVars
<1>6. found \in SUBSET Events /\ \A e \in found : e \in Published /\ matchesSubscriber(conn[q], e)
  BY <1>1 DEF Lowest, Published
<1>7. /\ c \in StreamRecords /\ c.phase = "caughtUp" /\ c.rows = found /\ c.org = conn[q].org
      /\ c.sent = conn[q].sent /\ c.last = conn[q].last /\ c.run = conn[q].run
  BY <1>2, <1>3, <1>6 DEF StreamRecords
<1>8. conn'[q] = c /\ Published' = Published
  BY <1>3, <1>4, <1>5 DEF Published
<1>9. \A e \in c.rows : e \in Published' /\ matchesSubscriber(c, e)
  BY <1>6, <1>7, <1>8 DEF matchesSubscriber, InScope
<1>10. StreamSound(q)'
  BY <1>4, <1>5, <1>7, <1>8, <1>9 DEF SInv, StreamSound, InOrder, matchesSubscriber, InScope
<1> QED
  BY <1>4, <1>5, <1>7, <1>10, OneStream

(* What the catch-up read found goes to the end of the stream. *)
LEMMA SubscribePreserves ==
    ASSUME SInv, NEW q \in Requests, subscribe(q)
    PROVE  SInv'
<1>1. PICK d : d = Send(conn[q], conn[q].rows)
  OBVIOUS
<1>2. PICK c : c = [d EXCEPT !.phase = "attached", !.rows = {}]
  OBVIOUS
<1>3. conn[q] \in StreamRecords /\ conn \in [Requests -> StreamRecords]
  BY DEF SInv, Typed
<1>4. conn' = [conn EXCEPT ![q] = c] /\ conn[q].phase = "caughtUp"
  BY <1>1, <1>2 DEF subscribe
<1>5. UNCHANGED <<row, globalCursor, poll, page, ticket>>
  BY DEF subscribe, feedVars
<1>6. /\ conn[q].rows \in SUBSET Events /\ InOrder(conn[q].sent)
      /\ \A i \in DOMAIN conn[q].sent : conn[q].sent[i] <= conn[q].last
      /\ \A e \in conn[q].rows : e > conn[q].last
  BY <1>3, <1>4 DEF SInv, StreamSound, StreamRecords, matchesSubscriber
<1>7. /\ d \in StreamRecords /\ InOrder(d.sent) /\ d.org = conn[q].org
      /\ \A i \in DOMAIN d.sent : d.sent[i] <= d.last
  BY <1>1, <1>3, <1>6, Sending
<1>8. /\ c \in StreamRecords /\ c.phase = "attached" /\ c.org = d.org
      /\ c.sent = d.sent /\ c.last = d.last
  BY <1>2, <1>7 DEF StreamRecords
<1>9. conn'[q] = c
  BY <1>3, <1>4
<1>10. StreamSound(q)'
  BY <1>4, <1>5, <1>7, <1>8, <1>9 DEF SInv, StreamSound, InOrder
<1> QED
  BY <1>4, <1>5, <1>8, <1>10, OneStream

(* A closed stream stays sound, and keeps what was sent. *)
LEMMA ClosedStream ==
    ASSUME SInv, NEW q \in Requests, conn'[q] \in {conn[q], Closed(conn[q])}, UNCHANGED <<row, ticket>>
    PROVE  /\ StreamSound(q)' /\ conn'[q] \in StreamRecords
           /\ conn[q].phase = "none" => conn'[q].phase = "none"
           /\ conn'[q].sent = conn[q].sent /\ conn'[q].run = conn[q].run
<1>1. conn[q] \in StreamRecords
  BY DEF SInv, Typed
<1>2. PICK c : c = conn'[q]
  OBVIOUS
<1>3. PICK phase : phase = IF conn[q].phase = "attached" THEN "gone" ELSE conn[q].phase
  OBVIOUS
<1>4. c = conn[q] \/ c = [conn[q] EXCEPT !.alive = FALSE, !.phase = phase]
  BY <1>2, <1>3 DEF Closed
<1>5. phase \in {"none", "arrived", "valid", "refused", "claimed", "caughtUp", "attached", "gone"}
  BY <1>1, <1>3 DEF StreamRecords
<1>6. /\ c \in StreamRecords /\ c.sent = conn[q].sent /\ c.last = conn[q].last /\ c.run = conn[q].run
      /\ c.rows = conn[q].rows /\ c.org = conn[q].org
      /\ c.phase = conn[q].phase \/ (conn[q].phase = "attached" /\ c.phase = "gone")
  <2>1. CASE c = conn[q]
    BY <1>1, <2>1 DEF StreamRecords
  <2>2. CASE c = [conn[q] EXCEPT !.alive = FALSE, !.phase = phase]
    BY <1>1, <1>3, <1>5, <2>2 DEF StreamRecords
  <2> QED
    BY <1>4, <2>1, <2>2
<1>7. Published' = Published
  BY DEF Published
<1>8. StreamSound(q)'
  <2>1. StreamSound(q)
    BY DEF SInv
  <2>2. CASE c.phase = conn[q].phase
    BY <1>2, <1>6, <1>7, <2>1, <2>2 DEF StreamSound, InOrder, matchesSubscriber, InScope
  <2>3. CASE conn[q].phase = "attached" /\ c.phase = "gone"
    BY <1>2, <1>6, <1>7, <2>1, <2>3 DEF StreamSound, InOrder
  <2> QED
    BY <1>6, <2>2, <2>3
<1> QED
  BY <1>2, <1>6, <1>8

(* A page that reads its stream, is refused, loses it or is left. *)
LEMMA ClosingPreserves ==
    ASSUME SInv, NEW p \in Pages, receive(p) \/ refused(p) \/ dropConnection(p) \/ unmount(p)
    PROVE  /\ SInv'
           /\ \A q \in Requests : conn'[q].sent = conn[q].sent /\ conn'[q].run = conn[q].run
<1>1. conn \in [Requests -> StreamRecords] /\ page \in [Pages -> PageRecords] /\ page[p] \in PageRecords
  BY DEF SInv, Typed
<1>2. UNCHANGED <<row, globalCursor, poll, ticket>>
  BY DEF receive, refused, dropConnection, unmount, feedVars
<1>3. conn' = conn \/ conn' = [conn EXCEPT ![Current(p)] = Closed(conn[Current(p)])]
  BY DEF receive, refused, dropConnection, unmount
<1>4. ASSUME NEW q \in Requests PROVE conn'[q] \in {conn[q], Closed(conn[q])}
  BY <1>1, <1>3
<1>5. ASSUME NEW q \in Requests
      PROVE  /\ StreamSound(q)' /\ conn'[q] \in StreamRecords
             /\ conn[q].phase = "none" => conn'[q].phase = "none"
             /\ conn'[q].sent = conn[q].sent /\ conn'[q].run = conn[q].run
  BY <1>2, <1>4, ClosedStream
<1>6. conn' \in [Requests -> StreamRecords]
  BY <1>1, <1>3, <1>5
<1>7. PICK x : /\ page' = [page EXCEPT ![p] = x] /\ x \in PageRecords /\ x.ticket = page[p].ticket
               /\ x.phase = page[p].phase \/ x.phase \notin {"connect", "open"}
  <2>1. CASE receive(p)
    <3> DEFINE e == conn[Current(p)].sent[page[p].got + 1]
    <3>1. PICK seen, refreshed : /\ seen = IF e \in JobEvents THEN e ELSE page[p].seen
                                 /\ refreshed = IF e \in JobEvents THEN page[p].refreshed \cup {e} ELSE page[p].refreshed
      OBVIOUS
    <3>2. PICK x : x = [page[p] EXCEPT !.got = page[p].got + 1, !.seen = seen, !.refreshed = refreshed]
      OBVIOUS
    <3>3. page' = [page EXCEPT ![p] = x]
      BY <2>1, <3>1, <3>2, <1>1 DEF receive
    <3>4. seen \in JobEvents \cup {0} /\ refreshed \in SUBSET JobEvents /\ page[p].got + 1 \in Nat
      BY <1>1, <3>1 DEF PageRecords
    <3>5. x \in PageRecords /\ x.ticket = page[p].ticket /\ x.phase = page[p].phase
      BY <1>1, <3>2, <3>4 DEF PageRecords
    <3> QED
      BY <3>3, <3>5
  <2>2. CASE refused(p) \/ dropConnection(p) \/ unmount(p)
    <3>1. PICK phase \in {"mint", "left"} : page' = [page EXCEPT ![p].phase = phase]
      BY <2>2 DEF refused, dropConnection, unmount
    <3>2. PICK x : x = [page[p] EXCEPT !.phase = phase]
      OBVIOUS
    <3>3. page' = [page EXCEPT ![p] = x]
      BY <3>1, <3>2, <1>1
    <3>4. x \in PageRecords /\ x.ticket = page[p].ticket /\ x.phase = phase
      BY <1>1, <3>2 DEF PageRecords
    <3> QED
      BY <3>3, <3>4
  <2> QED
    BY <2>1, <2>2
<1>8. ASSUME NEW r \in Pages
      PROVE  /\ page'[r].ticket = page[r].ticket
             /\ page'[r].phase = page[r].phase \/ page'[r].phase \notin {"connect", "open"}
  BY <1>1, <1>7
<1>9. page' \in [Pages -> PageRecords]
  BY <1>1, <1>7
<1>10. globalCursor' \in Events \cup {0} /\ poll' \in [Slots -> SUBSET Events]
  BY <1>2 DEF SInv, Typed
<1>11. \A s \in Slots : poll'[s] \subseteq Published
  BY <1>2 DEF SInv, PollsAreSound
<1>12. SInv'
  BY <1>2, <1>5, <1>6, <1>8, <1>9, <1>10, <1>11, PagesLeave
<1> QED
  BY <1>5, <1>12

(* A new process: every stream is lost, and what it was sent stays. *)
LEMMA StartPreserves ==
    ASSUME SInv, start
    PROVE  /\ SInv'
           /\ \A q \in Requests : conn'[q].sent = conn[q].sent /\ conn'[q].run = conn[q].run
<1>1. conn \in [Requests -> StreamRecords] /\ page \in [Pages -> PageRecords]
  BY DEF SInv, Typed
<1>2. UNCHANGED <<row, ticket>> /\ poll' = [s \in Slots |-> {}]
  BY DEF start
<1>3. globalCursor' \in Events \cup {0}
  <2>1. PICK S \in SUBSET Events : globalCursor' = Max(S \cup {0})
    BY DEF start, Latest
  <2> QED
    BY <2>1, CursorOf
<1>4. ASSUME NEW q \in Requests
      PROVE  /\ conn'[q] \in StreamRecords /\ StreamSound(q)'
             /\ conn[q].phase = "none" => conn'[q].phase = "none"
             /\ conn'[q].sent = conn[q].sent /\ conn'[q].run = conn[q].run
  <2>1. StreamSound(q) /\ conn[q] \in StreamRecords
    BY <1>1 DEF SInv
  <2>2. PICK c : c = conn'[q]
    OBVIOUS
  <2>3. CASE conn[q].phase = "none"
    <3>1. c = Idle
      BY <2>2, <2>3 DEF start
    <3>2. c \in StreamRecords
      <4>1. << >> \in Seq(Events) /\ {} \in SUBSET Events
        OBVIOUS
      <4> QED
        BY <3>1, <4>1 DEF Idle, StreamRecords, OrgValues, RunValues
    <3>3. c.sent = << >> /\ c.run = NoRun /\ c.phase = "none" /\ DOMAIN c.sent = {}
      BY <3>1 DEF Idle
    <3> QED
      BY <2>1, <2>2, <2>3, <3>2, <3>3 DEF StreamSound, InOrder
  <2>4. CASE conn[q].phase # "none"
    <3>1. c = [conn[q] EXCEPT !.phase = "gone", !.alive = FALSE, !.rows = {}]
      BY <2>2, <2>4 DEF start
    <3>2. c \in StreamRecords /\ c.phase = "gone" /\ c.sent = conn[q].sent /\ c.last = conn[q].last /\ c.run = conn[q].run
      BY <2>1, <3>1 DEF StreamRecords
    <3> QED
      BY <1>2, <2>1, <2>2, <2>4, <3>2 DEF StreamSound, InOrder
  <2> QED
    BY <2>3, <2>4
<1>5. conn' \in [Requests -> StreamRecords]
  <2>1. conn' = [q \in Requests |-> conn'[q]]
    BY DEF start
  <2> QED
    BY <1>4, <2>1
<1>6. ASSUME NEW p \in Pages
      PROVE  /\ page'[p] \in PageRecords /\ page'[p].ticket = page[p].ticket
             /\ page'[p].phase = page[p].phase \/ page'[p].phase \notin {"connect", "open"}
  <2>1. PICK x : x = page'[p]
    OBVIOUS
  <2>2. PICK phase : phase = IF page[p].phase = "open" THEN "mint" ELSE page[p].phase
    OBVIOUS
  <2>3. page[p] \in PageRecords /\ x = [page[p] EXCEPT !.phase = phase]
    BY <1>1, <2>1, <2>2 DEF start
  <2>4. phase \in {"mint", "connect", "open", "left"}
    BY <2>2, <2>3 DEF PageRecords
  <2>5. x \in PageRecords /\ x.ticket = page[p].ticket /\ x.phase = phase
    BY <2>3, <2>4 DEF PageRecords
  <2> QED
    BY <2>1, <2>2, <2>5
<1>7. page' \in [Pages -> PageRecords]
  <2>1. page' = [p \in Pages |-> page'[p]]
    BY DEF start
  <2> QED
    BY <1>6, <2>1
<1>8. poll' \in [Slots -> SUBSET Events] /\ \A s \in Slots : poll'[s] \subseteq Published
  BY <1>2
<1>9. SInv'
  BY <1>2, <1>3, <1>4, <1>5, <1>6, <1>7, <1>8, PagesLeave
<1> QED
  BY <1>4, <1>9

(* What a step writes to a stream: events of its reader's, at its end and in order. *)
Extended(q) ==
    /\ IsPrefix(conn[q].sent, conn'[q].sent)
    /\ InOrder(conn'[q].sent)
    /\ \A i \in (Len(conn[q].sent) + 1)..Len(conn'[q].sent) :
          conn'[q].sent[i] \in Published \cap Audience[q]

(* What matches a subscriber is meant for the reader of its stream. *)
LEMMA Meant ==
    ASSUME NEW q \in Requests, StreamSound(q), conn[q].phase \in {"caughtUp", "attached"},
           NEW e \in Events, matchesSubscriber(conn[q], e)
    PROVE  e \in Audience[q]
<1>1. ticket[q[1]].state # "none" /\ EventOrg[e] = ticket[q[1]].org /\ conn[q].run \in {NoRun, EventRun[e]}
  BY DEF StreamSound, matchesSubscriber, InScope
<1> QED
  BY <1>1 DEF Audience

(* A stream nothing is sent to. *)
LEMMA NothingSent ==
    ASSUME SInv, NEW q \in Requests, conn'[q].sent = conn[q].sent
    PROVE  Extended(q)
<1>1. conn[q].sent \in Seq(Events) /\ InOrder(conn[q].sent)
  BY DEF SInv, Typed, StreamRecords, StreamSound
<1>2. Len(conn[q].sent) \in Nat
  BY <1>1
<1>3. IsPrefix(conn[q].sent, conn[q].sent) /\ (Len(conn[q].sent) + 1)..Len(conn[q].sent) = {}
  BY <1>2 DEF IsPrefix
<1> QED
  BY <1>1, <1>3 DEF Extended

(* Send writes events of the reader's at the end and in order. *)
LEMMA SentIsMeant ==
    ASSUME SInv, NEW q \in Requests, conn[q].phase \in {"caughtUp", "attached"},
           NEW S \in SUBSET Events, \A e \in S : e \in Published /\ matchesSubscriber(conn[q], e),
           NEW d, d = Send(conn[q], S)
    PROVE  /\ d \in StreamRecords /\ InOrder(d.sent)
           /\ \A i \in DOMAIN d.sent : d.sent[i] <= d.last
           /\ d.phase = conn[q].phase /\ d.org = conn[q].org /\ d.run = conn[q].run /\ d.rows = conn[q].rows
           /\ IsPrefix(conn[q].sent, d.sent)
           /\ \A i \in (Len(conn[q].sent) + 1)..Len(d.sent) : d.sent[i] \in Published \cap Audience[q]
<1>1. conn[q] \in StreamRecords /\ StreamSound(q)
  BY DEF SInv, Typed
<1>2. \A e \in S : e > conn[q].last /\ e \in Published \cap Audience[q]
  BY <1>1, Meant DEF matchesSubscriber
<1>3. InOrder(conn[q].sent) /\ \A i \in DOMAIN conn[q].sent : conn[q].sent[i] <= conn[q].last
  BY <1>1 DEF StreamSound
<1>4. PICK c \in StreamRecords : c = conn[q]
  BY <1>1
<1>5. /\ d \in StreamRecords /\ InOrder(d.sent)
      /\ \A i \in DOMAIN d.sent : d.sent[i] <= d.last
      /\ IsPrefix(c.sent, d.sent)
      /\ \A i \in (Len(c.sent) + 1)..Len(d.sent) : d.sent[i] \in S
      /\ d.phase = c.phase /\ d.org = c.org /\ d.run = c.run /\ d.rows = c.rows
  BY <1>2, <1>3, <1>4, Sending
<1> QED
  BY <1>2, <1>4, <1>5

(* The catch-up read reaches only the stream that asked for it. *)
LEMMA SubscribeExtends ==
    ASSUME SInv, NEW q \in Requests, subscribe(q), NEW r \in Requests
    PROVE  Extended(r) /\ conn'[r].run = conn[r].run
<1>1. conn[q] \in StreamRecords /\ conn \in [Requests -> StreamRecords] /\ conn[q].phase = "caughtUp"
  BY DEF SInv, Typed, subscribe
<1>2. CASE r # q
  <2>1. conn'[r] = conn[r]
    BY <1>1, <1>2 DEF subscribe
  <2> QED
    BY <2>1, NothingSent
<1>3. CASE r = q
  <2>1. PICK d : d = Send(conn[q], conn[q].rows)
    OBVIOUS
  <2>2. PICK c : c = [d EXCEPT !.phase = "attached", !.rows = {}]
    OBVIOUS
  <2>3. conn' = [conn EXCEPT ![q] = c]
    BY <2>1, <2>2 DEF subscribe
  <2>4. conn[q].rows \in SUBSET Events /\ \A e \in conn[q].rows : e \in Published /\ matchesSubscriber(conn[q], e)
    BY <1>1 DEF SInv, StreamSound, StreamRecords
  <2>5. /\ d \in StreamRecords /\ InOrder(d.sent) /\ d.run = conn[q].run
        /\ IsPrefix(conn[q].sent, d.sent)
        /\ \A i \in (Len(conn[q].sent) + 1)..Len(d.sent) : d.sent[i] \in Published \cap Audience[q]
    BY <1>1, <2>1, <2>4, SentIsMeant
  <2>6. c.sent = d.sent /\ c.run = d.run
    BY <2>2, <2>5 DEF StreamRecords
  <2>7. conn'[q] = c
    BY <1>1, <2>3
  <2> QED
    BY <1>3, <2>5, <2>6, <2>7 DEF Extended
<1> QED
  BY <1>2, <1>3

(* A poll fans out published rows, to each subscriber those that match. *)
LEMMA FinishPreserves ==
    ASSUME SInv, NEW s \in Slots, finishPoll(s)
    PROVE  SInv' /\ \A q \in Requests : Extended(q) /\ conn'[q].run = conn[q].run
<1>1. conn \in [Requests -> StreamRecords] /\ poll \in [Slots -> SUBSET Events] /\ poll[s] \in SUBSET Events
  BY DEF SInv, Typed
<1>2. /\ UNCHANGED <<row, ticket, page>> /\ poll' = [poll EXCEPT ![s] = {}] /\ poll[s] # {}
      /\ globalCursor' = Max(poll[s])
      /\ conn' = [q \in Requests |->
            IF q \in subscribers THEN Send(conn[q], {e \in poll[s] : matchesSubscriber(conn[q], e)}) ELSE conn[q]]
  BY DEF finishPoll, dispatch
<1>3. globalCursor' \in Events \cup {0}
  <2>1. IsFiniteSet(poll[s]) /\ poll[s] \in SUBSET Nat
    BY <1>1, FS_Subset, EventsAssumption
  <2> QED
    BY <1>1, <1>2, <2>1, MaxIsGreatest
<1>4. /\ poll' \in [Slots -> SUBSET Events]
      /\ \A z \in Slots : poll'[z] \subseteq Published
  BY <1>1, <1>2 DEF SInv, PollsAreSound
<1>5. ASSUME NEW q \in Requests
      PROVE  /\ conn'[q] \in StreamRecords /\ StreamSound(q)' /\ conn'[q].phase = conn[q].phase
             /\ conn'[q].run = conn[q].run /\ Extended(q)
  <2>1. conn[q] \in StreamRecords /\ StreamSound(q)
    BY <1>1 DEF SInv
  <2>2. CASE q \notin subscribers
    <3>1. conn'[q] = conn[q]
      BY <1>2, <2>2
    <3>2. Published' = Published /\ TicketKept(q[1])
      BY <1>2 DEF Published, TicketKept
    <3> QED
      BY <2>1, <3>1, <3>2, StreamKept, NothingSent
  <2>3. CASE q \in subscribers
    <3>1. PICK d : d = conn'[q]
      OBVIOUS
    <3>2. PICK S : S = {e \in poll[s] : matchesSubscriber(conn[q], e)}
      OBVIOUS
    <3>3. d = Send(conn[q], S) /\ conn[q].phase = "attached"
      BY <1>2, <2>3, <3>1, <3>2 DEF subscribers
    <3>4. S \in SUBSET Events /\ \A e \in S : e \in Published /\ matchesSubscriber(conn[q], e)
      BY <1>1, <3>2 DEF SInv, PollsAreSound
    <3>5. /\ d \in StreamRecords /\ InOrder(d.sent)
          /\ \A i \in DOMAIN d.sent : d.sent[i] <= d.last
          /\ d.phase = conn[q].phase /\ d.org = conn[q].org /\ d.run = conn[q].run
          /\ IsPrefix(conn[q].sent, d.sent)
          /\ \A i \in (Len(conn[q].sent) + 1)..Len(d.sent) : d.sent[i] \in Published \cap Audience[q]
      BY <3>3, <3>4, SentIsMeant
    <3>6. StreamSound(q)'
      BY <1>2, <2>1, <3>1, <3>3, <3>5 DEF StreamSound, InOrder
    <3> QED
      BY <3>1, <3>5, <3>6 DEF Extended
  <2> QED
    BY <2>2, <2>3
<1>6. conn' \in [Requests -> StreamRecords]
  <2>1. conn' = [q \in Requests |-> conn'[q]]
    BY <1>2
  <2> QED
    BY <1>5, <2>1
<1>7. SInv'
  BY <1>2, <1>3, <1>4, <1>5, <1>6, StreamsOnly
<1> QED
  BY <1>5, <1>7

(* A poll reads published rows. *)
LEMMA PollPreserves ==
    ASSUME SInv, NEW s \in Slots, startPoll(s)
    PROVE  SInv'
<1>1. PICK rows : rows = Lowest({e \in Published : e > globalCursor}, Batch)
  OBVIOUS
<1>2. rows \in SUBSET Events /\ rows \subseteq Published
  BY <1>1 DEF Lowest, Published
<1>3. UNCHANGED <<row, globalCursor, ticket, conn, page>> /\ poll' = [poll EXCEPT ![s] = rows]
  BY <1>1 DEF startPoll
<1>4. poll \in [Slots -> SUBSET Events] /\ conn' \in [Requests -> StreamRecords] /\ globalCursor' \in Events \cup {0}
  BY <1>3 DEF SInv, Typed
<1>5. poll' \in [Slots -> SUBSET Events] /\ \A z \in Slots : poll'[z] \subseteq Published
  BY <1>2, <1>3, <1>4 DEF SInv, PollsAreSound
<1>6. ASSUME NEW q \in Requests PROVE StreamSound(q)'
  BY <1>3, StreamKept DEF SInv, TicketKept, Published
<1> QED
  BY <1>3, <1>4, <1>5, <1>6, StreamsOnly

(* Requests with a new ticket open streams that were sent nothing. *)
LEMMA ConnectPreserves ==
    ASSUME SInv, NEW p \in Pages, connect(p)
    PROVE  /\ SInv'
           /\ \A q \in Requests : /\ conn'[q].sent = conn[q].sent
                                  /\ conn'[q].run = conn[q].run \/ conn[q].sent = << >>
<1>1. PICK n \in Copies :
         conn' = [q \in Requests |->
              IF q \in {<<page[p].ticket, k>> : k \in 1..n}
              THEN [conn[q] EXCEPT !.phase = "arrived", !.run = PageRun[p], !.last = page[p].seen]
              ELSE conn[q]]
  BY DEF connect
<1>2. /\ UNCHANGED <<row, globalCursor, poll, ticket>> /\ page[p].phase = "connect"
      /\ page' = [page EXCEPT ![p].phase = "open"]
  BY DEF connect, feedVars
<1>3. conn \in [Requests -> StreamRecords] /\ page \in [Pages -> PageRecords] /\ page[p] \in PageRecords
  BY DEF SInv, Typed
<1>4. /\ page[p].ticket \in Tickets /\ ticket[page[p].ticket].state # "none"
      /\ \A q \in Requests : q[1] = page[p].ticket => conn[q].phase = "none"
  BY <1>2 DEF SInv, PageSound
<1>5. ASSUME NEW q \in Requests, q[1] # page[p].ticket PROVE conn'[q] = conn[q]
  <2>1. q \notin {<<page[p].ticket, k>> : k \in 1..n}
    BY <1>5
  <2> QED
    BY <1>1, <2>1
<1>6. Published' = Published
  BY <1>2 DEF Published
<1>7. ASSUME NEW q \in Requests
      PROVE  /\ conn'[q] \in StreamRecords /\ StreamSound(q)' /\ conn'[q].sent = conn[q].sent
             /\ conn'[q].run = conn[q].run \/ conn[q].sent = << >>
  <2>1. StreamSound(q) /\ conn[q] \in StreamRecords
    BY <1>3 DEF SInv
  <2>2. CASE q \notin {<<page[p].ticket, k>> : k \in 1..n}
    <3>1. conn'[q] = conn[q]
      BY <1>1, <2>2
    <3> QED
      BY <1>2, <1>6, <2>1, <3>1, StreamKept DEF TicketKept
  <2>3. CASE q \in {<<page[p].ticket, k>> : k \in 1..n}
    <3>1. PICK c : c = conn'[q]
      OBVIOUS
    <3>2. c = [conn[q] EXCEPT !.phase = "arrived", !.run = PageRun[p], !.last = page[p].seen]
      BY <1>1, <2>3, <3>1
    <3>3. q[1] = page[p].ticket
      BY <2>3
    <3>4. PageRun[p] \in RunValues /\ page[p].seen \in Events \cup {0}
      BY <1>3, EventsAssumption DEF RunValues, PageRecords
    <3>5. c \in StreamRecords /\ c.phase = "arrived" /\ c.sent = conn[q].sent
      BY <2>1, <3>2, <3>4 DEF StreamRecords
    <3>6. conn[q].sent = << >> /\ DOMAIN c.sent = {}
      BY <1>4, <2>1, <3>3, <3>5 DEF StreamSound
    <3> QED
      BY <1>2, <1>4, <3>1, <3>3, <3>5, <3>6 DEF StreamSound, InOrder
  <2> QED
    BY <2>2, <2>3
<1>8. conn' \in [Requests -> StreamRecords]
  BY <1>1, <1>7
<1>9. PICK x : x = [page[p] EXCEPT !.phase = "open"]
  OBVIOUS
<1>10. x \in PageRecords /\ x.phase = "open" /\ x.ticket = page[p].ticket /\ page' = [page EXCEPT ![p] = x]
  BY <1>2, <1>3, <1>9 DEF PageRecords
<1>11. page' \in [Pages -> PageRecords] /\ page'[p] = x
  BY <1>3, <1>10
<1>12. ASSUME NEW r \in Pages, r # p PROVE page'[r] = page[r]
  BY <1>3, <1>10, <1>12
<1>13. Typed'
  BY <1>2, <1>8, <1>11 DEF SInv, Typed
<1>14. PollsAreSound'
  BY <1>2, <1>6 DEF SInv, PollsAreSound
<1>15. ASSUME NEW r \in Pages PROVE PageSound(r)'
  <2>1. CASE r = p
    BY <1>2, <1>4, <1>10, <1>11, <2>1 DEF PageSound
  <2>2. CASE r # p
    <3>1. page[r].phase \in {"connect", "open"} => page[r].ticket # page[p].ticket
      BY <1>2, <2>2 DEF SInv, TicketsAreOwn
    <3> QED
      BY <1>2, <1>5, <1>12, <2>2, <3>1, PageKept DEF SInv, TicketKept
  <2> QED
    BY <2>1, <2>2
<1>16. TicketsAreOwn'
  BY <1>2, <1>10, <1>11, <1>12 DEF SInv, TicketsAreOwn
<1> QED
  BY <1>7, <1>13, <1>14, <1>15, <1>16 DEF SInv

(* The first state satisfies the invariant. *)
LEMMA FeedInit == Init => SInv
<1> SUFFICES ASSUME Init PROVE SInv
  OBVIOUS
<1>1. << >> \in Seq(Events) /\ {} \in SUBSET Events
  OBVIOUS
<1>2. Idle \in StreamRecords
  BY <1>1 DEF Idle, StreamRecords, OrgValues, RunValues
<1>3. ASSUME NEW q \in Requests PROVE conn[q] = Idle
  BY DEF Init
<1>4. Typed
  <2>1. row \in [Events -> {"NONE", "PENDING", "PUBLISHED"}] /\ globalCursor \in Events \cup {0}
    BY DEF Init
  <2>2. poll \in [Slots -> SUBSET Events]
    BY DEF Init
  <2>3. ticket \in [Tickets -> TicketRecords]
    BY DEF Init, TicketRecords, OrgValues
  <2>4. conn \in [Requests -> StreamRecords]
    BY <1>2 DEF Init
  <2>5. page \in [Pages -> PageRecords]
    BY DEF Init, PageRecords
  <2> QED
    BY <2>1, <2>2, <2>3, <2>4, <2>5 DEF Typed
<1>5. PollsAreSound
  BY DEF Init, PollsAreSound
<1>6. ASSUME NEW q \in Requests PROVE StreamSound(q)
  <2>1. conn[q].phase = "none" /\ conn[q].sent = << >> /\ conn[q].run = NoRun /\ DOMAIN conn[q].sent = {}
    BY <1>3 DEF Idle
  <2> QED
    BY <2>1 DEF StreamSound, InOrder
<1>7. ASSUME NEW p \in Pages PROVE page[p].phase = "mint"
  BY DEF Init
<1>8. (\A p \in Pages : PageSound(p)) /\ TicketsAreOwn
  BY <1>7 DEF PageSound, TicketsAreOwn
<1> QED
  BY <1>4, <1>5, <1>6, <1>8 DEF SInv

(* The steps of the route. *)
LEMMA RoutePreserves ==
    ASSUME SInv, NEW q \in Requests, RouteStep(q)
    PROVE  SInv'
BY ReadPreserves, MarkPreserves, CatchUpPreserves, SubscribePreserves DEF RouteStep

(* Every step keeps the invariant. *)
LEMMA FeedPreserved == SInv /\ [Next]_vars => SInv'
<1> SUFFICES ASSUME SInv, [Next]_vars PROVE SInv'
  OBVIOUS
<1>1. CASE \E e \in Events : WriteRow(e) \/ PublishRow(e)
  BY <1>1, RowsPreserve
<1>2. CASE \E t \in Tickets : expireTicket(t)
  BY <1>2, ExpirePreserves
<1>3. CASE \E p \in Pages : PageStep(p) \/ dropConnection(p) \/ unmount(p)
  BY <1>3, MintPreserves, ConnectPreserves, ClosingPreserves DEF PageStep
<1>4. CASE \E q \in Requests : RouteStep(q)
  BY <1>4, RoutePreserves
<1>5. CASE \E s \in Slots : startPoll(s) \/ finishPoll(s)
  BY <1>5, PollPreserves, FinishPreserves
<1>6. CASE start
  BY <1>6, StartPreserves
<1>7. CASE UNCHANGED vars
  <2>1. UNCHANGED <<row, globalCursor, poll, ticket, conn, page>>
    BY <1>7 DEF vars, feedVars
  <2>2. \A q \in Requests : StreamSound(q)'
    BY <2>1, StreamKept DEF SInv, TicketKept, Published
  <2> QED
    BY <2>1, <2>2, StreamsOnly DEF SInv, Typed, PollsAreSound
<1> QED
  BY <1>1, <1>2, <1>3, <1>4, <1>5, <1>6, <1>7 DEF Next

(* The invariant holds in every reachable state. *)
LEMMA FeedInvariant == Spec => []SInv
<1> QED
  BY FeedInit, FeedPreserved, PTL DEF Spec

(* Every state of tickets, streams, hub and pages has its type, whatever     *)
(* requests, polls and restarts come in whatever order.                     *)
THEOREM FeedTypeCorrect == Spec => []TypeOK
<1>1. SInv => TypeOK
  <2> SUFFICES ASSUME SInv PROVE TypeOK
    OBVIOUS
  <2>1. ASSUME NEW q \in Requests
        PROVE  /\ conn[q].last \in Events \cup {0}
               /\ conn[q].rows \subseteq Events
               /\ Range(conn[q].sent) \subseteq Events
    <3>1. conn[q].last \in Events \cup {0} /\ conn[q].rows \subseteq Events /\ conn[q].sent \in Seq(Events)
      BY DEF SInv, Typed, StreamRecords
    <3> QED
      BY <3>1, SequenceOfEvents DEF Range
  <2>2. ASSUME NEW p \in Pages PROVE page[p].seen \in JobEvents \cup {0} /\ page[p].refreshed \subseteq JobEvents
    BY DEF SInv, Typed, PageRecords
  <2> QED
    BY <2>1, <2>2 DEF TypeOK, SInv, Typed
<1> QED
  BY <1>1, FeedInvariant, PTL

-----------------------------------------------------------------------------

(* A step that writes to no stream publishes and sends nothing. *)
LEMMA NothingWritten ==
    ASSUME SInv, UNCHANGED row, \A q \in Requests : conn'[q].sent = conn[q].sent
    PROVE  Published' = Published /\ Sent' = Sent
BY DEF Published, Sent

(* The reader of a stream is its ticket's organisation and the requested run. *)
LEMMA AudienceKept ==
    ASSUME \A q \in Requests : conn'[q].run = conn[q].run,
           \A t \in Tickets : /\ ticket'[t].org = ticket[t].org
                              /\ ticket'[t].state = "none" <=> ticket[t].state = "none"
    PROVE  Audience' = Audience
<1>1. ASSUME NEW q \in Requests
      PROVE  /\ q[1] \in Tickets /\ conn'[q].run = conn[q].run /\ ticket'[q[1]].org = ticket[q[1]].org
             /\ ticket'[q[1]].state = "none" <=> ticket[q[1]].state = "none"
  BY DEF Requests
<1> QED
  BY <1>1 DEF Audience

(* A reader is chosen only for a stream that was sent nothing. *)
LEMMA FeedOpens ==
    ASSUME SInv, UNCHANGED row, \A q \in Requests : conn'[q].sent = conn[q].sent,
           \A q \in Requests :
              conn[q].sent = << >> \/ /\ conn'[q].run = conn[q].run
                                      /\ ticket'[q[1]].org = ticket[q[1]].org
                                      /\ ticket'[q[1]].state = "none" <=> ticket[q[1]].state = "none"
    PROVE  Feed!Open
<1>1. Published' = Published /\ Sent' = Sent
  BY NothingWritten
<1>2. ASSUME NEW q \in Requests, Sent[q] # << >> PROVE Audience'[q] = Audience[q]
  BY <1>2 DEF Sent, Audience
<1> QED
  BY <1>1, <1>2 DEF Feed!Open

(* Streams are extended for readers that stay. *)
LEMMA FeedWrites ==
    ASSUME SInv, UNCHANGED <<row, ticket>>, \A q \in Requests : Extended(q) /\ conn'[q].run = conn[q].run
    PROVE  Feed!Write
<1>1. Published' = Published /\ Audience' = Audience
  BY AudienceKept DEF Published
<1>2. ASSUME NEW q \in Requests PROVE Sent[q] = conn[q].sent /\ Sent'[q] = conn'[q].sent
  BY DEF Sent
<1>3. ASSUME NEW q \in Requests
      PROVE  /\ Feed!IsPrefix(Sent[q], Sent'[q])
             /\ Feed!InOrder(Sent'[q])
             /\ \A i \in (Len(Sent[q]) + 1)..Len(Sent'[q]) : Sent'[q][i] \in Published \cap Audience[q]
  BY <1>2 DEF Extended, InOrder, IsPrefix, Feed!InOrder, Feed!IsPrefix
<1> QED
  BY <1>1, <1>3 DEF Feed!Write

(* Nothing is sent at first. *)
LEMMA FeedStarts == Init => Feed!Init
<1> SUFFICES ASSUME Init PROVE Feed!Init
  OBVIOUS
<1>1. Published \subseteq Events
  BY DEF Published
<1>2. Audience \in [Requests -> SUBSET Events]
  BY DEF Audience
<1>3. Sent = [q \in Requests |-> << >>]
  BY DEF Sent, Init, Idle
<1> QED
  BY <1>1, <1>2, <1>3 DEF Feed!Init

(* Steps that EventFeed does not see. *)
LEMMA FeedStands ==
    ASSUME UNCHANGED row, \A q \in Requests : conn'[q].sent = conn[q].sent /\ conn'[q].run = conn[q].run,
           \A t \in Tickets : /\ ticket'[t].org = ticket[t].org
                              /\ ticket'[t].state = "none" <=> ticket[t].state = "none"
    PROVE  UNCHANGED <<Published, Audience, Sent>>
<1>1. Published' = Published /\ Sent' = Sent
  BY DEF Published, Sent
<1> QED
  BY <1>1, AudienceKept

(* A commit or the relay publishes. *)
LEMMA PublishSteps ==
    ASSUME SInv, NEW e \in Events, WriteRow(e) \/ PublishRow(e)
    PROVE  Feed!Publish
<1>1. Published \subseteq Published' /\ UNCHANGED <<ticket, conn>>
  BY RowsPreserve DEF WriteRow, PublishRow
<1>2. UNCHANGED <<Audience, Sent>>
  BY <1>1 DEF Audience, Sent
<1> QED
  BY <1>1, <1>2 DEF Feed!Publish

(* A minted ticket decides who reads its streams. *)
LEMMA MintSteps ==
    ASSUME SInv, NEW p \in Pages, NEW t \in Tickets, mintSseTicket(p, t)
    PROVE  Feed!Open
<1>1. /\ UNCHANGED <<row, conn>> /\ ticket[t].state = "none"
      /\ ticket' = [ticket EXCEPT ![t] = [state |-> "minted", org |-> PageOrg[p]]]
  BY DEF mintSseTicket, Fresh, feedVars
<1>2. ASSUME NEW q \in Requests
      PROVE  conn[q].sent = << >> \/ /\ conn'[q].run = conn[q].run
                                      /\ ticket'[q[1]].org = ticket[q[1]].org
                                      /\ ticket'[q[1]].state = "none" <=> ticket[q[1]].state = "none"
  <2>1. CASE q[1] = t
    BY <1>1, <2>1 DEF SInv, StreamSound
  <2>2. CASE q[1] # t
    <3>1. ticket'[q[1]] = ticket[q[1]]
      BY <1>1, <2>2 DEF SInv, Typed, Requests
    <3> QED
      BY <1>1, <3>1
  <2> QED
    BY <2>1, <2>2
<1> QED
  BY <1>1, <1>2, FeedOpens

(* A ticket that expires or is used keeps its organisation. *)
LEMMA TicketSteps ==
    ASSUME SInv, (\E t \in Tickets : expireTicket(t)) \/ (\E q \in Requests : markTicket(q))
    PROVE  UNCHANGED <<Published, Audience, Sent>>
<1>1. ticket \in [Tickets -> TicketRecords] /\ conn \in [Requests -> StreamRecords]
  BY DEF SInv, Typed
<1>2. PICK t \in Tickets, state \in {"expired", "used"} :
         ticket' = [ticket EXCEPT ![t].state = state] /\ ticket[t].state # "none" /\ UNCHANGED row
  <2>1. CASE \E t \in Tickets : expireTicket(t)
    BY <2>1 DEF expireTicket
  <2>2. CASE \E q \in Requests : markTicket(q)
    <3>1. PICK q \in Requests : markTicket(q)
      BY <2>2
    <3>2. ticket[q[1]].state # "none" /\ q[1] \in Tickets
      BY <3>1 DEF SInv, StreamSound, markTicket, Requests
    <3> QED
      BY <3>1, <3>2 DEF markTicket, feedVars
  <2> QED
    BY <2>1, <2>2
<1>3. ASSUME NEW u \in Tickets
      PROVE  /\ ticket'[u].org = ticket[u].org
             /\ ticket'[u].state = "none" <=> ticket[u].state = "none"
  BY <1>1, <1>2 DEF TicketRecords
<1>4. ASSUME NEW q \in Requests PROVE conn'[q].sent = conn[q].sent /\ conn'[q].run = conn[q].run
  <2>1. CASE UNCHANGED conn
    BY <2>1
  <2>2. CASE \E r \in Requests : markTicket(r)
    <3>1. PICK r \in Requests : \E org : conn' = [conn EXCEPT ![r].phase = "claimed", ![r].org = org]
      BY <2>2 DEF markTicket
    <3>2. PICK org : conn' = [conn EXCEPT ![r].phase = "claimed", ![r].org = org]
      BY <3>1
    <3> QED
      BY <1>1, <3>2 DEF StreamRecords
  <2> QED
    BY <2>1, <2>2 DEF expireTicket
<1> QED
  BY <1>2, <1>3, <1>4, FeedStands

(* Reading a ticket or the outbox sends nothing. *)
LEMMA RouteSteps ==
    ASSUME SInv, NEW r \in Requests, readTicket(r) \/ queryPublishedForSubscriber(r)
    PROVE  UNCHANGED <<Published, Audience, Sent>>
<1>1. conn \in [Requests -> StreamRecords] /\ UNCHANGED <<row, ticket>>
  BY DEF SInv, Typed, readTicket, queryPublishedForSubscriber, feedVars
<1>2. ASSUME NEW q \in Requests PROVE conn'[q].sent = conn[q].sent /\ conn'[q].run = conn[q].run
  <2>1. CASE readTicket(r)
    <3>1. PICK phase : conn' = [conn EXCEPT ![r].phase = phase]
      BY <2>1 DEF readTicket
    <3> QED
      BY <1>1, <3>1 DEF StreamRecords
  <2>2. CASE queryPublishedForSubscriber(r)
    <3>1. PICK rows : conn' = [conn EXCEPT ![r].phase = "caughtUp", ![r].rows = rows]
      BY <2>2 DEF queryPublishedForSubscriber
    <3> QED
      BY <1>1, <3>1 DEF StreamRecords
  <2> QED
    BY <2>1, <2>2
<1> QED
  BY <1>1, <1>2, FeedStands

(* Every step is a step of EventFeed or leaves what it sees. *)
LEMMA FeedSteps == SInv /\ [Next]_vars => [Feed!Next]_(Feed!feedVars)
<1> SUFFICES ASSUME SInv, [Next]_vars PROVE Feed!Next \/ UNCHANGED <<Published, Audience, Sent>>
  BY DEF Feed!feedVars
<1>1. CASE \E e \in Events : WriteRow(e) \/ PublishRow(e)
  BY <1>1, PublishSteps DEF Feed!Next
<1>2. CASE \E t \in Tickets : expireTicket(t)
  BY <1>2, TicketSteps
<1>3. ASSUME NEW p \in Pages, PageStep(p) \/ dropConnection(p) \/ unmount(p)
      PROVE  Feed!Next \/ UNCHANGED <<Published, Audience, Sent>>
  <2>1. CASE \E t \in Tickets : mintSseTicket(p, t)
    BY <2>1, MintSteps DEF Feed!Next
  <2>2. CASE connect(p)
    <3>1. UNCHANGED <<row, ticket>>
      BY <2>2 DEF connect, feedVars
    <3>2. Feed!Open
      BY <2>2, <3>1, ConnectPreserves, FeedOpens
    <3> QED
      BY <3>2 DEF Feed!Next
  <2>3. CASE receive(p) \/ refused(p) \/ dropConnection(p) \/ unmount(p)
    <3>1. UNCHANGED <<row, ticket>>
      BY <2>3 DEF receive, refused, dropConnection, unmount, feedVars
    <3> QED
      BY <2>3, <3>1, ClosingPreserves, FeedStands
  <2> QED
    BY <1>3, <2>1, <2>2, <2>3 DEF PageStep
<1>4. ASSUME NEW q \in Requests, RouteStep(q)
      PROVE  Feed!Next \/ UNCHANGED <<Published, Audience, Sent>>
  <2>1. CASE subscribe(q)
    <3>1. UNCHANGED <<row, ticket>>
      BY <2>1 DEF subscribe, feedVars
    <3>2. Feed!Write
      BY <2>1, <3>1, SubscribeExtends, FeedWrites
    <3> QED
      BY <3>2 DEF Feed!Next
  <2>2. CASE markTicket(q)
    BY <2>2, TicketSteps
  <2>3. CASE readTicket(q) \/ queryPublishedForSubscriber(q)
    BY <2>3, RouteSteps
  <2> QED
    BY <1>4, <2>1, <2>2, <2>3 DEF RouteStep
<1>5. ASSUME NEW s \in Slots, startPoll(s) \/ finishPoll(s)
      PROVE  Feed!Next \/ UNCHANGED <<Published, Audience, Sent>>
  <2>1. CASE startPoll(s)
    BY <2>1, FeedStands DEF startPoll
  <2>2. CASE finishPoll(s)
    <3>1. UNCHANGED <<row, ticket>>
      BY <2>2 DEF finishPoll
    <3>2. Feed!Write
      BY <2>2, <3>1, FinishPreserves, FeedWrites
    <3> QED
      BY <3>2 DEF Feed!Next
  <2> QED
    BY <1>5, <2>1, <2>2
<1>6. CASE start
  <2>1. UNCHANGED <<row, ticket>>
    BY <1>6 DEF start
  <2> QED
    BY <1>6, <2>1, StartPreserves, FeedStands
<1>7. CASE UNCHANGED vars
  BY <1>7, FeedStands DEF vars, feedVars
<1> QED
  BY <1>1, <1>2, <1>3, <1>4, <1>5, <1>6, <1>7 DEF Next

(* A stream is written published events of its reader's only, each once and  *)
(* in the order of their ids: SseHub.poll, subscribe, the two cursors and    *)
(* the ticket route together implement EventFeed.                            *)
THEOREM FeedRefinement == Spec => KeepsFeed
<1> QED
  BY FeedStarts, FeedSteps, FeedInvariant, PTL DEF Spec, KeepsFeed, Feed!Spec

-----------------------------------------------------------------------------
(* Tickets.                                                                 *)

(* Of the requests that race for a ticket one at most is between the SELECT *)
(* and the UPDATE of claimSseTicket.                                        *)
ClaimsInTurn ==
    \A q, r \in Requests : q[1] = r[1] /\ conn[q].phase = "valid" /\ conn[r].phase = "valid" => q = r

(* The ticket of a stream is used, and no other request has it or still     *)
(* believes that it is valid.                                               *)
ClaimsHold ==
    \A q \in Requests : Streaming(q) =>
        /\ ticket[q[1]].state = "used"
        /\ \A r \in Requests \ {q} : r[1] = q[1] => ~Streaming(r) /\ conn[r].phase # "valid"

(* A step after which no more requests have or believe in a ticket. *)
NoNewClaim ==
    /\ \A q \in Requests : /\ Streaming(q)' => Streaming(q)
                           /\ conn'[q].phase = "valid" => conn[q].phase = "valid"
    /\ \A t \in Tickets : ticket[t].state = "used" => ticket'[t].state = "used"

LEMMA ClaimsKept == ASSUME ClaimsHold, NoNewClaim PROVE ClaimsHold'
<1>1. \A q \in Requests : q[1] \in Tickets
  BY DEF Requests
<1> QED
  BY <1>1 DEF ClaimsHold, NoNewClaim

LEMMA ConnectClaimsNothing ==
    ASSUME SInv, NEW p \in Pages, connect(p)
    PROVE  NoNewClaim
<1>1. conn \in [Requests -> StreamRecords]
  BY DEF SInv, Typed
<1>2. PICK n \in Copies :
         conn' = [r \in Requests |->
              IF r \in {<<page[p].ticket, k>> : k \in 1..n}
              THEN [conn[r] EXCEPT !.phase = "arrived", !.run = PageRun[p], !.last = page[p].seen]
              ELSE conn[r]]
  BY DEF connect
<1>3. ticket' = ticket
  BY DEF connect, feedVars
<1>4. ASSUME NEW q \in Requests PROVE conn'[q] = conn[q] \/ conn'[q].phase = "arrived"
  <2>1. conn[q] \in StreamRecords
    BY <1>1
  <2> QED
    BY <1>2, <2>1 DEF StreamRecords
<1> QED
  BY <1>3, <1>4 DEF NoNewClaim, Streaming

LEMMA ClosingClaimsNothing ==
    ASSUME SInv, NEW p \in Pages, receive(p) \/ refused(p) \/ dropConnection(p) \/ unmount(p)
    PROVE  NoNewClaim
<1>1. conn \in [Requests -> StreamRecords]
  BY DEF SInv, Typed
<1>2. /\ ticket' = ticket
      /\ conn' = conn \/ conn' = [conn EXCEPT ![Current(p)] = Closed(conn[Current(p)])]
  BY DEF receive, refused, dropConnection, unmount, feedVars
<1>3. ASSUME NEW q \in Requests PROVE conn'[q].phase = conn[q].phase \/ conn'[q].phase = "gone"
  <2>1. conn[q] \in StreamRecords /\ conn'[q] \in {conn[q], Closed(conn[q])}
    BY <1>1, <1>2
  <2> QED
    BY <2>1 DEF Closed, StreamRecords
<1> QED
  BY <1>2, <1>3 DEF NoNewClaim, Streaming

LEMMA TicketsClaimNothing ==
    ASSUME SInv, NEW t \in Tickets, expireTicket(t) \/ \E p \in Pages : mintSseTicket(p, t)
    PROVE  NoNewClaim
<1>1. ticket \in [Tickets -> TicketRecords]
  BY DEF SInv, Typed
<1>2. ticket[t].state # "used" /\ conn' = conn
  BY DEF expireTicket, mintSseTicket, Fresh
<1>3. \A u \in Tickets \ {t} : ticket'[u] = ticket[u]
  BY <1>1 DEF expireTicket, mintSseTicket
<1> QED
  BY <1>2, <1>3 DEF NoNewClaim, Streaming

LEMMA StreamsClaimNothing ==
    ASSUME SInv, NEW q \in Requests, queryPublishedForSubscriber(q) \/ subscribe(q)
    PROVE  NoNewClaim
<1>1. conn \in [Requests -> StreamRecords] /\ conn[q] \in StreamRecords
  BY DEF SInv, Typed
<1>2. ticket' = ticket /\ Streaming(q)
  BY DEF queryPublishedForSubscriber, subscribe, feedVars, Streaming
<1>3. conn'[q].phase \in {"caughtUp", "attached"} /\ \A r \in Requests \ {q} : conn'[r] = conn[r]
  <2>1. CASE queryPublishedForSubscriber(q)
    <3>1. PICK found : found = Lowest({e \in Published : matchesSubscriber(conn[q], e)}, Batch)
      OBVIOUS
    <3>2. PICK c : c = [conn[q] EXCEPT !.phase = "caughtUp", !.rows = found]
      OBVIOUS
    <3>3. conn' = [conn EXCEPT ![q] = c]
      BY <2>1, <3>1, <3>2 DEF queryPublishedForSubscriber
    <3>4. c.phase = "caughtUp"
      BY <1>1, <3>2 DEF StreamRecords
    <3> QED
      BY <1>1, <3>3, <3>4
  <2>2. CASE subscribe(q)
    <3>1. PICK d : d = Send(conn[q], conn[q].rows)
      OBVIOUS
    <3>2. PICK c : c = [d EXCEPT !.phase = "attached", !.rows = {}]
      OBVIOUS
    <3>3. conn' = [conn EXCEPT ![q] = c] /\ conn[q].phase = "caughtUp"
      BY <2>2, <3>1, <3>2 DEF subscribe
    <3>4. /\ conn[q].rows \in SUBSET Events /\ InOrder(conn[q].sent)
          /\ \A i \in DOMAIN conn[q].sent : conn[q].sent[i] <= conn[q].last
          /\ \A e \in conn[q].rows : e > conn[q].last
      BY <1>1, <3>3 DEF SInv, StreamSound, StreamRecords, matchesSubscriber
    <3>5. d \in StreamRecords
      BY <1>1, <3>1, <3>4, Sending
    <3>6. c.phase = "attached"
      BY <3>2, <3>5 DEF StreamRecords
    <3> QED
      BY <1>1, <3>3, <3>6
  <2> QED
    BY <2>1, <2>2
<1> QED
  BY <1>2, <1>3 DEF NoNewClaim, Streaming

LEMMA PollsClaimNothing ==
    ASSUME SInv, NEW s \in Slots, startPoll(s) \/ finishPoll(s)
    PROVE  NoNewClaim
<1>1. conn \in [Requests -> StreamRecords] /\ ticket' = ticket
  BY DEF SInv, Typed, startPoll, finishPoll
<1>2. ASSUME NEW q \in Requests PROVE conn'[q].phase = conn[q].phase
  <2>1. CASE conn' = conn
    BY <2>1
  <2>2. CASE finishPoll(s)
    <3>1. PICK S : conn'[q] = conn[q] \/ conn'[q] = Send(conn[q], S)
      BY <2>2 DEF finishPoll, dispatch
    <3>2. conn[q] \in StreamRecords
      BY <1>1
    <3>3. Send(conn[q], S).phase = conn[q].phase
      BY <3>2 DEF Send, StreamRecords
    <3> QED
      BY <3>1, <3>3
  <2> QED
    BY <2>1, <2>2 DEF startPoll
<1> QED
  BY <1>1, <1>2 DEF NoNewClaim, Streaming

LEMMA StartClaimsNothing ==
    ASSUME SInv, start
    PROVE  NoNewClaim
<1>1. conn \in [Requests -> StreamRecords] /\ ticket' = ticket
  BY DEF SInv, Typed, start
<1>2. ASSUME NEW q \in Requests PROVE conn'[q].phase \in {"none", "gone"}
  <2>1. PICK c : c = conn'[q]
    OBVIOUS
  <2>2. CASE conn[q].phase = "none"
    <3>1. c = Idle
      BY <2>1, <2>2 DEF start
    <3> QED
      BY <2>1, <3>1 DEF Idle
  <2>3. CASE conn[q].phase # "none"
    <3>1. c = [conn[q] EXCEPT !.phase = "gone", !.alive = FALSE, !.rows = {}] /\ conn[q] \in StreamRecords
      BY <1>1, <2>1, <2>3 DEF start
    <3>2. c.phase = "gone"
      BY <3>1 DEF StreamRecords
    <3> QED
      BY <2>1, <3>2
  <2> QED
    BY <2>2, <2>3
<1> QED
  BY <1>1, <1>2 DEF NoNewClaim, Streaming

LEMMA NothingClaimed ==
    ASSUME UNCHANGED <<conn, ticket>>
    PROVE  NoNewClaim
BY DEF NoNewClaim, Streaming

LEMMA ReadKeepsClaims ==
    ASSUME SInv, ClaimsHold, NEW q \in Requests, readTicket(q)
    PROVE  ClaimsHold'
<1>1. conn \in [Requests -> StreamRecords] /\ conn[q] \in StreamRecords
  BY DEF SInv, Typed
<1>2. ticket' = ticket /\ ~Streaming(q) /\ \A r \in Requests \ {q} : conn'[r] = conn[r]
  BY <1>1 DEF readTicket, Streaming
<1>3. /\ conn'[q].phase \in {"valid", "refused"}
      /\ conn'[q].phase = "valid" => ticket[q[1]].state = "minted"
  BY <1>1 DEF readTicket, StreamRecords
<1>4. ~Streaming(q)' /\ \A r \in Requests \ {q} : Streaming(r)' <=> Streaming(r)
  BY <1>2, <1>3 DEF Streaming
<1> QED
  BY <1>2, <1>3, <1>4 DEF ClaimsHold

LEMMA MarkKeepsClaims ==
    ASSUME SInv, ClaimsHold, ClaimsInTurn, NEW q \in Requests, markTicket(q)
    PROVE  ClaimsHold'
<1>1. /\ conn \in [Requests -> StreamRecords] /\ conn[q] \in StreamRecords
      /\ ticket \in [Tickets -> TicketRecords] /\ \A r \in Requests : r[1] \in Tickets
  BY DEF SInv, Typed, Requests
<1>2. conn[q].phase = "valid" /\ \A r \in Requests \ {q} : conn'[r] = conn[r]
  BY <1>1 DEF markTicket
<1>3. conn'[q].phase = "claimed"
  BY <1>1 DEF markTicket, StreamRecords
<1>4. ticket[q[1]] \in TicketRecords
  BY <1>1
<1>5. ticket'[q[1]].state = "used" /\ \A t \in Tickets \ {q[1]} : ticket'[t] = ticket[t]
  BY <1>1, <1>4 DEF markTicket, TicketRecords
<1>6. \A r \in Requests \ {q} : r[1] = q[1] => ~Streaming(r) /\ conn[r].phase # "valid"
  BY <1>2 DEF ClaimsHold, ClaimsInTurn
<1>7. Streaming(q)' /\ \A r \in Requests \ {q} : Streaming(r)' <=> Streaming(r)
  BY <1>2, <1>3 DEF Streaming
<1> QED
  BY <1>1, <1>2, <1>3, <1>5, <1>6, <1>7 DEF ClaimsHold

(* While the requests for one ticket take turns between the SELECT and the  *)
(* UPDATE of claimSseTicket, a ticket opens one stream at most, whatever    *)
(* expires, is dropped or restarted; TicketClaimedOnce fails only where     *)
(* the two statements of two requests interleave.                           *)
THEOREM FeedTicketsInTurn == Spec /\ []ClaimsInTurn => []TicketClaimedOnce
<1>1. Init => ClaimsHold
  BY DEF Init, Idle, ClaimsHold, Streaming
<1>2. SInv /\ ClaimsHold /\ ClaimsInTurn /\ [Next]_vars => ClaimsHold'
  <2> SUFFICES ASSUME SInv, ClaimsHold, ClaimsInTurn, [Next]_vars PROVE ClaimsHold'
    OBVIOUS
  <2>1. ASSUME NEW p \in Pages, PageStep(p) \/ dropConnection(p) \/ unmount(p) PROVE NoNewClaim
    BY <2>1, ConnectClaimsNothing, ClosingClaimsNothing, TicketsClaimNothing DEF PageStep
  <2>2. ASSUME NEW q \in Requests, RouteStep(q) PROVE ClaimsHold'
    BY <2>2, ReadKeepsClaims, MarkKeepsClaims, StreamsClaimNothing, ClaimsKept DEF RouteStep
  <2>3. CASE UNCHANGED <<conn, ticket>>
    BY <2>3, NothingClaimed, ClaimsKept
  <2>4. UNCHANGED vars => UNCHANGED <<conn, ticket>>
    BY DEF vars
  <2>5. (\E e \in Events : WriteRow(e) \/ PublishRow(e)) => UNCHANGED <<conn, ticket>>
    BY DEF WriteRow, PublishRow
  <2> QED
    BY <2>1, <2>2, <2>3, <2>4, <2>5, TicketsClaimNothing, PollsClaimNothing, StartClaimsNothing, ClaimsKept
       DEF Next
<1>3. ClaimsHold => TicketClaimedOnce
  BY DEF ClaimsHold, TicketClaimedOnce
<1> QED
  BY <1>1, <1>2, <1>3, FeedInvariant, PTL DEF Spec
=============================================================================
