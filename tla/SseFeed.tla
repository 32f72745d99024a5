------------------------------ MODULE SseFeed ------------------------------
(***************************************************************************)
(* Live updates of a page: the tickets that stand for a login, the route   *)
(* that claims one and opens a stream, the hub of one API process that     *)
(* polls the outbox and fans out, and the page that reconnects with the id *)
(* of the last event it saw.                                               *)
(*                                                                         *)
(* Every await is a step: polls overlap when a query is slow, and a stream *)
(* is attached after its catch-up read was answered.                       *)
(***************************************************************************)
EXTENDS Naturals, FiniteSets, FiniteSetsExt, Sequences, SequencesExt

CONSTANTS
    Events,     \* outbox rows by id; generateId makes them in this order
    EventOrg,   \* organisation of a row
    EventRun,   \* aggregate of a row
    Written,    \* rows committed before the first page is mounted
    JobEvents,  \* rows of the two types LiveRunUpdates listens to
    Pages,      \* mounted LiveRunUpdates components
    PageOrg,    \* organisation of the page's user
    PageRun,    \* backtest run of the page, or NoRun for every aggregate
    NoRun,      \* a query without aggregateId
    Tickets,    \* bound: tickets that can be minted
    Copies,     \* bound: 1..n, the requests made with one ticket's URL
    Slots,      \* bound: polls in flight at once
    Batch,      \* POLL_BATCH_SIZE
    MaxFaults   \* bound: restarts of the API and expired tickets

ASSUME EventsAssumption ==
    Events \subseteq Nat \ {0} /\ IsFiniteSet(Events) /\ JobEvents \subseteq Events
ASSUME BatchAssumption == Batch \in Nat \ {0}

Requests == Tickets \X Copies
NoTicket == "none"

VARIABLES
    row,          \* outbox_events.status of a row, "NONE" before its commit
    globalCursor, \* SseHub.globalCursor
    poll,         \* rows read by a poll that has not yet fanned them out
    faults,
    ticket,       \* sse_tickets: state and organisation of a ticket
    conn,         \* GET /v1/events/stream/:ticket, one record per request
    page          \* LiveRunUpdates: phase, ticket, lastEventIdRef, received, refreshed

feedVars == <<row, globalCursor, poll, faults>>
vars == <<feedVars, ticket, conn, page>>

Idle == [phase |-> "none", org |-> "none", run |-> NoRun, last |-> 0,
         rows |-> {}, sent |-> << >>, alive |-> TRUE]

TypeOK ==
    /\ row \in [Events -> {"NONE", "PENDING", "PUBLISHED"}]
    /\ globalCursor \in Events \cup {0}
    /\ poll \in [Slots -> SUBSET Events]
    /\ \A q \in Requests :
          /\ conn[q].last \in Events \cup {0}
          /\ conn[q].rows \subseteq Events
          /\ Range(conn[q].sent) \subseteq Events
    /\ \A p \in Pages : page[p].seen \in JobEvents \cup {0} /\ page[p].refreshed \subseteq JobEvents

Init ==
    /\ row = [e \in Events |-> IF e \in Written THEN "PENDING" ELSE "NONE"]
    /\ globalCursor = 0
    /\ poll = [s \in Slots |-> {}]
    /\ faults = 0
    /\ ticket = [t \in Tickets |-> [state |-> "none", org |-> "none"]]
    /\ conn = [q \in Requests |-> Idle]
    /\ page = [p \in Pages |-> [phase |-> "mint", ticket |-> NoTicket, seen |-> 0,
                                got |-> 0, refreshed |-> {}]]

Published == {e \in Events : row[e] = "PUBLISHED"}
Latest(S) == Max(S \cup {0})
(* ORDER BY id LIMIT n *)
Lowest(S, n) == {e \in S : Cardinality({f \in S : f < e}) < n}
Fault == faults < MaxFaults /\ faults' = faults + 1
InIdOrder(S) ==
    CHOOSE s \in [1..Cardinality(S) -> S] : \A i, j \in DOMAIN s : i < j => s[i] < s[j]

(* Transactions and the relay, which keep no order among the rows. *)
WriteRow(e) ==
    /\ row[e] = "NONE"
    /\ row' = [row EXCEPT ![e] = "PENDING"]
    /\ UNCHANGED <<globalCursor, poll, faults, ticket, conn, page>>

PublishRow(e) ==
    /\ row[e] = "PENDING"
    /\ row' = [row EXCEPT ![e] = "PUBLISHED"]
    /\ UNCHANGED <<globalCursor, poll, faults, ticket, conn, page>>

-----------------------------------------------------------------------------
(* The page. *)

Fresh == {t \in Tickets : ticket[t].state = "none"}
Current(p) == <<page[p].ticket, 1>>

mintSseTicket(p, t) ==
    /\ page[p].phase = "mint"
    /\ t \in Fresh
    /\ ticket' = [ticket EXCEPT ![t] = [state |-> "minted", org |-> PageOrg[p]]]
    /\ page' = [page EXCEPT ![p].phase = "connect", ![p].ticket = t, ![p].got = 0]
    /\ UNCHANGED <<feedVars, conn>>

(* TICKET_TTL_MS pass before the ticket is claimed. *)
expireTicket(t) ==
    /\ ticket[t].state = "minted"
    /\ Fault
    /\ Fresh # {}
    /\ ticket' = [ticket EXCEPT ![t].state = "expired"]
    /\ UNCHANGED <<row, globalCursor, poll, conn, page>>

(* The URL of the ticket is requested, once or by several requests. *)
connect(p) ==
    \E n \in Copies :
        /\ page[p].phase = "connect"
        /\ page' = [page EXCEPT ![p].phase = "open"]
        /\ conn' = [q \in Requests |->
              IF q \in {<<page[p].ticket, k>> : k \in 1..n}
              THEN [conn[q] EXCEPT !.phase = "arrived", !.run = PageRun[p], !.last = page[p].seen]
              ELSE conn[q]]
        /\ UNCHANGED <<feedVars, ticket>>

(* onJobProgress for the listened types; other types reach no listener. *)
receive(p) ==
    LET sent == conn[Current(p)].sent
        e == sent[page[p].got + 1]
    IN  /\ page[p].phase = "open"
        /\ page[p].got < Len(sent)
        /\ page' = [page EXCEPT
              ![p].got = @ + 1,
              ![p].seen = IF e \in JobEvents THEN e ELSE @,
              ![p].refreshed = IF e \in JobEvents THEN @ \cup {e} ELSE @]
        /\ UNCHANGED <<feedVars, ticket, conn>>

(* The close listener is registered once subscribe has returned. *)
Closed(c) == [c EXCEPT !.alive = FALSE, !.phase = IF @ = "attached" THEN "gone" ELSE @]

(* onerror: the source is closed and a new ticket is minted. *)
dropConnection(p) ==
    /\ page[p].phase = "open"
    /\ Fresh # {}
    /\ page' = [page EXCEPT ![p].phase = "mint"]
    /\ conn' = [conn EXCEPT ![Current(p)] = Closed(@)]
    /\ UNCHANGED <<feedVars, ticket>>

unmount(p) ==
    /\ page[p].phase \in {"mint", "connect", "open"}
    /\ page' = [page EXCEPT ![p].phase = "left"]
    /\ conn' = IF page[p].phase = "open" THEN [conn EXCEPT ![Current(p)] = Closed(@)] ELSE conn
    /\ UNCHANGED <<feedVars, ticket>>

-----------------------------------------------------------------------------
(* The route: claimSseTicket, then SseHub.subscribe. *)

readTicket(q) ==
    /\ conn[q].phase = "arrived"
    /\ conn' = [conn EXCEPT ![q].phase = IF ticket[q[1]].state = "minted" THEN "valid" ELSE "refused"]
    /\ UNCHANGED <<feedVars, ticket, page>>

(* A refusal is an error to the page that made the request. *)
refused(p) ==
    /\ page[p].phase = "open"
    /\ conn[Current(p)].phase = "refused"
    /\ page' = [page EXCEPT ![p].phase = "mint"]
    /\ UNCHANGED <<feedVars, ticket, conn>>

markTicket(q) ==
    /\ conn[q].phase = "valid"
    /\ ticket' = [ticket EXCEPT ![q[1]].state = "used"]
    /\ conn' = [conn EXCEPT ![q].phase = "claimed", ![q].org = ticket[q[1]].org]
    /\ UNCHANGED <<feedVars, page>>

InScope(c, e) == EventOrg[e] = c.org /\ c.run \in {NoRun, EventRun[e]}
(* Mutant: the poll forgets the subscriber's own cursor. *)
matchesSubscriber_NoCursor(c, e) == InScope(c, e)

matchesSubscriber(c, e) == InScope(c, e) /\ e > c.last

(* Mutant: the catch-up starts from the hub's cursor. *)
queryPublishedForSubscriber_HubCursor(q) ==
    /\ conn[q].phase = "claimed"
    /\ conn' = [conn EXCEPT ![q].phase = "caughtUp",
          ![q].rows = Lowest({e \in Published : InScope(conn[q], e) /\ e > globalCursor}, Batch)]
    /\ UNCHANGED <<feedVars, ticket, page>>

queryPublishedForSubscriber(q) ==
    /\ conn[q].phase = "claimed"
    /\ conn' = [conn EXCEPT ![q].phase = "caughtUp",
          ![q].rows = Lowest({e \in Published : matchesSubscriber(conn[q], e)}, Batch)]
    /\ UNCHANGED <<feedVars, ticket, page>>

(* onEvent writes to the socket, in vain when it is closed. *)
Send(c, S) == [c EXCEPT !.last = Max(S \cup {@}),
                        !.sent = IF c.alive THEN @ \o InIdOrder(S) ELSE @]

subscribe(q) ==
    /\ conn[q].phase = "caughtUp"
    /\ conn' = [conn EXCEPT ![q] = [Send(@, @.rows) EXCEPT !.phase = "attached", !.rows = {}]]
    /\ UNCHANGED <<feedVars, ticket, page>>

-----------------------------------------------------------------------------
(* The hub. *)

subscribers == {q \in Requests : conn[q].phase = "attached"}

startPoll(s) ==
    /\ poll[s] = {}
    /\ subscribers # {}
    /\ poll' = [poll EXCEPT ![s] = Lowest({e \in Published : e > globalCursor}, Batch)]
    /\ UNCHANGED <<row, globalCursor, faults, ticket, conn, page>>

dispatch(rows) ==
    conn' = [q \in Requests |->
        IF q \in subscribers THEN Send(conn[q], {e \in rows : matchesSubscriber(conn[q], e)}) ELSE conn[q]]

(* Mutant: the cursor jumps to the newest row, past those the limit cut. *)
finishPoll_ToNewest(s) ==
    /\ poll[s] # {}
    /\ globalCursor' = Latest(Published)
    /\ dispatch(poll[s])
    /\ poll' = [poll EXCEPT ![s] = {}]
    /\ UNCHANGED <<row, faults, ticket, page>>

finishPoll(s) ==
    /\ poll[s] # {}
    /\ globalCursor' = Max(poll[s])
    /\ dispatch(poll[s])
    /\ poll' = [poll EXCEPT ![s] = {}]
    /\ UNCHANGED <<row, faults, ticket, page>>

(* A new process starts from the highest id of any row; streams are lost. *)
start ==
    /\ Fault
    /\ Fresh # {}
    /\ globalCursor' = Latest({e \in Events : row[e] # "NONE"})
    /\ poll' = [s \in Slots |-> {}]
    /\ conn' = [q \in Requests |->
          IF conn[q].phase = "none" THEN Idle ELSE [conn[q] EXCEPT !.phase = "gone", !.alive = FALSE, !.rows = {}]]
    /\ page' = [p \in Pages |-> [page[p] EXCEPT !.phase = IF @ = "open" THEN "mint" ELSE @]]
    /\ UNCHANGED <<row, ticket>>

PageStep(p) ==
    \/ \E t \in Tickets : mintSseTicket(p, t)
    \/ connect(p) \/ receive(p) \/ refused(p)

RouteStep(q) == readTicket(q) \/ markTicket(q) \/ queryPublishedForSubscriber(q) \/ subscribe(q)

Next ==
    \/ \E e \in Events : WriteRow(e) \/ PublishRow(e)
    \/ \E t \in Tickets : expireTicket(t)
    \/ \E p \in Pages :
          PageStep(p) \/ dropConnection(p) \/ unmount(p)
    \/ \E q \in Requests : RouteStep(q)
    \/ \E s \in Slots : startPoll(s) \/ finishPoll(s)
    \/ start

Spec == Init /\ [][Next]_vars

(* The timer fires and its queries are answered, requests and pages go on;  *)
(* nothing has to be published, dropped or restarted.                       *)
FairSpec ==
    /\ Spec
    /\ \A p \in Pages : WF_vars(PageStep(p))
    /\ \A q \in Requests : WF_vars(RouteStep(q))
    /\ \A s \in Slots : WF_vars(startPoll(s)) /\ WF_vars(finishPoll(s))

-----------------------------------------------------------------------------
(* Properties. *)

Audience ==
    [q \in Requests |->
        IF ticket[q[1]].state = "none" THEN {}
        ELSE {e \in Events : EventOrg[e] = ticket[q[1]].org /\ conn[q].run \in {NoRun, EventRun[e]}}]
Sent == [q \in Requests |-> conn[q].sent]

Feed == INSTANCE EventFeed WITH
    Streams <- Requests, visible <- Published, audience <- Audience, stream <- Sent

(* Overlapping polls that set the cursor back, a catch-up read that ends    *)
(* with the rows of the first poll, and restarts never make a stream repeat *)
(* an event, go back, or tell a page of another organisation's events.      *)
KeepsFeed == Feed!Spec

(* A published event of a subscriber's that lies above both cursors while   *)
(* no poll is in flight is written to its stream, however many rows are     *)
(* before it, unless the stream ends.                                       *)
AboveCursor(q, e) ==
    /\ q \in subscribers
    /\ \A s \in Slots : poll[s] = {}
    /\ e \in Published
    /\ e > globalCursor
    /\ matchesSubscriber(conn[q], e)

AboveCursorIsSent ==
    \A q \in Requests, e \in Events :
        AboveCursor(q, e) ~> (conn[q].phase = "gone" \/ conn[q].last >= e)

(* What was written to a page's stream and lost with the connection is read *)
(* again by the next catch-up, so the page refreshes for it unless it left. *)
OnStream(p, e) ==
    /\ page[p].phase = "open"
    /\ e \in Range(conn[Current(p)].sent) \cap JobEvents

WrittenIsSeen ==
    \A p \in Pages, e \in JobEvents :
        OnStream(p, e) ~> (page[p].phase = "left" \/ e \in page[p].refreshed)

(* Two requests that race for one ticket do not both open a stream.  The    *)
(* code does not keep this: the row is read and marked by two statements.   *)
Streaming(q) == conn[q].phase \in {"claimed", "caughtUp", "attached"}

TicketClaimedOnce ==
    \A q, r \in Requests : q[1] = r[1] /\ Streaming(q) /\ Streaming(r) => q = r

(* A published event that a subscriber has not been sent is sent to it.     *)
(* The code does not keep this: an event that is published after one with a *)
(* larger id, or between the catch-up read and the attachment, is below the *)
(* hub's cursor by then.                                                    *)
MatchedIsSent ==
    \A q \in Requests, e \in Events :
        (q \in subscribers /\ e \in Published /\ matchesSubscriber(conn[q], e))
            ~> (conn[q].phase = "gone" \/ conn[q].last >= e)
=============================================================================
