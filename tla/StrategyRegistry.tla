-------------------------- MODULE StrategyRegistry --------------------------
(***************************************************************************)
(* Campaigns, strategies and their immutable versions: the POST commands   *)
(* that create them under an idempotency key, the documents saved once per *)
(* version, the read model that worker-analytics refreshes after workflow  *)
(* transitions, and the lists that page over strategies.                   *)
(*                                                                         *)
(* A command is check, act, record: three transactions.  A refresh reads   *)
(* in one and rewrites its row in another.  Which transition is legal is   *)
(* the workflow's matter; here a version's state is how often it moved.    *)
(***************************************************************************)
EXTENDS Naturals, Sequences, FiniteSets

CONSTANTS
    Requests,      \* POST requests in progress at once; a retry is another one
    Keys,          \* idempotency keys
    Bodies,        \* commands that clients send
    Workers,       \* worker-analytics processes
    Times,         \* clock readings at which rows may be created
    PerMilli,      \* clock readings in a millisecond
    Limit,         \* page size of a list
    MaxAttempts,   \* attempts given to every job
    MaxStalls,     \* stalls BullMQ forgives before it fails a job
    MaxCampaigns, MaxStrategies, MaxVersions, MaxMoves, MaxSaves  \* bounds

ASSUME RegistryAssumption ==
    /\ Times \subseteq Nat
    /\ {PerMilli, Limit, MaxAttempts} \subseteq Nat \ {0}
    /\ MaxStalls \in Nat
    /\ {MaxStrategies, MaxVersions} \subseteq Nat
    /\ Bodies \subseteq [op : {"campaign", "strategy", "version"}, strategy : Nat, parent : Nat]

VARIABLES
    campaigns,     \* number of campaigns
    strategies,    \* created_at of each strategy
    versions,      \* strategy, parent, number, moves and documents of a version
    records,       \* idempotency_records: body and entity by key
    request,       \* progress of a POST request
    answers,       \* pairs (key, entity) a client was answered with
    readModel,     \* strategy_read_models, version 0 without a row
    jobs,          \* refresh jobs, from the transition event to the worker
    worker,        \* progress of a worker process
    abandoned,     \* strategies of which a refresh was given up, none begun since
    list           \* a client that follows a list's cursor

tables == <<campaigns, strategies, versions>>
shell == <<records, request, answers>>
refresh == <<readModel, jobs, worker, abandoned>>
vars == <<tables, shell, refresh, list>>

(* The refresh that a transition event asks for. *)
Job(v, moves) == [version |-> v, moves |-> moves, attempts |-> 0, stalls |-> 0]

NoRow == [version |-> 0, number |-> 0, moves |-> 0]
Free == [at |-> "idle"]
NoBody == [op |-> "none", strategy |-> 0, parent |-> 0]
NoList == [at |-> "idle", filter |-> "any", cursor |-> << >>, known |-> {},
           returned |-> {}, repeated |-> FALSE]

Init ==
    /\ campaigns = 0
    /\ strategies = << >>
    /\ versions = << >>
    /\ records = [k \in Keys |-> [body |-> NoBody, entity |-> << >>]]
    /\ request = [r \in Requests |-> Free]
    /\ answers = {}
    /\ readModel = [s \in 1..MaxStrategies |-> NoRow]
    /\ jobs = {}
    /\ worker = [w \in Workers |-> [at |-> "idle"]]
    /\ abandoned = {}
    /\ list = NoList

VersionsOf(s) == {v \in DOMAIN versions : versions[v].strategy = s}
(* ORDER BY version_number DESC LIMIT 1: any of those that share the number. *)
Latest(s) == {v \in VersionsOf(s) : \A w \in VersionsOf(s) : versions[w].number <= versions[v].number}
Row(v) == [version |-> v, number |-> versions[v].number, moves |-> versions[v].moves]

-----------------------------------------------------------------------------
(* Commands under an idempotency key. *)

(* fingerprint(parsed.data): a strategy id is in the path, not in the body. *)
fingerprint(body) == [body EXCEPT !.strategy = 0]

evaluateIdempotency(key, body) ==
    IF records[key].body = NoBody THEN "FRESH"
    ELSE IF records[key].body # fingerprint(body) THEN "CONFLICT" ELSE "REPLAY"

checkIdempotency(r, key, body) ==
    LET outcome == evaluateIdempotency(key, body) IN
    /\ request[r].at = "idle"
    /\ request' = [request EXCEPT ![r] =
          IF outcome = "FRESH" THEN [at |-> "act", key |-> key, body |-> body] ELSE Free]
    /\ answers' = IF outcome = "REPLAY" THEN answers \cup {<<key, records[key].entity>>} ELSE answers
    /\ UNCHANGED <<tables, records, refresh, list>>

Created(r, entity) ==
    request' = [request EXCEPT ![r] =
        [at |-> "record", key |-> @.key, body |-> @.body, entity |-> entity]]

Acting(r, op) == request[r].at = "act" /\ request[r].body.op = op

createCampaign(r) ==
    /\ Acting(r, "campaign")
    /\ campaigns < MaxCampaigns
    /\ campaigns' = campaigns + 1
    /\ Created(r, <<"campaign", campaigns'>>)
    /\ UNCHANGED <<strategies, versions, records, answers, refresh, list>>

NewVersion(strategy, parent, number) ==
    [strategy |-> strategy, parent |-> parent, number |-> number, moves |-> 0, saved |-> {}]

(* Mutant: the column keeps microseconds. *)
Stored_Micros(t) == t

(* created_at has precision 3: rounded to milliseconds. *)
Stored(t) == ((t + PerMilli \div 2) \div PerMilli) * PerMilli

(* now() is the start of the transaction, so it may precede older rows. *)
createStrategy(r, t) ==
    /\ Acting(r, "strategy")
    /\ campaigns > 0
    /\ Len(strategies) < MaxStrategies
    /\ Len(versions) < MaxVersions
    /\ strategies' = Append(strategies, Stored(t))
    /\ versions' = Append(versions, NewVersion(Len(strategies'), 0, 1))
    /\ Created(r, <<"strategy", Len(strategies')>>)
    /\ UNCHANGED <<campaigns, records, answers, refresh, list>>

(* The parent need not be a version of the strategy in the path. *)
createChildStrategyVersion(r) ==
    LET body == request[r].body IN
    /\ Acting(r, "version")
    /\ body.parent \in DOMAIN versions
    /\ body.strategy \in DOMAIN strategies
    /\ Len(versions) < MaxVersions
    /\ versions' = Append(versions,
          NewVersion(body.strategy, body.parent, versions[body.parent].number + 1))
    /\ Created(r, <<"version", Len(versions')>>)
    /\ UNCHANGED <<campaigns, strategies, records, answers, refresh, list>>

(* A missing parent throws, a missing campaign or strategy breaks a foreign *)
(* key: the transaction is rolled back and nothing is recorded.             *)
Refused(r) ==
    LET body == request[r].body IN
    \/ body.op = "strategy" /\ campaigns = 0
    \/ body.op = "version" /\ (body.parent \notin DOMAIN versions \/ body.strategy \notin DOMAIN strategies)

refuseCommand(r) ==
    /\ request[r].at = "act"
    /\ Refused(r)
    /\ request' = [request EXCEPT ![r] = Free]
    /\ UNCHANGED <<tables, records, answers, refresh, list>>

(* Mutant: ON CONFLICT DO NOTHING, and the own result is sent. *)
recordIdempotency_DoNothing(r) ==
    LET req == request[r] IN
    /\ req.at = "record"
    /\ records' = IF records[req.key].body = NoBody
                  THEN [records EXCEPT ![req.key] = [body |-> fingerprint(req.body), entity |-> req.entity]]
                  ELSE records
    /\ answers' = answers \cup {<<req.key, req.entity>>}
    /\ request' = [request EXCEPT ![r] = Free]
    /\ UNCHANGED <<tables, refresh, list>>

(* The key is the primary key: a second insert throws and answers 500. *)
recordIdempotency(r) ==
    LET req == request[r]
        free == records[req.key].body = NoBody
    IN
    /\ req.at = "record"
    /\ records' = IF free THEN [records EXCEPT ![req.key] =
                                   [body |-> fingerprint(req.body), entity |-> req.entity]]
                  ELSE records
    /\ answers' = IF free THEN answers \cup {<<req.key, req.entity>>} ELSE answers
    /\ request' = [request EXCEPT ![r] = Free]
    /\ UNCHANGED <<tables, refresh, list>>

(* The process ends or the connection breaks between two transactions. *)
loseRequest(r) ==
    /\ request[r].at \in {"act", "record"}
    /\ request' = [request EXCEPT ![r] = Free]
    /\ UNCHANGED <<tables, records, answers, refresh, list>>

-----------------------------------------------------------------------------
(* Documents and transitions of a version. *)

Documents == {"definition", "pine"}

(* saveStrategyDefinition and savePineRevision: UNIQUE on the version makes *)
(* a second save throw; the insert and the hash are one transaction.        *)
saveDocument(v, document) ==
    /\ document \notin versions[v].saved
    /\ Cardinality({w \in (DOMAIN versions) \X Documents : w[2] \in versions[w[1]].saved}) < MaxSaves
    /\ versions' = [versions EXCEPT ![v].saved = @ \cup {document}]
    /\ UNCHANGED <<campaigns, strategies, shell, refresh, list>>

(* A transition of the workflow service and its relayed event. *)
applyTransition(v) ==
    /\ versions[v].moves < MaxMoves
    /\ versions' = [versions EXCEPT ![v].moves = @ + 1]
    /\ jobs' = jobs \cup {Job(v, versions'[v].moves)}
    /\ UNCHANGED <<campaigns, strategies, shell, readModel, worker, abandoned, list>>

-----------------------------------------------------------------------------
(* handleReadModelRefresh. *)

(* Mutant: the event's own version is taken for the latest. *)
readLatest_OfEvent(w) ==
    \E job \in jobs :
        LET s == versions[job.version].strategy IN
        /\ worker[w].at = "idle"
        /\ worker' = [worker EXCEPT ![w] =
              [at |-> "write", job |-> job, strategy |-> s, row |-> Row(job.version)]]
        /\ jobs' = jobs \ {job}
        /\ abandoned' = abandoned \ {s}
        /\ UNCHANGED <<tables, shell, readModel, list>>

readLatest(w) ==
    \E job \in jobs :
        LET s == versions[job.version].strategy IN
        \E latest \in Latest(s) :
            /\ worker[w].at = "idle"
            /\ worker' = [worker EXCEPT ![w] =
                  [at |-> "write", job |-> job, strategy |-> s, row |-> Row(latest)]]
            /\ jobs' = jobs \ {job}
            /\ abandoned' = abandoned \ {s}
            /\ UNCHANGED <<tables, shell, readModel, list>>

(* With the lock of its job, or gone on without it. *)
Writes(w) == worker[w].at \in {"write", "stray"}
Rest(w) == worker' = [worker EXCEPT ![w] = [at |-> "idle"]]

(* DELETE and INSERT by primary key in one transaction. *)
writeRow(w) ==
    /\ Writes(w)
    /\ readModel' = [readModel EXCEPT ![worker[w].strategy] = worker[w].row]
    /\ Rest(w)
    /\ UNCHANGED <<tables, shell, jobs, abandoned, list>>

(* A job goes back to the queue, unless that was its last attempt or stall. *)
putBack(job, strategy) ==
    IF job.attempts < MaxAttempts /\ job.stalls <= MaxStalls
    THEN jobs' = jobs \cup {job} /\ UNCHANGED abandoned
    ELSE abandoned' = abandoned \cup {strategy} /\ UNCHANGED jobs

(* The execution throws.  Without the lock the job is no longer its own. *)
failRefresh(w) ==
    /\ Writes(w)
    /\ IF worker[w].at = "write"
       THEN putBack([worker[w].job EXCEPT !.attempts = @ + 1], worker[w].strategy)
       ELSE UNCHANGED <<jobs, abandoned>>
    /\ Rest(w)
    /\ UNCHANGED <<tables, shell, readModel, list>>

(* The lock expires and the job is taken back, because the process died or  *)
(* under a worker that goes on.                                             *)
stallRefresh(w) ==
    /\ worker[w].at = "write"
    /\ putBack([worker[w].job EXCEPT !.stalls = @ + 1], worker[w].strategy)
    /\ Rest(w) \/ worker' = [worker EXCEPT ![w].at = "stray"]
    /\ UNCHANGED <<tables, shell, readModel, list>>

(* The relay could not publish the event and marked its row FAILED. *)
dropEvent(v, moves) ==
    /\ Job(v, moves) \in jobs
    /\ jobs' = jobs \ {Job(v, moves)}
    /\ abandoned' = abandoned \cup {versions[v].strategy}
    /\ UNCHANGED <<tables, shell, readModel, worker, list>>

-----------------------------------------------------------------------------
(* Lists. *)

Filters == {"any", "moved", "defined"}

(* resolveFilteredStrategyIds, from the versions and not the read model. *)
resolveFilteredStrategyIds(filter) ==
    {s \in DOMAIN strategies :
        \/ filter = "any"
        \/ filter = "moved" /\ \E v \in Latest(s) : versions[v].moves > 0
        \/ filter = "defined" /\ \E v \in Latest(s) : "definition" \in versions[v].saved}

(* What the list shows of a strategy: its row, or else its versions. *)
listed(s) == IF readModel[s].version # 0 THEN {readModel[s]} ELSE {Row(v) : v \in Latest(s)}

listCommitteeQueue == {s \in DOMAIN strategies : readModel[s].moves = MaxMoves}

Precedes(s, t) ==
    \/ strategies[s] < strategies[t]
    \/ strategies[s] = strategies[t] /\ s < t

(* A Date holds milliseconds. *)
encodeCursor(s) == <<(strategies[s] \div PerMilli) * PerMilli, s>>
AfterCursor(s, cursor) ==
    cursor = << >> \/ strategies[s] > cursor[1] \/ (strategies[s] = cursor[1] /\ s > cursor[2])

startList(filter) ==
    /\ list.at = "idle"
    /\ list' = [NoList EXCEPT !.at = "page", !.filter = filter,
                              !.known = resolveFilteredStrategyIds(filter)]
    /\ UNCHANGED <<tables, shell, refresh>>

(* limit + 1 rows are fetched; the extra one only says that there is more. *)
listStrategies ==
    LET matching == resolveFilteredStrategyIds(list.filter)
        rows == {s \in matching : AfterCursor(s, list.cursor)}
        items == {s \in rows : Cardinality({t \in rows : Precedes(t, s)}) < Limit}
        last == CHOOSE s \in items : \A t \in items : t = s \/ Precedes(t, s)
        hasMore == items # rows
    IN
    /\ list.at = "page"
    /\ list' = [at |-> IF hasMore THEN "page" ELSE "end", filter |-> list.filter,
                cursor |-> IF hasMore THEN encodeCursor(last) ELSE << >>,
                known |-> list.known \cap matching,
                returned |-> list.returned \cup items,
                repeated |-> list.repeated \/ items \cap list.returned # {}]
    /\ UNCHANGED <<tables, shell, refresh>>

forgetList ==
    /\ list.at = "end"
    /\ list' = NoList
    /\ UNCHANGED <<tables, shell, refresh>>

-----------------------------------------------------------------------------
RequestStep(r) ==
    \/ \E key \in Keys, body \in Bodies : checkIdempotency(r, key, body)
    \/ createCampaign(r)
    \/ \E t \in Times : createStrategy(r, t)
    \/ createChildStrategyVersion(r)
    \/ refuseCommand(r)
    \/ recordIdempotency(r)
    \/ loseRequest(r)

WorkerStep(w) == readLatest(w) \/ writeRow(w) \/ failRefresh(w) \/ stallRefresh(w)

ListStep == (\E filter \in Filters : startList(filter)) \/ listStrategies \/ forgetList

Next ==
    \/ \E r \in Requests : RequestStep(r)
    \/ \E v \in DOMAIN versions : applyTransition(v)
    \/ \E v \in DOMAIN versions, document \in Documents : saveDocument(v, document)
    \/ \E w \in Workers : WorkerStep(w)
    \/ \E v \in DOMAIN versions, moves \in 1..MaxMoves : dropEvent(v, moves)
    \/ ListStep

Spec == Init /\ [][Next]_vars

-----------------------------------------------------------------------------
(* Properties. *)

(* The row is of a version as it is, and no later version has moved. *)
Current(s, row) ==
    /\ row = Row(row.version)
    /\ \A v \in VersionsOf(s) : versions[v].number > row.number => versions[v].moves = 0

(* Whatever requests race or retry under a key, all that succeed name the   *)
(* same entity, although the key is recorded after the effect commits.      *)
AnswersNameOneEntity ==
    \A a, b \in answers : a[1] = b[1] => a = b

(* With one worker and no refresh left, a listed strategy shows the present *)
(* state of a version that no version with a greater number has moved past, *)
(* whatever transitions overtook its refreshes and however often these were *)
(* executed.  A strategy of which a refresh was given up has to wait for    *)
(* the next.                                                                *)
ListedIsLatestMoved ==
    (jobs = {} /\ \A w \in Workers : worker[w].at = "idle") =>
        \A s \in DOMAIN strategies \ abandoned : \E row \in listed(s) : Current(s, row)

(* A client that follows the cursor to the end got each strategy that       *)
(* matched all along, and no strategy twice, whatever was created since.    *)
PagesAreExact ==
    /\ ~list.repeated
    /\ list.at = "end" => list.known \subseteq list.returned

(* The row converges on the true current state.  The code does not see to   *)
(* it: after its last attempt a refresh is given up and nothing repeats it. *)
NoRefreshIsMissed ==
    (jobs = {} /\ \A w \in Workers : worker[w].at = "idle") =>
        \A s \in DOMAIN strategies : \E row \in listed(s) : Current(s, row)

(* The list shows the latest version.  The code does not keep this: a new   *)
(* child emits no event, so the row of its parent stays.                    *)
ListedIsLatest ==
    (jobs = {} /\ \A w \in Workers : worker[w].at = "idle") =>
        \A s \in DOMAIN strategies : \E row \in listed(s) : row.version \in Latest(s)

(* Versions of a strategy have different numbers.  The code does not keep   *)
(* this: each child adds one to its parent's number.                        *)
NumbersDiffer ==
    \A v, w \in DOMAIN versions :
        versions[v].strategy = versions[w].strategy /\ versions[v].number = versions[w].number => v = w

(* A key has one effect.  The code does not keep this: the effect commits   *)
(* before the key is recorded.                                              *)
OneEffectPerKey ==
    \A r, q \in Requests :
        (request[r].at = "record" /\ request[q].at = "record" /\ request[r].key = request[q].key) => r = q
=============================================================================
