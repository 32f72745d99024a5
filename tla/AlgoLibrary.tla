---------------------------- MODULE AlgoLibrary ----------------------------
(***************************************************************************)
(* The algo library of an organisation: one catalogued algo, its releases  *)
(* of approved strategy versions, the evidence snapshots computed from     *)
(* stored ledgers, its visibility, and the reads that deliver its source.  *)
(*                                                                         *)
(* Each API call is a sequence of statements; what a statement reads may   *)
(* have changed when the next one runs.  The update of a release           *)
(* transaction takes a snapshot, waits for the rows another transaction    *)
(* holds, and then drops those that are no longer PUBLISHED.               *)
(***************************************************************************)
EXTENDS Naturals

CONSTANTS
    Calls,       \* calls of the API that may be in progress at once
    Versions,    \* strategy versions
    WithPine,    \* versions with a Pine revision, which never changes
    Runs,        \* backtest runs
    Deployments, \* forward deployments
    VersionOf,   \* strategy version of a run or deployment
    MaxTrades,   \* bound: closed trades of a ledger
    NoVersion

ASSUME LibraryAssumption ==
    /\ WithPine \subseteq Versions
    /\ NoVersion \notin Versions
    /\ Runs \cap Deployments = {}
    /\ VersionOf \in [Runs \cup Deployments -> Versions]
    /\ MaxTrades \in Nat

Sources == Runs \cup Deployments

VARIABLES
    algo,        \* algos.status, "NONE" before createAlgo
    approved,    \* versions in PAPER_APPROVED, a state that is never left
    number,      \* algo_releases.release_number of a version, 0 without release
    status,      \* algo_releases.status of a version's release
    ledger,      \* closed trades stored for a source
    usable,      \* sources whose status lets them be published
    snapshots,   \* algo_stat_snapshots: value by (version, scope, source)
    audit,       \* audit_events: action and subject
    call         \* progress and local variables of a call

dbVars == <<algo, approved, number, status, ledger, usable, snapshots, audit>>
vars == <<dbVars, call>>

Idle == [at |-> "idle", version |-> NoVersion, number |-> 0, seen |-> {}, rows |-> {},
         key |-> << >>]

Init ==
    /\ algo = "NONE"
    /\ approved = {}
    /\ number = [v \in Versions |-> 0]
    /\ status = [v \in Versions |-> "NONE"]
    /\ ledger = [s \in Sources |-> 0]
    /\ usable = {}
    /\ snapshots = << >>
    /\ audit = {}
    /\ call = [c \in Calls |-> Idle]

Released == {v \in Versions : number[v] > 0}
Current == {v \in Versions : status[v] = "PUBLISHED"}
highest == IF Released = {} THEN 0
           ELSE CHOOSE n \in {number[v] : v \in Released} : \A v \in Released : number[v] <= n
(* ORDER BY release_number DESC LIMIT 1 *)
Latest == CHOOSE v \in Current : \A w \in Current : number[w] <= number[v]

Goto(c, at) == call' = [call EXCEPT ![c].at = at]
Finish(c) == call' = [call EXCEPT ![c] = Idle]
Insert(action, subject) == audit' = audit \cup {<<action, subject>>}

-----------------------------------------------------------------------------
(* Workers, committees and ledgers. *)

approve(v) ==
    /\ v \notin approved
    /\ approved' = approved \cup {v}
    /\ UNCHANGED <<algo, number, status, ledger, usable, snapshots, audit, call>>

(* The fills of a deployment are only ever added to. *)
addTrade(d) ==
    /\ ledger[d] < MaxTrades
    /\ ledger' = [ledger EXCEPT ![d] = @ + 1]
    /\ UNCHANGED <<algo, approved, number, status, usable, snapshots, audit, call>>

(* A report that is normalised replaces the trades of its run, and the file *)
(* of another verification may close more, or fewer, or none.               *)
replaceLedger(r, n) ==
    /\ ledger' = [ledger EXCEPT ![r] = n]
    /\ UNCHANGED <<algo, approved, number, status, usable, snapshots, audit, call>>

(* A run succeeds, and may be executed again; a deployment is activated, and *)
(* may be cancelled.                                                        *)
setState(s) ==
    /\ usable' = IF s \in usable THEN usable \ {s} ELSE usable \cup {s}
    /\ UNCHANGED <<algo, approved, number, status, ledger, snapshots, audit, call>>

-----------------------------------------------------------------------------
(* createAlgo: look the slug up, then insert under its UNIQUE index. *)

createAlgo(c) ==
    /\ call[c].at = "idle"
    /\ algo = "NONE"
    /\ Goto(c, "insertAlgo")
    /\ UNCHANGED dbVars

insertAlgo(c) ==
    /\ call[c].at = "insertAlgo"
    /\ algo' = IF algo = "NONE" THEN "DRAFT" ELSE algo
    /\ Finish(c)
    /\ UNCHANGED <<approved, number, status, ledger, usable, snapshots, audit>>

-----------------------------------------------------------------------------
(* publishRelease. *)

(* The promotion gate; a call that it refuses changes nothing. *)
publishRelease(c, v) ==
    /\ call[c].at = "idle"
    /\ algo # "NONE"
    /\ v \in approved \cap WithPine
    /\ call' = [call EXCEPT ![c].at = "existing", ![c].version = v]
    /\ UNCHANGED dbVars

(* Mutant: the answer names the newest release, not the one found. *)
existingForVersion_Newest(c) ==
    LET v == call[c].version IN
    /\ call[c].at = "existing"
    /\ call' = [call EXCEPT ![c].at = IF v \in Released THEN "answered" ELSE "max",
                            ![c].number = highest]
    /\ UNCHANGED dbVars

existingForVersion(c) ==
    LET v == call[c].version IN
    /\ call[c].at = "existing"
    /\ call' = [call EXCEPT ![c].at = IF v \in Released THEN "answered" ELSE "max",
                            ![c].number = number[v]]
    /\ UNCHANGED dbVars

(* The number is read outside the transaction that uses it. *)
readHighest(c) ==
    /\ call[c].at = "max"
    /\ call' = [call EXCEPT ![c].at = "supersede", ![c].number = highest + 1]
    /\ UNCHANGED dbVars

beginSupersede(c) ==
    /\ call[c].at = "supersede"
    /\ call' = [call EXCEPT ![c].at = "lock", ![c].seen = Current]
    /\ UNCHANGED dbVars

(* Rows that other transactions have updated and not yet committed. *)
Locked(c) == UNION {call[d].rows : d \in Calls \ {c}}

lockRows(c) ==
    /\ call[c].at = "lock"
    /\ call[c].seen \cap Locked(c) = {}
    /\ call' = [call EXCEPT ![c].at = "insert", ![c].rows = call[c].seen \cap Current]
    /\ UNCHANGED dbVars

(* Mutant: no UNIQUE index on (algo, release_number). *)
Collides_VersionOnly(c) == call[c].version \in Released

(* The UNIQUE indexes on (algo, release_number) and (algo, version). *)
Collides(c) ==
    \/ call[c].version \in Released
    \/ \E v \in Released : number[v] = call[c].number

insertRelease(c) ==
    LET v == call[c].version IN
    /\ call[c].at = "insert"
    /\ ~Collides(c)
    /\ number' = [number EXCEPT ![v] = call[c].number]
    /\ status' = [w \in Versions |->
          IF w = v THEN "PUBLISHED" ELSE IF w \in call[c].rows THEN "SUPERSEDED" ELSE status[w]]
    /\ Insert("ALGO_RELEASE_PUBLISHED", v)
    /\ call' = [call EXCEPT ![c].at = "answered", ![c].seen = {}, ![c].rows = {}]
    /\ UNCHANGED <<algo, approved, ledger, usable, snapshots>>

(* The transaction is rolled back and its locks are released. *)
rejectRelease(c) ==
    /\ call[c].at = "insert"
    /\ Collides(c)
    /\ Finish(c)
    /\ UNCHANGED dbVars

answer(c) ==
    /\ call[c].at = "answered"
    /\ Finish(c)
    /\ UNCHANGED dbVars

-----------------------------------------------------------------------------
(* publishStatSnapshot. *)

(* PublishStatsBody: the scope is part of the kind of source. *)
Scopes(s) == IF s \in Deployments THEN {"FORWARD_PAPER"} ELSE {"IN_SAMPLE", "OUT_OF_SAMPLE"}

(* A run must be SUCCEEDED, a deployment ACTIVE, PAUSED or COMPLETED. *)
resolveBacktestEvidence(v, s) == s \in Runs /\ VersionOf[s] = v /\ s \in usable
resolveForwardEvidence(v, s) == s \in Deployments /\ VersionOf[s] = v /\ s \in usable

publishStatSnapshot(c, v, scope, s) ==
    /\ call[c].at = "idle"
    /\ v \in Released
    /\ resolveBacktestEvidence(v, s) \/ resolveForwardEvidence(v, s)
    /\ call' = [call EXCEPT ![c].at = "ledger", ![c].key = <<v, scope, s>>]
    /\ UNCHANGED dbVars

(* NO_CLOSED_TRADES ends the call. *)
readLedger(c) ==
    LET trades == ledger[call[c].key[3]] IN
    /\ call[c].at = "ledger"
    /\ call' = IF trades = 0 THEN [call EXCEPT ![c] = Idle]
               ELSE [call EXCEPT ![c].at = "upsert", ![c].number = trades]
    /\ UNCHANGED dbVars

(* INSERT ... ON CONFLICT DO UPDATE *)
upsertSnapshot(c) ==
    /\ call[c].at = "upsert"
    /\ snapshots' = [key \in DOMAIN snapshots \cup {call[c].key} |->
          IF key = call[c].key THEN call[c].number ELSE snapshots[key]]
    /\ Finish(c)
    /\ UNCHANGED <<algo, approved, number, status, ledger, usable, audit>>

-----------------------------------------------------------------------------
(* publishAlgo and retireAlgo. *)

EvidenceOf(v) == {key \in DOMAIN snapshots : key[1] = v}

publishAlgo(c) ==
    /\ call[c].at = "idle"
    /\ algo # "NONE"
    /\ Current # {}
    /\ call' = [call EXCEPT ![c].at = "evidence", ![c].version = Latest]
    /\ UNCHANGED dbVars

(* Mutant: any release will do that the algo has. *)
checkEvidence_OfAnyRelease(c) ==
    /\ call[c].at = "evidence"
    /\ Goto(c, IF Released # {} THEN "setPublished" ELSE "idle")
    /\ UNCHANGED dbVars

(* NO_PUBLISHED_EVIDENCE ends the call. *)
checkEvidence(c) ==
    /\ call[c].at = "evidence"
    /\ call' = IF EvidenceOf(call[c].version) = {} THEN [call EXCEPT ![c] = Idle]
               ELSE [call EXCEPT ![c].at = "setPublished"]
    /\ UNCHANGED dbVars

setPublished(c) ==
    /\ call[c].at = "setPublished"
    /\ algo' = "PUBLISHED"
    /\ Insert("ALGO_PUBLISHED", algo')
    /\ Finish(c)
    /\ UNCHANGED <<approved, number, status, ledger, usable, snapshots>>

retireAlgo(c) ==
    /\ call[c].at = "idle"
    /\ algo # "NONE"
    /\ Goto(c, "setRetired")
    /\ UNCHANGED dbVars

setRetired(c) ==
    /\ call[c].at = "setRetired"
    /\ algo' = "RETIRED"
    /\ Insert("ALGO_RETIRED", algo')
    /\ Finish(c)
    /\ UNCHANGED <<approved, number, status, ledger, usable, snapshots>>

-----------------------------------------------------------------------------
(* Reads. *)

getAlgoSource(c) ==
    /\ call[c].at = "idle"
    /\ Current # {}
    /\ call' = [call EXCEPT ![c].at = "readSource", ![c].version = Latest]
    /\ UNCHANGED dbVars

(* pine_revisions through the release, and the audit of the read. *)
deliverSource(c) ==
    /\ call[c].at = "readSource"
    /\ Insert("ALGO_SOURCE_READ", call[c].version)
    /\ Goto(c, "delivered")
    /\ UNCHANGED <<algo, approved, number, status, ledger, usable, snapshots>>

delivered(c) ==
    /\ call[c].at = "delivered"
    /\ Finish(c)
    /\ UNCHANGED dbVars

HEADLINE_PRIORITY == <<"FORWARD_PAPER", "OUT_OF_SAMPLE", "IN_SAMPLE">>
ScopesOf(v) == {key[2] : key \in EvidenceOf(v)}
pickHeadline(v) ==
    LET ranks == {i \in 1..3 : HEADLINE_PRIORITY[i] \in ScopesOf(v)}
    IN  IF ranks = {} THEN "none"
        ELSE HEADLINE_PRIORITY[CHOOSE i \in ranks : \A j \in ranks : i <= j]

(* The current release, its number and its headline evidence. *)
getAlgoDetail ==
    IF Current = {} THEN [release |-> NoVersion, releaseNumber |-> 0, headline |-> "none"]
    ELSE [release |-> Latest, releaseNumber |-> number[Latest], headline |-> pickHeadline(Latest)]

(* Every algo of the organisation, or those of one status. *)
listAlgos(filter) ==
    IF algo = "NONE" \/ filter \notin {"any", algo} THEN {} ELSE {getAlgoDetail}

-----------------------------------------------------------------------------
CallStep(c) ==
    \/ createAlgo(c) \/ insertAlgo(c)
    \/ \E v \in Versions : publishRelease(c, v)
    \/ existingForVersion(c) \/ readHighest(c) \/ beginSupersede(c) \/ lockRows(c)
    \/ insertRelease(c) \/ rejectRelease(c) \/ answer(c)
    \/ \E v \in Versions, s \in Sources : \E scope \in Scopes(s) : publishStatSnapshot(c, v, scope, s)
    \/ readLedger(c) \/ upsertSnapshot(c)
    \/ publishAlgo(c) \/ checkEvidence(c) \/ setPublished(c)
    \/ retireAlgo(c) \/ setRetired(c)
    \/ getAlgoSource(c) \/ deliverSource(c) \/ delivered(c)

Next ==
    \/ \E v \in Versions : approve(v)
    \/ \E d \in Deployments : addTrade(d)
    \/ \E r \in Runs, n \in 0..MaxTrades : replaceLedger(r, n)
    \/ \E s \in Sources : setState(s)
    \/ \E c \in Calls : CallStep(c)

Spec == Init /\ [][Next]_vars

-----------------------------------------------------------------------------
(* Properties. *)

(* Once there is a release there is exactly one current one and it has the  *)
(* highest number, although the number is read outside the transaction and  *)
(* the older release is superseded by a statement of its own.               *)
OneCurrentRelease ==
    /\ \A v, w \in Current : v = w
    /\ Released # {} => \A entry \in listAlgos("any") : entry.releaseNumber = highest
    /\ \A v, w \in Released : number[v] = number[w] => v = w

(* A release number that a publish command was answered with, or a repeated *)
(* one finds, is the number of the version's release for good.              *)
AnsweredNumberStands ==
    \A c \in Calls : call[c].at = "answered" =>
        number[call[c].version] = call[c].number /\ call[c].version \in approved

(* A published algo has a release with evidence from that version's own     *)
(* ledger, whatever was released, cancelled or retired since the check.     *)
PublishedHasEvidence ==
    algo = "PUBLISHED" => \E key \in DOMAIN snapshots :
        /\ key[1] \in Released
        /\ VersionOf[key[3]] = key[1]
        /\ snapshots[key] > 0

(* The evidence of a deployment, whose ledger only grows, never goes back to *)
(* fewer trades.  The code does not keep this: a refresh that read the       *)
(* ledger earlier may write later.                                          *)
EvidenceMovesForward ==
    [][\A key \in DOMAIN snapshots :
          key[3] \in Deployments => snapshots'[key] >= snapshots[key]]_vars

(* A snapshot counts no more trades than its source has.  The code does not  *)
(* keep this: the ledger of a run may be replaced by a shorter one.          *)
EvidenceIsInLedger == \A key \in DOMAIN snapshots : snapshots[key] <= ledger[key[3]]

(* A published algo's current release has evidence.  The code does not keep *)
(* this: a release without any may follow, before or after the check.       *)
CurrentHasEvidence == algo = "PUBLISHED" => EvidenceOf(Latest) # {}
=============================================================================
