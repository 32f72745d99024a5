---------------------------- MODULE Housekeeping ----------------------------
(***************************************************************************)
(* The scripts operators run beside the services: ingestion of market      *)
(* data, reaping of abandoned objects and health snapshots of forward      *)
(* deployments; with the uploads the reaper must tell from abandoned ones. *)
(*                                                                         *)
(* Age is what the grace period of 24 hours makes of lastModified: an      *)
(* object is "fresh" or "old".  A presigned URL lives 15 minutes, but a    *)
(* new one for the same key may be asked for at any time.  Creating a      *)
(* dataset version is taken to end within the grace period.                *)
(***************************************************************************)
EXTENDS Integers, FiniteSets, Sequences, FiniteSetsExt

CONSTANTS
    Uploads,      \* object keys of report uploads
    Versions,     \* ids of dataset versions, each with a key of its own
    Ingests,      \* runs of the ingestion script, each with a range
    RangeOf,      \* requested range of an ingestion: <<from, to>>
    Bars,         \* times at which the exchange has a candle
    MaxCandles,   \* candles of one request
    Deployments,
    Histories,    \* recent signals of a deployment, newest first
    Drawdowns, Threshold, Undefined,
    Window, MaxTicks

(* buildDatasetKey and buildArtefactKey never make the same key. *)
ASSUME KeysAssumption == Uploads \cap Versions = {}

ObjectKeys == Uploads \cup Versions

VARIABLES
    object,     \* object store: "absent", "fresh", "old"
    artefacts,  \* object keys of artefacts rows
    versions,   \* dataset_versions: id -> coverage <<from, to>>
    complete,   \* uploads whose completion has fetched the object
    ingest,     \* progress of an ingestion
    reaper,     \* progress of a reaping
    active,     \* ACTIVE deployments
    snapshots,  \* health_snapshots
    sweep       \* progress of a sweep

storeVars == <<object, artefacts, versions, complete, ingest>>
sweepVars == <<active, snapshots, sweep>>
housekeepingVars == <<storeVars, reaper, sweepVars>>

NoIngest == [at |-> "idle", id |-> Undefined, range |-> << >>]
NoReaping == [at |-> "idle", cutoff |-> {}, listed |-> {}, known |-> {}, pending |-> {"list", "known"}]

HousekeepingInit ==
    /\ object = [k \in ObjectKeys |-> "absent"]
    /\ artefacts = {}
    /\ versions = << >>
    /\ complete = {}
    /\ ingest = [i \in Ingests |-> NoIngest]
    /\ reaper = NoReaping
    /\ active = Deployments
    /\ snapshots = {}
    /\ sweep = [tick |-> 0, todo |-> {}]

-----------------------------------------------------------------------------
(* Report uploads.                                                          *)

(* A client puts bytes through a presigned URL, for the first time or       *)
(* again; their lastModified is then later than the cutoff of a reaping.    *)
putUpload(k) ==
    /\ object' = [object EXCEPT ![k] = "fresh"]
    /\ reaper' = [reaper EXCEPT !.cutoff = @ \ {k}]
    /\ UNCHANGED <<artefacts, versions, complete, ingest, sweepVars>>

fetchUploaded(k) ==
    /\ object[k] # "absent"
    /\ complete' = complete \cup {k}
    /\ UNCHANGED <<object, artefacts, versions, ingest, reaper, sweepVars>>

(* The row of a key that has one already is refused by the unique column.   *)
recordUploaded(k) ==
    /\ k \in complete
    /\ artefacts' = artefacts \cup {k}
    /\ complete' = complete \ {k}
    /\ UNCHANGED <<object, versions, ingest, reaper, sweepVars>>

InCreation == {ingest[i].id : i \in {j \in Ingests : ingest[j].at = "record"}}

grow(k) ==
    /\ object[k] = "fresh"
    /\ k \notin InCreation
    /\ object' = [object EXCEPT ![k] = "old"]
    /\ UNCHANGED <<artefacts, versions, complete, ingest, reaper, sweepVars>>

-----------------------------------------------------------------------------
(* Ingestion of candles.                                                    *)

(* The windows of a range, each no longer than a request may be. *)
candleWindows(from, to) ==
    {<<from + n * MaxCandles, Min({from + (n + 1) * MaxCandles, to})>> :
        n \in {m \in 0 .. to - from : from + m * MaxCandles < to}}

fetchCoinbaseCandles(from, to) ==
    UNION {{b \in Bars : w[1] <= b /\ b <= w[2]} : w \in candleWindows(from, to)}

findMatchingDatasetVersion(range) == {v \in DOMAIN versions : versions[v] = range}

(* An empty answer ends the script, and so does a version with its coverage. *)
fetchCandles(i) ==
    LET candles == fetchCoinbaseCandles(RangeOf[i][1], RangeOf[i][2]) IN
    /\ ingest[i].at = "idle"
    /\ candles # {}
    /\ findMatchingDatasetVersion(<<Min(candles), Max(candles)>>) = {}
    /\ ingest' = [ingest EXCEPT ![i].at = "put", ![i].range = <<Min(candles), Max(candles)>>]
    /\ UNCHANGED <<object, artefacts, versions, complete, reaper, sweepVars>>

putDataset(i, v) ==
    /\ ingest[i].at = "put"
    /\ object[v] = "absent" /\ v \notin DOMAIN versions \cup InCreation
    /\ object' = [object EXCEPT ![v] = "fresh"]
    /\ ingest' = [ingest EXCEPT ![i].at = "record", ![i].id = v]
    /\ UNCHANGED <<artefacts, versions, complete, reaper, sweepVars>>

recordDataset(i) ==
    LET v == ingest[i].id IN
    /\ ingest[i].at = "record"
    /\ artefacts' = artefacts \cup {v}
    /\ versions' = [x \in DOMAIN versions \cup {v} |->
                       IF x = v THEN ingest[i].range ELSE versions[x]]
    /\ ingest' = [ingest EXCEPT ![i] = NoIngest]
    /\ UNCHANGED <<object, complete, reaper, sweepVars>>

(* The script ends early: an object that was put stays without a row. *)
failIngest(i) ==
    /\ ingest[i].at # "idle"
    /\ ingest' = [ingest EXCEPT ![i] = NoIngest]
    /\ UNCHANGED <<object, artefacts, versions, complete, reaper, sweepVars>>

(* The coverages it can be read back with: none without its object. *)
loadDatasetBars(v) ==
    IF v \in DOMAIN versions /\ object[v] # "absent" THEN {versions[v]} ELSE {}

-----------------------------------------------------------------------------
(* Reaping.                                                                 *)

(* Mutant: no grace period. *)
abandonedSince_NoGrace == {k \in ObjectKeys : object[k] # "absent"}

(* The objects last modified before the cutoff. *)
abandonedSince == {k \in ObjectKeys : object[k] = "old"}

startReaping ==
    /\ reaper.at = "idle"
    /\ reaper' = [NoReaping EXCEPT !.at = "find", !.cutoff = abandonedSince]
    /\ UNCHANGED <<storeVars, sweepVars>>

(* The bucket is listed and the rows are read in either order. *)
listAllObjects ==
    /\ reaper.at = "find" /\ "list" \in reaper.pending
    /\ reaper' = [reaper EXCEPT !.listed = {k \in reaper.cutoff : object[k] # "absent"},
                                !.pending = @ \ {"list"}]
    /\ UNCHANGED <<storeVars, sweepVars>>

readKnown ==
    /\ reaper.at = "find" /\ "known" \in reaper.pending
    /\ reaper' = [reaper EXCEPT !.known = artefacts, !.pending = @ \ {"known"}]
    /\ UNCHANGED <<storeVars, sweepVars>>

(* A dry run ends here. *)
findAbandonedUploads(dryRun) ==
    /\ reaper.at = "find" /\ reaper.pending = {}
    /\ reaper' = IF dryRun THEN NoReaping
                 ELSE [NoReaping EXCEPT !.at = "delete", !.listed = reaper.listed \ reaper.known]
    /\ UNCHANGED <<storeVars, sweepVars>>

reapAbandonedUploads(k) ==
    /\ reaper.at = "delete" /\ k \in reaper.listed
    /\ object' = [object EXCEPT ![k] = "absent"]
    /\ reaper' = [reaper EXCEPT !.listed = @ \ {k}]
    /\ UNCHANGED <<artefacts, versions, complete, ingest, sweepVars>>

endReaping ==
    /\ reaper.at = "delete"
    /\ reaper' = NoReaping
    /\ UNCHANGED <<storeVars, sweepVars>>

-----------------------------------------------------------------------------
(* Health of forward deployments.                                           *)

(* Only REJECTED counts; "PROCESSED" stands for any signal that is not.     *)
Rejected(signals) == {n \in DOMAIN signals : signals[n] # "PROCESSED"}

(* DEGRADED when more than half of the recent signals were rejected; a      *)
(* signal is its reason of rejection, "REJECTED" where it has none.         *)
classifyInfrastructureHealth(signals) ==
    LET degraded == 2 * Cardinality(Rejected(signals)) > Len(signals) IN
    [health |-> IF degraded THEN "DEGRADED" ELSE "HEALTHY",
     reasons |-> IF degraded THEN {signals[n] : n \in Rejected(signals)} \ {"REJECTED"} ELSE {}]

classifyStrategyPerformanceHealth(drawdown, threshold) ==
    LET current == IF drawdown = Undefined THEN 0 ELSE drawdown IN
    IF threshold = Undefined THEN "NOT_CONFIGURED"
    ELSE IF current >= threshold THEN "DRAWDOWN_ALERT" ELSE "OK"

Health(signals, drawdown) ==
    [infrastructure |-> classifyInfrastructureHealth(SubSeq(signals, 1, Min({Len(signals), Window}))),
     performance |-> classifyStrategyPerformanceHealth(drawdown, Threshold)]

(* Each run of the script takes a tick of its own, and the deployments that *)
(* are ACTIVE when it starts.                                               *)
startSweep ==
    /\ sweep.todo = {} /\ sweep.tick < MaxTicks
    /\ sweep' = [tick |-> sweep.tick + 1, todo |-> active]
    /\ UNCHANGED <<storeVars, reaper, active, snapshots>>

snapshotsOf(d, tick) == {s \in snapshots : s.deployment = d /\ s.tick = tick}

sweepHealthSnapshots(d, signals, drawdown) ==
    /\ d \in sweep.todo
    /\ snapshots' = IF snapshotsOf(d, sweep.tick) # {} THEN snapshots
                    ELSE snapshots \cup {[deployment |-> d, tick |-> sweep.tick,
                                          health |-> Health(signals, drawdown)]}
    /\ sweep' = [sweep EXCEPT !.todo = @ \ {d}]
    /\ UNCHANGED <<storeVars, reaper, active>>

failSweep ==
    /\ sweep.todo # {}
    /\ sweep' = [sweep EXCEPT !.todo = {}]
    /\ UNCHANGED <<storeVars, reaper, active, snapshots>>

(* pauseForwardDeployment and resumeForwardDeployment. *)
switchDeployment(d) ==
    /\ active' = IF d \in active THEN active \ {d} ELSE active \cup {d}
    /\ UNCHANGED <<storeVars, reaper, snapshots, sweep>>

UploadNext == \E k \in Uploads : putUpload(k) \/ fetchUploaded(k) \/ recordUploaded(k)

IngestNext ==
    \E i \in Ingests :
        \/ fetchCandles(i) \/ recordDataset(i) \/ failIngest(i)
        \/ \E v \in Versions : putDataset(i, v)

ReaperNext ==
    \/ startReaping \/ listAllObjects \/ readKnown \/ endReaping
    \/ \E dryRun \in BOOLEAN : findAbandonedUploads(dryRun)
    \/ \E k \in ObjectKeys : reapAbandonedUploads(k)

SweepNext ==
    \/ startSweep \/ failSweep
    \/ \E d \in Deployments : switchDeployment(d)
    \/ \E d \in Deployments, s \in Histories, dd \in Drawdowns : sweepHealthSnapshots(d, s, dd)

HousekeepingNext ==
    \/ UploadNext \/ IngestNext \/ ReaperNext \/ SweepNext
    \/ \E k \in ObjectKeys : grow(k)

HousekeepingSpec == HousekeepingInit /\ [][HousekeepingNext]_housekeepingVars

-----------------------------------------------------------------------------
(* Properties. *)

(* Every dataset version can be read back, whatever the reaper does between *)
(* the put of its object and the commit of its rows.                        *)
RecordedDatasetIsKept == \A v \in DOMAIN versions : loadDatasetBars(v) # {}

(* A recorded upload keeps its object.  The code does not keep this: the    *)
(* upload of an old object may be completed, or the key put again and       *)
(* completed, between the reaper's reads and its delete.                    *)
RecordedUploadIsKept == \A k \in Uploads \cap artefacts : object[k] # "absent"

(* No two versions cover the same bars.  The code does not keep this when   *)
(* two ingestions overlap.                                                  *)
OneVersionPerCoverage ==
    \A v, w \in DOMAIN versions : versions[v] = versions[w] => v = w
=============================================================================
