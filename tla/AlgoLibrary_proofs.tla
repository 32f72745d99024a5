------------------------- MODULE AlgoLibrary_proofs -------------------------
(***************************************************************************)
(* Proofs about AlgoLibrary for any number of calls, versions, runs and    *)
(* deployments.                                                            *)
(*                                                                         *)
(* The argument: the numbers of the releases are 1..highest, each taken    *)
(* once.  A publish command that read the highest number before another    *)
(* release was inserted therefore holds a number that is taken, and the    *)
(* UNIQUE index refuses it; one that holds highest + 1 has seen the state  *)
(* that is still current, and supersedes exactly the current release.      *)
(* A refresh writes what it counted; the ledger of a deployment only grows, *)
(* so its evidence is never more than the ledger has, and it can become    *)
(* less only where two refreshes overlap.                                  *)
(***************************************************************************)
EXTENDS AlgoLibrary, TLAPS

Stages == {"idle", "insertAlgo", "existing", "max", "supersede", "lock", "insert", "answered",
           "ledger", "upsert", "evidence", "setPublished", "setRetired", "readSource", "delivered"}
ScopeNames == {"FORWARD_PAPER", "IN_SAMPLE", "OUT_OF_SAMPLE"}
Keys == Versions \X ScopeNames \X Sources
CallRecord == [at : Stages, version : Versions \cup {NoVersion}, number : Nat,
               seen : SUBSET Versions, rows : SUBSET Versions, key : Keys \cup {<< >>}]

TypeOK ==
    /\ approved \subseteq Versions
    /\ number \in [Versions -> Nat]
    /\ status \in [Versions -> {"NONE", "PUBLISHED", "SUPERSEDED"}]
    /\ ledger \in [Sources -> Nat]
    /\ DOMAIN snapshots \subseteq Keys
    /\ snapshots \in [DOMAIN snapshots -> Nat]
    /\ call \in [Calls -> CallRecord]

(* The numbers 1..highest are taken once each, and the current release is   *)
(* the one that has the highest.                                            *)
Numbered ==
    /\ highest \in Nat
    /\ \A v \in Versions : number[v] <= highest
    /\ \A n \in 1..highest : \E v \in Versions : number[v] = n
    /\ \A v, w \in Released : number[v] = number[w] => v = w
    /\ \A v \in Versions : status[v] = "PUBLISHED" <=> number[v] > 0 /\ number[v] = highest

IsEvidence(key) ==
    /\ key \in Keys
    /\ key[1] \in Released
    /\ VersionOf[key[3]] = key[1]

(* What a call may rely on at each of its stages: of a publish command,     *)
Publishing == {"existing", "max", "supersede", "lock", "insert", "answered"}
PublishOK(c) ==
    LET t == call[c] IN
    /\ t.at \in Publishing => t.version \in approved
    /\ t.at \in {"supersede", "lock", "insert"} => t.number \in 1..(highest + 1)
    /\ t.at = "lock" /\ t.number = highest + 1 => t.seen = Current
    /\ t.at = "insert" /\ t.number = highest + 1 => t.rows = Current
    /\ t.at = "answered" => t.number > 0 /\ number[t.version] = t.number

(* and of the publication of evidence and of the algo.                      *)
EvidenceOK(c) ==
    LET t == call[c] IN
    /\ t.at \in {"ledger", "upsert"} => IsEvidence(t.key)
    /\ t.at = "upsert" => t.number > 0
    /\ t.at = "setPublished" => DOMAIN snapshots # {}

CallOK(c) == PublishOK(c) /\ EvidenceOK(c)

SnapshotsOK == \A key \in DOMAIN snapshots : IsEvidence(key) /\ snapshots[key] > 0
PublishedOK == algo = "PUBLISHED" => DOMAIN snapshots # {}

IInv ==
    /\ TypeOK
    /\ Numbered
    /\ \A c \in Calls : CallOK(c)
    /\ SnapshotsOK
    /\ PublishedOK

-----------------------------------------------------------------------------
(* highest of the given numbers, whatever the state. *)
HighestOf(f) ==
    LET R == {v \in Versions : f[v] > 0}
    IN  IF R = {} THEN 0 ELSE CHOOSE n \in {f[v] : v \in R} : \A v \in R : f[v] <= n

LEMMA HighestIs ==
    ASSUME NEW h \in Nat, NEW f \in [Versions -> Nat],
           \A v \in Versions : f[v] <= h,
           h > 0 => \E v \in Versions : f[v] = h
    PROVE  HighestOf(f) = h
<1> DEFINE R == {v \in Versions : f[v] > 0}
           S == {f[w] : w \in R}
<1>1. CASE h = 0
  <2>1. R = {}
    BY <1>1
  <2> QED
    BY <1>1, <2>1 DEF HighestOf
<1>2. CASE h > 0
  <2>1. PICK v \in Versions : f[v] = h
    BY <1>2
  <2>2. v \in R
    BY <1>2, <2>1
  <2>3. h \in S /\ \A w \in R : f[w] <= h
    BY <2>1, <2>2
  <2>4. \A n \in S : (\A w \in R : f[w] <= n) => n = h
    BY <2>1, <2>2, <2>3
  <2>5. HighestOf(f) = CHOOSE n \in S : \A w \in R : f[w] <= n
    BY <2>2 DEF HighestOf
  <2> HIDE DEF S
  <2> QED
    BY <2>3, <2>4, <2>5
<1> QED
  BY <1>1, <1>2

LEMMA HighestIsOf == highest = HighestOf(number)
  BY DEF highest, HighestOf, Released

LEMMA InvInit == Init => IInv
<1> SUFFICES ASSUME Init PROVE IInv
  OBVIOUS
<1> USE DEF Init
<1>1. TypeOK
  BY DEF TypeOK, CallRecord, Stages, Idle
<1>2. highest = 0 /\ Released = {}
  BY DEF highest, Released
<1>3. Numbered
  BY <1>2 DEF Numbered
<1>4. ASSUME NEW c \in Calls PROVE CallOK(c)
  BY DEF CallOK, PublishOK, EvidenceOK, Publishing, Idle
<1>5. SnapshotsOK /\ PublishedOK
  BY DEF SnapshotsOK, PublishedOK
<1> QED
  BY <1>1, <1>3, <1>4, <1>5 DEF IInv

(* The releases stay as they are, and what the other calls rely on with     *)
(* them, in a step that writes neither a number nor a status.               *)
LEMMA NumbersKept ==
    ASSUME Numbered, UNCHANGED <<number, status>>
    PROVE  Numbered' /\ highest' = highest /\ Released' = Released /\ Current' = Current
<1>1. Released' = Released /\ Current' = Current
  BY DEF Released, Current
<1>2. highest' = highest
  BY <1>1 DEF highest
<1>3. Numbered'
  BY <1>1, <1>2 DEF Numbered
<1> QED
  BY <1>1, <1>2, <1>3

LEMMA CallKept ==
    ASSUME TypeOK, Numbered, UNCHANGED <<number, status>>, approved \subseteq approved',
           DOMAIN snapshots \subseteq DOMAIN snapshots',
           NEW c \in Calls, CallOK(c), call'[c] = call[c]
    PROVE  CallOK(c)'
<1>1. highest' = highest /\ Released' = Released /\ Current' = Current
  BY NumbersKept
<1>2. PublishOK(c)'
  BY <1>1 DEF CallOK, PublishOK
<1>3. EvidenceOK(c)'
  BY <1>1 DEF CallOK, EvidenceOK, IsEvidence
<1> QED
  BY <1>2, <1>3 DEF CallOK

(* The steps of a call that write no table ...                              *)
LEMMA CallMoves ==
    ASSUME IInv, UNCHANGED dbVars, NEW c \in Calls, NEW t \in CallRecord,
           call' = [call EXCEPT ![c] = t], CallOK(c)'
    PROVE  IInv'
<1> USE DEF IInv, dbVars
<1>1. TypeOK'
  BY DEF TypeOK
<1>2. Numbered' /\ Released' = Released
  BY NumbersKept
<1>3. ASSUME NEW d \in Calls PROVE CallOK(d)'
  <2>1. CASE d = c
    BY <2>1
  <2>2. CASE d # c
    <3>1. call'[d] = call[d]
      BY <2>2 DEF TypeOK
    <3> QED
      BY <3>1, CallKept
  <2> QED
    BY <2>1, <2>2
<1>4. (SnapshotsOK /\ PublishedOK)'
  BY <1>2 DEF SnapshotsOK, PublishedOK, IsEvidence
<1> QED
  BY <1>1, <1>2, <1>3, <1>4

(* ... and those of other stages than the ones that rely on something.      *)
Free == Stages \ (Publishing \cup {"ledger", "upsert", "setPublished"})

LEMMA IdleIsFree == Idle \in CallRecord /\ Idle.at \in Free
  BY DEF Idle, CallRecord, Stages, Free, Publishing

LEMMA FreeMoves ==
    ASSUME IInv, UNCHANGED dbVars, NEW c \in Calls, NEW t \in CallRecord, t.at \in Free,
           call' = [call EXCEPT ![c] = t]
    PROVE  IInv'
<1>1. call'[c] = t
  BY DEF IInv, TypeOK
<1>2. CallOK(c)'
  BY <1>1 DEF CallOK, PublishOK, EvidenceOK, Free, Publishing
<1> QED
  BY <1>2, CallMoves

LEMMA FinishMoves ==
    ASSUME IInv, UNCHANGED dbVars, NEW c \in Calls, Finish(c)
    PROVE  IInv'
  BY IdleIsFree, FreeMoves DEF Finish

LEMMA GotoMoves ==
    ASSUME IInv, UNCHANGED dbVars, NEW c \in Calls, NEW at \in Free, Goto(c, at)
    PROVE  IInv'
<1> DEFINE t == [call[c] EXCEPT !.at = at]
<1>1. t \in CallRecord /\ t.at = at
  BY DEF IInv, TypeOK, CallRecord, Free
<1>2. call' = [call EXCEPT ![c] = t]
  BY DEF Goto
<1> HIDE DEF t
<1> QED
  BY <1>1, <1>2, FreeMoves

(* A step that leaves the releases alone and takes no evidence away.        *)
LEMMA TablesGrow ==
    ASSUME IInv, UNCHANGED <<number, status>>,
           approved \subseteq approved', approved' \subseteq Versions,
           ledger' \in [Sources -> Nat],
           DOMAIN snapshots \subseteq DOMAIN snapshots',
           snapshots' \in [DOMAIN snapshots' -> Nat], SnapshotsOK', PublishedOK',
           NEW c \in Calls, NEW t \in CallRecord, t.at \in Free,
           call' = [call EXCEPT ![c] = t] \/ UNCHANGED call
    PROVE  IInv'
<1> USE DEF IInv
<1>1. TypeOK'
  BY DEF TypeOK, SnapshotsOK, IsEvidence
<1>2. Numbered'
  BY NumbersKept
<1>3. ASSUME NEW d \in Calls PROVE CallOK(d)'
  <2>1. CASE call'[d] = call[d]
    BY <2>1, CallKept
  <2>2. CASE call'[d] # call[d]
    <3>1. call'[d] = t
      BY <2>2 DEF TypeOK
    <3> QED
      BY <3>1 DEF CallOK, PublishOK, EvidenceOK, Free, Publishing
  <2> QED
    BY <2>1, <2>2
<1> QED
  BY <1>1, <1>2, <1>3

(* What the callers of the last lemma owe when they leave the snapshots.    *)
LEMMA SnapshotsKept ==
    ASSUME IInv, UNCHANGED <<number, status, snapshots>>
    PROVE  /\ SnapshotsOK'
           /\ DOMAIN snapshots \subseteq DOMAIN snapshots'
           /\ snapshots' \in [DOMAIN snapshots' -> Nat]
<1>1. Released' = Released
  BY NumbersKept DEF IInv
<1> QED
  BY <1>1 DEF IInv, TypeOK, SnapshotsOK, IsEvidence

-----------------------------------------------------------------------------
(* The release transaction. *)
LEMMA InsertReleaseStep ==
    ASSUME IInv, NEW c \in Calls, insertRelease(c)
    PROVE  IInv'
<1> DEFINE t == call[c]
           v == t.version
           h == highest
<1> USE DEF IInv
<1>1. /\ t \in CallRecord /\ t.at = "insert" /\ v \in approved /\ v \in Versions
      /\ t.number \in 1..(h + 1) /\ h \in Nat
      /\ t.number = h + 1 => t.rows = Current
  BY DEF insertRelease, TypeOK, Numbered, CallOK, PublishOK, Publishing
<1>2. v \notin Released /\ \A w \in Released : number[w] # t.number
  BY DEF insertRelease, Collides
<1>3. t.number = h + 1 /\ t.rows = Current
  <2>1. ~(t.number \in 1..h)
    <3> SUFFICES ASSUME t.number \in 1..h PROVE FALSE
      OBVIOUS
    <3>1. PICK w \in Versions : number[w] = t.number
      BY DEF Numbered
    <3> QED
      BY <3>1, <1>1, <1>2 DEF Released
  <2> QED
    BY <2>1, <1>1
<1>4. number[v] = 0 /\ number' = [number EXCEPT ![v] = h + 1] /\ number' \in [Versions -> Nat]
  BY <1>1, <1>2, <1>3 DEF insertRelease, TypeOK, Released
<1>5. highest' = h + 1
  <2>1. \A w \in Versions : number'[w] <= h + 1
    BY <1>1, <1>4 DEF Numbered, TypeOK
  <2>2. number'[v] = h + 1
    BY <1>1, <1>4 DEF TypeOK
  <2>3. h + 1 \in Nat
    BY <1>1
  <2>4. highest' = HighestOf(number')
    BY DEF highest, HighestOf, Released
  <2> HIDE DEF h, v
  <2> QED
    BY <2>1, <2>2, <2>3, <2>4, <1>1, <1>4, HighestIs
<1>6. /\ Released' = Released \cup {v}
      /\ number'[v] = h + 1
      /\ \A w \in Versions \ {v} : number'[w] = number[w]
      /\ status' \in [Versions -> {"NONE", "PUBLISHED", "SUPERSEDED"}]
      /\ \A w \in Versions : status'[w] = "PUBLISHED" <=> w = v
  BY <1>1, <1>3, <1>4 DEF insertRelease, TypeOK, Released, Current
<1>7. TypeOK'
  <2> DEFINE u == [t EXCEPT !.at = "answered", !.seen = {}, !.rows = {}]
  <2>1. u \in CallRecord
    BY <1>1 DEF CallRecord, Stages
  <2>2. call' = [call EXCEPT ![c] = u]
    BY DEF insertRelease, TypeOK
  <2> HIDE DEF u
  <2>3. call' \in [Calls -> CallRecord]
    BY <2>1, <2>2 DEF TypeOK
  <2>4. UNCHANGED <<approved, ledger, snapshots>>
    BY DEF insertRelease
  <2> QED
    BY <2>3, <2>4, <1>4, <1>6 DEF TypeOK
<1>8. Numbered'
  <2>1. \A w \in Versions : number'[w] <= h + 1
    BY <1>1, <1>4 DEF Numbered, TypeOK
  <2>2. ASSUME NEW n \in 1..(h + 1) PROVE \E w \in Versions : number'[w] = n
    <3>1. CASE n = h + 1
      BY <3>1, <1>1, <1>6
    <3>2. CASE n \in 1..h
      <4>1. PICK w \in Versions : number[w] = n
        BY <3>2 DEF Numbered
      <4>2. w # v
        BY <4>1, <3>2, <1>1, <1>4
      <4> QED
        BY <4>1, <4>2, <1>6
    <3> QED
      BY <3>1, <3>2, <1>1
  <2>3. \A w \in Versions \ {v} : number'[w] # h + 1
    BY <1>1, <1>6 DEF Numbered, TypeOK
  <2>4. \A w, x \in Released' : number'[w] = number'[x] => w = x
    BY <2>3, <1>6 DEF Numbered, Released
  <2>5. \A w \in Versions : status'[w] = "PUBLISHED" <=> number'[w] > 0 /\ number'[w] = h + 1
    BY <2>3, <1>1, <1>6
  <2> HIDE DEF h, v
  <2> QED
    BY <2>1, <2>2, <2>4, <2>5, <1>1, <1>5 DEF Numbered
<1>9. ASSUME NEW d \in Calls PROVE CallOK(d)'
  <2>1. CASE d = c
    <3> DEFINE u == [t EXCEPT !.at = "answered", !.seen = {}, !.rows = {}]
    <3>1. u.at = "answered" /\ u.version = v /\ u.number = h + 1
      BY <1>1, <1>3 DEF CallRecord
    <3>2. call'[d] = u
      BY <2>1 DEF insertRelease, TypeOK
    <3>3. approved' = approved
      BY DEF insertRelease
    <3> HIDE DEF u
    <3> QED
      BY <3>1, <3>2, <3>3, <1>1, <1>6 DEF CallOK, PublishOK, EvidenceOK
  <2>2. CASE d # c
    <3>1. call'[d] = call[d] /\ call[d] \in CallRecord /\ approved' = approved /\ snapshots' = snapshots
      BY <2>2 DEF insertRelease, TypeOK
    <3>2. CallOK(d)
      OBVIOUS
    <3>3. PublishOK(d)'
      <4>1. call[d].number \in 1..(h + 1) => call[d].number \in 1..(h + 2) /\ call[d].number # h + 2
        BY <1>1
      <4>2. call[d].at = "answered" => number'[call[d].version] = number[call[d].version]
        <5> SUFFICES ASSUME call[d].at = "answered" PROVE call[d].version \in Versions \ {v}
          BY <1>6
        <5>1. call[d].version \in Versions /\ number[call[d].version] > 0
          BY <3>2 DEF CallOK, PublishOK, Publishing, TypeOK
        <5> QED
          BY <5>1, <1>4
      <4> QED
        BY <3>1, <3>2, <4>1, <4>2, <1>1, <1>5 DEF CallOK, PublishOK
    <3>4. EvidenceOK(d)'
      BY <3>1, <3>2, <1>6 DEF CallOK, EvidenceOK, IsEvidence
    <3> QED
      BY <3>3, <3>4 DEF CallOK
  <2> QED
    BY <2>1, <2>2
<1>10. SnapshotsOK' /\ PublishedOK'
  BY <1>6 DEF insertRelease, SnapshotsOK, PublishedOK, IsEvidence
<1> QED
  BY <1>7, <1>8, <1>9, <1>10

-----------------------------------------------------------------------------
(* The steps of publishRelease before it. *)
LEMMA PublishSteps ==
    ASSUME IInv, NEW c \in Calls, NEW w \in Versions,
           \/ publishRelease(c, w) \/ existingForVersion(c) \/ readHighest(c)
           \/ beginSupersede(c) \/ lockRows(c) \/ rejectRelease(c) \/ answer(c)
    PROVE  IInv'
<1> USE DEF IInv
<1>0. /\ call \in [Calls -> CallRecord] /\ call[c] \in CallRecord
      /\ CallOK(c) /\ Numbered /\ highest \in Nat
  BY DEF TypeOK, Numbered
<1>1. CASE publishRelease(c, w)
  <2> DEFINE t == [call[c] EXCEPT !.at = "existing", !.version = w]
  <2>1. t \in CallRecord /\ t.at = "existing" /\ t.version = w
    BY <1>0 DEF CallRecord, Stages
  <2>2. call' = [call EXCEPT ![c] = t] /\ w \in approved /\ UNCHANGED dbVars
    BY <1>0, <1>1 DEF publishRelease
  <2> HIDE DEF t
  <2>3. CallOK(c)'
    BY <2>1, <2>2, <1>0 DEF CallOK, PublishOK, EvidenceOK, Publishing, dbVars
  <2> QED
    BY <2>1, <2>2, <2>3, CallMoves
<1>2. CASE existingForVersion(c)
  <2> DEFINE v == call[c].version
             t == [call[c] EXCEPT !.at = IF v \in Released THEN "answered" ELSE "max",
                                  !.number = number[v]]
  <2>1. v \in approved /\ v \in Versions
    BY <1>2 DEF existingForVersion, CallOK, PublishOK, Publishing, TypeOK
  <2>2. /\ t \in CallRecord /\ t.version = v /\ t.number = number[v]
        /\ t.at = IF v \in Released THEN "answered" ELSE "max"
    BY <1>0, <2>1 DEF CallRecord, Stages, TypeOK
  <2>3. call' = [call EXCEPT ![c] = t] /\ UNCHANGED dbVars
    BY <1>0, <1>2 DEF existingForVersion
  <2> HIDE DEF t
  <2>4. CallOK(c)'
    BY <2>1, <2>2, <2>3, <1>0 DEF CallOK, PublishOK, EvidenceOK, Publishing, dbVars, Released
  <2> QED
    BY <2>2, <2>3, <2>4, CallMoves
<1>3. CASE readHighest(c)
  <2> DEFINE t == [call[c] EXCEPT !.at = "supersede", !.number = highest + 1]
  <2>1. /\ t \in CallRecord /\ t.at = "supersede" /\ t.version = call[c].version
        /\ t.number = highest + 1
    <3>1. highest + 1 \in Nat
      BY <1>0
    <3> QED
      BY <3>1, <1>0 DEF CallRecord, Stages
  <2>2. call' = [call EXCEPT ![c] = t] /\ UNCHANGED dbVars /\ call[c].at = "max"
    BY <1>0, <1>3 DEF readHighest
  <2> HIDE DEF t
  <2>3. highest' = highest
    BY <2>2, NumbersKept DEF dbVars
  <2>4. CallOK(c)'
    BY <2>1, <2>2, <2>3, <1>0 DEF CallOK, PublishOK, EvidenceOK, Publishing, dbVars
  <2> QED
    BY <2>1, <2>2, <2>4, CallMoves
<1>4. CASE beginSupersede(c)
  <2> DEFINE t == [call[c] EXCEPT !.at = "lock", !.seen = Current]
  <2>1. /\ t \in CallRecord /\ t.at = "lock" /\ t.version = call[c].version
        /\ t.number = call[c].number /\ t.seen = Current
    BY <1>0 DEF CallRecord, Stages, Current
  <2>2. call' = [call EXCEPT ![c] = t] /\ UNCHANGED dbVars /\ call[c].at = "supersede"
    BY <1>0, <1>4 DEF beginSupersede
  <2> HIDE DEF t
  <2>3. highest' = highest /\ Current' = Current
    BY <2>2, NumbersKept DEF dbVars
  <2>4. CallOK(c)'
    BY <2>1, <2>2, <2>3, <1>0 DEF CallOK, PublishOK, EvidenceOK, Publishing, dbVars
  <2> QED
    BY <2>1, <2>2, <2>4, CallMoves
<1>5. CASE lockRows(c)
  <2> DEFINE t == [call[c] EXCEPT !.at = "insert", !.rows = call[c].seen \cap Current]
  <2>1. /\ t \in CallRecord /\ t.at = "insert" /\ t.version = call[c].version
        /\ t.number = call[c].number /\ t.rows = call[c].seen \cap Current
    BY <1>0 DEF CallRecord, Stages, Current
  <2>2. call' = [call EXCEPT ![c] = t] /\ UNCHANGED dbVars /\ call[c].at = "lock"
    BY <1>0, <1>5 DEF lockRows
  <2> HIDE DEF t
  <2>3. highest' = highest /\ Current' = Current
    BY <2>2, NumbersKept DEF dbVars
  <2>4. CallOK(c)'
    BY <2>1, <2>2, <2>3, <1>0 DEF CallOK, PublishOK, EvidenceOK, Publishing, dbVars
  <2> QED
    BY <2>1, <2>2, <2>4, CallMoves
<1>6. CASE rejectRelease(c) \/ answer(c)
  BY <1>6, FinishMoves DEF rejectRelease, answer
<1> QED
  BY <1>1, <1>2, <1>3, <1>4, <1>5, <1>6

(* The publication of evidence: its key is looked up among released         *)
(* versions and their sources, and releases are never taken back.           *)
LEMMA EvidenceSteps ==
    ASSUME IInv, NEW c \in Calls, NEW v \in Versions, NEW s \in Sources, NEW scope \in Scopes(s),
           publishStatSnapshot(c, v, scope, s) \/ readLedger(c) \/ upsertSnapshot(c)
    PROVE  IInv'
<1> USE DEF IInv
<1>0. /\ call \in [Calls -> CallRecord] /\ call[c] \in CallRecord
      /\ CallOK(c) /\ Numbered
  BY DEF TypeOK
<1>1. CASE publishStatSnapshot(c, v, scope, s)
  <2> DEFINE key == <<v, scope, s>>
             t == [call[c] EXCEPT !.at = "ledger", !.key = key]
  <2>1. IsEvidence(key)
    BY <1>1 DEF publishStatSnapshot, resolveBacktestEvidence, resolveForwardEvidence,
       IsEvidence, Keys, ScopeNames, Scopes
  <2>2. t \in CallRecord /\ t.at = "ledger" /\ t.key = key
    BY <1>0, <2>1 DEF CallRecord, Stages, IsEvidence
  <2>3. call' = [call EXCEPT ![c] = t] /\ UNCHANGED dbVars
    BY <1>0, <1>1 DEF publishStatSnapshot
  <2> HIDE DEF t, key
  <2>4. Released' = Released
    BY <2>3, <1>0, NumbersKept DEF dbVars
  <2>5. CallOK(c)'
    BY <2>1, <2>2, <2>3, <2>4, <1>0 DEF CallOK, PublishOK, EvidenceOK, Publishing, IsEvidence
  <2> QED
    BY <2>2, <2>3, <2>5, CallMoves
<1>2. CASE readLedger(c)
  <2> DEFINE trades == ledger[call[c].key[3]]
  <2>0. UNCHANGED dbVars /\ call[c].at = "ledger" /\ IsEvidence(call[c].key)
    BY <1>2, <1>0 DEF readLedger, CallOK, EvidenceOK
  <2>1. CASE trades = 0
    BY <2>0, <2>1, <1>2, FinishMoves DEF readLedger, Finish
  <2>2. CASE trades # 0
    <3> DEFINE t == [call[c] EXCEPT !.at = "upsert", !.number = trades]
    <3>1. trades \in Nat /\ trades > 0
      BY <2>0, <2>2 DEF TypeOK, IsEvidence, Keys
    <3>2. t \in CallRecord /\ t.at = "upsert" /\ t.key = call[c].key /\ t.number > 0
      BY <1>0, <3>1 DEF CallRecord, Stages
    <3>3. call' = [call EXCEPT ![c] = t]
      BY <1>0, <1>2, <2>2 DEF readLedger
    <3> HIDE DEF t
    <3>4. Released' = Released
      BY <2>0, <1>0, NumbersKept DEF dbVars
    <3>5. CallOK(c)'
      BY <2>0, <3>2, <3>3, <3>4, <1>0 DEF CallOK, PublishOK, EvidenceOK, Publishing, IsEvidence
    <3> QED
      BY <2>0, <3>2, <3>3, <3>5, CallMoves
  <2> QED
    BY <2>1, <2>2
<1>3. CASE upsertSnapshot(c)
  <2> DEFINE key == call[c].key
             n == call[c].number
  <2>1. IsEvidence(key) /\ n \in Nat /\ n > 0
    BY <1>0, <1>3 DEF upsertSnapshot, CallOK, EvidenceOK, CallRecord
  <2>2. /\ DOMAIN snapshots' = DOMAIN snapshots \cup {key}
        /\ snapshots' \in [DOMAIN snapshots' -> Nat]
        /\ snapshots'[key] = n
        /\ \A k \in DOMAIN snapshots \ {key} : snapshots'[k] = snapshots[k]
    <3>1. snapshots' = [k \in DOMAIN snapshots \cup {key} |-> IF k = key THEN n ELSE snapshots[k]]
      BY <1>3 DEF upsertSnapshot
    <3> HIDE DEF key, n
    <3> QED
      BY <3>1, <2>1 DEF TypeOK
  <2>3. /\ UNCHANGED <<number, status, approved, ledger, algo>>
        /\ call' = [call EXCEPT ![c] = Idle]
    BY <1>3 DEF upsertSnapshot, Finish
  <2> HIDE DEF key, n
  <2>4. Released' = Released
    BY <2>3, <1>0, NumbersKept
  <2>5. SnapshotsOK'
    BY <2>1, <2>2, <2>4 DEF SnapshotsOK, IsEvidence
  <2>6. PublishedOK'
    BY <2>2, <2>3 DEF PublishedOK
  <2> QED
    BY <2>2, <2>3, <2>5, <2>6, TablesGrow, IdleIsFree DEF TypeOK
<1> QED
  BY <1>1, <1>2, <1>3

(* The status of the algo: publishing needs evidence, and evidence stays.   *)
LEMMA AlgoSteps ==
    ASSUME IInv, NEW c \in Calls,
           \/ createAlgo(c) \/ insertAlgo(c)
           \/ publishAlgo(c) \/ checkEvidence(c) \/ setPublished(c)
           \/ retireAlgo(c) \/ setRetired(c)
    PROVE  IInv'
<1> USE DEF IInv
<1>0. /\ call \in [Calls -> CallRecord] /\ call[c] \in CallRecord
      /\ CallOK(c) /\ Numbered
  BY DEF TypeOK
<1>1. CASE createAlgo(c) \/ retireAlgo(c)
  <2>1. "insertAlgo" \in Free /\ "setRetired" \in Free
    BY DEF Free, Stages, Publishing
  <2> QED
    BY <1>1, <2>1, GotoMoves DEF createAlgo, retireAlgo
<1>2. CASE publishAlgo(c)
  <2> DEFINE t == [call[c] EXCEPT !.at = "evidence", !.version = Latest]
  <2>1. Latest \in Versions
    <3>1. PICK v \in Current : v \in Versions /\ \A w \in Current : number[w] <= number[v]
      <4>1. PICK v \in Current : TRUE
        BY <1>2 DEF publishAlgo
      <4>2. \A w \in Current : number[w] = highest
        BY DEF Numbered, Current
      <4> QED
        BY <4>1, <4>2, <1>0 DEF Current, Numbered
    <3>2. Latest \in Current
      BY <3>1 DEF Latest
    <3> QED
      BY <3>2 DEF Current
  <2>2. t \in CallRecord /\ t.at = "evidence"
    BY <1>0, <2>1 DEF CallRecord, Stages
  <2>3. call' = [call EXCEPT ![c] = t] /\ UNCHANGED dbVars
    BY <1>0, <1>2 DEF publishAlgo
  <2> HIDE DEF t
  <2> QED
    BY <2>2, <2>3, FreeMoves DEF Free, Publishing, Stages
<1>3. CASE checkEvidence(c)
  <2>1. CASE EvidenceOf(call[c].version) = {}
    BY <1>3, <2>1, FinishMoves DEF checkEvidence, Finish
  <2>2. CASE EvidenceOf(call[c].version) # {}
    <3> DEFINE t == [call[c] EXCEPT !.at = "setPublished"]
    <3>1. t \in CallRecord /\ t.at = "setPublished"
      BY <1>0 DEF CallRecord, Stages
    <3>2. call' = [call EXCEPT ![c] = t] /\ UNCHANGED dbVars
      BY <1>0, <1>3, <2>2 DEF checkEvidence
    <3>3. DOMAIN snapshots # {}
      BY <2>2 DEF EvidenceOf
    <3> HIDE DEF t
    <3>4. CallOK(c)'
      BY <3>1, <3>2, <3>3, <1>0 DEF CallOK, PublishOK, EvidenceOK, Publishing, dbVars
    <3> QED
      BY <3>1, <3>2, <3>4, CallMoves
  <2> QED
    BY <2>1, <2>2
<1>4. CASE insertAlgo(c) \/ setPublished(c) \/ setRetired(c)
  <2>1. /\ UNCHANGED <<approved, number, status, ledger, snapshots>>
        /\ call' = [call EXCEPT ![c] = Idle]
    BY <1>4 DEF insertAlgo, setPublished, setRetired, Finish
  <2>2. PublishedOK'
    BY <1>0, <1>4, <2>1 DEF PublishedOK, insertAlgo, setPublished, setRetired, CallOK, EvidenceOK
  <2> QED
    BY <2>1, <2>2, SnapshotsKept, TablesGrow, IdleIsFree DEF TypeOK
<1> QED
  BY <1>1, <1>2, <1>3, <1>4

(* The reads of the source. *)
LEMMA ReadSteps ==
    ASSUME IInv, NEW c \in Calls, getAlgoSource(c) \/ deliverSource(c) \/ delivered(c)
    PROVE  IInv'
<1> USE DEF IInv
<1>0. call \in [Calls -> CallRecord] /\ call[c] \in CallRecord
  BY DEF TypeOK
<1>1. CASE getAlgoSource(c)
  <2> DEFINE t == [call[c] EXCEPT !.at = "readSource", !.version = Latest]
  <2>1. Latest \in Versions
    <3>1. PICK v \in Current : TRUE
      BY <1>1 DEF getAlgoSource
    <3>2. \A w \in Current : number[w] <= number[v]
      BY <3>1 DEF Numbered, Current
    <3>3. Latest \in Current
      BY <3>1, <3>2 DEF Latest
    <3> QED
      BY <3>3 DEF Current
  <2>2. t \in CallRecord /\ t.at = "readSource"
    BY <1>0, <2>1 DEF CallRecord, Stages
  <2>3. call' = [call EXCEPT ![c] = t] /\ UNCHANGED dbVars
    BY <1>0, <1>1 DEF getAlgoSource
  <2> HIDE DEF t
  <2> QED
    BY <2>2, <2>3, FreeMoves DEF Free, Publishing, Stages
<1>2. CASE deliverSource(c)
  <2> DEFINE t == [call[c] EXCEPT !.at = "delivered"]
  <2>1. t \in CallRecord /\ t.at \in Free
    BY <1>0 DEF CallRecord, Stages, Free, Publishing
  <2>2. /\ UNCHANGED <<algo, approved, number, status, ledger, snapshots>>
        /\ call' = [call EXCEPT ![c] = t]
    BY <1>0, <1>2 DEF deliverSource, Goto
  <2>3. PublishedOK'
    BY <2>2 DEF PublishedOK
  <2> HIDE DEF t
  <2> QED
    BY <2>1, <2>2, <2>3, SnapshotsKept, TablesGrow DEF TypeOK
<1>3. CASE delivered(c)
  BY <1>3, FinishMoves DEF delivered
<1> QED
  BY <1>1, <1>2, <1>3

(* What committees, workers and markets do around the calls. *)
World ==
    \/ \E v \in Versions : approve(v)
    \/ \E d \in Deployments : addTrade(d)
    \/ \E r \in Runs, n \in 0..MaxTrades : replaceLedger(r, n)
    \/ \E s \in Sources : setState(s)

LEMMA WorldSteps ==
    ASSUME IInv, World
    PROVE  IInv'
<1>1. /\ UNCHANGED <<algo, number, status, snapshots, call>>
      /\ approved \subseteq approved' /\ approved' \subseteq Versions
      /\ ledger' \in [Sources -> Nat]
  BY LibraryAssumption DEF World, IInv, TypeOK, Sources, approve, addTrade, replaceLedger, setState
<1>2. PublishedOK' /\ TypeOK /\ Numbered
  BY <1>1 DEF IInv, PublishedOK
<1>3. SnapshotsOK'
  BY <1>1, SnapshotsKept
<1>4. TypeOK'
  BY <1>1, <1>2 DEF TypeOK
<1>5. Numbered'
  BY <1>1, <1>2, NumbersKept
<1>6. ASSUME NEW c \in Calls PROVE CallOK(c)'
  BY <1>1, <1>2, CallKept DEF IInv
<1> QED
  BY <1>2, <1>3, <1>4, <1>5, <1>6 DEF IInv

LEMMA InvNext == IInv /\ [Next]_vars => IInv'
<1> SUFFICES ASSUME IInv, [Next]_vars PROVE IInv'
  OBVIOUS
<1>1. ASSUME NEW c \in Calls, CallStep(c) PROVE IInv'
  <2>1. CASE \E v \in Versions : publishRelease(c, v)
    BY <2>1, PublishSteps
  <2>2. CASE \/ existingForVersion(c) \/ readHighest(c) \/ beginSupersede(c) \/ lockRows(c)
             \/ rejectRelease(c) \/ answer(c)
    <3>1. call[c].at \in Publishing
      BY <2>2 DEF existingForVersion, readHighest, beginSupersede, lockRows, rejectRelease,
         answer, Publishing
    <3>2. PICK v \in Versions : TRUE
      BY <3>1 DEF IInv, TypeOK, CallOK, PublishOK
    <3> QED
      BY <2>2, <3>2, PublishSteps
  <2>3. CASE insertRelease(c)
    BY <2>3, InsertReleaseStep
  <2>4. CASE \E v \in Versions, s \in Sources : \E scope \in Scopes(s) :
                 publishStatSnapshot(c, v, scope, s)
    BY <2>4, EvidenceSteps
  <2>5. CASE readLedger(c) \/ upsertSnapshot(c)
    <3>1. IsEvidence(call[c].key)
      BY <2>5 DEF IInv, readLedger, upsertSnapshot, CallOK, EvidenceOK
    <3>2. PICK v \in Versions, s \in Sources : TRUE
      BY <3>1 DEF IsEvidence, Keys
    <3>3. PICK scope \in Scopes(s) : TRUE
      BY DEF Scopes
    <3> QED
      BY <2>5, <3>2, <3>3, EvidenceSteps
  <2>6. CASE \/ createAlgo(c) \/ insertAlgo(c)
             \/ publishAlgo(c) \/ checkEvidence(c) \/ setPublished(c)
             \/ retireAlgo(c) \/ setRetired(c)
    BY <2>6, AlgoSteps
  <2>7. CASE getAlgoSource(c) \/ deliverSource(c) \/ delivered(c)
    BY <2>7, ReadSteps
  <2> QED
    BY <1>1, <2>1, <2>2, <2>3, <2>4, <2>5, <2>6, <2>7 DEF CallStep
<1>2. CASE World
  BY <1>2, WorldSteps
<1>3. CASE UNCHANGED vars
  <2>1. UNCHANGED dbVars /\ UNCHANGED call
    BY <1>3 DEF vars
  <2>2. IInv /\ UNCHANGED <<algo, approved, number, status, ledger, snapshots, call>>
    BY <2>1 DEF dbVars
  <2>3. TypeOK' /\ PublishedOK'
    BY <2>2 DEF IInv, TypeOK, PublishedOK
  <2>4. Numbered' /\ SnapshotsOK'
    BY <2>2, NumbersKept, SnapshotsKept DEF IInv
  <2>5. ASSUME NEW c \in Calls PROVE CallOK(c)'
    BY <2>2, CallKept DEF IInv
  <2> QED
    BY <2>3, <2>4, <2>5 DEF IInv
<1> QED
  BY <1>1, <1>2, <1>3 DEF Next, World

THEOREM Invariance == Spec => []IInv
  BY InvInit, InvNext, PTL DEF Spec

-----------------------------------------------------------------------------
(* The tables and the local variables of the calls keep their types.        *)
THEOREM LibraryTypeCorrect == Spec => []TypeOK
<1>1. IInv => TypeOK
  BY DEF IInv
<1> QED
  BY <1>1, Invariance, PTL

LEMMA InvOneCurrent == IInv => OneCurrentRelease
<1> SUFFICES ASSUME IInv PROVE OneCurrentRelease
  OBVIOUS
<1>1. Numbered /\ TypeOK
  BY DEF IInv
<1>2. \A v, w \in Current : v = w
  BY <1>1 DEF Numbered, Current, Released
<1>3. ASSUME Released # {}, NEW entry \in listAlgos("any") PROVE entry.releaseNumber = highest
  <2>1. entry = getAlgoDetail
    BY <1>3 DEF listAlgos
  <2>2. PICK v \in Versions : v \in Current /\ number[v] = highest
    <3>1. highest > 0 /\ highest \in 1..highest
      BY <1>1, <1>3 DEF Numbered, Released, TypeOK
    <3> QED
      BY <3>1, <1>1 DEF Numbered, Current
  <2>3. Latest = v
    <3>1. \A w \in Current : number[w] <= number[v]
      BY <1>2, <2>2, <1>1 DEF Numbered
    <3> QED
      BY <1>2, <2>2, <3>1 DEF Latest
  <2> QED
    BY <2>1, <2>2, <2>3 DEF getAlgoDetail
<1>4. \A v, w \in Released : number[v] = number[w] => v = w
  BY <1>1 DEF Numbered
<1> QED
  BY <1>2, <1>3, <1>4 DEF OneCurrentRelease

(* However many publish commands overlap, there is one current release and  *)
(* it has the highest number.                                               *)
THEOREM LibraryHasOneCurrentRelease == Spec => []OneCurrentRelease
  BY Invariance, InvOneCurrent, PTL

(* The number a publish command is answered with is the release's for good. *)
THEOREM LibraryAnswersStand == Spec => []AnsweredNumberStands
<1>1. IInv => AnsweredNumberStands
  BY DEF IInv, CallOK, PublishOK, Publishing, AnsweredNumberStands
<1> QED
  BY <1>1, Invariance, PTL

(* A published algo has a release with evidence from its own ledger.        *)
THEOREM LibraryPublishesEvidence == Spec => []PublishedHasEvidence
<1>1. IInv => PublishedHasEvidence
  BY DEF IInv, PublishedOK, SnapshotsOK, IsEvidence, PublishedHasEvidence
<1> QED
  BY <1>1, Invariance, PTL

-----------------------------------------------------------------------------
(* Evidence and the ledgers it was computed from.                           *)

(* No figure of a deployment, stored or about to be, counts a trade that its *)
(* ledger does not have.                                                    *)
EvidenceIsEarned ==
    /\ \A key \in DOMAIN snapshots : key[3] \in Deployments => snapshots[key] <= ledger[key[3]]
    /\ \A c \in Calls : call[c].at = "upsert" /\ call[c].key[3] \in Deployments
                           => call[c].number <= ledger[call[c].key[3]]

(* The calls that have read the ledger of a deployment, and not yet written  *)
(* what they counted, with the snapshot each of them will write.             *)
Refreshing(c, key) == call[c].at = "upsert" /\ call[c].key = key /\ key[3] \in Deployments

(* There is one at most of each snapshot. *)
RefreshesInTurn ==
    \A c, d \in Calls : Refreshing(c, call[c].key) /\ Refreshing(d, call[c].key) => c = d

(* What a call is about to write does not take a trade away. *)
FiguresAreNew ==
    \A c \in Calls : Refreshing(c, call[c].key) /\ call[c].key \in DOMAIN snapshots
                        => snapshots[call[c].key] <= call[c].number

LEMMA CallAwayFromEvidence ==
    ASSUME IInv, NEW c \in Calls, CallStep(c), ~readLedger(c), ~upsertSnapshot(c)
    PROVE  /\ UNCHANGED <<snapshots, ledger>> /\ call'[c].at # "upsert"
           /\ \A d \in Calls \ {c} : call'[d] = call[d]
<1>1. call \in [Calls -> CallRecord] /\ call[c] \in CallRecord
  BY DEF IInv, TypeOK
<1>2. UNCHANGED <<snapshots, ledger>>
  BY DEF CallStep, dbVars, createAlgo, insertAlgo, publishRelease, existingForVersion, readHighest,
     beginSupersede, lockRows, insertRelease, rejectRelease, answer, publishStatSnapshot,
     publishAlgo, checkEvidence, setPublished, retireAlgo, setRetired, getAlgoSource, deliverSource, delivered
<1>3. CASE Finish(c)
  BY <1>1, <1>3, <1>2 DEF Finish, Idle
<1>4. ASSUME NEW at \in Stages \ {"upsert"}, Goto(c, at)
      PROVE  call'[c].at # "upsert" /\ \A d \in Calls \ {c} : call'[d] = call[d]
  BY <1>1, <1>4 DEF Goto, CallRecord
<1>5. CASE createAlgo(c) \/ retireAlgo(c) \/ deliverSource(c)
  BY <1>4, <1>5, <1>2 DEF createAlgo, retireAlgo, deliverSource, Stages
<1>6. CASE insertAlgo(c) \/ rejectRelease(c) \/ answer(c) \/ setPublished(c) \/ setRetired(c) \/ delivered(c)
  BY <1>3, <1>6, <1>2 DEF insertAlgo, rejectRelease, answer, setPublished, setRetired, delivered
<1>7. CASE \/ \E v \in Versions : publishRelease(c, v)
           \/ existingForVersion(c) \/ readHighest(c) \/ beginSupersede(c) \/ lockRows(c)
  BY <1>1, <1>7, <1>2 DEF publishRelease, existingForVersion, readHighest, beginSupersede, lockRows, CallRecord
<1>8. CASE insertRelease(c) \/ publishAlgo(c) \/ getAlgoSource(c)
  BY <1>1, <1>8, <1>2 DEF insertRelease, publishAlgo, getAlgoSource, CallRecord
<1>9. CASE checkEvidence(c)
  BY <1>1, <1>9, <1>2 DEF checkEvidence, CallRecord, Idle
<1>10. CASE \E v \in Versions, s \in Sources : \E scope \in Scopes(s) : publishStatSnapshot(c, v, scope, s)
  BY <1>1, <1>10, <1>2 DEF publishStatSnapshot, CallRecord
<1> QED
  BY <1>2, <1>5, <1>6, <1>7, <1>8, <1>9, <1>10 DEF CallStep

LEMMA LedgersGrow ==
    ASSUME IInv, World
    PROVE  /\ UNCHANGED <<snapshots, call>>
           /\ \A d \in Deployments : ledger[d] \in Nat /\ ledger'[d] \in Nat /\ ledger[d] <= ledger'[d]
<1>1. ledger \in [Sources -> Nat] /\ Deployments \subseteq Sources
  BY DEF IInv, TypeOK, Sources
<1>2. ASSUME NEW d \in Deployments, addTrade(d)
      PROVE  \A e \in Deployments : ledger'[e] \in Nat /\ ledger[e] <= ledger'[e]
  BY <1>1, <1>2 DEF addTrade
<1>3. ASSUME NEW r \in Runs, NEW n \in 0..MaxTrades, replaceLedger(r, n)
      PROVE  \A e \in Deployments : ledger'[e] \in Nat /\ ledger[e] <= ledger'[e]
  BY <1>1, <1>3, LibraryAssumption DEF replaceLedger
<1> QED
  BY <1>1, <1>2, <1>3 DEF World, approve, addTrade, replaceLedger, setState

LEMMA EarnedNext == IInv /\ EvidenceIsEarned /\ [Next]_vars => EvidenceIsEarned'
<1> SUFFICES ASSUME IInv, EvidenceIsEarned, [Next]_vars PROVE EvidenceIsEarned'
  OBVIOUS
<1>1. /\ call \in [Calls -> CallRecord] /\ snapshots \in [DOMAIN snapshots -> Nat]
      /\ ledger \in [Sources -> Nat]
      /\ \A key \in DOMAIN snapshots : key[3] \in Sources
      /\ \A c \in Calls : call[c].at = "upsert" => call[c].key[3] \in Sources /\ call[c].number \in Nat
  BY DEF IInv, TypeOK, CallRecord, SnapshotsOK, CallOK, EvidenceOK, IsEvidence, Keys
<1>2. CASE World
  <2>1. UNCHANGED <<snapshots, call>> /\ \A d \in Deployments : ledger[d] \in Nat /\ ledger'[d] \in Nat /\ ledger[d] <= ledger'[d]
    BY <1>2, LedgersGrow
  <2>2. ASSUME NEW key \in DOMAIN snapshots, key[3] \in Deployments
        PROVE  snapshots[key] <= ledger'[key[3]]
    BY <1>1, <2>1, <2>2 DEF EvidenceIsEarned
  <2>3. ASSUME NEW c \in Calls, call[c].at = "upsert", call[c].key[3] \in Deployments
        PROVE  call[c].number <= ledger'[call[c].key[3]]
    BY <1>1, <2>1, <2>3 DEF EvidenceIsEarned
  <2> QED
    BY <2>1, <2>2, <2>3 DEF EvidenceIsEarned
<1>3. ASSUME NEW c \in Calls, CallStep(c) PROVE EvidenceIsEarned'
  <2>1. CASE ~readLedger(c) /\ ~upsertSnapshot(c)
    BY <1>3, <2>1, CallAwayFromEvidence DEF EvidenceIsEarned
  <2>2. CASE readLedger(c)
    <3>1. UNCHANGED <<snapshots, ledger>>
      BY <2>2 DEF readLedger, dbVars
    <3>2. \A d \in Calls \ {c} : call'[d] = call[d]
      BY <1>1, <2>2 DEF readLedger
    <3>3. call'[c].at = "upsert" => call'[c].number = ledger[call[c].key[3]] /\ call'[c].key = call[c].key
      BY <1>1, <2>2 DEF readLedger, CallRecord, Idle
    <3>4. call[c].key[3] \in Sources
      BY <2>2 DEF readLedger, IInv, CallOK, EvidenceOK, IsEvidence, Keys
    <3> QED
      BY <1>1, <3>1, <3>2, <3>3, <3>4 DEF EvidenceIsEarned
  <2>3. CASE upsertSnapshot(c)
    <3>1. UNCHANGED ledger /\ call'[c].at = "idle" /\ \A d \in Calls \ {c} : call'[d] = call[d]
      BY <1>1, <2>3 DEF upsertSnapshot, Finish, Idle
    <3>2. /\ snapshots' = [key \in DOMAIN snapshots \cup {call[c].key} |->
                              IF key = call[c].key THEN call[c].number ELSE snapshots[key]]
          /\ call[c].key[3] \in Deployments => call[c].number <= ledger[call[c].key[3]]
      BY <2>3 DEF upsertSnapshot, EvidenceIsEarned
    <3> QED
      BY <3>1, <3>2 DEF EvidenceIsEarned
  <2> QED
    BY <2>1, <2>2, <2>3
<1>4. CASE UNCHANGED vars
  BY <1>4 DEF vars, dbVars, EvidenceIsEarned
<1> QED
  BY <1>2, <1>3, <1>4 DEF Next, World

(* What the catalogue shows of a deployment has happened: no snapshot of one *)
(* counts more trades than its ledger has, whatever calls overlap while the  *)
(* ledger grows.  Of a run this is not so: EvidenceIsInLedger fails.         *)
THEOREM LibraryEvidenceIsEarned == Spec => []EvidenceIsEarned
<1>1. Init => EvidenceIsEarned
  BY DEF Init, Idle, EvidenceIsEarned
<1> QED
  BY <1>1, EarnedNext, Invariance, PTL DEF Spec

LEMMA FiguresMoveForward ==
    ASSUME IInv, EvidenceIsEarned, FiguresAreNew, RefreshesInTurn, Next
    PROVE  /\ FiguresAreNew'
           /\ \A key \in DOMAIN snapshots : key[3] \in Deployments => snapshots'[key] >= snapshots[key]
<1>1. /\ call \in [Calls -> CallRecord] /\ snapshots \in [DOMAIN snapshots -> Nat]
      /\ \A c \in Calls : call[c].at = "upsert" => call[c].number \in Nat
  BY DEF IInv, TypeOK, CallRecord
<1>2. CASE UNCHANGED <<snapshots, call>>
  BY <1>1, <1>2 DEF FiguresAreNew, Refreshing
<1>3. ASSUME NEW c \in Calls, CallStep(c)
      PROVE  /\ FiguresAreNew'
             /\ \A key \in DOMAIN snapshots : key[3] \in Deployments => snapshots'[key] >= snapshots[key]
  <2>1. CASE ~readLedger(c) /\ ~upsertSnapshot(c)
    BY <1>1, <1>3, <2>1, CallAwayFromEvidence DEF FiguresAreNew, Refreshing
  <2>2. CASE readLedger(c)
    <3>1. UNCHANGED <<snapshots, ledger>>
      BY <2>2 DEF readLedger, dbVars
    <3>2. \A d \in Calls \ {c} : call'[d] = call[d]
      BY <1>1, <2>2 DEF readLedger
    <3>3. call'[c].at = "upsert" => call'[c].number = ledger[call[c].key[3]] /\ call'[c].key = call[c].key
      BY <1>1, <2>2 DEF readLedger, CallRecord, Idle
    <3> QED
      BY <1>1, <3>1, <3>2, <3>3 DEF FiguresAreNew, Refreshing, EvidenceIsEarned
  <2>3. CASE upsertSnapshot(c)
    <3>1. call'[c].at = "idle" /\ \A d \in Calls \ {c} : call'[d] = call[d]
      BY <1>1, <2>3 DEF upsertSnapshot, Finish, Idle
    <3>2. /\ snapshots' = [key \in DOMAIN snapshots \cup {call[c].key} |->
                              IF key = call[c].key THEN call[c].number ELSE snapshots[key]]
          /\ call[c].at = "upsert"
      BY <2>3 DEF upsertSnapshot
    <3>3. \A d \in Calls \ {c} : call[c].key[3] \in Deployments /\ call[d].at = "upsert" => call[d].key # call[c].key
      BY <3>2 DEF RefreshesInTurn, Refreshing
    <3>4. FiguresAreNew'
      BY <3>1, <3>2, <3>3 DEF FiguresAreNew, Refreshing
    <3>5. \A key \in DOMAIN snapshots : key[3] \in Deployments => snapshots'[key] >= snapshots[key]
      BY <1>1, <3>2 DEF FiguresAreNew, Refreshing
    <3> QED
      BY <3>4, <3>5
  <2> QED
    BY <2>1, <2>2, <2>3
<1> QED
  BY <1>2, <1>3, LedgersGrow DEF Next, World

(* While the refreshes of a deployment's evidence take turns between the     *)
(* read of its ledger and the write of what they counted, the evidence never *)
(* goes back to fewer trades; EvidenceMovesForward fails only where they     *)
(* overlap.                                                                 *)
THEOREM LibraryEvidenceGrowsInTurn == Spec /\ []RefreshesInTurn => EvidenceMovesForward
<1>1. Init => FiguresAreNew
  BY DEF Init, Idle, FiguresAreNew, Refreshing
<1>2. IInv /\ EvidenceIsEarned /\ FiguresAreNew /\ RefreshesInTurn /\ [Next]_vars
        => FiguresAreNew'
           /\ [\A key \in DOMAIN snapshots : key[3] \in Deployments => snapshots'[key] >= snapshots[key]]_vars
  <2>1. ASSUME FiguresAreNew, UNCHANGED vars PROVE FiguresAreNew'
    BY <2>1 DEF FiguresAreNew, Refreshing, vars, dbVars
  <2> QED
    BY <2>1, FiguresMoveForward
<1> QED
  BY <1>1, <1>2, Invariance, LibraryEvidenceIsEarned, PTL DEF Spec, EvidenceMovesForward
=============================================================================
