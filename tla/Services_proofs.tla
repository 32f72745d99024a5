-------------------------- MODULE Services_proofs --------------------------
(***************************************************************************)
(* Proofs about Provisioning, for any deliveries of any events, about      *)
(* Housekeeping, for any uploads, dataset versions and ingestions, about   *)
(* ResearchTasks, for any items, workers and lost locks, and about         *)
(* Workflow, for any calls, keys and inputs.                               *)
(*                                                                         *)
(* Provisioning: the delivery that inserts an organisation holds its key   *)
(* until it commits, so nothing that refers to the organisation can be     *)
(* committed before; the membership it inserts is therefore its first, an  *)
(* ADMIN's, and a committed membership is never written again.             *)
(*                                                                         *)
(* Housekeeping: what the reaper deletes was old when it started and had   *)
(* no row when it read the rows; a dataset version gets its row while its  *)
(* object is fresh, and an object that is old does not become fresh.       *)
(*                                                                         *)
(* ResearchTasks: an output is replaced and never taken back, so the       *)
(* outcome a worker acknowledges is there; an active job has one owner,    *)
(* who alone executes it while no lock is lost.                            *)
(*                                                                         *)
(* Workflow: overlapping calls cannot move a version off its policy, since *)
(* a move is conditional on the state the policy was asked about; nor      *)
(* apply a key twice, since the record of the key is unique and commits    *)
(* with the move; nor approve without a verification, since none is taken  *)
(* back.                                                                   *)
(***************************************************************************)
EXTENDS ResearchTasks, Provisioning, Housekeeping, Workflow, TLAPS

Stages == {"idle", "readOrg", "insertOrg", "readUser", "insertUser", "readMembership", "insertMembership", "commit"}
Deliver == [at : Stages, event : Events \cup {NoEvent}, newOrg : BOOLEAN, newUser : BOOLEAN,
            role : {"none", "ADMIN", "RESEARCHER"}]

(* The tables as functions of their keys, and the local variables of a      *)
(* delivery.                                                                *)
ProvisionTypeOK ==
    /\ slugs = [o \in DOMAIN slugs |-> slugs[o]]
    /\ roles = [k \in DOMAIN roles |-> roles[k]]
    /\ delivery \in [Deliveries -> Deliver]
    /\ \A d \in Deliveries : delivery[d].at # "idle" => delivery[d].event \in Events

(* An organisation has been found or inserted from here on, a user from     *)
(* there on.                                                                *)
AfterOrg == {"readUser", "insertUser", "readMembership", "insertMembership", "commit"}
AfterUser == {"readMembership", "insertMembership", "commit"}

(* A delivery's organisation and user are either committed or its own.      *)
OwnOrCommitted(d) ==
    /\ delivery[d].newOrg => delivery[d].at \in AfterOrg
    /\ delivery[d].at \in AfterOrg => (delivery[d].newOrg <=> Org(d) \notin DOMAIN slugs)
    /\ delivery[d].at \in AfterUser => delivery[d].newUser \/ User(d) \in users

(* The membership of a delivery is inserted last, is new, and is an         *)
(* ADMIN's when the organisation is new.                                    *)
InsertedMembership(d) ==
    /\ delivery[d].role # "none" => delivery[d].at = "commit" /\ Key(d) \notin DOMAIN roles
    /\ delivery[d].at = "commit" /\ delivery[d].newOrg => delivery[d].role = "ADMIN"

(* No two open deliveries hold the same key.                                *)
KeysAreHeldOnce ==
    \A d, e \in Deliveries : d # e =>
        /\ delivery[d].newOrg /\ delivery[e].newOrg => Org(d) # Org(e)
        /\ delivery[d].role # "none" /\ delivery[e].role # "none" => Key(d) # Key(e)

MembersOfCommitted == \A k \in DOMAIN roles : k = <<k[1], k[2]>> /\ k[1] \in DOMAIN slugs
HasAdmin(o) == \E u \in users : <<o, u>> \in DOMAIN roles /\ roles[<<o, u>>] = "ADMIN"
NamedOrgs == "none" \notin DOMAIN slugs

ProvisionInv ==
    /\ ProvisionTypeOK
    /\ \A d \in Deliveries : OwnOrCommitted(d) /\ InsertedMembership(d)
    /\ KeysAreHeldOnce
    /\ MembersOfCommitted
    /\ NamedOrgs
    /\ \A o \in DOMAIN slugs : HasAdmin(o)

-----------------------------------------------------------------------------
LEMMA ProvisionInvInit == ProvisionInit => ProvisionInv
<1> SUFFICES ASSUME ProvisionInit PROVE ProvisionInv
  OBVIOUS
<1> USE DEF ProvisionInit, Idle
<1>1. ProvisionTypeOK
  BY DEF ProvisionTypeOK, Deliver, Stages
<1>2. ASSUME NEW d \in Deliveries PROVE OwnOrCommitted(d) /\ InsertedMembership(d)
  BY DEF OwnOrCommitted, InsertedMembership, AfterOrg, AfterUser
<1>3. KeysAreHeldOnce
  BY DEF KeysAreHeldOnce
<1>4. MembersOfCommitted /\ NamedOrgs /\ \A o \in DOMAIN slugs : HasAdmin(o)
  BY DEF MembersOfCommitted, NamedOrgs
<1> QED
  BY <1>1, <1>2, <1>3, <1>4 DEF ProvisionInv

(* A step that writes no table keeps the invariant when the delivery it     *)
(* moves keeps its part of it.                                              *)
LEMMA UnwrittenStep ==
    ASSUME ProvisionInv, Unwritten,
           NEW d \in Deliveries, NEW t \in Deliver,
           delivery' = [delivery EXCEPT ![d] = t],
           t.at # "idle" => t.event \in Events,
           OwnOrCommitted(d)', InsertedMembership(d)',
           t.newOrg => \A e \in Deliveries \ {d} : delivery[e].newOrg => Org(e) # t.event.org,
           t.role # "none" => \A e \in Deliveries \ {d} :
               delivery[e].role # "none" => Key(e) # <<t.event.org, t.event.user>>
    PROVE  ProvisionInv'
<1> USE DEF ProvisionInv
<1>0. delivery' \in [Deliveries -> Deliver] /\ delivery'[d] = t
  BY DEF ProvisionTypeOK
<1>1. \A e \in Deliveries \ {d} : delivery'[e] = delivery[e]
  BY DEF ProvisionTypeOK
<1>2. ProvisionTypeOK'
  BY <1>0, <1>1 DEF ProvisionTypeOK, Unwritten
<1>3. ASSUME NEW e \in Deliveries PROVE (OwnOrCommitted(e) /\ InsertedMembership(e))'
  <2>1. CASE e = d
    BY <2>1
  <2>2. CASE e # d
    BY <2>2, <1>1 DEF OwnOrCommitted, InsertedMembership, Org, User, Key, Unwritten
  <2> QED
    BY <2>1, <2>2
<1>4. KeysAreHeldOnce'
  <2> SUFFICES ASSUME NEW a \in Deliveries, NEW b \in Deliveries, a # b
               PROVE  /\ delivery'[a].newOrg /\ delivery'[b].newOrg => Org(a)' # Org(b)'
                      /\ delivery'[a].role # "none" /\ delivery'[b].role # "none"
                            => Key(a)' # Key(b)'
    BY DEF KeysAreHeldOnce
  <2>1. CASE a = d
    BY <2>1, <1>0, <1>1 DEF Org, User, Key
  <2>2. CASE b = d
    BY <2>2, <1>0, <1>1 DEF Org, User, Key
  <2>3. CASE a # d /\ b # d
    BY <2>3, <1>1 DEF KeysAreHeldOnce, Org, User, Key
  <2> QED
    BY <2>1, <2>2, <2>3
<1>5. (MembersOfCommitted /\ NamedOrgs /\ \A o \in DOMAIN slugs : HasAdmin(o))'
  BY DEF MembersOfCommitted, NamedOrgs, HasAdmin, Unwritten
<1> QED
  BY <1>2, <1>3, <1>4, <1>5

(* A delivery that has ended holds nothing.                                 *)
LEMMA EndsStep ==
    ASSUME ProvisionInv, Unwritten, NEW d \in Deliveries, Ends(d)
    PROVE  ProvisionInv'
<1> DEFINE t == Idle
<1>1. t \in Deliver /\ t.at = "idle" /\ t.newOrg = FALSE /\ t.role = "none"
  BY DEF Idle, Deliver, Stages
<1>2. delivery' = [delivery EXCEPT ![d] = t] /\ delivery'[d] = t
  BY DEF Ends, ProvisionInv, ProvisionTypeOK
<1>3. OwnOrCommitted(d)' /\ InsertedMembership(d)'
  BY <1>1, <1>2 DEF OwnOrCommitted, InsertedMembership, AfterOrg, AfterUser
<1> HIDE DEF t
<1> QED
  BY <1>1, <1>2, <1>3, UnwrittenStep

(* So does one that goes on without inserting, if what it found is there.   *)
LEMMA ProceedsStep ==
    ASSUME ProvisionInv, Unwritten, NEW d \in Deliveries, NEW at \in Stages \ {"idle"},
           Proceeds(d, at), delivery[d].at # "idle", delivery[d].role = "none",
           delivery[d].at \in AfterOrg => at \in AfterOrg,
           at \in AfterOrg => delivery[d].at \in AfterOrg \/ Org(d) \in DOMAIN slugs,
           at \in AfterUser => delivery[d].newUser \/ User(d) \in users,
           at = "commit" => Key(d) \in DOMAIN roles
    PROVE  ProvisionInv'
<1> DEFINE t == [delivery[d] EXCEPT !.at = at]
<1> USE DEF ProvisionInv, ProvisionTypeOK
<1>1. /\ t \in Deliver /\ t.at = at /\ t.event = delivery[d].event
      /\ t.newOrg = delivery[d].newOrg /\ t.newUser = delivery[d].newUser /\ t.role = "none"
  BY DEF Deliver
<1>2. delivery' = [delivery EXCEPT ![d] = t] /\ delivery'[d] = t
  BY DEF Proceeds
<1> HIDE DEF t
<1>3. Org(d)' = Org(d) /\ User(d)' = User(d) /\ Key(d)' = Key(d)
  BY <1>1, <1>2 DEF Org, User, Key
<1>4. OwnOrCommitted(d)'
  BY <1>1, <1>2, <1>3 DEF OwnOrCommitted, Unwritten
<1>5. InsertedMembership(d)'
  <2>1. at = "commit" => ~delivery[d].newOrg
    <3> SUFFICES ASSUME at = "commit", delivery[d].newOrg PROVE FALSE
      BY DEF Deliver
    <3>1. Org(d) \notin DOMAIN slugs
      BY DEF OwnOrCommitted
    <3>2. Key(d) \in DOMAIN roles /\ Key(d)[1] = Org(d)
      BY DEF Key
    <3> QED
      BY <3>1, <3>2 DEF MembersOfCommitted
  <2> QED
    BY <2>1, <1>1, <1>2, <1>3 DEF InsertedMembership
<1>6. t.newOrg => \A e \in Deliveries \ {d} : delivery[e].newOrg => Org(e) # t.event.org
  <2>1. delivery[d].newOrg =>
            \A e \in Deliveries \ {d} : delivery[e].newOrg => Org(e) # Org(d)
    BY DEF KeysAreHeldOnce
  <2>2. t.newOrg = delivery[d].newOrg /\ t.event.org = Org(d)
    BY <1>1 DEF Org
  <2> QED
    BY <2>1, <2>2
<1> QED
  BY <1>1, <1>2, <1>4, <1>5, <1>6, UnwrittenStep

(* The commit of a delivery: what it inserted becomes visible at once.      *)
LEMMA CommitStep ==
    ASSUME ProvisionInv, NEW d \in Deliveries, commit(d)
    PROVE  ProvisionInv'
<1> DEFINE t == delivery[d]
<1> USE DEF ProvisionInv
<1>1. /\ t \in Deliver /\ t.at = "commit" /\ t.event \in Events
      /\ t.newOrg <=> Org(d) \notin DOMAIN slugs
      /\ t.newUser \/ User(d) \in users
      /\ t.role # "none" => Key(d) \notin DOMAIN roles
      /\ t.newOrg => t.role = "ADMIN"
  BY DEF commit, ProvisionTypeOK, OwnOrCommitted, InsertedMembership, AfterOrg, AfterUser
<1>2. /\ slugs' = [o \in DOMAIN slugs' |-> slugs'[o]]
      /\ DOMAIN slugs' = DOMAIN slugs \cup {Org(d)}
  BY <1>1 DEF commit, With, ProvisionTypeOK
<1>3. /\ roles' = [k \in DOMAIN roles' |-> roles'[k]]
      /\ DOMAIN roles' = IF t.role # "none" THEN DOMAIN roles \cup {Key(d)} ELSE DOMAIN roles
      /\ \A k \in DOMAIN roles : roles'[k] = roles[k]
      /\ t.role # "none" => roles'[Key(d)] = t.role
  BY <1>1 DEF commit, With, ProvisionTypeOK
<1>4. users \subseteq users' /\ User(d) \in users'
  BY <1>1 DEF commit
<1>5. delivery' = [delivery EXCEPT ![d] = Idle] /\ Idle \in Deliver
  BY DEF commit, Ends, Idle, Deliver, Stages
<1>6. /\ delivery' \in [Deliveries -> Deliver] /\ delivery'[d] = Idle
      /\ \A e \in Deliveries \ {d} : delivery'[e] = delivery[e]
  BY <1>5 DEF ProvisionTypeOK
<1>7. Idle.at = "idle" /\ Idle.newOrg = FALSE /\ Idle.role = "none"
  BY DEF Idle
<1>8. ProvisionTypeOK'
  BY <1>2, <1>3, <1>6, <1>7 DEF ProvisionTypeOK
<1>9. ASSUME NEW e \in Deliveries PROVE (OwnOrCommitted(e) /\ InsertedMembership(e))'
  <2>1. CASE e = d
    BY <2>1, <1>6, <1>7 DEF OwnOrCommitted, InsertedMembership, AfterOrg, AfterUser
  <2>2. CASE e # d
    <3>1. delivery'[e] = delivery[e] /\ Org(e)' = Org(e) /\ User(e)' = User(e) /\ Key(e)' = Key(e)
      BY <2>2, <1>6 DEF Org, User, Key
    <3>2. delivery[e].newOrg => Org(e) # Org(d)
      <4> SUFFICES ASSUME delivery[e].newOrg, Org(e) = Org(d) PROVE FALSE
        OBVIOUS
      <4>1. Org(e) \notin DOMAIN slugs
        BY DEF OwnOrCommitted
      <4>2. t.newOrg
        BY <4>1, <1>1
      <4> QED
        BY <4>2, <2>2 DEF KeysAreHeldOnce
    <3>3. OwnOrCommitted(e)'
      <4>1. OwnOrCommitted(e)
        OBVIOUS
      <4>2. delivery[e].newOrg \in BOOLEAN
        BY DEF ProvisionTypeOK, Deliver
      <4> QED
        BY <3>1, <3>2, <4>1, <4>2, <1>2, <1>4 DEF OwnOrCommitted
    <3>4. InsertedMembership(e)'
      <4>1. InsertedMembership(e)
        OBVIOUS
      <4>2. t.role # "none" /\ delivery[e].role # "none" => Key(e) # Key(d)
        BY <2>2 DEF KeysAreHeldOnce
      <4> QED
        BY <3>1, <4>1, <4>2, <1>3 DEF InsertedMembership
    <3> QED
      BY <3>3, <3>4
  <2> QED
    BY <2>1, <2>2
<1>10. KeysAreHeldOnce'
  BY <1>6, <1>7 DEF KeysAreHeldOnce, Org, User, Key
<1>11. MembersOfCommitted'
  <2>1. Key(d) = <<Org(d), User(d)>> /\ Key(d)[1] = Org(d) /\ Key(d)[2] = User(d)
    BY DEF Key
  <2> QED
    BY <2>1, <1>2, <1>3 DEF MembersOfCommitted
<1>12. NamedOrgs'
  BY <1>1, <1>2, EventsAssumption DEF NamedOrgs, Org
<1>13. ASSUME NEW o \in DOMAIN slugs' PROVE HasAdmin(o)'
  <2>1. CASE o \in DOMAIN slugs
    BY <2>1, <1>3, <1>4 DEF HasAdmin
  <2>2. CASE o \notin DOMAIN slugs
    <3>1. o = Org(d) /\ t.role = "ADMIN"
      BY <2>2, <1>1, <1>2
    <3>2. User(d) \in users' /\ <<o, User(d)>> \in DOMAIN roles' /\ roles'[<<o, User(d)>>] = "ADMIN"
      BY <3>1, <1>3, <1>4 DEF Key
    <3> QED
      BY <3>2 DEF HasAdmin
  <2> QED
    BY <2>1, <2>2
<1> QED
  BY <1>8, <1>9, <1>10, <1>11, <1>12, <1>13

LEMMA ProvisionInvNext == ProvisionInv /\ [ProvisionNext]_provisionVars => ProvisionInv'
<1> SUFFICES ASSUME ProvisionInv, [ProvisionNext]_provisionVars PROVE ProvisionInv'
  OBVIOUS
<1> USE DEF ProvisionInv
<1>1. ASSUME NEW d \in Deliveries, NEW e \in Events, deliver(d, e) PROVE ProvisionInv'
  <2> DEFINE t == [Idle EXCEPT !.at = "readOrg", !.event = e]
  <2>1. /\ t \in Deliver /\ t.at = "readOrg" /\ t.event \in Events
        /\ t.newOrg = FALSE /\ t.newUser = FALSE /\ t.role = "none"
    BY DEF Idle, Deliver, Stages
  <2>2. delivery' = [delivery EXCEPT ![d] = t] /\ delivery'[d] = t
    BY <1>1 DEF deliver, ProvisionTypeOK
  <2> HIDE DEF t
  <2>3. OwnOrCommitted(d)' /\ InsertedMembership(d)'
    BY <2>1, <2>2 DEF OwnOrCommitted, InsertedMembership, AfterOrg, AfterUser
  <2> QED
    BY <1>1, <2>1, <2>2, <2>3, UnwrittenStep DEF deliver
<1>2. ASSUME NEW d \in Deliveries, readOrg(d) PROVE ProvisionInv'
  <2> DEFINE at == IF Org(d) \in DOMAIN slugs THEN "readUser" ELSE "insertOrg"
  <2>1. at \in Stages \ {"idle"} /\ at \notin AfterUser /\ delivery[d].role = "none"
    BY <1>2 DEF readOrg, Stages, AfterUser, InsertedMembership
  <2>2. at \in AfterOrg => Org(d) \in DOMAIN slugs
    BY DEF AfterOrg
  <2>3. delivery[d].at \notin AfterOrg /\ at # "commit" /\ Proceeds(d, at)
    BY <1>2 DEF readOrg, AfterOrg
  <2> HIDE DEF at
  <2> QED
    BY <1>2, <2>1, <2>2, <2>3, ProceedsStep DEF readOrg
<1>3. ASSUME NEW d \in Deliveries, insertOrg(d) PROVE ProvisionInv'
  <2>1. CASE OrgTaken(d)
    BY <1>3, <2>1, EndsStep DEF insertOrg
  <2>2. CASE ~OrgTaken(d)
    <3> DEFINE t == [delivery[d] EXCEPT !.newOrg = TRUE, !.at = "readUser"]
    <3> USE DEF ProvisionTypeOK
    <3>1. /\ t \in Deliver /\ t.at = "readUser" /\ t.event = delivery[d].event
          /\ t.newOrg = TRUE /\ t.role = delivery[d].role /\ t.role = "none" /\ t.event \in Events
      BY <1>3 DEF insertOrg, Deliver, Stages, InsertedMembership
    <3>2. delivery' = [delivery EXCEPT ![d] = t] /\ delivery'[d] = t
      BY <1>3, <2>2 DEF insertOrg
    <3>3. Org(d) \notin DOMAIN slugs
      BY <2>2 DEF OrgTaken, SameOrg
    <3>4. \A e \in Deliveries \ {d} : delivery[e].newOrg => Org(e) # t.event.org
      <4> SUFFICES ASSUME NEW e \in Deliveries \ {d}, delivery[e].newOrg PROVE Org(e) # t.event.org
        OBVIOUS
      <4>1. e \in Others(d)
        BY DEF Others, OwnOrCommitted, AfterOrg
      <4> QED
        BY <4>1, <3>1, <1>3 DEF insertOrg, SameOrg, Org
    <3> HIDE DEF t
    <3>5. OwnOrCommitted(d)'
      BY <3>1, <3>2, <3>3, <1>3 DEF OwnOrCommitted, AfterOrg, AfterUser, Org, insertOrg, Unwritten
    <3>6. InsertedMembership(d)'
      BY <3>1, <3>2 DEF InsertedMembership
    <3> QED
      BY <1>3, <3>1, <3>2, <3>4, <3>5, <3>6, UnwrittenStep DEF insertOrg
  <2> QED
    BY <2>1, <2>2
<1>4. ASSUME NEW d \in Deliveries, readUser(d) PROVE ProvisionInv'
  <2> DEFINE at == IF User(d) \in users THEN "readMembership" ELSE "insertUser"
  <2>1. at \in Stages \ {"idle"} /\ at \in AfterOrg /\ delivery[d].role = "none"
    BY <1>4 DEF readUser, Stages, AfterOrg, InsertedMembership
  <2>2. at \in AfterUser => User(d) \in users
    BY DEF AfterUser
  <2>3. delivery[d].at \in AfterOrg /\ at # "commit" /\ Proceeds(d, at)
    BY <1>4 DEF readUser, AfterOrg
  <2> HIDE DEF at
  <2> QED
    BY <1>4, <2>1, <2>2, <2>3, ProceedsStep DEF readUser
<1>5. ASSUME NEW d \in Deliveries, insertUser(d) PROVE ProvisionInv'
  <2>1. CASE User(d) \in users
    BY <1>5, <2>1, EndsStep DEF insertUser
  <2>2. CASE User(d) \notin users
    <3> DEFINE t == [delivery[d] EXCEPT !.newUser = TRUE, !.at = "readMembership"]
    <3> USE DEF ProvisionTypeOK
    <3>1. /\ t \in Deliver /\ t.at = "readMembership" /\ t.event = delivery[d].event
          /\ t.newUser = TRUE /\ t.newOrg = delivery[d].newOrg
          /\ t.role = "none" /\ t.event \in Events
      BY <1>5 DEF insertUser, Deliver, Stages, InsertedMembership
    <3>2. delivery' = [delivery EXCEPT ![d] = t] /\ delivery'[d] = t
      BY <1>5, <2>2 DEF insertUser
    <3>3. delivery[d].at \in AfterOrg
      BY <1>5 DEF insertUser, AfterOrg
    <3>4. t.newOrg => \A e \in Deliveries \ {d} : delivery[e].newOrg => Org(e) # t.event.org
      BY <3>1 DEF KeysAreHeldOnce, Org
    <3> HIDE DEF t
    <3>5. OwnOrCommitted(d)'
      BY <3>1, <3>2, <3>3, <1>5 DEF OwnOrCommitted, AfterOrg, AfterUser, Org, insertUser, Unwritten
    <3>6. InsertedMembership(d)'
      BY <3>1, <3>2 DEF InsertedMembership
    <3> QED
      BY <1>5, <3>1, <3>2, <3>4, <3>5, <3>6, UnwrittenStep DEF insertUser
  <2> QED
    BY <2>1, <2>2
<1>6. ASSUME NEW d \in Deliveries, readMembership(d) PROVE ProvisionInv'
  <2> DEFINE at == IF Key(d) \in DOMAIN roles THEN "commit" ELSE "insertMembership"
  <2>1. at \in Stages \ {"idle"} /\ at \in AfterOrg /\ delivery[d].role = "none"
    BY <1>6 DEF readMembership, Stages, AfterOrg, InsertedMembership
  <2>2. delivery[d].newUser \/ User(d) \in users
    BY <1>6 DEF readMembership, OwnOrCommitted, AfterUser
  <2>3. delivery[d].at \in AfterOrg /\ Proceeds(d, at) /\ (at = "commit" => Key(d) \in DOMAIN roles)
    BY <1>6 DEF readMembership, AfterOrg
  <2> HIDE DEF at
  <2> QED
    BY <1>6, <2>1, <2>2, <2>3, ProceedsStep DEF readMembership
<1>7. ASSUME NEW d \in Deliveries, insertMembership(d) PROVE ProvisionInv'
  <2>1. CASE Key(d) \in DOMAIN roles
    BY <1>7, <2>1, EndsStep DEF insertMembership
  <2>2. CASE Key(d) \notin DOMAIN roles
    <3> DEFINE t == [delivery[d] EXCEPT !.role = RoleFor(d), !.at = "commit"]
    <3> USE DEF ProvisionTypeOK
    <3>1. /\ t \in Deliver /\ t.at = "commit" /\ t.event = delivery[d].event
          /\ t.newUser = delivery[d].newUser /\ t.newOrg = delivery[d].newOrg
          /\ t.role # "none" /\ t.event \in Events /\ (t.newOrg => t.role = "ADMIN")
      BY <1>7 DEF insertMembership, Deliver, Stages, RoleFor
    <3>2. delivery' = [delivery EXCEPT ![d] = t] /\ delivery'[d] = t
      BY <1>7, <2>2 DEF insertMembership
    <3>3. delivery[d].at \in AfterOrg /\ delivery[d].at \in AfterUser
      BY <1>7 DEF insertMembership, AfterOrg, AfterUser
    <3>4. t.newOrg => \A e \in Deliveries \ {d} : delivery[e].newOrg => Org(e) # t.event.org
      BY <3>1 DEF KeysAreHeldOnce, Org
    <3>5. \A e \in Deliveries \ {d} : delivery[e].role # "none"
              => Key(e) # <<t.event.org, t.event.user>>
      <4> SUFFICES ASSUME NEW e \in Deliveries \ {d}, delivery[e].role # "none"
                   PROVE  Key(e) # <<t.event.org, t.event.user>>
        OBVIOUS
      <4>1. e \in Others(d)
        BY DEF Others, InsertedMembership
      <4> QED
        BY <4>1, <3>1, <1>7 DEF insertMembership, Key, Org, User
    <3> HIDE DEF t
    <3>6. OwnOrCommitted(d)'
      BY <3>1, <3>2, <3>3, <1>7 DEF OwnOrCommitted, AfterOrg, AfterUser, Org, User,
         insertMembership, Unwritten
    <3>7. InsertedMembership(d)'
      BY <3>1, <3>2, <2>2, <1>7 DEF InsertedMembership, Key, Org, User, insertMembership, Unwritten
    <3> QED
      BY <1>7, <3>1, <3>2, <3>4, <3>5, <3>6, <3>7, UnwrittenStep DEF insertMembership
  <2> QED
    BY <2>1, <2>2
<1>8. ASSUME NEW d \in Deliveries, commit(d) PROVE ProvisionInv'
  BY <1>8, CommitStep
<1>9. ASSUME NEW d \in Deliveries, rollback(d) PROVE ProvisionInv'
  BY <1>9, EndsStep DEF rollback
<1>10. CASE UNCHANGED provisionVars
  BY <1>10 DEF provisionVars, ProvisionTypeOK, OwnOrCommitted, InsertedMembership,
     KeysAreHeldOnce, MembersOfCommitted, NamedOrgs, HasAdmin, Org, User, Key
<1> QED
  BY <1>1, <1>2, <1>3, <1>4, <1>5, <1>6, <1>7, <1>8, <1>9, <1>10 DEF ProvisionNext

LEMMA AdminsAreSessions == ProvisionInv => OrganisationHasAdmin
<1> SUFFICES ASSUME ProvisionInv, NEW o \in DOMAIN slugs
             PROVE  \E u \in users : hasRequiredRole(resolveAuthContext(o, u), {})
  BY DEF OrganisationHasAdmin
<1>1. PICK u \in users : <<o, u>> \in DOMAIN roles /\ roles[<<o, u>>] = "ADMIN"
  BY DEF ProvisionInv, HasAdmin
<1>2. o # "none"
  BY DEF ProvisionInv, NamedOrgs
<1>3. resolveAuthContext(o, u) = "ADMIN"
  BY <1>1, <1>2 DEF resolveAuthContext
<1> QED
  BY <1>1, <1>3 DEF hasRequiredRole

(* Whatever deliveries overlap, repeat or are rolled back, every            *)
(* organisation has a user whose session passes every role check.           *)
THEOREM ProvisioningGivesAnAdmin == ProvisionSpec => []OrganisationHasAdmin
<1>1. ProvisionSpec => []ProvisionInv
  BY ProvisionInvInit, ProvisionInvNext, PTL DEF ProvisionSpec
<1> QED
  BY <1>1, AdminsAreSessions, PTL

(* A committed membership names a committed organisation, and a delivery's  *)
(* own rows keep to their stage: the tables never refer to rows that a      *)
(* rolled back delivery took away.                                          *)
THEOREM ProvisioningKeepsReferences == ProvisionSpec => [](ProvisionTypeOK /\ MembersOfCommitted)
<1>1. ProvisionSpec => []ProvisionInv
  BY ProvisionInvInit, ProvisionInvNext, PTL DEF ProvisionSpec
<1>2. ProvisionInv => ProvisionTypeOK /\ MembersOfCommitted
  BY DEF ProvisionInv
<1> QED
  BY <1>1, <1>2, PTL

-----------------------------------------------------------------------------
(* Housekeeping. *)

Ages == {"absent", "fresh", "old"}
Ranges == {<< >>} \cup {<<Min(candles), Max(candles)>> : candles \in (SUBSET Bars) \ {{}}}
Ingest == [at : {"idle", "put", "record"}, id : Versions \cup {Undefined}, range : Ranges]
Reaping == [at : {"idle", "find", "delete"}, cutoff : SUBSET ObjectKeys, listed : SUBSET ObjectKeys,
            known : SUBSET ObjectKeys, pending : SUBSET {"list", "known"}]

HousekeepingTypeOK ==
    /\ object \in [ObjectKeys -> Ages]
    /\ artefacts \subseteq ObjectKeys
    /\ DOMAIN versions \subseteq Versions
    /\ complete \subseteq Uploads
    /\ ingest \in [Ingests -> Ingest]
    /\ reaper \in Reaping

(* A dataset version has its object and its row, and is no longer being     *)
(* created; one that is being created has a fresh object of its own.        *)
DatasetsAreKept ==
    /\ \A v \in DOMAIN versions : object[v] # "absent" /\ v \in artefacts
    /\ \A i \in Ingests : ingest[i].at = "record" =>
          /\ ingest[i].id \in Versions \ DOMAIN versions
          /\ object[ingest[i].id] = "fresh"
    /\ \A i, j \in Ingests :
          ingest[i].at = "record" /\ ingest[j].at = "record" /\ ingest[i].id = ingest[j].id => i = j

(* What the reaper is about to delete is not a dataset version.             *)
ReaperSparesDatasets ==
    /\ reaper.at = "find" =>
          /\ \A k \in reaper.cutoff \cap Versions : object[k] = "old"
          /\ reaper.listed \cap Versions \subseteq reaper.cutoff
          /\ "known" \notin reaper.pending => reaper.cutoff \cap DOMAIN versions \subseteq reaper.known
    /\ reaper.at = "delete" =>
          \A k \in reaper.listed \cap Versions : object[k] = "old" /\ k \notin DOMAIN versions

HousekeepingInv == HousekeepingTypeOK /\ DatasetsAreKept /\ ReaperSparesDatasets

LEMMA HousekeepingInvInit == HousekeepingInit => HousekeepingInv
<1> SUFFICES ASSUME HousekeepingInit PROVE HousekeepingInv
  OBVIOUS
<1>1. HousekeepingTypeOK
  BY DEF HousekeepingInit, HousekeepingTypeOK, NoIngest, NoReaping, Ages, Ingest, Ranges, Reaping
<1>2. DatasetsAreKept /\ ReaperSparesDatasets
  BY DEF HousekeepingInit, NoIngest, NoReaping, DatasetsAreKept, ReaperSparesDatasets
<1> QED
  BY <1>1, <1>2 DEF HousekeepingInv

LEMMA UploadSteps ==
    ASSUME HousekeepingInv, NEW k \in Uploads,
           putUpload(k) \/ fetchUploaded(k) \/ recordUploaded(k)
    PROVE  HousekeepingInv'
<1> USE DEF HousekeepingInv
<1>0. k \in ObjectKeys /\ k \notin Versions
  BY KeysAssumption DEF ObjectKeys
<1>1. CASE putUpload(k)
  <2>1. HousekeepingTypeOK'
    BY <1>0, <1>1 DEF putUpload, HousekeepingTypeOK, Ages, Reaping
  <2>2. \A v \in Versions : object'[v] = object[v]
    BY <1>0, <1>1 DEF putUpload, HousekeepingTypeOK, ObjectKeys
  <2>3. /\ reaper'.at = reaper.at /\ reaper'.listed = reaper.listed
        /\ reaper'.known = reaper.known /\ reaper'.pending = reaper.pending
        /\ reaper'.cutoff = reaper.cutoff \ {k}
    BY <1>1 DEF putUpload, HousekeepingTypeOK, Reaping
  <2>4. UNCHANGED <<versions, artefacts, ingest>>
    BY <1>1 DEF putUpload
  <2>5. DatasetsAreKept'
    BY <2>2, <2>4 DEF DatasetsAreKept, HousekeepingTypeOK
  <2>6. ReaperSparesDatasets'
    BY <1>0, <2>2, <2>3, <2>4 DEF ReaperSparesDatasets
  <2> QED
    BY <2>1, <2>5, <2>6
<1>2. CASE fetchUploaded(k) \/ recordUploaded(k)
  <2>1. HousekeepingTypeOK'
    BY <1>0, <1>2 DEF fetchUploaded, recordUploaded, HousekeepingTypeOK
  <2>2. artefacts \subseteq artefacts' /\ UNCHANGED <<object, versions, ingest, reaper>>
    BY <1>2 DEF fetchUploaded, recordUploaded
  <2>3. DatasetsAreKept' /\ ReaperSparesDatasets'
    BY <2>2 DEF DatasetsAreKept, ReaperSparesDatasets
  <2> QED
    BY <2>1, <2>3
<1> QED
  BY <1>1, <1>2

LEMMA GrowStep ==
    ASSUME HousekeepingInv, NEW k \in ObjectKeys, grow(k)
    PROVE  HousekeepingInv'
<1> USE DEF HousekeepingInv
<1>1. /\ object' = [object EXCEPT ![k] = "old"] /\ object[k] = "fresh"
      /\ \A i \in Ingests : ingest[i].at = "record" => ingest[i].id # k
      /\ UNCHANGED <<artefacts, versions, complete, ingest, reaper>>
  BY DEF grow, InCreation
<1>2. HousekeepingTypeOK'
  BY <1>1 DEF HousekeepingTypeOK, Ages
<1>3. object'[k] = "old" /\ \A l \in ObjectKeys \ {k} : object'[l] = object[l]
  BY <1>1 DEF HousekeepingTypeOK
<1>4. DatasetsAreKept'
  BY <1>1, <1>3 DEF DatasetsAreKept, HousekeepingTypeOK, ObjectKeys
<1>5. ReaperSparesDatasets'
  BY <1>1, <1>3 DEF ReaperSparesDatasets, HousekeepingTypeOK, ObjectKeys
<1> QED
  BY <1>2, <1>4, <1>5

LEMMA IngestSteps ==
    ASSUME HousekeepingInv, NEW i \in Ingests,
           \/ fetchCandles(i) \/ recordDataset(i) \/ failIngest(i)
           \/ \E v \in Versions : putDataset(i, v)
    PROVE  HousekeepingInv'
<1> USE DEF HousekeepingInv
<1>0. ingest \in [Ingests -> Ingest] /\ ingest[i] \in Ingest /\ Versions \subseteq ObjectKeys
  BY DEF HousekeepingTypeOK, ObjectKeys
<1>1. CASE fetchCandles(i)
  <2> DEFINE candles == fetchCoinbaseCandles(RangeOf[i][1], RangeOf[i][2])
             range == <<Min(candles), Max(candles)>>
             t == [ingest[i] EXCEPT !.at = "put", !.range = range]
  <2>0. candles \subseteq Bars
    BY DEF fetchCoinbaseCandles
  <2>1. candles # {}
    BY <1>1, Zenon DEF fetchCandles
  <2>2. range \in Ranges
    <3> HIDE DEF candles
    <3>1. candles \in (SUBSET Bars) \ {{}}
      BY <2>0, <2>1
    <3> QED
      BY <3>1 DEF Ranges
  <2>3. ingest' = [ingest EXCEPT ![i] = t]
    BY <1>0, <1>1 DEF fetchCandles
  <2> HIDE DEF range, candles
  <2>4. t \in Ingest /\ t.at = "put"
    BY <1>0, <2>2 DEF Ingest
  <2> HIDE DEF t
  <2>5. UNCHANGED <<object, artefacts, versions, complete, reaper>>
    BY <1>1 DEF fetchCandles
  <2>6. HousekeepingTypeOK'
    BY <2>3, <2>4, <2>5 DEF HousekeepingTypeOK
  <2>7. DatasetsAreKept' /\ ReaperSparesDatasets'
    BY <2>3, <2>4, <2>5, <1>0 DEF DatasetsAreKept, ReaperSparesDatasets
  <2> QED
    BY <2>6, <2>7
<1>2. ASSUME NEW v \in Versions, putDataset(i, v) PROVE HousekeepingInv'
  <2> DEFINE t == [ingest[i] EXCEPT !.at = "record", !.id = v]
  <2>1. t \in Ingest /\ t.at = "record" /\ t.id = v
    BY <1>0 DEF Ingest
  <2>2. /\ ingest' = [ingest EXCEPT ![i] = t]
        /\ object' = [object EXCEPT ![v] = "fresh"] /\ object[v] = "absent"
        /\ v \notin DOMAIN versions
        /\ \A j \in Ingests : ingest[j].at = "record" => ingest[j].id # v
        /\ UNCHANGED <<artefacts, versions, complete, reaper>>
    BY <1>0, <1>2 DEF putDataset, InCreation
  <2> HIDE DEF t
  <2>3. HousekeepingTypeOK'
    BY <2>1, <2>2, <1>0 DEF HousekeepingTypeOK, Ages
  <2>4. object'[v] = "fresh" /\ \A k \in ObjectKeys \ {v} : object'[k] = object[k]
    BY <2>2, <1>0 DEF HousekeepingTypeOK
  <2>5. DatasetsAreKept'
    <3>1. \A w \in DOMAIN versions' : object'[w] # "absent" /\ w \in artefacts'
      BY <2>2, <2>4, <1>0 DEF DatasetsAreKept, HousekeepingTypeOK
    <3>2. ingest'[i] = t /\ \A j \in Ingests \ {i} : ingest'[j] = ingest[j]
      BY <2>2, <1>0
    <3>3. \A j \in Ingests : ingest'[j].at = "record" =>
              ingest'[j].id \in Versions \ DOMAIN versions' /\ object'[ingest'[j].id] = "fresh"
      BY <2>1, <2>2, <2>4, <3>2, <1>0 DEF DatasetsAreKept
    <3>4. \A j, l \in Ingests : ingest'[j].at = "record" /\ ingest'[l].at = "record"
                                /\ ingest'[j].id = ingest'[l].id => j = l
      BY <2>1, <2>2, <3>2 DEF DatasetsAreKept
    <3> QED
      BY <3>1, <3>3, <3>4 DEF DatasetsAreKept
  <2>6. ReaperSparesDatasets'
    BY <2>2, <2>4, <1>0 DEF ReaperSparesDatasets, HousekeepingTypeOK
  <2> QED
    BY <2>3, <2>5, <2>6
<1>3. CASE recordDataset(i)
  <2> DEFINE v == ingest[i].id
  <2>1. v \in Versions /\ v \notin DOMAIN versions /\ object[v] = "fresh" /\ ingest[i].at = "record"
    BY <1>3 DEF recordDataset, DatasetsAreKept
  <2>2. /\ artefacts' = artefacts \cup {v} /\ DOMAIN versions' = DOMAIN versions \cup {v}
        /\ ingest' = [ingest EXCEPT ![i] = NoIngest]
        /\ UNCHANGED <<object, complete, reaper>>
    BY <1>3 DEF recordDataset
  <2>3. NoIngest \in Ingest /\ NoIngest.at = "idle"
    BY DEF NoIngest, Ingest, Ranges
  <2>4. HousekeepingTypeOK'
    BY <2>1, <2>2, <2>3, <1>0 DEF HousekeepingTypeOK
  <2>5. ingest'[i] = NoIngest /\ \A j \in Ingests \ {i} : ingest'[j] = ingest[j]
    BY <2>2, <1>0
  <2>6. DatasetsAreKept'
    <3>1. \A w \in DOMAIN versions' : object'[w] # "absent" /\ w \in artefacts'
      BY <2>1, <2>2 DEF DatasetsAreKept
    <3>2. \A j \in Ingests : ingest'[j].at = "record" =>
              ingest'[j].id \in Versions \ DOMAIN versions' /\ object'[ingest'[j].id] = "fresh"
      BY <2>1, <2>2, <2>3, <2>5 DEF DatasetsAreKept
    <3>3. \A j, l \in Ingests : ingest'[j].at = "record" /\ ingest'[l].at = "record"
                                /\ ingest'[j].id = ingest'[l].id => j = l
      BY <2>3, <2>5 DEF DatasetsAreKept
    <3> QED
      BY <3>1, <3>2, <3>3 DEF DatasetsAreKept
  <2>7. ReaperSparesDatasets'
    <3>1. reaper.at = "find" => v \notin reaper.cutoff
      BY <2>1 DEF ReaperSparesDatasets
    <3>2. reaper.at = "delete" => v \notin reaper.listed
      BY <2>1 DEF ReaperSparesDatasets
    <3> HIDE DEF v
    <3> QED
      BY <2>2, <3>1, <3>2 DEF ReaperSparesDatasets
  <2> QED
    BY <2>4, <2>6, <2>7
<1>4. CASE failIngest(i)
  <2>1. NoIngest \in Ingest /\ NoIngest.at = "idle"
    BY DEF NoIngest, Ingest, Ranges
  <2>2. ingest' = [ingest EXCEPT ![i] = NoIngest]
        /\ UNCHANGED <<object, artefacts, versions, complete, reaper>>
    BY <1>4 DEF failIngest
  <2>3. HousekeepingTypeOK'
    BY <2>1, <2>2, <1>0 DEF HousekeepingTypeOK
  <2>4. DatasetsAreKept' /\ ReaperSparesDatasets'
    BY <2>1, <2>2, <1>0 DEF DatasetsAreKept, ReaperSparesDatasets
  <2> QED
    BY <2>3, <2>4
<1> QED
  BY <1>1, <1>2, <1>3, <1>4

LEMMA ReaperSteps ==
    ASSUME HousekeepingInv, ReaperNext
    PROVE  HousekeepingInv'
<1> USE DEF HousekeepingInv
<1>0. reaper \in Reaping /\ DOMAIN versions \subseteq Versions /\ Versions \subseteq ObjectKeys
  BY DEF HousekeepingTypeOK, ObjectKeys
<1>1. CASE startReaping \/ endReaping \/ \E dryRun \in BOOLEAN : findAbandonedUploads(dryRun)
  <2>0. UNCHANGED <<object, artefacts, versions, complete, ingest>>
    BY <1>1 DEF startReaping, endReaping, findAbandonedUploads, storeVars
  <2>1. reaper' \in Reaping /\ ReaperSparesDatasets'
    <3>1. CASE startReaping
      BY <3>1, <2>0 DEF startReaping, NoReaping, Reaping, abandonedSince, ReaperSparesDatasets
    <3>2. CASE endReaping
      BY <3>2 DEF endReaping, NoReaping, Reaping, ReaperSparesDatasets
    <3>3. ASSUME NEW dryRun \in BOOLEAN, findAbandonedUploads(dryRun)
          PROVE  reaper' \in Reaping /\ ReaperSparesDatasets'
      <4>1. CASE dryRun
        BY <3>3, <4>1 DEF findAbandonedUploads, NoReaping, Reaping, ReaperSparesDatasets
      <4>2. CASE ~dryRun
        <5>1. /\ reaper.at = "find" /\ reaper.pending = {}
              /\ reaper' = [NoReaping EXCEPT !.at = "delete", !.listed = reaper.listed \ reaper.known]
          BY <3>3, <4>2 DEF findAbandonedUploads
        <5>2. /\ reaper' \in Reaping /\ reaper'.at = "delete"
              /\ reaper'.listed = reaper.listed \ reaper.known
          BY <5>1, <1>0 DEF NoReaping, Reaping
        <5>3. \A k \in (reaper.listed \ reaper.known) \cap Versions :
                  object[k] = "old" /\ k \notin DOMAIN versions
          BY <5>1, <1>0 DEF ReaperSparesDatasets
        <5> QED
          BY <5>2, <5>3, <2>0 DEF ReaperSparesDatasets
      <4> QED
        BY <4>1, <4>2
    <3> QED
      BY <1>1, <3>1, <3>2, <3>3
  <2>2. HousekeepingTypeOK' /\ DatasetsAreKept'
    BY <2>0, <2>1 DEF HousekeepingTypeOK, DatasetsAreKept
  <2> QED
    BY <2>1, <2>2
<1>2. CASE listAllObjects \/ readKnown
  <2>0. UNCHANGED <<object, artefacts, versions, complete, ingest>>
    BY <1>2 DEF listAllObjects, readKnown, storeVars
  <2>1. reaper' \in Reaping /\ ReaperSparesDatasets'
    <3>1. CASE listAllObjects
      <4> DEFINE listed == {k \in reaper.cutoff : object[k] # "absent"}
      <4>1. /\ reaper' \in Reaping /\ reaper'.listed = listed /\ reaper'.at = "find"
            /\ reaper'.cutoff = reaper.cutoff /\ reaper'.known = reaper.known
            /\ reaper'.pending = reaper.pending \ {"list"} /\ reaper.at = "find"
        BY <3>1, <1>0 DEF listAllObjects, Reaping
      <4> QED
        BY <4>1, <2>0 DEF ReaperSparesDatasets
    <3>2. CASE readKnown
      <4>1. /\ reaper' \in Reaping /\ reaper'.known = artefacts /\ reaper'.at = "find"
            /\ reaper'.cutoff = reaper.cutoff /\ reaper'.listed = reaper.listed /\ reaper.at = "find"
        BY <3>2, <1>0 DEF readKnown, Reaping, HousekeepingTypeOK
      <4>2. DOMAIN versions \subseteq artefacts
        BY DEF DatasetsAreKept
      <4> QED
        BY <4>1, <4>2, <2>0 DEF ReaperSparesDatasets
    <3> QED
      BY <1>2, <3>1, <3>2
  <2>2. HousekeepingTypeOK' /\ DatasetsAreKept'
    BY <2>0, <2>1 DEF HousekeepingTypeOK, DatasetsAreKept
  <2> QED
    BY <2>1, <2>2
<1>3. ASSUME NEW k \in ObjectKeys, reapAbandonedUploads(k) PROVE HousekeepingInv'
  <2>1. /\ reaper.at = "delete" /\ k \in reaper.listed
        /\ object' = [object EXCEPT ![k] = "absent"]
        /\ UNCHANGED <<artefacts, versions, complete, ingest>>
    BY <1>3 DEF reapAbandonedUploads
  <2>2. /\ reaper' \in Reaping /\ reaper'.at = "delete" /\ reaper'.listed = reaper.listed \ {k}
    BY <1>3, <1>0 DEF reapAbandonedUploads, Reaping
  <2>3. HousekeepingTypeOK'
    BY <2>1, <2>2 DEF HousekeepingTypeOK, Ages
  <2>4. \A l \in ObjectKeys \ {k} : object'[l] = object[l]
    BY <2>1 DEF HousekeepingTypeOK
  <2>5. k \in Versions => object[k] = "old" /\ k \notin DOMAIN versions
    BY <2>1 DEF ReaperSparesDatasets
  <2>6. DatasetsAreKept'
    BY <2>1, <2>4, <2>5, <1>0 DEF DatasetsAreKept
  <2>7. ReaperSparesDatasets'
    BY <2>1, <2>2, <2>4, <1>0 DEF ReaperSparesDatasets
  <2> QED
    BY <2>3, <2>6, <2>7
<1> QED
  BY <1>1, <1>2, <1>3 DEF ReaperNext

LEMMA HousekeepingInvNext == HousekeepingInv /\ [HousekeepingNext]_housekeepingVars => HousekeepingInv'
<1> SUFFICES ASSUME HousekeepingInv, [HousekeepingNext]_housekeepingVars PROVE HousekeepingInv'
  OBVIOUS
<1>1. CASE UploadNext
  BY <1>1, UploadSteps DEF UploadNext
<1>2. CASE IngestNext
  BY <1>2, IngestSteps DEF IngestNext
<1>3. CASE ReaperNext
  BY <1>3, ReaperSteps
<1>4. CASE SweepNext \/ UNCHANGED housekeepingVars
  <2>1. UNCHANGED <<object, artefacts, versions, complete, ingest, reaper>>
    BY <1>4 DEF SweepNext, startSweep, failSweep, switchDeployment, sweepHealthSnapshots,
       storeVars, housekeepingVars
  <2> QED
    BY <2>1 DEF HousekeepingInv, HousekeepingTypeOK, DatasetsAreKept, ReaperSparesDatasets
<1>5. ASSUME NEW k \in ObjectKeys, grow(k) PROVE HousekeepingInv'
  BY <1>5, GrowStep
<1> QED
  BY <1>1, <1>2, <1>3, <1>4, <1>5 DEF HousekeepingNext

(* Every dataset version can be read back, whatever the reaper does between *)
(* the put of its object and the commit of its rows.                        *)
THEOREM DatasetsCanBeRead == HousekeepingSpec => []RecordedDatasetIsKept
<1>1. HousekeepingSpec => []HousekeepingInv
  BY HousekeepingInvInit, HousekeepingInvNext, PTL DEF HousekeepingSpec
<1>2. HousekeepingInv => RecordedDatasetIsKept
  BY DEF HousekeepingInv, DatasetsAreKept, RecordedDatasetIsKept, loadDatasetBars
<1> QED
  BY <1>1, <1>2, PTL

-----------------------------------------------------------------------------
(* Research tasks and practice runs. *)

Statuses == {"NONE", "QUEUED", "RUNNING", "SUCCEEDED", "FAILED_TERMINAL"}
JobRecords == [state : {"none", "waiting", "active", "done", "failed"}, failures : Nat, stalls : Nat]
Executions ==
    [at : {"idle", "read", "mark", "generate", "store", "acknowledge", "throw"}, item : Items \cup {NoItem},
     retried : BOOLEAN, answer : {"none", "result", "issues"}, owns : BOOLEAN]

ResearchTypeOK ==
    /\ status \in [Items -> Statuses]
    /\ output \in [Items -> {"none", "result", "issues"}]
    /\ job \in [Items -> JobRecords]
    /\ exec \in [Workers -> Executions]

(* What an execution knows of its item, and the lock it holds.              *)
ExecutionSound(w) ==
    /\ exec[w].at # "idle" => exec[w].item \in Items
    /\ exec[w].owns => exec[w].at # "idle" /\ job[exec[w].item].state = "active"
    /\ exec[w].at = "store" => exec[w].answer # "none"
    /\ exec[w].at = "acknowledge" => output[exec[w].item] # "none"

LocksAreHeldOnce ==
    \A w, v \in Workers : w # v /\ exec[w].owns /\ exec[v].owns => exec[w].item # exec[v].item

NoJobBeforeTheRow == \A i \in Items : status[i] = "NONE" => job[i].state = "none"

ResearchInv ==
    /\ ResearchTypeOK
    /\ \A w \in Workers : ExecutionSound(w)
    /\ LocksAreHeldOnce
    /\ NoJobBeforeTheRow
    /\ OutcomesAreStored

(* A step of one worker: the others' executions stay, and their items keep  *)
(* their output, and their jobs while they own them.                        *)
LEMMA OneWorkerMoves ==
    ASSUME ResearchInv, NEW w \in Workers, NEW x \in Executions, exec' = [exec EXCEPT ![w] = x],
           job' \in [Items -> JobRecords], output' \in [Items -> {"none", "result", "issues"}],
           \A i \in Items : output[i] # "none" => output'[i] # "none",
           \A i \in Items : job'[i].state = job[i].state \/ (exec[w].owns /\ exec[w].item = i) \/ job[i].state # "active",
           x.at # "idle" => x.item \in Items,
           x.owns => x.at # "idle" /\ job'[x.item].state = "active",
           x.owns => (exec[w].owns /\ x.item = exec[w].item) \/ job[x.item].state # "active",
           x.at = "store" => x.answer # "none",
           x.at = "acknowledge" => output'[x.item] # "none"
    PROVE  exec' \in [Workers -> Executions] /\ (\A v \in Workers : ExecutionSound(v)') /\ LocksAreHeldOnce'
<1>1. exec \in [Workers -> Executions] /\ exec'[w] = x
  BY DEF ResearchInv, ResearchTypeOK
<1>2. ASSUME NEW v \in Workers, v # w PROVE exec'[v] = exec[v]
  BY <1>1, <1>2
<1>3. exec' \in [Workers -> Executions]
  BY <1>1
<1>4. ASSUME NEW v \in Workers PROVE ExecutionSound(v)'
  <2>1. CASE v = w
    BY <1>1, <2>1 DEF ExecutionSound
  <2>2. CASE v # w
    <3>1. exec'[v] = exec[v] /\ ExecutionSound(v)
      BY <1>2, <2>2 DEF ResearchInv
    <3>2. exec[v].owns => job'[exec[v].item].state = "active"
      BY <2>2, <3>1 DEF ResearchInv, LocksAreHeldOnce, ExecutionSound
    <3>3. exec[v].at = "acknowledge" => output'[exec[v].item] # "none"
      BY <3>1 DEF ExecutionSound
    <3> QED
      BY <3>1, <3>2, <3>3 DEF ExecutionSound
  <2> QED
    BY <2>1, <2>2
<1>5. ASSUME NEW v \in Workers, v # w, x.owns, exec[v].owns PROVE exec[v].item # x.item
  <2>1. job[exec[v].item].state = "active"
    BY <1>5 DEF ResearchInv, ExecutionSound
  <2> QED
    BY <1>5, <2>1 DEF ResearchInv, LocksAreHeldOnce
<1>6. LocksAreHeldOnce'
  BY <1>1, <1>2, <1>5 DEF ResearchInv, LocksAreHeldOnce
<1> QED
  BY <1>3, <1>4, <1>6

(* No row, no job, no execution. *)
LEMMA ResearchStarts == ResearchInit => ResearchInv
BY DEF ResearchInit, ResearchInv, ResearchTypeOK, Statuses, JobRecords, Executions, NoExec, ExecutionSound,
       LocksAreHeldOnce, NoJobBeforeTheRow, OutcomesAreStored

(* The row and its job appear together. *)
LEMMA StoreItemPreserves ==
    ASSUME ResearchInv, NEW i \in Items, storeItem(i)
    PROVE  ResearchInv'
<1>1. PICK j : j = [job[i] EXCEPT !.state = "waiting"]
  OBVIOUS
<1>2. /\ status' = [status EXCEPT ![i] = "QUEUED"] /\ job' = [job EXCEPT ![i] = j]
      /\ UNCHANGED <<output, diagnostics, exec>> /\ status[i] = "NONE"
  BY <1>1 DEF storeItem
<1>3. job \in [Items -> JobRecords] /\ j \in JobRecords /\ j.state = "waiting" /\ job[i].state = "none"
  BY <1>1, <1>2 DEF ResearchInv, ResearchTypeOK, JobRecords, NoJobBeforeTheRow
<1>4. job' \in [Items -> JobRecords] /\ job'[i] = j /\ \A k \in Items : k # i => job'[k] = job[k]
  BY <1>2, <1>3
<1>5. ResearchTypeOK'
  BY <1>2, <1>4 DEF ResearchInv, ResearchTypeOK, Statuses
<1>6. ASSUME NEW w \in Workers PROVE ExecutionSound(w)'
  BY <1>2, <1>3, <1>4 DEF ResearchInv, ExecutionSound
<1>7. LocksAreHeldOnce'
  BY <1>2 DEF ResearchInv, LocksAreHeldOnce
<1>8. NoJobBeforeTheRow' /\ OutcomesAreStored'
  BY <1>2, <1>3, <1>4 DEF ResearchInv, ResearchTypeOK, NoJobBeforeTheRow, OutcomesAreStored
<1> QED
  BY <1>5, <1>6, <1>7, <1>8 DEF ResearchInv

(* A worker takes a waiting job and its lock. *)
LEMMA TakeJobPreserves ==
    ASSUME ResearchInv, NEW w \in Workers, NEW i \in Items, takeJob(w, i)
    PROVE  ResearchInv'
<1>1. PICK x : x = [NoExec EXCEPT !.at = "read", !.item = i, !.owns = TRUE]
  OBVIOUS
<1>2. /\ exec' = [exec EXCEPT ![w] = x] /\ job' = [job EXCEPT ![i].state = "active"]
      /\ UNCHANGED <<status, output, diagnostics>> /\ exec[w].at = "idle" /\ job[i].state = "waiting"
  BY <1>1 DEF takeJob, rowVars
<1>3. x \in Executions /\ x.at = "read" /\ x.item = i /\ x.owns
  BY <1>1 DEF NoExec, Executions
<1>4. /\ job \in [Items -> JobRecords] /\ output \in [Items -> {"none", "result", "issues"}]
      /\ status \in [Items -> Statuses]
  BY DEF ResearchInv, ResearchTypeOK
<1>5. job' \in [Items -> JobRecords] /\ job'[i].state = "active" /\ \A k \in Items : k # i => job'[k] = job[k]
  BY <1>2, <1>4 DEF JobRecords
<1>6. exec' \in [Workers -> Executions] /\ (\A v \in Workers : ExecutionSound(v)') /\ LocksAreHeldOnce'
  BY <1>2, <1>3, <1>4, <1>5, OneWorkerMoves
<1>7. NoJobBeforeTheRow' /\ OutcomesAreStored'
  BY <1>2, <1>5 DEF ResearchInv, NoJobBeforeTheRow, OutcomesAreStored
<1> QED
  BY <1>2, <1>4, <1>5, <1>6, <1>7 DEF ResearchInv, ResearchTypeOK

(* A step that touches no table and no job. *)
LEMMA OnlyMoves ==
    ASSUME ResearchInv, NEW w \in Workers, NEW x \in Executions, exec' = [exec EXCEPT ![w] = x],
           UNCHANGED <<status, output, diagnostics, job>>,
           exec[w].at # "idle", x.item = exec[w].item, x.owns = exec[w].owns, x.at # "idle",
           x.at = "store" => x.answer # "none",
           x.at = "acknowledge" => output[x.item] # "none"
    PROVE  ResearchInv'
<1>1. ResearchTypeOK /\ ExecutionSound(w)
  BY DEF ResearchInv
<1>2. exec' \in [Workers -> Executions] /\ (\A v \in Workers : ExecutionSound(v)') /\ LocksAreHeldOnce'
  <2>1. job' \in [Items -> JobRecords] /\ output' \in [Items -> {"none", "result", "issues"}]
    BY <1>1 DEF ResearchTypeOK
  <2>2. x.owns => job'[x.item].state = "active"
    BY <1>1 DEF ExecutionSound
  <2>3. x.item \in Items
    BY <1>1 DEF ExecutionSound
  <2> QED
    BY <2>1, <2>2, <2>3, OneWorkerMoves
<1> QED
  BY <1>1, <1>2 DEF ResearchInv, ResearchTypeOK, NoJobBeforeTheRow, OutcomesAreStored

(* Only a row with an outcome is acknowledged unread. *)
LEMMA ReadRowPreserves ==
    ASSUME ResearchInv, NEW w \in Workers, readRow(w)
    PROVE  ResearchInv'
<1>1. PICK at : at = IF Terminal(exec[w].item) THEN "acknowledge" ELSE "mark"
  OBVIOUS
<1>2. PICK x : x = [exec[w] EXCEPT !.at = at]
  OBVIOUS
<1>3. exec[w] \in Executions /\ ExecutionSound(w) /\ exec \in [Workers -> Executions]
  BY DEF ResearchInv, ResearchTypeOK
<1>4. exec' = [exec EXCEPT ![w] = x] /\ UNCHANGED <<status, output, diagnostics, job>> /\ exec[w].at = "read"
  BY <1>1, <1>2, <1>3 DEF readRow, MoveTo, rowVars
<1>5. x \in Executions /\ x.at = at /\ x.item = exec[w].item /\ x.owns = exec[w].owns
  BY <1>1, <1>2, <1>3 DEF Executions
<1>6. at = "acknowledge" => output[exec[w].item] # "none"
  BY <1>1, <1>3, <1>4 DEF ResearchInv, Terminal, OutcomesAreStored, ExecutionSound
<1> QED
  BY <1>1, <1>4, <1>5, <1>6, OnlyMoves

(* A row that is marked once more keeps its output. *)
LEMMA MarkRunningPreserves ==
    ASSUME ResearchInv, NEW w \in Workers, markRunning(w)
    PROVE  ResearchInv'
<1>1. PICK at : at = IF exec[w].item \in Prompted THEN "generate" ELSE "throw"
  OBVIOUS
<1>2. PICK x : x = [exec[w] EXCEPT !.at = at]
  OBVIOUS
<1>3. exec[w] \in Executions /\ ExecutionSound(w) /\ exec \in [Workers -> Executions] /\ status \in [Items -> Statuses]
  BY DEF ResearchInv, ResearchTypeOK
<1>4. /\ exec' = [exec EXCEPT ![w] = x] /\ UNCHANGED <<output, diagnostics, job>>
      /\ status' = [status EXCEPT ![exec[w].item] = "RUNNING"] /\ exec[w].at = "mark"
  BY <1>1, <1>2, <1>3 DEF markRunning, MoveTo
<1>5. x \in Executions /\ x.at = at /\ x.item = exec[w].item /\ x.owns = exec[w].owns
  BY <1>1, <1>2, <1>3 DEF Executions
<1>6. status' \in [Items -> Statuses] /\ \A i \in Items : status'[i] # status[i] => status'[i] = "RUNNING"
  BY <1>3, <1>4 DEF Statuses
<1>7. exec' \in [Workers -> Executions] /\ (\A v \in Workers : ExecutionSound(v)') /\ LocksAreHeldOnce'
  <2>1. job' \in [Items -> JobRecords] /\ output' \in [Items -> {"none", "result", "issues"}]
    BY <1>4 DEF ResearchInv, ResearchTypeOK
  <2>2. x.item \in Items /\ (x.owns => job'[x.item].state = "active") /\ x.at \in {"generate", "throw"}
    BY <1>1, <1>3, <1>4, <1>5 DEF ExecutionSound
  <2> QED
    BY <1>4, <1>5, <2>1, <2>2, OneWorkerMoves
<1> QED
  BY <1>4, <1>6, <1>7 DEF ResearchInv, ResearchTypeOK, NoJobBeforeTheRow, OutcomesAreStored

(* The answers of the model provider. *)
LEMMA AgentPreserves ==
    ASSUME ResearchInv, NEW w \in Workers, runStructuredAgent(w)
    PROVE  ResearchInv'
<1>1. exec[w] \in Executions /\ exec \in [Workers -> Executions]
  BY DEF ResearchInv, ResearchTypeOK
<1>2. PICK at \in {"generate", "store", "throw"}, answer \in {"none", "result", "issues"}, retried \in BOOLEAN :
         /\ exec' = [exec EXCEPT ![w] = [exec[w] EXCEPT !.at = at, !.answer = answer, !.retried = retried]]
         /\ at = "store" => answer # "none"
  <2>1. CASE exec' = [exec EXCEPT ![w].at = "store", ![w].answer = "result"]
    <3>1. exec' = [exec EXCEPT ![w] = [exec[w] EXCEPT !.at = "store", !.answer = "result", !.retried = exec[w].retried]]
      BY <1>1, <2>1 DEF Executions
    <3>2. exec[w].retried \in BOOLEAN
      BY <1>1 DEF Executions
    <3> QED
      BY <3>1, <3>2
  <2>2. CASE exec' = [exec EXCEPT ![w].retried = TRUE] /\ exec[w].at = "generate"
    <3>1. exec' = [exec EXCEPT ![w] = [exec[w] EXCEPT !.at = "generate", !.answer = exec[w].answer, !.retried = TRUE]]
      BY <1>1, <2>2 DEF Executions
    <3>2. exec[w].answer \in {"none", "result", "issues"}
      BY <1>1 DEF Executions
    <3> QED
      BY <3>1, <3>2
  <2>3. CASE exec' = [exec EXCEPT ![w].at = "store", ![w].answer = "issues"]
    <3>1. exec' = [exec EXCEPT ![w] = [exec[w] EXCEPT !.at = "store", !.answer = "issues", !.retried = exec[w].retried]]
      BY <1>1, <2>3 DEF Executions
    <3>2. exec[w].retried \in BOOLEAN
      BY <1>1 DEF Executions
    <3> QED
      BY <3>1, <3>2
  <2>4. CASE exec' = [exec EXCEPT ![w].at = "throw"]
    <3>1. exec' = [exec EXCEPT ![w] = [exec[w] EXCEPT !.at = "throw", !.answer = exec[w].answer, !.retried = exec[w].retried]]
      BY <1>1, <2>4 DEF Executions
    <3>2. exec[w].retried \in BOOLEAN /\ exec[w].answer \in {"none", "result", "issues"}
      BY <1>1 DEF Executions
    <3> QED
      BY <3>1, <3>2
  <2> QED
    BY <2>1, <2>2, <2>3, <2>4 DEF runStructuredAgent, MoveTo
<1>3. PICK x : x = [exec[w] EXCEPT !.at = at, !.answer = answer, !.retried = retried]
  OBVIOUS
<1>4. x \in Executions /\ x.at = at /\ x.answer = answer /\ x.item = exec[w].item /\ x.owns = exec[w].owns
  BY <1>1, <1>3 DEF Executions
<1>5. UNCHANGED <<status, output, diagnostics, job>> /\ exec[w].at = "generate"
  BY DEF runStructuredAgent, rowVars
<1> QED
  BY <1>2, <1>3, <1>4, <1>5, OnlyMoves

(* Status, output and diagnostics in one transaction. *)
LEMMA StoreOutcomePreserves ==
    ASSUME ResearchInv, NEW w \in Workers, storeOutcome(w)
    PROVE  ResearchInv'
<1>1. PICK i : i = exec[w].item
  OBVIOUS
<1>2. PICK x : x = [exec[w] EXCEPT !.at = "acknowledge"]
  OBVIOUS
<1>3. /\ exec[w] \in Executions /\ ExecutionSound(w) /\ exec \in [Workers -> Executions]
      /\ status \in [Items -> Statuses] /\ output \in [Items -> {"none", "result", "issues"}]
  BY DEF ResearchInv, ResearchTypeOK
<1>4. /\ exec' = [exec EXCEPT ![w] = x] /\ UNCHANGED job /\ exec[w].at = "store"
      /\ status' = [status EXCEPT ![i] = IF exec[w].answer = "result" THEN "SUCCEEDED" ELSE "FAILED_TERMINAL"]
      /\ output' = [output EXCEPT ![i] = exec[w].answer]
      /\ diagnostics' = diagnostics \cup ({i} \cap Tasks)
  BY <1>1, <1>2, <1>3 DEF storeOutcome, MoveTo
<1>5. /\ x \in Executions /\ x.at = "acknowledge" /\ x.item = i /\ x.owns = exec[w].owns
      /\ i \in Items /\ exec[w].answer \in {"result", "issues"}
  BY <1>1, <1>2, <1>3, <1>4 DEF Executions, ExecutionSound
<1>6. /\ status' \in [Items -> Statuses] /\ output' \in [Items -> {"none", "result", "issues"}]
      /\ output'[i] = exec[w].answer
      /\ status'[i] = IF exec[w].answer = "result" THEN "SUCCEEDED" ELSE "FAILED_TERMINAL"
      /\ \A k \in Items : k # i => status'[k] = status[k] /\ output'[k] = output[k]
  BY <1>3, <1>4, <1>5 DEF Statuses
<1>7. exec' \in [Workers -> Executions] /\ (\A v \in Workers : ExecutionSound(v)') /\ LocksAreHeldOnce'
  <2>1. job' \in [Items -> JobRecords] /\ (x.owns => job'[x.item].state = "active")
    BY <1>1, <1>3, <1>4, <1>5 DEF ResearchInv, ResearchTypeOK, ExecutionSound
  <2>2. \A k \in Items : output[k] # "none" => output'[k] # "none"
    BY <1>5, <1>6
  <2> QED
    BY <1>1, <1>4, <1>5, <1>6, <2>1, <2>2, OneWorkerMoves
<1>8. OutcomesAreStored'
  <2> SUFFICES ASSUME NEW k \in Items
               PROVE  /\ job'[k].state = "done" => output'[k] # "none"
                      /\ status'[k] = "SUCCEEDED" => output'[k] = "result"
                      /\ status'[k] = "FAILED_TERMINAL" => output'[k] = "issues"
                      /\ output'[k] # "none" => (k \in Tasks => k \in diagnostics')
    BY DEF OutcomesAreStored
  <2>1. CASE k = i
    BY <1>4, <1>5, <1>6, <2>1
  <2>2. CASE k # i
    BY <1>4, <1>6, <2>2 DEF ResearchInv, OutcomesAreStored
  <2> QED
    BY <2>1, <2>2
<1>9. NoJobBeforeTheRow'
  BY <1>4, <1>5, <1>6 DEF ResearchInv, NoJobBeforeTheRow
<1> QED
  BY <1>4, <1>6, <1>7, <1>8, <1>9 DEF ResearchInv, ResearchTypeOK

(* A worker gives its lock back, or loses it. *)
LEMMA LockReleased ==
    ASSUME ResearchInv, NEW w \in Workers, NEW x \in Executions, exec' = [exec EXCEPT ![w] = x],
           UNCHANGED <<status, output, diagnostics>>, job' \in [Items -> JobRecords],
           exec[w].at # "idle", ~x.owns,
           x.at = "idle" \/ (x.at = exec[w].at /\ x.item = exec[w].item /\ x.answer = exec[w].answer),
           \A i \in Items : job'[i] = job[i] \/ (exec[w].owns /\ exec[w].item = i),
           job'[exec[w].item].state # "done" \/ output[exec[w].item] # "none" \/ ~exec[w].owns
    PROVE  ResearchInv'
<1>1. ResearchTypeOK /\ ExecutionSound(w)
  BY DEF ResearchInv
<1>2. exec' \in [Workers -> Executions] /\ (\A v \in Workers : ExecutionSound(v)') /\ LocksAreHeldOnce'
  <2>1. output' \in [Items -> {"none", "result", "issues"}]
    BY <1>1 DEF ResearchTypeOK
  <2>2. /\ x.at # "idle" => x.item \in Items
        /\ x.at = "store" => x.answer # "none"
        /\ x.at = "acknowledge" => output'[x.item] # "none"
    BY <1>1 DEF ExecutionSound
  <2>3. \A i \in Items : job'[i].state = job[i].state \/ (exec[w].owns /\ exec[w].item = i) \/ job[i].state # "active"
    OBVIOUS
  <2> QED
    BY <2>1, <2>2, <2>3, OneWorkerMoves
<1>3. NoJobBeforeTheRow'
  BY <1>1 DEF ResearchInv, NoJobBeforeTheRow, ExecutionSound
<1>4. OutcomesAreStored'
  BY DEF ResearchInv, OutcomesAreStored
<1> QED
  BY <1>1, <1>2, <1>3, <1>4 DEF ResearchInv, ResearchTypeOK

(* A job is acknowledged after its outcome was stored. *)
LEMMA ReleasesPreserve ==
    ASSUME ResearchInv, NEW w \in Workers, acknowledge(w) \/ throw(w) \/ loseLock(w) \/ crash(w)
    PROVE  ResearchInv'
<1>1. PICK i : i = exec[w].item
  OBVIOUS
<1>2. /\ exec[w] \in Executions /\ ExecutionSound(w) /\ exec \in [Workers -> Executions]
      /\ job \in [Items -> JobRecords]
  BY DEF ResearchInv, ResearchTypeOK
<1>3. UNCHANGED <<status, output, diagnostics>> /\ exec[w].at # "idle" /\ i \in Items
  BY <1>1, <1>2 DEF acknowledge, throw, loseLock, crash, MayStall, rowVars, ExecutionSound
<1>4. job[i] \in JobRecords /\ job[i].failures \in Nat /\ job[i].stalls \in Nat
  BY <1>2, <1>3 DEF JobRecords
<1>5. NoExec \in Executions /\ NoExec.at = "idle" /\ ~NoExec.owns
  BY DEF NoExec, Executions
<1>6. PICK j \in JobRecords : /\ job' = job \/ (exec[w].owns /\ job' = [job EXCEPT ![i] = j])
                              /\ j.state # "done" \/ output[i] # "none"
  <2>1. CASE acknowledge(w)
    <3>1. PICK j : j = [job[i] EXCEPT !.state = "done"]
      OBVIOUS
    <3>2. j \in JobRecords
      BY <1>4, <3>1 DEF JobRecords
    <3>3. job' = job \/ (exec[w].owns /\ job' = [job EXCEPT ![i] = j])
      BY <1>1, <1>2, <2>1, <3>1 DEF acknowledge
    <3>4. output[i] # "none"
      BY <1>1, <1>2, <2>1 DEF acknowledge, ExecutionSound
    <3> QED
      BY <3>2, <3>3, <3>4
  <2>2. CASE throw(w)
    <3>1. PICK state : state = IF job[i].failures + 1 < MaxAttempts THEN "waiting" ELSE "failed"
      OBVIOUS
    <3>2. PICK j : j = [job[i] EXCEPT !.failures = job[i].failures + 1, !.state = state]
      OBVIOUS
    <3>3. job[i].failures + 1 \in Nat /\ state \in {"waiting", "failed"}
      BY <1>4, <3>1
    <3>4. j \in JobRecords /\ j.state # "done"
      BY <1>4, <3>2, <3>3 DEF JobRecords
    <3>5. job' = job \/ (exec[w].owns /\ job' = [job EXCEPT ![i] = j])
      BY <1>1, <1>2, <2>2, <3>1, <3>2 DEF throw
    <3> QED
      BY <3>4, <3>5
  <2>3. CASE loseLock(w) \/ crash(w)
    <3>1. PICK j : j = [job[i] EXCEPT !.state = "waiting", !.stalls = job[i].stalls + 1]
      OBVIOUS
    <3>2. job[i].stalls + 1 \in Nat
      BY <1>4
    <3>3. j \in JobRecords /\ j.state # "done"
      BY <1>4, <3>1, <3>2 DEF JobRecords
    <3>4. exec[w].owns /\ job' = [job EXCEPT ![i] = j]
      BY <1>1, <1>2, <2>3, <3>1 DEF loseLock, crash, Stalled, MayStall
    <3> QED
      BY <3>3, <3>4
  <2> QED
    BY <2>1, <2>2, <2>3
<1>7. /\ job' \in [Items -> JobRecords]
      /\ \A k \in Items : job'[k] = job[k] \/ (exec[w].owns /\ i = k)
      /\ job'[i].state # "done" \/ output[i] # "none" \/ ~exec[w].owns
  <2>1. CASE job' = job
    BY <1>1, <1>2, <1>3, <2>1 DEF ExecutionSound
  <2>2. CASE exec[w].owns /\ job' = [job EXCEPT ![i] = j]
    <3>1. \A k \in Items : job'[k] = IF k = i THEN j ELSE job[k]
      BY <1>2, <1>3, <2>2
    <3>2. job' \in [Items -> JobRecords]
      BY <1>2, <1>3, <1>6, <2>2
    <3> QED
      BY <1>3, <1>6, <2>2, <3>1, <3>2
  <2> QED
    BY <1>6, <2>1, <2>2
<1>8. CASE loseLock(w)
  <2>1. PICK x : x = [exec[w] EXCEPT !.owns = FALSE]
    OBVIOUS
  <2>2. /\ x \in Executions /\ ~x.owns /\ x.at = exec[w].at /\ x.item = exec[w].item /\ x.answer = exec[w].answer
        /\ exec' = [exec EXCEPT ![w] = x]
    BY <1>2, <1>8, <2>1 DEF Executions, loseLock
  <2> QED
    BY <1>1, <1>3, <1>7, <2>2, LockReleased
<1>9. CASE acknowledge(w) \/ throw(w) \/ crash(w)
  <2>1. exec' = [exec EXCEPT ![w] = NoExec]
    BY <1>9 DEF acknowledge, throw, crash
  <2>2. PICK x \in Executions : x = NoExec
    BY <1>5
  <2> QED
    BY <1>1, <1>3, <1>5, <1>7, <2>1, <2>2, LockReleased
<1> QED
  BY <1>8, <1>9

(* Every step keeps the invariant. *)
LEMMA ResearchStepsPreserve == ResearchInv /\ [ResearchNext]_researchVars => ResearchInv'
<1> SUFFICES ASSUME ResearchInv, [ResearchNext]_researchVars PROVE ResearchInv'
  OBVIOUS
<1>1. CASE (\E i \in Tasks : submitResearchTask(i)) \/ (\E i \in Practice : createPracticeRun(i))
  BY <1>1, StoreItemPreserves DEF submitResearchTask, createPracticeRun, Items
<1>2. CASE \E w \in Workers : Execute(w) \/ loseLock(w) \/ crash(w)
  BY <1>2, TakeJobPreserves, ReadRowPreserves, MarkRunningPreserves, AgentPreserves, StoreOutcomePreserves,
     ReleasesPreserve DEF Execute
<1>3. CASE \/ \E r \in Reviewers, i \in Practice : readForReview(r, i)
           \/ \E r \in Reviewers, new \in Scores : reviewPracticeRun(r, new)
           \/ UNCHANGED researchVars
  <2>1. UNCHANGED <<status, output, diagnostics, job, exec>>
    BY <1>3 DEF readForReview, reviewPracticeRun, researchVars, rowVars
  <2> QED
    BY <2>1 DEF ResearchInv, ResearchTypeOK, ExecutionSound, LocksAreHeldOnce, NoJobBeforeTheRow, OutcomesAreStored
<1> QED
  BY <1>1, <1>2, <1>3 DEF ResearchNext

ResearchSpec == ResearchInit /\ [][ResearchNext]_researchVars

(* The invariant holds in every reachable state. *)
LEMMA ResearchInvariant == ResearchSpec => []ResearchInv
<1> QED
  BY ResearchStarts, ResearchStepsPreserve, PTL DEF ResearchSpec

(* A job is acknowledged only for an item with an outcome, and row, output  *)
(* and diagnostics agree, for any number of workers, lost locks and crashes.*)
THEOREM ResearchOutcomesAreStored == ResearchSpec => []OutcomesAreStored
<1>1. ResearchInv => OutcomesAreStored
  BY DEF ResearchInv
<1> QED
  BY <1>1, ResearchInvariant, PTL

(* An execution that has found its row open, and has not stored it yet.     *)
Executing(w) == exec[w].at \in {"mark", "generate", "store"}

(* Lost locks, crashes and redeliveries are as they are, but of one item    *)
(* only one execution at a time is between its read and its store.          *)
ExecutionsInTurn ==
    \A w, v \in Workers : w # v /\ Executing(w) /\ Executing(v) => exec[w].item # exec[v].item

(* What is executed is still open. *)
ExecutedIsOpen == \A w \in Workers : Executing(w) => ~Terminal(exec[w].item)

(* In turn, no execution writes a row that another has made terminal.       *)
LEMMA OutcomeIsFinal ==
    ASSUME ResearchInv, ExecutedIsOpen, ExecutionsInTurn, [ResearchNext]_researchVars
    PROVE  ExecutedIsOpen' /\ \A i \in Items : Terminal(i) => status'[i] = status[i]
<1>1. /\ exec \in [Workers -> Executions] /\ status \in [Items -> Statuses]
      /\ \A w \in Workers : exec[w].at # "idle" => exec[w].item \in Items
  BY DEF ResearchInv, ResearchTypeOK, ExecutionSound
<1>2. ASSUME NEW w \in Workers, Execute(w) \/ loseLock(w) \/ crash(w)
      PROVE  ExecutedIsOpen' /\ \A i \in Items : Terminal(i) => status'[i] = status[i]
  <2>1. exec[w] \in Executions /\ \A v \in Workers : v # w => exec'[v] = exec[v]
    <3>1. CASE loseLock(w) \/ crash(w)
      BY <1>1, <3>1 DEF loseLock, crash
    <3>2. CASE \E i \in Items : takeJob(w, i)
      BY <1>1, <3>2 DEF takeJob
    <3>3. CASE readRow(w) \/ markRunning(w) \/ runStructuredAgent(w)
      BY <1>1, <3>3 DEF readRow, markRunning, runStructuredAgent, MoveTo
    <3>4. CASE storeOutcome(w) \/ acknowledge(w) \/ throw(w)
      BY <1>1, <3>4 DEF storeOutcome, acknowledge, throw, MoveTo
    <3> QED
      BY <1>2, <3>1, <3>2, <3>3, <3>4 DEF Execute
  <2>2. PICK i : i = exec[w].item
    OBVIOUS
  <2>3. \/ UNCHANGED status
        \/ /\ Executing(w) /\ i \in Items /\ ~Terminal(i)
           /\ \A k \in Items : k # i => status'[k] = status[k]
    <3>1. CASE markRunning(w) \/ storeOutcome(w)
      BY <1>1, <2>2, <3>1 DEF markRunning, storeOutcome, Executing, ExecutedIsOpen
    <3>2. CASE \E k \in Items : takeJob(w, k)
      BY <3>2 DEF takeJob, rowVars
    <3>3. CASE readRow(w) \/ runStructuredAgent(w)
      BY <3>3 DEF readRow, runStructuredAgent, rowVars
    <3>4. CASE acknowledge(w) \/ throw(w) \/ loseLock(w) \/ crash(w)
      BY <3>4 DEF acknowledge, throw, loseLock, crash, rowVars
    <3> QED
      BY <1>2, <3>1, <3>2, <3>3, <3>4 DEF Execute
  <2>4. ASSUME NEW v \in Workers, v # w, Executing(v) PROVE ~Terminal(exec[v].item)'
    <3>1. exec'[v] = exec[v] /\ exec[v].item \in Items /\ ~Terminal(exec[v].item)
      BY <1>1, <2>1, <2>4 DEF Executing, ExecutedIsOpen
    <3>2. status'[exec[v].item] = status[exec[v].item]
      BY <2>2, <2>3, <2>4, <3>1 DEF ExecutionsInTurn
    <3> QED
      BY <3>1, <3>2 DEF Terminal
  <2>5. Executing(w)' => ~Terminal(exec[w].item)'
    <3>1. CASE \E k \in Items : takeJob(w, k)
      BY <2>1, <1>1, <3>1 DEF takeJob, NoExec, Executing
    <3>2. CASE readRow(w)
      BY <1>1, <2>1, <3>2 DEF readRow, MoveTo, rowVars, Executing, Terminal, Executions
    <3>3. CASE markRunning(w)
      BY <1>1, <2>1, <3>3 DEF markRunning, MoveTo, Terminal, Executions
    <3>4. CASE runStructuredAgent(w)
      BY <1>1, <2>1, <3>4 DEF runStructuredAgent, MoveTo, rowVars, Executing, ExecutedIsOpen, Terminal, Executions
    <3>5. CASE storeOutcome(w)
      BY <1>1, <2>1, <3>5 DEF storeOutcome, MoveTo, Executing, Executions
    <3>6. CASE acknowledge(w) \/ throw(w) \/ crash(w)
      BY <1>1, <2>1, <3>6 DEF acknowledge, throw, crash, NoExec, Executing
    <3>7. CASE loseLock(w)
      BY <1>1, <2>1, <3>7 DEF loseLock, rowVars, Executing, ExecutedIsOpen, Terminal, Executions
    <3> QED
      BY <1>2, <3>1, <3>2, <3>3, <3>4, <3>5, <3>6, <3>7 DEF Execute
  <2>6. ExecutedIsOpen'
    BY <2>1, <2>4, <2>5 DEF ExecutedIsOpen, Executing
  <2> QED
    BY <2>3, <2>6
<1>3. CASE \/ \E i \in Tasks : submitResearchTask(i)
           \/ \E i \in Practice : createPracticeRun(i)
  <2>1. PICK i \in Items : storeItem(i)
    BY <1>3 DEF submitResearchTask, createPracticeRun, Items
  <2>2. status[i] = "NONE" /\ exec' = exec /\ status' = [status EXCEPT ![i] = "QUEUED"]
    BY <2>1 DEF storeItem
  <2> QED
    BY <1>1, <2>2 DEF ExecutedIsOpen, Executing, Terminal
<1>4. CASE \/ \E r \in Reviewers, i \in Practice : readForReview(r, i)
           \/ \E r \in Reviewers, new \in Scores : reviewPracticeRun(r, new)
           \/ UNCHANGED researchVars
  <2>1. UNCHANGED <<status, exec>>
    BY <1>4 DEF readForReview, reviewPracticeRun, researchVars, rowVars
  <2> QED
    BY <2>1 DEF ExecutedIsOpen, Executing, Terminal
<1> QED
  BY <1>2, <1>3, <1>4 DEF ResearchNext

(* However often jobs are delivered again, after lost locks, crashes and    *)
(* failures, a terminal row stays as it is unless two executions of the     *)
(* item overlap: then alone the guard that markRunning does not repeat is   *)
(* missed.                                                                  *)
THEOREM ResearchTerminalStays == ResearchSpec /\ []ExecutionsInTurn => TerminalStays
<1>1. ResearchInit => ExecutedIsOpen
  BY DEF ResearchInit, ExecutedIsOpen, Executing, NoExec
<1>2. ResearchInv /\ ExecutedIsOpen /\ ExecutionsInTurn /\ [ResearchNext]_researchVars =>
         ExecutedIsOpen' /\ [\A i \in Items : Terminal(i) => status'[i] = status[i]]_researchVars
  BY OutcomeIsFinal
<1> QED
  BY <1>1, <1>2, ResearchInvariant, PTL DEF ResearchSpec, TerminalStays

(* The scores the audit trail says run i was given.                         *)
Given(i) == {NoScore} \cup {entry[2] : entry \in audit[i]}

(* The score of a practice run is one its audit trail tells of, and so is   *)
(* every score that an audit event says was replaced: whatever reviews      *)
(* overlap, the trail can be followed back to the run without a score.      *)
TrailIsClosed ==
    \A i \in Practice : score[i] \in Given(i) /\ \A entry \in audit[i] : entry[1] \in Given(i)

(* A review that is going to write has read a score the trail tells of.     *)
PriorIsGiven ==
    /\ DOMAIN score = Practice /\ DOMAIN audit = Practice /\ DOMAIN review = Reviewers
    /\ TrailIsClosed
    /\ \A r \in Reviewers :
          review[r].at = "write" => review[r].item \in Practice /\ review[r].prior \in Given(review[r].item)

(* A review that is going to write has read the score that is there.        *)
PriorIsCurrent ==
    \A r \in Reviewers : review[r].at = "write" => review[r].prior = score[review[r].item]

(* Of one practice run only one review at a time is between read and write. *)
ReviewsInTurn ==
    \A r, s \in Reviewers :
        r # s /\ review[r].at = "write" /\ review[s].at = "write" => review[r].item # review[s].item

(* Only reviews touch the scores and their trail. *)
LEMMA OnlyReviewsScore ==
    ASSUME [ResearchNext]_researchVars
    PROVE  \/ UNCHANGED <<score, audit, review>>
           \/ \E r \in Reviewers, i \in Practice : readForReview(r, i)
           \/ \E r \in Reviewers, new \in Scores : reviewPracticeRun(r, new)
<1>1. ASSUME (\E i \in Tasks : submitResearchTask(i)) \/ (\E i \in Practice : createPracticeRun(i))
      PROVE  UNCHANGED <<score, audit, review>>
  BY <1>1 DEF submitResearchTask, createPracticeRun, storeItem
<1>2. ASSUME NEW w \in Workers, Execute(w) PROVE UNCHANGED <<score, audit, review>>
  <2>1. CASE \E i \in Items : takeJob(w, i)
    BY <2>1 DEF takeJob, rowVars
  <2>2. CASE readRow(w) \/ runStructuredAgent(w)
    BY <2>2 DEF readRow, runStructuredAgent, rowVars
  <2>3. CASE markRunning(w) \/ storeOutcome(w) \/ acknowledge(w) \/ throw(w)
    BY <2>3 DEF markRunning, storeOutcome, acknowledge, throw, rowVars
  <2> QED
    BY <1>2, <2>1, <2>2, <2>3 DEF Execute
<1>3. ASSUME NEW w \in Workers, loseLock(w) \/ crash(w) PROVE UNCHANGED <<score, audit, review>>
  BY <1>3 DEF loseLock, crash, rowVars
<1> QED
  BY <1>1, <1>2, <1>3 DEF ResearchNext, researchVars, rowVars

(* Reading takes the score that is there. *)
LEMMA ReadForReviewPreserves ==
    ASSUME PriorIsGiven, NEW r \in Reviewers, NEW i \in Practice, readForReview(r, i)
    PROVE  PriorIsGiven' /\ UNCHANGED score /\ (PriorIsCurrent => PriorIsCurrent')
<1>1. UNCHANGED <<score, audit>> /\ review' = [review EXCEPT ![r] = [at |-> "write", item |-> i, prior |-> score[i]]]
  BY DEF readForReview, rowVars
<1>2. score[i] \in Given(i)
  BY DEF PriorIsGiven, TrailIsClosed
<1> QED
  BY <1>1, <1>2 DEF PriorIsGiven, PriorIsCurrent, TrailIsClosed, Given

(* Writing extends the trail of the run and of no other. *)
LEMMA ReviewPreserves ==
    ASSUME PriorIsGiven, NEW r \in Reviewers, NEW new \in Scores, reviewPracticeRun(r, new)
    PROVE  /\ PriorIsGiven'
           /\ PriorIsCurrent /\ ReviewsInTurn =>
                /\ PriorIsCurrent'
                /\ \A k \in Practice : score'[k] # score[k] => <<score[k], score'[k]>> \in audit'[k]
<1>1. PICK i \in Practice : i = review[r].item /\ review[r].at = "write" /\ review[r].prior \in Given(i)
  BY DEF reviewPracticeRun, PriorIsGiven
<1>2. /\ score' = [score EXCEPT ![i] = new]
      /\ audit' = [audit EXCEPT ![i] = @ \cup {<<review[r].prior, new>>}]
      /\ review' = [review EXCEPT ![r] = NoReview]
  BY <1>1 DEF reviewPracticeRun
<1>3. Given(i)' = Given(i) \cup {new} /\ \A k \in Practice : k # i => Given(k)' = Given(k)
  <2>1. audit'[i] = audit[i] \cup {<<review[r].prior, new>>} /\ \A k \in Practice : k # i => audit'[k] = audit[k]
    BY <1>2 DEF PriorIsGiven
  <2>2. ASSUME NEW x PROVE x \in Given(i)' <=> x \in Given(i) \cup {new}
    <3>1. \A p : <<p, new>>[2] = new
      OBVIOUS
    <3>2. x \in {entry[2] : entry \in audit'[i]} <=> x \in {entry[2] : entry \in audit[i]} \/ x = new
      BY <2>1, <3>1
    <3> QED
      BY <3>2 DEF Given
  <2> QED
    BY <2>1, <2>2 DEF Given
<1>4. TrailIsClosed'
  BY <1>1, <1>2, <1>3 DEF PriorIsGiven, TrailIsClosed
<1>5. \A s \in Reviewers : review'[s].at = "write" => s # r /\ review'[s] = review[s]
  BY <1>2 DEF PriorIsGiven, NoReview
<1>6. PriorIsGiven'
  BY <1>2, <1>3, <1>4, <1>5 DEF PriorIsGiven
<1>7. ASSUME PriorIsCurrent, ReviewsInTurn PROVE PriorIsCurrent'
  BY <1>1, <1>2, <1>5, <1>7 DEF PriorIsCurrent, ReviewsInTurn, PriorIsGiven
<1>8. ASSUME PriorIsCurrent, NEW k \in Practice, score'[k] # score[k] PROVE <<score[k], score'[k]>> \in audit'[k]
  BY <1>1, <1>2, <1>8 DEF PriorIsCurrent, PriorIsGiven
<1> QED
  BY <1>6, <1>7, <1>8

(* Any reviews, in any order: what the trail tells of stays closed.         *)
LEMMA TrailStaysClosed == PriorIsGiven /\ [ResearchNext]_researchVars => PriorIsGiven'
<1> SUFFICES ASSUME PriorIsGiven, [ResearchNext]_researchVars PROVE PriorIsGiven'
  OBVIOUS
<1>1. CASE UNCHANGED <<score, audit, review>>
  BY <1>1 DEF PriorIsGiven, TrailIsClosed, Given
<1> QED
  BY <1>1, OnlyReviewsScore, ReadForReviewPreserves, ReviewPreserves

(* However many reviews of a run overlap, its score and every score that    *)
(* its audit trail names as replaced are none or were recorded by an audit  *)
(* event: the trail tells of every score the run has had, though not always *)
(* in the right order.                                                      *)
THEOREM ResearchTrailIsClosed == ResearchSpec => []TrailIsClosed
<1>1. ResearchInit => PriorIsGiven
  BY DEF ResearchInit, PriorIsGiven, TrailIsClosed, Given, NoReview
<1>2. PriorIsGiven => TrailIsClosed
  BY DEF PriorIsGiven
<1> QED
  BY <1>1, <1>2, TrailStaysClosed, PTL DEF ResearchSpec

(* With the reviews of each run in turn, those of different runs as they    *)
(* come, each change of a score has an audit event that names the score it  *)
(* replaced.                                                                *)
THEOREM ResearchAuditTellsPrior == ResearchSpec /\ []ReviewsInTurn => AuditTellsPrior
<1>1. ResearchInit => PriorIsGiven /\ PriorIsCurrent
  BY DEF ResearchInit, PriorIsGiven, PriorIsCurrent, TrailIsClosed, Given, NoReview
<1>2. PriorIsGiven /\ PriorIsCurrent /\ ReviewsInTurn /\ [ResearchNext]_researchVars =>
         /\ PriorIsCurrent'
         /\ [\A i \in Practice : score'[i] # score[i] => <<score[i], score'[i]>> \in audit'[i]]_researchVars
  <2> SUFFICES ASSUME PriorIsGiven, PriorIsCurrent, ReviewsInTurn, [ResearchNext]_researchVars
               PROVE  /\ PriorIsCurrent'
                      /\ \A i \in Practice : score'[i] # score[i] => <<score[i], score'[i]>> \in audit'[i]
    OBVIOUS
  <2>1. CASE UNCHANGED <<score, audit, review>>
    BY <2>1 DEF PriorIsCurrent
  <2> QED
    BY <2>1, OnlyReviewsScore, ReadForReviewPreserves, ReviewPreserves
<1> QED
  BY <1>1, <1>2, TrailStaysClosed, PTL DEF ResearchSpec, AuditTellsPrior

-----------------------------------------------------------------------------
(* Workflow.  Init, Next, Spec and vars are those of Workflow.              *)


(* A transition and the record of its key are committed together. *)
AuditIsRecorded ==
    \A a \in audits : records[key[a.by]] = wfFingerprint(a.by)

(* Every record stands for an applied transition: the API's never lands.   *)
RecordHasAudit ==
    \A k \in Keys : records[k] # NoRecord => \E a \in audits : key[a.by] = k

(* A call writes its decision when its key has an applied transition. *)
DecidingHasTransition ==
    \A c \in Calls : c \in decided \/ pc[c] \in {"insertDecision", "record"}
        => \E a \in audits : key[a.by] = key[c]

(* A call about to write was cleared by the policy, on what it had read. *)
ClearedByPolicy ==
    \A c \in Calls : pc[c] \in {"recheck", "apply"} =>
        evaluateTransition(seen[c].state, input[c], seen[c].passed, seen[c].failed) = "OK"

(* A verification that was seen is still there. *)
SeenIsPassed == \A c \in Calls : seen[c].passed => passed

(* A call that wrote is past its writes, and one that answers for a         *)
(* decision has committed it.                                              *)
WritersAreThrough ==
    /\ \A a \in audits : pc[a.by] \in {"record", "done"}
    /\ \A c \in decided : pc[c] \in {"record", "done"}
    /\ \A c \in Calls : pc[c] \in {"insertDecision", "record"} => c \in Decisions
    /\ \A c \in Calls : pc[c] = "record" => c \in decided
    /\ \A c \in Calls : pc[c] # "done" => reply[c] = "none"

WorkflowInv ==
    /\ TypeOK
    /\ AuditIsRecorded
    /\ RecordHasAudit
    /\ DecidingHasTransition
    /\ ClearedByPolicy
    /\ SeenIsPassed
    /\ WritersAreThrough
    /\ OneTransitionPerKey
    /\ CommitsAreWhole
    /\ ApprovalHasVerification

-----------------------------------------------------------------------------
LEMMA VerdictType ==
  ASSUME NEW from, NEW q, NEW p, NEW f
  PROVE  evaluateTransition(from, q, p, f) \in Rejections \cup {"OK"}
BY DEF evaluateTransition, Rejections

(* What the policy cleared is a rule, and an approval saw a verification.  *)
LEMMA VerdictSound ==
  ASSUME NEW from, NEW q, NEW p, NEW f, evaluateTransition(from, q, p, f) = "OK"
  PROVE  Allowed(from, q.to) /\ (q.to = "PAPER_APPROVED" => p)
BY DEF evaluateTransition, requiresPassedVerification

LEMMA WorkflowTypeInit == Init => TypeOK
BY InputsAssumption
   DEF Init, TypeOK, Records, NoRecord, Audits, Steps, Replies, Rejections, States

LEMMA WorkflowTypeNext == TypeOK /\ [Next]_vars => TypeOK'
<1> SUFFICES ASSUME TypeOK, [Next]_vars PROVE TypeOK'
  OBVIOUS
<1> USE DEF TypeOK, dbVars, callVars, Goto, Answer
<1>1. CASE VerificationPasses
  BY <1>1 DEF VerificationPasses
<1>2. CASE ParityComputed
  BY <1>2 DEF ParityComputed
<1>3. ASSUME NEW c \in Calls,
             Start(c) \/ checkIdempotency(c) \/ findByIdempotencyKey(c)
             \/ recheckIdempotencyKey(c) \/ Crash(c)
      PROVE  TypeOK'
  BY <1>3 DEF Start, checkIdempotency, findByIdempotencyKey, recheckIdempotencyKey,
              AlreadyApplied, Crash, Steps, Replies
<1>4. ASSUME NEW c \in Calls, getStrategyVersion(c) \/ getPassedVerification(c)
      PROVE  TypeOK'
  <2>1. seen[c] \in [state : States, passed : BOOLEAN, failed : BOOLEAN]
    OBVIOUS
  <2>2. [seen[c] EXCEPT !.state = workflowState]
           \in [state : States, passed : BOOLEAN, failed : BOOLEAN]
    BY <2>1
  <2>3. [seen[c] EXCEPT !.passed = passed]
           \in [state : States, passed : BOOLEAN, failed : BOOLEAN]
    BY <2>1
  <2>4. seen' \in [Calls -> [state : States, passed : BOOLEAN, failed : BOOLEAN]]
    BY <1>4, <2>2, <2>3 DEF getStrategyVersion, getPassedVerification
  <2> QED BY <1>4, <2>4 DEF getStrategyVersion, getPassedVerification, Steps
<1>5. ASSUME NEW c \in Calls, getFailedParityAndEvaluate(c) PROVE TypeOK'
  <2>1. seen[c] \in [state : States, passed : BOOLEAN, failed : BOOLEAN]
    OBVIOUS
  <2>2. [seen[c] EXCEPT !.failed = failedParity]
           \in [state : States, passed : BOOLEAN, failed : BOOLEAN]
    BY <2>1
  <2>3. seen' \in [Calls -> [state : States, passed : BOOLEAN, failed : BOOLEAN]]
    BY <1>5, <2>2 DEF getFailedParityAndEvaluate
  <2> DEFINE verdict ==
        evaluateTransition(seen[c].state, input[c], seen[c].passed, failedParity)
  <2>4. \/ pc' = [pc EXCEPT ![c] = "recheck"] /\ reply' = reply
        \/ /\ pc' = [pc EXCEPT ![c] = "done"] /\ reply' = [reply EXCEPT ![c] = verdict]
           /\ verdict # "OK"
    BY <1>5 DEF getFailedParityAndEvaluate
  <2>5. verdict # "OK" => verdict \in Replies
    BY VerdictType DEF Replies
  <2> HIDE DEF verdict
  <2>6. pc' \in [Calls -> Steps] /\ reply' \in [Calls -> Replies]
    BY <2>4, <2>5 DEF Steps
  <2> QED BY <1>5, <2>3, <2>6 DEF getFailedParityAndEvaluate
<1>6. ASSUME NEW c \in Calls, applyTransition(c) PROVE TypeOK'
  <2>1. wfFingerprint(c) \in Records /\ input[c].to \in States /\ seen[c].state \in States
    BY DEF wfFingerprint, Records, Requests
  <2>2. transitionAudit(c) \in Audits
    BY <2>1 DEF Audits, transitionAudit
  <2>3. CASE records[key[c]] # NoRecord
    BY <1>6, <2>3 DEF applyTransition, Steps, Replies
  <2>4. CASE records[key[c]] = NoRecord
    <3>1. /\ workflowState' \in States
          /\ audits' \in SUBSET Audits
          /\ records' \in [Keys -> Records]
          /\ decided' \in SUBSET Calls
      BY <1>6, <2>1, <2>2, <2>4 DEF applyTransition
    <3>2. /\ pc' \in [Calls -> Steps]
          /\ reply' \in [Calls -> Replies]
      <4>1. \/ pc' = [pc EXCEPT ![c] = "record"] /\ reply' = reply
            \/ pc' = [pc EXCEPT ![c] = "done"] /\ reply' = [reply EXCEPT ![c] = "ok"]
        BY <1>6, <2>4 DEF applyTransition
      <4> QED BY <4>1 DEF Steps, Replies
    <3> QED BY <1>6, <2>4, <3>1, <3>2 DEF applyTransition
  <2> QED BY <2>3, <2>4
<1>7. ASSUME NEW c \in Calls, insertDecision(c) PROVE TypeOK'
  BY <1>7 DEF insertDecision, Steps
<1>8. ASSUME NEW c \in Calls, recordIdempotency(c) PROVE TypeOK'
  <2>1. apiFingerprint(c) \in Records
    BY DEF apiFingerprint, Records
  <2>2. records' \in [Keys -> Records]
    BY <1>8, <2>1 DEF recordIdempotency
  <2>3. pc' = [pc EXCEPT ![c] = "done"]
        /\ \E r \in {"ok", "error"} : reply' = [reply EXCEPT ![c] = r]
    BY <1>8 DEF recordIdempotency
  <2>4. pc' \in [Calls -> Steps] /\ reply' \in [Calls -> Replies]
    BY <2>3 DEF Steps, Replies
  <2> QED BY <1>8, <2>2, <2>4 DEF recordIdempotency
<1>9. CASE UNCHANGED vars
  BY <1>9 DEF vars
<1> QED
  BY <1>1, <1>2, <1>3, <1>4, <1>5, <1>6, <1>7, <1>8, <1>9 DEF Next, CallStep

(* Every reachable state is well typed. *)
THEOREM WorkflowTypeCorrect == Spec => []TypeOK
<1>1. Init => TypeOK
  BY WorkflowTypeInit
<1>2. TypeOK /\ [Next]_vars => TypeOK'
  BY WorkflowTypeNext
<1> QED BY <1>1, <1>2, PTL DEF Spec

-----------------------------------------------------------------------------
LEMMA WorkflowInvInit == Init => WorkflowInv
BY WorkflowTypeInit
   DEF Init, WorkflowInv, AuditIsRecorded, RecordHasAudit, DecidingHasTransition,
       ClearedByPolicy, SeenIsPassed, WritersAreThrough, OneTransitionPerKey,
       CommitsAreWhole, ApprovalHasVerification

LEMMA AFingerprintIsARecord ==
  ASSUME NEW c \in Calls PROVE wfFingerprint(c) # NoRecord
BY DEF wfFingerprint, NoRecord

(* A step that writes neither audits nor records, and moves no call into   *)
(* deciding, keeps the facts about what is stored.                         *)
LEMMA StoredKept ==
  ASSUME WorkflowInv, UNCHANGED <<audits, records, key, input>>
  PROVE  AuditIsRecorded' /\ RecordHasAudit' /\ OneTransitionPerKey'
BY DEF WorkflowInv, AuditIsRecorded, RecordHasAudit, OneTransitionPerKey, wfFingerprint

(* The evidence only grows: a verification stays passed.                   *)
LEMMA EvidenceStep ==
  ASSUME WorkflowInv, VerificationPasses \/ ParityComputed
  PROVE  WorkflowInv'
<1>1. TypeOK'
  BY WorkflowTypeNext DEF WorkflowInv, Next
<1>2. AuditIsRecorded' /\ RecordHasAudit' /\ OneTransitionPerKey'
  BY StoredKept DEF VerificationPasses, ParityComputed, callVars
<1>3. DecidingHasTransition' /\ ClearedByPolicy' /\ WritersAreThrough'
      /\ CommitsAreWhole'
  BY DEF WorkflowInv, VerificationPasses, ParityComputed, callVars, DecidingHasTransition,
         ClearedByPolicy, WritersAreThrough, CommitsAreWhole, MadeUnder, wfFingerprint
<1>4. SeenIsPassed' /\ ApprovalHasVerification'
  BY DEF WorkflowInv, TypeOK, VerificationPasses, ParityComputed, callVars, SeenIsPassed,
         ApprovalHasVerification
<1> QED BY <1>1, <1>2, <1>3, <1>4 DEF WorkflowInv

(* The steps that read and route a call, but store nothing. *)
LEMMA ReadStep ==
  ASSUME WorkflowInv, NEW c \in Calls,
         Start(c) \/ checkIdempotency(c) \/ findByIdempotencyKey(c)
         \/ getStrategyVersion(c) \/ getPassedVerification(c)
         \/ getFailedParityAndEvaluate(c) \/ recheckIdempotencyKey(c) \/ Crash(c)
  PROVE  WorkflowInv'
<1> USE DEF WorkflowInv, TypeOK, dbVars, Goto, Answer
<1>1. TypeOK'
  BY WorkflowTypeNext DEF Next, CallStep
<1>2. UNCHANGED <<dbVars, key, input>>
  BY DEF Start, checkIdempotency, findByIdempotencyKey, getStrategyVersion,
         getPassedVerification, getFailedParityAndEvaluate, recheckIdempotencyKey, Crash
<1>3. AuditIsRecorded' /\ RecordHasAudit' /\ OneTransitionPerKey'
  BY <1>2, StoredKept
<1>4. DecidingHasTransition'
  BY <1>2, AFingerprintIsARecord
     DEF DecidingHasTransition, RecordHasAudit, AlreadyApplied, Start, checkIdempotency,
         findByIdempotencyKey, getStrategyVersion, getPassedVerification,
         getFailedParityAndEvaluate, recheckIdempotencyKey, Crash
<1>5. ClearedByPolicy'
  BY <1>2
     DEF ClearedByPolicy, AlreadyApplied, Start, checkIdempotency,
         findByIdempotencyKey, getStrategyVersion, getPassedVerification,
         getFailedParityAndEvaluate, recheckIdempotencyKey, Crash
<1>6. SeenIsPassed' /\ ApprovalHasVerification'
  <2>1. ASSUME NEW d \in Calls, seen'[d].passed PROVE seen[d].passed \/ passed
    <3>1. CASE UNCHANGED seen
      BY <2>1, <3>1
    <3>2. CASE getStrategyVersion(c)
      BY <2>1, <3>2 DEF getStrategyVersion
    <3>3. CASE getPassedVerification(c)
      BY <2>1, <3>3 DEF getPassedVerification
    <3>4. CASE getFailedParityAndEvaluate(c)
      BY <2>1, <3>4 DEF getFailedParityAndEvaluate
    <3> QED BY <3>1, <3>2, <3>3, <3>4
            DEF Start, checkIdempotency, findByIdempotencyKey, recheckIdempotencyKey, Crash
  <2> QED BY <1>2, <2>1 DEF SeenIsPassed, ApprovalHasVerification
<1>7. WritersAreThrough'
  BY <1>2
     DEF WritersAreThrough, AlreadyApplied, Start, checkIdempotency, findByIdempotencyKey,
         getStrategyVersion, getPassedVerification, getFailedParityAndEvaluate,
         recheckIdempotencyKey, Crash, Audits
<1>8. CommitsAreWhole'
  <2>1. \A d \in Calls : reply'[d] = "error" => reply[d] = "error"
    <3>1. CASE getFailedParityAndEvaluate(c)
      <4>1. evaluateTransition(seen[c].state, input[c], seen[c].passed, failedParity)
              \in Rejections \cup {"OK"}
        BY VerdictType
      <4> QED BY <3>1, <4>1 DEF getFailedParityAndEvaluate, Rejections
    <3>2. CASE Start(c) \/ checkIdempotency(c) \/ findByIdempotencyKey(c)
               \/ getStrategyVersion(c) \/ getPassedVerification(c)
               \/ recheckIdempotencyKey(c) \/ Crash(c)
      BY <3>2 DEF AlreadyApplied, Start, checkIdempotency, findByIdempotencyKey,
                  getStrategyVersion, getPassedVerification, recheckIdempotencyKey, Crash
    <3> QED BY <3>1, <3>2
  <2> QED BY <1>2, <2>1 DEF CommitsAreWhole, MadeUnder, wfFingerprint
<1> QED BY <1>1, <1>3, <1>4, <1>5, <1>6, <1>7, <1>8

(* The transition commits: its audit, its record and its decision at once. *)
LEMMA ApplyStep ==
  ASSUME WorkflowInv, NEW c \in Calls, applyTransition(c)
  PROVE  WorkflowInv'
<1> USE DEF WorkflowInv, TypeOK, dbVars, Goto, Answer
<1> DEFINE new == transitionAudit(c)
<1>1. TypeOK'
  BY WorkflowTypeNext DEF Next, CallStep
<1>2. CASE records[key[c]] # NoRecord
  <2>1. UNCHANGED <<dbVars, key, input, seen>>
    BY <1>2 DEF applyTransition
  <2>2. AuditIsRecorded' /\ RecordHasAudit' /\ OneTransitionPerKey'
    BY <2>1, StoredKept
  <2>3. DecidingHasTransition' /\ ClearedByPolicy' /\ SeenIsPassed'
        /\ ApprovalHasVerification'
    BY <1>2, <2>1 DEF applyTransition, DecidingHasTransition, ClearedByPolicy,
       SeenIsPassed, ApprovalHasVerification
  <2>4. WritersAreThrough'
    BY <1>2, <2>1 DEF applyTransition, WritersAreThrough, Audits
  <2>5. CommitsAreWhole'
    <3>1. \A d \in Calls \ {c} : reply'[d] = reply[d]
      BY <1>2 DEF applyTransition
    <3>2. c \notin MadeUnder(key[c])
      BY DEF applyTransition, WritersAreThrough, MadeUnder
    <3>3. MadeUnder(key[c]) # {}
      <4>1. PICK a \in audits : key[a.by] = key[c]
        BY <1>2 DEF RecordHasAudit
      <4> QED BY <4>1 DEF MadeUnder
    <3> QED BY <2>1, <3>1, <3>2, <3>3 DEF CommitsAreWhole, MadeUnder, wfFingerprint
  <2> QED BY <1>1, <2>2, <2>3, <2>4, <2>5
<1>3. CASE records[key[c]] = NoRecord
  <2>1. /\ audits' = audits \cup {new}
        /\ records' = [records EXCEPT ![key[c]] = wfFingerprint(c)]
        /\ UNCHANGED <<passed, failedParity, key, input, seen>>
        /\ new.by = c /\ new.to = input[c].to
    BY <1>3 DEF applyTransition, transitionAudit
  <2>2. \A a \in audits : a.by \in Calls /\ key[a.by] # key[c]
    BY <1>3, AFingerprintIsARecord DEF AuditIsRecorded, Audits
  <2>3. AuditIsRecorded'
    BY <2>1, <2>2 DEF AuditIsRecorded, wfFingerprint
  <2>4. RecordHasAudit'
    BY <2>1, <2>2 DEF RecordHasAudit
  <2>5. OneTransitionPerKey'
    BY <2>1, <2>2 DEF OneTransitionPerKey
  <2>6. DecidingHasTransition'
    <3>1. \A d \in Calls \ {c} : pc'[d] = pc[d] /\ (d \in decided' <=> d \in decided)
      BY <1>3 DEF applyTransition
    <3> QED BY <2>1, <3>1 DEF DecidingHasTransition
  <2>7. ClearedByPolicy' /\ SeenIsPassed'
    BY <1>3, <2>1 DEF applyTransition, ClearedByPolicy, SeenIsPassed
  <2>8. ApprovalHasVerification'
    <3>1. input[c].to = "PAPER_APPROVED" => passed
      BY VerdictSound DEF applyTransition, ClearedByPolicy, SeenIsPassed
    <3> QED BY <2>1, <3>1 DEF ApprovalHasVerification
  <2>9. WritersAreThrough'
    BY <1>3, <2>1 DEF applyTransition, WritersAreThrough, Audits
  <2>10. CommitsAreWhole'
    <3>1. \A d \in Calls \ {c} : reply'[d] = reply[d] /\ (d \in decided' <=> d \in decided)
      BY <1>3 DEF applyTransition
    <3>2. reply'[c] # "error" /\ (c \in Decisions => c \in decided')
      BY <1>3 DEF applyTransition, WritersAreThrough
    <3>3. \A a \in audits' : a.by \in Decisions => a.by \in decided'
      <4>1. \A a \in audits : a.by \in Decisions => a.by \in decided
        BY DEF CommitsAreWhole
      <4> QED BY <2>1, <2>2, <3>1, <3>2, <4>1
    <3>4. ASSUME NEW d \in Calls, reply'[d] = "error", d \notin decided'
          PROVE  (d \notin MadeUnder(key[d]) /\ MadeUnder(key[d]) # {})'
      <4>1. d # c /\ d \notin MadeUnder(key[d]) /\ MadeUnder(key[d]) # {}
        BY <3>1, <3>2, <3>4 DEF CommitsAreWhole
      <4> QED BY <2>1, <4>1 DEF MadeUnder
    <3> QED BY <2>3, <3>3, <3>4 DEF CommitsAreWhole, AuditIsRecorded
  <2> QED BY <1>1, <2>3, <2>4, <2>5, <2>6, <2>7, <2>8, <2>9, <2>10
<1> QED BY <1>2, <1>3

(* A decision row follows a transition; its response is never stored.      *)
LEMMA DecisionStep ==
  ASSUME WorkflowInv, NEW c \in Calls, insertDecision(c) \/ recordIdempotency(c)
  PROVE  WorkflowInv'
<1> USE DEF WorkflowInv, TypeOK, Goto, Answer
<1>1. TypeOK'
  BY WorkflowTypeNext DEF Next, CallStep
<1>2. UNCHANGED <<audits, records, key, input, seen, passed>>
  <2>1. CASE insertDecision(c)
    BY <2>1 DEF insertDecision
  <2>2. CASE recordIdempotency(c)
    <3>1. PICK a \in audits : key[a.by] = key[c]
      BY <2>2 DEF recordIdempotency, DecidingHasTransition
    <3>2. a.by \in Calls
      BY <3>1 DEF Audits
    <3>3. records[key[c]] # NoRecord
      BY <3>1, <3>2, AFingerprintIsARecord DEF AuditIsRecorded
    <3> QED BY <2>2, <3>3 DEF recordIdempotency
  <2> QED BY <2>1, <2>2
<1>3. AuditIsRecorded' /\ RecordHasAudit' /\ OneTransitionPerKey'
  BY <1>2, StoredKept
<1>4. DecidingHasTransition' /\ ClearedByPolicy' /\ SeenIsPassed'
      /\ ApprovalHasVerification'
  BY <1>2 DEF insertDecision, recordIdempotency, DecidingHasTransition, ClearedByPolicy,
     SeenIsPassed, ApprovalHasVerification
<1>5. WritersAreThrough'
  BY <1>2 DEF insertDecision, recordIdempotency, WritersAreThrough, Audits
<1>6. CommitsAreWhole'
  <2>1. \A d \in Calls \ {c} : reply'[d] = reply[d] /\ (d \in decided' <=> d \in decided)
    BY DEF insertDecision, recordIdempotency
  <2>2. c \in decided'
    BY DEF insertDecision, recordIdempotency, WritersAreThrough
  <2> QED BY <1>2, <2>1, <2>2 DEF CommitsAreWhole, MadeUnder, wfFingerprint, Audits
<1> QED BY <1>1, <1>3, <1>4, <1>5, <1>6

LEMMA WorkflowInvNext == WorkflowInv /\ [Next]_vars => WorkflowInv'
<1> SUFFICES ASSUME WorkflowInv, [Next]_vars PROVE WorkflowInv'
  OBVIOUS
<1>1. CASE VerificationPasses \/ ParityComputed
  BY <1>1, EvidenceStep
<1>2. ASSUME NEW c \in Calls, CallStep(c) \/ Crash(c) PROVE WorkflowInv'
  BY <1>2, ReadStep, ApplyStep, DecisionStep DEF CallStep
<1>3. CASE UNCHANGED vars
  BY <1>3 DEF vars, dbVars, callVars, WorkflowInv, TypeOK, AuditIsRecorded, RecordHasAudit,
     DecidingHasTransition, ClearedByPolicy, SeenIsPassed, WritersAreThrough,
     OneTransitionPerKey, CommitsAreWhole, MadeUnder, ApprovalHasVerification, wfFingerprint
<1> QED BY <1>1, <1>2, <1>3 DEF Next

(* The inductive invariant holds in every reachable state. *)
THEOREM WorkflowInvariance == Spec => []WorkflowInv
<1> QED BY WorkflowInvInit, WorkflowInvNext, PTL DEF Spec

-----------------------------------------------------------------------------
(* One idempotency key applies at most one transition. *)
THEOREM KeysApplyOnce == Spec => []OneTransitionPerKey
<1>1. WorkflowInv => OneTransitionPerKey
  BY DEF WorkflowInv
<1> QED BY <1>1, WorkflowInvariance, PTL

(* Every approval that was audited stands on a passed verification. *)
THEOREM ApprovalsAreVerified == Spec => []ApprovalHasVerification
<1>1. WorkflowInv => ApprovalHasVerification
  BY DEF WorkflowInv
<1> QED BY <1>1, WorkflowInvariance, PTL

(* A committed decision has a transition under its key. *)
THEOREM DecisionsHaveTransitions == Spec => []DecisionHasTransition
<1>1. WorkflowInv => DecisionHasTransition
  BY DEF WorkflowInv, TypeOK, DecidingHasTransition, DecisionHasTransition
<1> QED BY <1>1, WorkflowInvariance, PTL

(* What a transition writes is committed together; a call that failed left  *)
(* nothing, and another call's transition is recorded under its key.        *)
THEOREM CommitsStandWhole == Spec => []CommitsAreWhole
<1>1. WorkflowInv => CommitsAreWhole
  BY DEF WorkflowInv
<1> QED BY <1>1, WorkflowInvariance, PTL

(* The version moves along the rules of the policy only. *)
THEOREM PolicyIsFollowed == Spec => MovesFollowPolicy
<1> DEFINE Step == workflowState' # workflowState => Allowed(workflowState, workflowState')
<1>1. WorkflowInv /\ [Next]_vars => [Step]_vars
  <2> SUFFICES ASSUME WorkflowInv, [Next]_vars, workflowState' # workflowState
               PROVE  Allowed(workflowState, workflowState')
    OBVIOUS
  <2>1. PICK c \in Calls : applyTransition(c)
    BY DEF Next, CallStep, VerificationPasses, ParityComputed, Start, checkIdempotency,
       findByIdempotencyKey, getStrategyVersion, getPassedVerification,
       getFailedParityAndEvaluate, recheckIdempotencyKey, insertDecision,
       recordIdempotency, Crash, vars, dbVars
  <2>2. workflowState = seen[c].state /\ workflowState' = input[c].to
    BY <2>1 DEF applyTransition, dbVars
  <2>3. Allowed(seen[c].state, input[c].to)
    BY <2>1, VerdictSound DEF applyTransition, WorkflowInv, ClearedByPolicy
  <2> QED BY <2>2, <2>3
<1> QED BY <1>1, WorkflowInvariance, PTL DEF Spec, MovesFollowPolicy
=============================================================================
