---------------------------- MODULE Provisioning ----------------------------
(***************************************************************************)
(* Organisations, users and memberships created from Clerk's               *)
(* organizationMembership.created webhook, and the sessions resolved from  *)
(* them.                                                                   *)
(*                                                                         *)
(* Each delivery is one read-committed transaction: a row it inserts is    *)
(* visible to others once it commits, and an insert of a key that another  *)
(* open transaction inserted waits for that transaction to end.  An insert *)
(* of a committed key fails; the catch clauses go on, but a transaction    *)
(* with a failed statement cannot commit.  Clerk delivers an event any     *)
(* number of times.                                                        *)
(***************************************************************************)
EXTENDS Naturals

CONSTANTS
    Deliveries,  \* requests in progress at once
    Events,      \* records [org, slug, user, role]: the Clerk ids of an event
    NoEvent

ASSUME EventsAssumption == \A e \in Events : e.org # "none"

VARIABLES
    slugs,       \* organisations: Clerk id -> slug
    users,       \* users, by Clerk subject
    roles,       \* memberships: <<organisation, user>> -> role
    provisioned, \* memberships with a PROVISIONED audit event
    delivery     \* progress of a delivery and the rows it inserted

provisionVars == <<slugs, users, roles, provisioned, delivery>>

Idle == [at |-> "idle", event |-> NoEvent, newOrg |-> FALSE, newUser |-> FALSE, role |-> "none"]

ProvisionInit ==
    /\ slugs = << >>
    /\ users = {}
    /\ roles = << >>
    /\ provisioned = {}
    /\ delivery = [d \in Deliveries |-> Idle]

Proceeds(d, at) == delivery' = [delivery EXCEPT ![d].at = at]
Ends(d) == delivery' = [delivery EXCEPT ![d] = Idle]
Unwritten == UNCHANGED <<slugs, users, roles, provisioned>>

Org(d) == delivery[d].event.org
User(d) == delivery[d].event.user
Key(d) == <<Org(d), User(d)>>
Others(d) == {o \in Deliveries \ {d} : delivery[o].at # "idle"}

(* Only organizationMembership.created with a valid signature gets here. *)
deliver(d, e) ==
    /\ delivery[d].at = "idle"
    /\ delivery' = [delivery EXCEPT ![d] = [Idle EXCEPT !.at = "readOrg", !.event = e]]
    /\ Unwritten

readOrg(d) ==
    /\ delivery[d].at = "readOrg"
    /\ Proceeds(d, IF Org(d) \in DOMAIN slugs THEN "readUser" ELSE "insertOrg")
    /\ Unwritten

(* Unique by the Clerk id and by the slug.  *)
SameOrg(d, e) == e.org = Org(d) \/ e.slug = delivery[d].event.slug
OrgTaken(d) == \E o \in DOMAIN slugs : SameOrg(d, [org |-> o, slug |-> slugs[o]])

insertOrg(d) ==
    /\ delivery[d].at = "insertOrg"
    /\ \A o \in Others(d) : delivery[o].newOrg => ~SameOrg(d, delivery[o].event)
    /\ IF OrgTaken(d) THEN Ends(d)
       ELSE delivery' = [delivery EXCEPT ![d].newOrg = TRUE, ![d].at = "readUser"]
    /\ Unwritten

readUser(d) ==
    /\ delivery[d].at = "readUser"
    /\ Proceeds(d, IF User(d) \in users THEN "readMembership" ELSE "insertUser")
    /\ Unwritten

insertUser(d) ==
    /\ delivery[d].at = "insertUser"
    /\ \A o \in Others(d) : delivery[o].newUser => User(o) # User(d)
    /\ IF User(d) \in users THEN Ends(d)
       ELSE delivery' = [delivery EXCEPT ![d].newUser = TRUE, ![d].at = "readMembership"]
    /\ Unwritten

readMembership(d) ==
    /\ delivery[d].at = "readMembership"
    /\ Proceeds(d, IF Key(d) \in DOMAIN roles THEN "commit" ELSE "insertMembership")
    /\ Unwritten

(* Mutant: the role follows the event's alone. *)
RoleFor_ByEvent(d) ==
    IF delivery[d].event.role = "org:admin" THEN "ADMIN" ELSE "RESEARCHER"

(* The delivery that creates an organisation makes its user an ADMIN.  *)
RoleFor(d) ==
    IF delivery[d].newOrg \/ delivery[d].event.role = "org:admin" THEN "ADMIN" ELSE "RESEARCHER"

insertMembership(d) ==
    /\ delivery[d].at = "insertMembership"
    /\ \A o \in Others(d) : delivery[o].role # "none" => Key(o) # Key(d)
    /\ IF Key(d) \in DOMAIN roles THEN Ends(d)
       ELSE delivery' = [delivery EXCEPT ![d].role = RoleFor(d), ![d].at = "commit"]
    /\ Unwritten

With(f, key, value) == [k \in DOMAIN f \cup {key} |-> IF k = key THEN value ELSE f[k]]

commit(d) ==
    LET t == delivery[d] IN
    /\ t.at = "commit"
    /\ slugs' = IF t.newOrg THEN With(slugs, Org(d), t.event.slug) ELSE slugs
    /\ users' = IF t.newUser THEN users \cup {User(d)} ELSE users
    /\ roles' = IF t.role # "none" THEN With(roles, Key(d), t.role) ELSE roles
    /\ provisioned' = IF t.role # "none" THEN provisioned \cup {Key(d)} ELSE provisioned
    /\ Ends(d)

(* A statement fails or the process ends: nothing of the delivery stays. *)
rollback(d) ==
    /\ delivery[d].at # "idle"
    /\ Ends(d)
    /\ Unwritten

ProvisionNext ==
    \E d \in Deliveries :
        \/ \E e \in Events : deliver(d, e)
        \/ readOrg(d) \/ insertOrg(d) \/ readUser(d) \/ insertUser(d)
        \/ readMembership(d) \/ insertMembership(d) \/ commit(d) \/ rollback(d)

ProvisionSpec == ProvisionInit /\ [][ProvisionNext]_provisionVars

-----------------------------------------------------------------------------
(* The auth plugin: the role of a session of a user in an organisation, as  *)
(* the three lookups find it.                                               *)
resolveAuthContext(org, user) ==
    CASE org = "none" -> "NO_ORGANISATION_IN_TOKEN"
      [] user \notin users -> "UNKNOWN_USER"
      [] org \notin DOMAIN slugs -> "UNKNOWN_ORGANISATION"
      [] <<org, user>> \notin DOMAIN roles -> "NOT_A_MEMBER_OF_ORGANISATION"
      [] OTHER -> roles[<<org, user>>]

hasRequiredRole(role, allowed) == role = "ADMIN" \/ role \in allowed

-----------------------------------------------------------------------------
(* Properties. *)

(* Whatever deliveries overlap, repeat or fail, every organisation has a    *)
(* user whose session passes every role check.                              *)
OrganisationHasAdmin ==
    \A o \in DOMAIN slugs : \E u \in users : hasRequiredRole(resolveAuthContext(o, u), {})
=============================================================================
