------------------------------- MODULE Access --------------------------------
(***************************************************************************)
(* What lets a request through: JwtAuthGuard with JwtStrategy, the         *)
(* PermissionGuard and the ApiKeyGuard, each database read a step of its   *)
(* own, while users, roles, grants and keys change.  The access token is   *)
(* taken to be genuine and unexpired: its signature is the library's.      *)
(***************************************************************************)
EXTENDS Routes, Integers

CONSTANTS
    Requests,       \* bound: the requests of a behaviour
    Asked,          \* bound: the routes they ask for
    GrantedRoles    \* bound: the roles that permissions are granted to

(* PermissionGuard compares organizations only where permissions are asked *)
(* for: a scoped route without any would be open to every organization.    *)
ASSUME AccessAssumption ==
    /\ GrantedRoles \subseteq {"admin", "manager"}
    /\ \A route \in Asked \cup Routes : route.guard = "scoped" => route.needs # {}

Grantable == UNION {route.needs : route \in Asked}
Roles == {"admin", "manager"}

VARIABLES
    member,         \* users.is_active of the one caller
    userRole,       \* user_roles of the caller
    rolePermission, \* role_permissions
    apiKey,         \* the api_keys row: is_active and expires_at
    request

accessVars == <<member, userRole, rolePermission, apiKey, request>>

-----------------------------------------------------------------------------
(* "pending" holds the permissions still to check, "claims" the roles of   *)
(* the caller when its token was issued; "own" says the organization of    *)
(* the route is the caller's.  "was" is history: what held at some moment  *)
(* since arrival.                                                          *)
IdleRequest == [pc |-> "idle", route |-> Public, own |-> TRUE, pending |-> {}, claims |-> {},
                was |-> {}]

(* What the caller is entitled to at a moment: the permissions, and three  *)
(* more pairs for an active user, an admin and a good API key.             *)
Active == <<"caller", "active">>
Admin == <<"caller", "admin">>
GoodKey == <<"key", "good">>

Entitlements(m, roles, grants, key) ==
    {p \in Grantable \cup {Active, Admin, GoodKey} :
        \/ p = Active /\ m
        \/ p = Admin /\ "admin" \in roles
        \/ p = GoodKey /\ key.isActive /\ ~key.expired
        \/ p \in Grantable /\ m /\ \E r \in roles : p \in grants[r]}

Now == Entitlements(member, userRole, rolePermission, apiKey)

AccessInit ==
    /\ member = TRUE
    /\ userRole \in SUBSET Roles
    /\ rolePermission = [r \in Roles |-> {}]
    /\ apiKey = [isActive |-> TRUE, expired |-> FALSE]
    /\ request = [r \in Requests |-> IdleRequest]

(* A write to the tables, witnessed by the requests in flight.  Bound: no  *)
(* table moves once every request of the behaviour has been decided.       *)
Change(m, roles, grants, key) ==
    /\ \E r \in Requests : request[r].pc \notin {"allowed", "denied"}
    /\ member' = m /\ userRole' = roles /\ rolePermission' = grants /\ apiKey' = key
    /\ request' = [r \in Requests |->
         IF request[r].pc \in {"idle", "allowed", "denied"} THEN request[r]
         ELSE [request[r] EXCEPT !.was = @ \cup Entitlements(m, roles, grants, key)]]

DeactivateMember == member /\ Change(FALSE, userRole, rolePermission, apiKey)

(* assignRoleToUser and removeRoleFromUser look the user up in a call      *)
(* before the write, which goes by id: that the user was active at some    *)
(* moment before it, as it was at first, is all that the write can rely on. *)
AssignRoleToUser(role) ==
    /\ role \notin userRole
    /\ Change(member, userRole \cup {role}, rolePermission, apiKey)

RemoveRoleFromUser(role) ==
    /\ role \in userRole
    /\ Change(member, userRole \ {role}, rolePermission, apiKey)

AssignPermissionToRole(role, p) ==
    /\ p \notin rolePermission[role]
    /\ Change(member, userRole, [rolePermission EXCEPT ![role] = @ \cup {p}], apiKey)

RemovePermissionFromRole(role, p) ==
    /\ p \in rolePermission[role]
    /\ Change(member, userRole, [rolePermission EXCEPT ![role] = @ \ {p}], apiKey)

(* ApiKeyService.revokeApiKey, by any user of the organization, and the    *)
(* daily cleanup (revokeExpiredKeys).                                      *)
RevokeApiKey ==
    /\ apiKey.isActive
    /\ Change(member, userRole, rolePermission, [apiKey EXCEPT !.isActive = FALSE])

ExpireApiKey ==
    /\ ~apiKey.expired
    /\ Change(member, userRole, rolePermission, [apiKey EXCEPT !.expired = TRUE])

-----------------------------------------------------------------------------
Advance(r, from, to) ==
    /\ request[r].pc = from
    /\ request' = [request EXCEPT ![r].pc = to]
    /\ UNCHANGED <<member, userRole, rolePermission, apiKey>>

(* JwtAuthGuard and PermissionGuard let a public route pass, and a route   *)
(* with an API key is public to both.                                      *)
Arrive(r, route, own, claims) ==
    /\ request[r].pc = "idle"
    /\ request' = [request EXCEPT ![r] =
         [pc |-> CASE route.guard = "public" -> "allowed"
                   [] route.guard = "apiKey" -> "findKey"
                   [] OTHER                  -> "validate",
          route |-> route, own |-> own, pending |-> route.needs, claims |-> claims,
          was |-> Now]]
    /\ UNCHANGED <<member, userRole, rolePermission, apiKey>>

(* JwtStrategy.validate, then what PermissionGuard decides without a read. *)
Validate(r) ==
    Advance(r, "validate",
            IF ~member THEN "denied"
            ELSE IF request[r].route.needs = {} THEN "allowed"
            ELSE IF request[r].route.guard = "scoped" /\ ~request[r].own THEN "denied"
            ELSE "admin")

(* Plausible fault: the roles are taken from the token.                    *)
CheckAdminClaim(r) ==
    Advance(r, "admin", IF "admin" \in request[r].claims THEN "allowed" ELSE "permissions")

(* userHasRoleByName: the admin bypass, which reads user_roles alone.      *)
CheckAdmin(r) ==
    Advance(r, "admin", IF "admin" \in userRole THEN "allowed" ELSE "permissions")

(* The permissions one at a time, each resolved through the roles of an    *)
(* active user (findPermissionsForUser).                                   *)
CheckPermission(r, p) ==
    /\ request[r].pc = "permissions" /\ p \in request[r].pending
    /\ request' = [request EXCEPT
         ![r].pending = @ \ {p},
         ![r].pc = IF p \notin Now THEN "denied"
                   ELSE IF request[r].pending = {p} THEN "allowed" ELSE @]
    /\ UNCHANGED <<member, userRole, rolePermission, apiKey>>

(* findByHashedKey, and the check of the row it returned.                  *)
FindApiKey(r) ==
    Advance(r, "findKey", IF apiKey.isActive /\ ~apiKey.expired THEN "touch" ELSE "denied")

TouchLastUsedAt(r) == Advance(r, "touch", "allowed")

AccessNext ==
    \/ DeactivateMember
    \/ \E role \in Roles :
          \/ AssignRoleToUser(role)
          \/ RemoveRoleFromUser(role)
    \/ \E role \in GrantedRoles, p \in Grantable :
          AssignPermissionToRole(role, p) \/ RemovePermissionFromRole(role, p)
    \/ RevokeApiKey
    \/ ExpireApiKey
    \/ \E r \in Requests :
          \/ \E route \in Asked, own \in BOOLEAN, claims \in SUBSET {"admin"} :
                Arrive(r, route, own, claims)
          \/ Validate(r)
          \/ CheckAdmin(r)
          \/ \E p \in Grantable : CheckPermission(r, p)
          \/ FindApiKey(r)
          \/ TouchLastUsedAt(r)

-----------------------------------------------------------------------------
(* A request that was let through was entitled to it while it was there:   *)
(* its caller was active, and was an admin or had each permission of the   *)
(* route, at some moment since it arrived (the reads may each see another  *)
(* moment, but none of them one before the request); its organization was  *)
(* its own; its key was good.                                              *)
AllowedWasEntitled ==
    \A r \in Requests :
        LET route == request[r].route
            was == request[r].was
        IN  request[r].pc = "allowed" =>
            CASE route.guard = "public" -> TRUE
              [] route.guard = "apiKey" -> GoodKey \in was
              [] OTHER -> /\ Active \in was
                          /\ Admin \in was \/ route.needs \subseteq was
                          /\ route.guard = "scoped" => request[r].own
=============================================================================
