-------------------------------- MODULE Auth --------------------------------
(***************************************************************************)
(* AuthService with the account lockout, the users and roles it writes and *)
(* the nightly cleanup of refresh tokens, for the users of one active      *)
(* organization (a user is named by the e-mail, unique in it).             *)
(*                                                                         *)
(* Every database call of a handler is one step.  rotateRefreshToken and   *)
(* recordFailedLoginAttempt are transactions whose first statement takes   *)
(* the row lock of the only row they read: each is one step.               *)
(***************************************************************************)
EXTENDS Naturals, FiniteSets

CONSTANTS
    Users,
    Roles,
    DefaultRole,     \* DEFAULT_REGISTRATION_ROLE
    Tokens,          \* bound: the refresh tokens a behaviour may issue
    Requests,        \* bound: the requests that can be in flight together
    MaxAttempts,     \* ACCOUNT_LOCKOUT_MAX_ATTEMPTS
    LockDuration,    \* ACCOUNT_LOCKOUT_DURATION_MINUTES
    Lifetime,        \* JWT_REFRESH_EXPIRES_IN
    Retention,       \* REFRESH_TOKEN_RETENTION_DAYS
    MaxTime,         \* bound: the readings of the clock are 0..MaxTime
    MaxFailures,     \* bound: the failures counted for one user
    None

ASSUME AuthAssumption ==
    /\ DefaultRole \in Roles
    /\ MaxAttempts \in Nat \ {0}
    /\ LockDuration \in Nat \ {0}
    /\ Lifetime \in Nat
    /\ Retention \in Nat \ {0}
    /\ MaxTime \in Nat
    /\ MaxFailures \in Nat
    /\ None \notin Nat \cup Users \cup Roles \cup Tokens

VARIABLES
    roles,      \* the roles of the organization
    users,      \* the users table, None where no row exists
    tokens,     \* the refresh_tokens table, None where no row exists
    issued,     \* the tokens ever inserted: a hash is never drawn twice
    misses,     \* history: wrong passwords answered since the last reset
    clock,      \* what new Date() reads
    req         \* the handlers in flight: program counter and locals

vars == <<roles, users, tokens, issued, misses, clock, req>>
tokenTables == <<tokens, issued>>
userTables == <<roles, users, misses>>

-----------------------------------------------------------------------------
Instant == Nat \cup {None}

UserRow == [isActive : BOOLEAN, deleted : BOOLEAN, failedLoginAttempts : Nat,
            lockedUntil : Instant, roleIds : SUBSET Roles]

(* "parent" is history: the token whose rotation created this one. *)
TokenRow == [userId : Users, expiresAt : Nat, revokedAt : Instant,
             parent : Tokens \cup {None}]

ASSUME NoneIsNoRow == None \notin UserRow \cup TokenRow

Steps == {"idle", "findRole", "assignRole", "removeRole", "updateUser",
          "deactivateUser", "recordFailure", "reset", "issue", "findUser", "rotate",
          "revoke"}

(* "late" is history: the user had been deleted when the request arrived. *)
Request == [pc : Steps, userId : Users \cup {None}, token : Tokens \cup {None},
            role : Roles \cup {None}, signIn : BOOLEAN, late : BOOLEAN]

Idle == [pc |-> "idle", userId |-> None, token |-> None, role |-> None,
         signIn |-> FALSE, late |-> FALSE]

Registered == {u \in Users : users[u] # None}
Stored == {t \in Tokens : tokens[t] # None}

Respond(r) == req' = [req EXCEPT ![r] = Idle]
Proceed(r, pc) == req' = [req EXCEPT ![r].pc = pc]

(* findById and findByEmail skip the rows with a deletedAt. *)
Visible(u) == u \in Registered /\ ~users[u].deleted

(* AccountLockoutService.evaluate. *)
isLocked(u) == users[u].lockedUntil # None /\ users[u].lockedUntil > clock

(* findValidRefreshTokenByHash. *)
ValidToken(t) ==
    t \in Stored /\ tokens[t].revokedAt = None /\ tokens[t].expiresAt > clock

NewToken(u, parent) ==
    [userId |-> u, expiresAt |-> clock + Lifetime, revokedAt |-> None, parent |-> parent]

-----------------------------------------------------------------------------
Init ==
    /\ roles = {}
    /\ users = [u \in Users |-> None]
    /\ tokens = [t \in Tokens |-> None]
    /\ issued = {}
    /\ misses = [u \in Users |-> 0]
    /\ clock = 0
    /\ req = [r \in Requests |-> Idle]

(* UserService.createUser: the e-mail is unique in the organization,       *)
(* deleted users included; otherwise 409.  registration goes on with the   *)
(* role, a user an administrator creates is complete.                      *)
CreateUser(r, u, registration) ==
    /\ req[r].pc = "idle"
    /\ u \notin Registered
    /\ users' = [users EXCEPT ![u] =
                   [isActive |-> TRUE, deleted |-> FALSE, failedLoginAttempts |-> 0,
                    lockedUntil |-> None, roleIds |-> {}]]
    /\ IF registration
       THEN req' = [req EXCEPT ![r] =
                      [Idle EXCEPT !.pc = "findRole", !.userId = u, !.signIn = TRUE]]
       ELSE UNCHANGED req
    /\ UNCHANGED <<roles, misses, clock, tokenTables>>

(* Plausible fault: the role is taken for granted. *)
PresumeDefaultRole(r) ==
    /\ req[r].pc = "findRole"
    /\ req' = [req EXCEPT ![r].pc = "assignRole", ![r].role = DefaultRole]
    /\ UNCHANGED <<userTables, clock, tokenTables>>

(* assignDefaultRole: without the role in the organization, 400. *)
FindDefaultRole(r) ==
    /\ req[r].pc = "findRole"
    /\ req' = [req EXCEPT ![r] =
                 IF DefaultRole \in roles /\ Visible(req[r].userId)
                 THEN [@ EXCEPT !.pc = "assignRole", !.role = DefaultRole]
                 ELSE Idle]
    /\ UNCHANGED <<userTables, clock, tokenTables>>

(* RoleService: createRole; assignRoleToUser and removeRoleFromUser check  *)
(* role and user first.                                                    *)
CreateRole(r, role) ==
    /\ req[r].pc = "idle"
    /\ role \notin roles
    /\ roles' = roles \cup {role}
    /\ UNCHANGED <<users, misses, clock, tokenTables, req>>

ChangeRole(r, u, role, pc) ==
    /\ req[r].pc = "idle"
    /\ role \in roles
    /\ Visible(u)
    /\ req' = [req EXCEPT ![r] =
                 [Idle EXCEPT !.pc = pc, !.userId = u, !.role = role]]
    /\ UNCHANGED <<userTables, clock, tokenTables>>

(* The INSERT of user_roles; a pair that is there already is a 409. *)
AssignRole(r) ==
    LET u == req[r].userId
    IN  /\ req[r].pc = "assignRole"
        /\ users' = [users EXCEPT ![u].roleIds = @ \cup {req[r].role}]
        /\ IF req[r].signIn /\ req[r].role \notin users[u].roleIds
           THEN Proceed(r, "reset")
           ELSE Respond(r)
        /\ UNCHANGED <<roles, misses, clock, tokenTables>>

(* The DELETE of user_roles; a pair that is not there is a 404. *)
RemoveRole(r) ==
    /\ req[r].pc = "removeRole"
    /\ users' = [users EXCEPT ![req[r].userId].roleIds = @ \ {req[r].role}]
    /\ Respond(r)
    /\ UNCHANGED <<roles, misses, clock, tokenTables>>

(* updateUser and deactivateUser of UserService: requireActiveById first.  *)
RequireUser(r, u, pc) ==
    /\ req[r].pc = "idle"
    /\ Visible(u)
    /\ req' = [req EXCEPT ![r] = [Idle EXCEPT !.pc = pc, !.userId = u]]
    /\ UNCHANGED <<userTables, clock, tokenTables>>

(* The UPDATE goes by id alone, and may reach a user deleted since.  A     *)
(* body without isActive is one that repeats what is there.                *)
UpdateUser(r, active) ==
    /\ req[r].pc = "updateUser"
    /\ users' = [users EXCEPT ![req[r].userId].isActive = active]
    /\ Respond(r)
    /\ UNCHANGED <<roles, misses, clock, tokenTables>>

DeactivateUser(r) ==
    /\ req[r].pc = "deactivateUser"
    /\ users' = [users EXCEPT ![req[r].userId].isActive = FALSE,
                              ![req[r].userId].deleted = TRUE]
    /\ Respond(r)
    /\ UNCHANGED <<roles, misses, clock, tokenTables>>

-----------------------------------------------------------------------------
(* validateCredentials: lock, activity and password are those of one read. *)
Login(r, u, passwordMatches) ==
    /\ req[r].pc = "idle"
    /\ Visible(u)
    /\ ~isLocked(u)
    /\ users[u].isActive
    /\ req' = [req EXCEPT ![r] =
                 [Idle EXCEPT !.userId = u, !.signIn = TRUE,
                    !.pc = IF passwordMatches THEN "reset" ELSE "recordFailure"]]
    /\ UNCHANGED <<userTables, clock, tokenTables>>

(* Plausible fault: incrementFailedLoginAttempts and setLockedUntil, which *)
(* the repository also offers, with the lock decided on the first read.    *)
RecordFailureOnRead(r) ==
    LET u == req[r].userId
    IN  /\ req[r].pc = "recordFailure"
        /\ users' = [users EXCEPT ![u].failedLoginAttempts = @ + 1,
               ![u].lockedUntil =
                   IF users[u].failedLoginAttempts >= MaxAttempts
                   THEN clock + LockDuration ELSE @]
        /\ misses' = [misses EXCEPT ![u] = @ + 1]
        /\ Respond(r)
        /\ UNCHANGED <<roles, clock, tokenTables>>

(***************************************************************************)
(* recordFailedLoginAttempt: the increment returns the new count; from the *)
(* threshold on every failure locks the account anew.  The counter is not  *)
(* reset when a lock runs out.                                             *)
(***************************************************************************)
RecordFailure(r) ==
    LET u == req[r].userId
        attempts == users[u].failedLoginAttempts + 1
    IN  /\ req[r].pc = "recordFailure"
        /\ attempts <= MaxFailures
        /\ users' = [users EXCEPT ![u].failedLoginAttempts = attempts,
               ![u].lockedUntil =
                   IF attempts < MaxAttempts THEN @ ELSE clock + LockDuration]
        /\ misses' = [misses EXCEPT ![u] = @ + 1]
        /\ Respond(r)
        /\ UNCHANGED <<roles, clock, tokenTables>>

(* resetAttempts: issueTokenPair goes on to the tokens, a refresh answers. *)
ResetAttempts(r) ==
    LET u == req[r].userId
    IN  /\ req[r].pc = "reset"
        /\ users' = [users EXCEPT ![u].failedLoginAttempts = 0,
                                  ![u].lockedUntil = None]
        /\ misses' = [misses EXCEPT ![u] = 0]
        /\ IF req[r].signIn THEN Proceed(r, "issue") ELSE Respond(r)
        /\ UNCHANGED <<roles, clock, tokenTables>>

(* createRefreshToken. *)
Issue(r, t) ==
    /\ req[r].pc = "issue"
    /\ t \notin issued
    /\ tokens' = [tokens EXCEPT ![t] = NewToken(req[r].userId, None)]
    /\ issued' = issued \cup {t}
    /\ Respond(r)
    /\ UNCHANGED <<userTables, clock>>

(* refresh and logout look the presented token up first. *)
Present(r, t, pc) ==
    /\ req[r].pc = "idle"
    /\ ValidToken(t)
    /\ req' = [req EXCEPT ![r] =
                 [Idle EXCEPT !.pc = pc, !.userId = tokens[t].userId, !.token = t,
                              !.late = users[tokens[t].userId].deleted]]
    /\ UNCHANGED <<userTables, clock, tokenTables>>

(* Plausible fault: findByIdIncludingDeleted, and no look at isActive. *)
FindAnyUser(r) ==
    /\ req[r].pc = "findUser"
    /\ Proceed(r, "rotate")
    /\ UNCHANGED <<userTables, clock, tokenTables>>

FindUser(r) ==
    /\ req[r].pc = "findUser"
    /\ IF Visible(req[r].userId) /\ users[req[r].userId].isActive
       THEN Proceed(r, "rotate")
       ELSE Respond(r)
    /\ UNCHANGED <<userTables, clock, tokenTables>>

(* Plausible fault: the new token is inserted in a call of its own. *)
RotateWithoutRevoking(r, t) ==
    /\ req[r].pc = "rotate"
    /\ t \notin issued
    /\ tokens' = [tokens EXCEPT ![t] = NewToken(req[r].userId, req[r].token)]
    /\ issued' = issued \cup {t}
    /\ Proceed(r, "reset")
    /\ UNCHANGED <<userTables, clock>>

(* rotateRefreshToken: the UPDATE is by id and does not ask whether the    *)
(* token is still unrevoked; it throws if the cleanup deleted the row.     *)
Rotate(r, t) ==
    /\ req[r].pc = "rotate"
    /\ t \notin issued
    /\ \/ /\ req[r].token \in Stored
          /\ tokens' = [tokens EXCEPT ![req[r].token].revokedAt = clock,
                                      ![t] = NewToken(req[r].userId, req[r].token)]
          /\ issued' = issued \cup {t}
          /\ Proceed(r, "reset")
       \/ /\ req[r].token \notin Stored
          /\ Respond(r)
          /\ UNCHANGED tokenTables
    /\ UNCHANGED <<userTables, clock>>

(* revokeRefreshToken, by id. *)
Revoke(r) ==
    /\ req[r].pc = "revoke"
    /\ tokens' = IF req[r].token \in Stored
                 THEN [tokens EXCEPT ![req[r].token].revokedAt = clock]
                 ELSE tokens
    /\ Respond(r)
    /\ UNCHANGED <<userTables, clock, issued>>

-----------------------------------------------------------------------------
(* Plausible fault: gt for lt, the tokens younger than the cutoff. *)
NotYetStale(t) ==
    \/ tokens[t].expiresAt + Retention > clock
    \/ tokens[t].revokedAt # None /\ tokens[t].revokedAt + Retention < clock

(* deleteExpiredRefreshTokens with the cutoff clock - Retention. *)
Stale(t) ==
    \/ tokens[t].expiresAt + Retention < clock
    \/ tokens[t].revokedAt # None /\ tokens[t].revokedAt + Retention < clock

(* DataCleanupScheduler: one DELETE, whatever is in flight. *)
Cleanup ==
    /\ \E t \in Stored : Stale(t)
    /\ tokens' = [t \in Tokens |->
                    IF t \in Stored /\ Stale(t) THEN None ELSE tokens[t]]
    /\ UNCHANGED <<userTables, issued, clock, req>>

(* The process dies or a call fails: what is committed stays. *)
Abort(r) ==
    /\ req[r].pc # "idle"
    /\ Respond(r)
    /\ UNCHANGED <<userTables, clock, tokenTables>>

Tick ==
    /\ clock < MaxTime
    /\ clock' = clock + 1
    /\ UNCHANGED <<userTables, tokenTables, req>>

Arrival(r) ==
    \/ \E u \in Users, b \in BOOLEAN : CreateUser(r, u, b) \/ Login(r, u, b)
    \/ \E u \in Users, pc \in {"updateUser", "deactivateUser"} : RequireUser(r, u, pc)
    \/ \E role \in Roles : CreateRole(r, role)
    \/ \E u \in Users, role \in Roles, pc \in {"assignRole", "removeRole"} :
          ChangeRole(r, u, role, pc)
    \/ \E t \in Tokens, pc \in {"findUser", "revoke"} : Present(r, t, pc)

Step(r) ==
    \/ FindDefaultRole(r) \/ AssignRole(r) \/ RemoveRole(r)
    \/ \E active \in BOOLEAN : UpdateUser(r, active)
    \/ DeactivateUser(r)
    \/ RecordFailure(r) \/ ResetAttempts(r)
    \/ \E t \in Tokens : Issue(r, t) \/ Rotate(r, t)
    \/ FindUser(r) \/ Revoke(r)

Next == Tick \/ Cleanup \/ \E r \in Requests : Arrival(r) \/ Step(r) \/ Abort(r)

Spec == Init /\ [][Next]_vars

-----------------------------------------------------------------------------
(***************************************************************************)
(* Properties of any interleaving.                                         *)
(***************************************************************************)

(* Every table and request local has its type, and the foreign key of a     *)
(* role assignment its row.                                                 *)
TypeOK ==
    /\ roles \subseteq Roles
    /\ users \in [Users -> UserRow \cup {None}]
    /\ \A u \in Registered : users[u].roleIds \subseteq roles
    /\ tokens \in [Tokens -> TokenRow \cup {None}]
    /\ Stored \subseteq issued /\ issued \subseteq Tokens
    /\ misses \in [Users -> Nat]
    /\ clock \in Nat
    /\ req \in [Requests -> Request]

(* No concurrent failure is lost and the lock follows the counter: the      *)
(* counter is the number of wrong passwords since the last reset, and a     *)
(* lock has been set exactly when the threshold was reached.                *)
LockMatchesFailures ==
    \A u \in Registered :
        /\ users[u].failedLoginAttempts = misses[u]
        /\ users[u].lockedUntil # None <=> misses[u] >= MaxAttempts

(* Wherever a refresh dies or interleaves, a token and the one it was       *)
(* rotated into are never both usable.                                      *)
RotatedIsRevoked ==
    \A t \in Stored :
        tokens[t].parent \in Stored => tokens[tokens[t].parent].revokedAt # None

(* A request that presents its token after the user has been deleted never  *)
(* gets as far as the rotation, whatever it interleaves with.               *)
DeletedUserIsOut ==
    \A r \in Requests : req[r].late => req[r].pc \in {"findUser", "revoke"}

(* The cleanup never ends a session: no row of a usable token is deleted,   *)
(* and no revoked token becomes usable again.                               *)
SessionsEndByRevocation ==
    [][\A t \in issued :
          /\ ValidToken(t) => tokens'[t] # None
          /\ ValidToken(t)' => ValidToken(t)]_vars

-----------------------------------------------------------------------------
(* "Old token is validated and revoked atomically": a refresh token is      *)
(* exchanged once.                                                          *)
ExchangedOnce ==
    \A s, t \in Stored :
        tokens[s].parent # None /\ tokens[s].parent = tokens[t].parent => s = t
=============================================================================
