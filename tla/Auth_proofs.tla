----------------------------- MODULE Auth_proofs -----------------------------
(***************************************************************************)
(* Proofs about Auth, for any number of users, tokens, requests and any    *)
(* readings of the clock.  The invariant has a part about the users, one   *)
(* about the tokens and one about each request in flight; a step writes    *)
(* users or tokens, never both.                                            *)
(***************************************************************************)
EXTENDS Auth, TLAPS

(* Users: the lockout agrees with the failures, of which there are none     *)
(* before the user is created.                                              *)
UsersOK ==
    /\ roles \subseteq Roles
    /\ users \in [Users -> UserRow \cup {None}]
    /\ \A u \in Registered : users[u].roleIds \subseteq roles
    /\ misses \in [Users -> Nat]
    /\ \A u \in Users \ Registered : misses[u] = 0
    /\ LockMatchesFailures

(* Tokens: a parent has been issued, so that no later token takes its place. *)
TokensOK ==
    /\ tokens \in [Tokens -> TokenRow \cup {None}]
    /\ Stored \subseteq issued /\ issued \subseteq Tokens
    /\ \A t \in Stored : tokens[t].parent \in issued \cup {None}
    /\ RotatedIsRevoked

(* No token without its user. *)
OwnersOK == \A t \in Stored : tokens[t].userId \in Registered

(* Requests: the user in hand exists, the role to assign exists, and one     *)
(* that came after the deletion of its user is before the look at the user.  *)
RequestOK(q, rows, stored) ==
    /\ q \in Request
    /\ q.pc # "idle" => q.userId \in Users /\ rows[q.userId] # None
    /\ q.pc = "assignRole" => q.role \in stored
    /\ q.late => q.pc \in {"findUser", "revoke"} /\ rows[q.userId].deleted

RequestsOK ==
    /\ req \in [Requests -> Request]
    /\ \A r \in Requests : RequestOK(req[r], users, roles)

IInv == UsersOK /\ TokensOK /\ OwnersOK /\ clock \in Nat /\ RequestsOK

-----------------------------------------------------------------------------
USE AuthAssumption
USE DEF tokenTables, userTables

(* A request at rest is in order. *)
LEMMA IdleOK ==
    ASSUME NEW rows, NEW stored
    PROVE  RequestOK(Idle, rows, stored) /\ Idle \in Request
BY DEF RequestOK, Idle, Request, Steps

(* A request moves and users, and with them what is claimed of the others,  *)
(* only become more: no user is dropped and no deletion taken back.         *)
LEMMA RequestMoves ==
    ASSUME RequestsOK, NEW r \in Requests, NEW q,
           RequestOK(q, users', roles'),
           req' = [req EXCEPT ![r] = q],
           roles \subseteq roles',
           \A u \in Users : users[u] # None =>
               users'[u] # None /\ (users[u].deleted => users'[u].deleted)
    PROVE  RequestsOK'
<1>1. q \in Request
  BY DEF RequestOK
<1>2. /\ req' \in [Requests -> Request]
      /\ \A p \in Requests : req'[p] = IF p = r THEN q ELSE req[p]
  BY <1>1 DEF RequestsOK
<1>3. ASSUME NEW p \in Requests \ {r} PROVE RequestOK(req'[p], users', roles')
  <2>1. RequestOK(req[p], users, roles) /\ req'[p] = req[p]
    BY <1>2 DEF RequestsOK
  <2>2. req[p].late => req[p].pc # "idle"
    BY <2>1 DEF RequestOK
  <2>3. QED
    BY <2>1, <2>2 DEF RequestOK
<1>4. QED
  BY <1>2, <1>3 DEF RequestsOK

(* A step that only moves a request. *)
LEMMA OnlyRequest ==
    ASSUME IInv, NEW r \in Requests, NEW q, RequestOK(q, users, roles),
           req' = [req EXCEPT ![r] = q],
           UNCHANGED <<userTables, clock, tokenTables>>
    PROVE  IInv'
<1>1. UsersOK'
  BY DEF IInv, UsersOK, Registered, LockMatchesFailures
<1>2. TokensOK'
  BY DEF IInv, TokensOK, Stored, RotatedIsRevoked
<1>3. OwnersOK'
  BY DEF IInv, OwnersOK, Stored, Registered
<1>4. RequestsOK'
  BY RequestMoves DEF IInv
<1>5. QED
  BY <1>1, <1>2, <1>3, <1>4 DEF IInv

(* A step that writes the row of one user and the count of its misses. *)
LEMMA UserWritten ==
    ASSUME IInv, NEW u \in Users, NEW row \in UserRow, NEW r \in Requests, NEW q,
           users' = [users EXCEPT ![u] = row],
           misses' \in [Users -> Nat],
           \A k \in Users \ {u} : misses'[k] = misses[k],
           row.roleIds \subseteq roles,
           row.failedLoginAttempts = misses'[u],
           row.lockedUntil # None <=> misses'[u] >= MaxAttempts,
           users[u] # None /\ users[u].deleted => row.deleted,
           RequestOK(q, users', roles),
           req' = [req EXCEPT ![r] = q],
           UNCHANGED <<roles, clock, tokenTables>>
    PROVE  IInv'
<1>1. row # None
  BY NoneIsNoRow
<1>2. /\ users' \in [Users -> UserRow \cup {None}]
      /\ users'[u] = row
      /\ \A k \in Users \ {u} : users'[k] = users[k]
  BY DEF IInv, UsersOK
<1>3. Registered' = Registered \cup {u}
  BY <1>1, <1>2 DEF Registered
<1>4. LockMatchesFailures'
  <2>1. ASSUME NEW k \in Registered'
        PROVE  /\ users'[k].failedLoginAttempts = misses'[k]
               /\ users'[k].lockedUntil # None <=> misses'[k] >= MaxAttempts
    <3>1. CASE k = u
      BY <1>2, <3>1
    <3>2. CASE k # u
      <4>1. k \in Registered /\ users'[k] = users[k] /\ misses'[k] = misses[k]
        BY <1>2, <1>3, <2>1, <3>2 DEF Registered
      <4>2. QED
        BY <4>1 DEF IInv, UsersOK, LockMatchesFailures
    <3>3. QED
      BY <3>1, <3>2
  <2>2. QED
    BY <2>1 DEF LockMatchesFailures
<1>5. \A k \in Registered' : users'[k].roleIds \subseteq roles'
  BY <1>2, <1>3 DEF IInv, UsersOK
<1>6. UsersOK'
  BY <1>2, <1>3, <1>4, <1>5 DEF IInv, UsersOK
<1>7. TokensOK'
  BY DEF IInv, TokensOK, Stored, RotatedIsRevoked
<1>8. RequestsOK'
  BY <1>1, <1>2, RequestMoves DEF IInv
<1>9. OwnersOK'
  BY <1>3 DEF IInv, OwnersOK, Stored
<1>10. QED
  BY <1>6, <1>7, <1>8, <1>9 DEF IInv

(* A step that writes tokens. *)
LEMMA TokensWritten ==
    ASSUME IInv, TokensOK', OwnersOK', NEW r \in Requests, NEW q, RequestOK(q, users, roles),
           req' = [req EXCEPT ![r] = q],
           UNCHANGED <<userTables, clock>>
    PROVE  IInv'
<1>1. UsersOK'
  BY DEF IInv, UsersOK, Registered, LockMatchesFailures
<1>2. RequestsOK'
  BY RequestMoves DEF IInv
<1>3. QED
  BY <1>1, <1>2 DEF IInv

-----------------------------------------------------------------------------
(***************************************************************************)
(* Steps that write users.                                                 *)
(***************************************************************************)

(* What holds of the request in hand and its user. *)
LEMMA InHand ==
    ASSUME IInv, NEW r \in Requests, req[r].pc # "idle"
    PROVE  /\ req[r] \in Request
           /\ RequestOK(req[r], users, roles)
           /\ req[r].userId \in Registered
           /\ req[r].userId \in Users
           /\ users[req[r].userId] \in UserRow
           /\ users[req[r].userId].roleIds \subseteq roles
           /\ users[req[r].userId].failedLoginAttempts = misses[req[r].userId]
           /\ users[req[r].userId].lockedUntil # None <=> misses[req[r].userId] >= MaxAttempts
           /\ misses[req[r].userId] \in Nat
BY DEF IInv, RequestsOK, RequestOK, UsersOK, Registered, LockMatchesFailures

(* A user is created without failures and unlocked, like its misses. *)
LEMMA CreateUserStep ==
    ASSUME IInv, NEW r \in Requests, NEW u \in Users, NEW registration \in BOOLEAN,
           CreateUser(r, u, registration)
    PROVE  IInv'
<1> DEFINE row == [isActive |-> TRUE, deleted |-> FALSE, failedLoginAttempts |-> 0,
                   lockedUntil |-> None, roleIds |-> {}]
           q == IF registration
                THEN [Idle EXCEPT !.pc = "findRole", !.userId = u, !.signIn = TRUE]
                ELSE req[r]
<1>1. row \in UserRow
  BY DEF UserRow, Instant
<1>2. /\ users' = [users EXCEPT ![u] = row]
      /\ u \notin Registered
      /\ req[r].pc = "idle"
      /\ UNCHANGED <<roles, misses, clock, tokenTables>>
  BY DEF CreateUser
<1>3. users[u] = None /\ misses[u] = 0 /\ misses \in [Users -> Nat]
  BY <1>2 DEF IInv, UsersOK, Registered
<1>4. req' = [req EXCEPT ![r] = q]
  BY DEF CreateUser, IInv, RequestsOK
<1>5. users'[u] # None
  BY <1>1, <1>2, NoneIsNoRow DEF IInv, UsersOK
<1>6. RequestOK(q, users', roles)
  <2>1. CASE registration
    BY <1>5, <2>1 DEF RequestOK, Idle, Request, Steps
  <2>2. CASE ~registration
    BY <1>2, <2>2 DEF RequestOK, IInv, RequestsOK
  <2>3. QED
    BY <2>1, <2>2
<1>7. /\ row.roleIds \subseteq roles
      /\ row.failedLoginAttempts = misses'[u]
      /\ row.lockedUntil # None <=> misses'[u] >= MaxAttempts
  BY <1>2, <1>3
<1> HIDE DEF q, row
<1>8. QED
  BY <1>1, <1>2, <1>3, <1>4, <1>6, <1>7, UserWritten

(* A new role only adds to the roles that can be assigned. *)
LEMMA CreateRoleStep ==
    ASSUME IInv, NEW r \in Requests, NEW role \in Roles, CreateRole(r, role)
    PROVE  IInv'
<1>1. roles' = roles \cup {role} /\ UNCHANGED <<users, misses, clock, tokenTables, req>>
  BY DEF CreateRole
<1>2. UsersOK'
  BY <1>1 DEF IInv, UsersOK, Registered, LockMatchesFailures
<1>3. TokensOK'
  BY <1>1 DEF IInv, TokensOK, Stored, RotatedIsRevoked
<1>4. OwnersOK'
  BY <1>1 DEF IInv, OwnersOK, Stored, Registered
<1>5. RequestsOK'
  <2>1. ASSUME NEW p \in Requests PROVE RequestOK(req[p], users, roles')
    BY <1>1 DEF IInv, RequestsOK, RequestOK
  <2>2. QED
    BY <1>1, <2>1 DEF IInv, RequestsOK
<1>6. QED
  BY <1>1, <1>2, <1>3, <1>4, <1>5 DEF IInv

(* Roles are given and taken by a request that has looked both up. *)
LEMMA RoleOfUserStep ==
    ASSUME IInv, NEW r \in Requests, AssignRole(r) \/ RemoveRole(r)
    PROVE  IInv'
<1> DEFINE u == req[r].userId
<1>1. PICK granted \in {users[u].roleIds \cup {req[r].role}, users[u].roleIds \ {req[r].role}} :
         /\ users' = [users EXCEPT ![u] = [users[u] EXCEPT !.roleIds = granted]]
         /\ granted \subseteq users[u].roleIds \/ req[r].pc = "assignRole"
  BY DEF AssignRole, RemoveRole
<1>2. /\ req[r].pc \in {"assignRole", "removeRole"}
      /\ req' = [req EXCEPT ![r] = [req[r] EXCEPT !.pc = "reset"]]
            \/ req' = [req EXCEPT ![r] = Idle]
      /\ UNCHANGED <<roles, misses, clock, tokenTables>>
  BY DEF AssignRole, RemoveRole, Proceed, Respond
<1> DEFINE row == [users[u] EXCEPT !.roleIds = granted]
<1>3. /\ u \in Users /\ users[u] \in UserRow /\ users[u].roleIds \subseteq roles
      /\ req[r] \in Request /\ RequestOK(req[r], users, roles)
      /\ ~req[r].late
      /\ users[u].failedLoginAttempts = misses[u]
      /\ users[u].lockedUntil # None <=> misses[u] >= MaxAttempts
      /\ misses \in [Users -> Nat] /\ roles \subseteq Roles
  BY <1>2, InHand DEF RequestOK, IInv, UsersOK
<1>4. granted \subseteq roles
  BY <1>1, <1>2, <1>3 DEF RequestOK
<1>5. /\ row \in UserRow /\ row.roleIds = granted /\ row.deleted = users[u].deleted
      /\ row.failedLoginAttempts = users[u].failedLoginAttempts
      /\ row.lockedUntil = users[u].lockedUntil
  BY <1>3, <1>4 DEF UserRow
<1> HIDE DEF row
<1>6. users'[u] # None /\ users'[u] = row
  BY <1>1, <1>3, <1>5, NoneIsNoRow DEF row, IInv, UsersOK
<1>7. /\ RequestOK([req[r] EXCEPT !.pc = "reset"], users', roles)
      /\ RequestOK(Idle, users', roles)
  BY <1>2, <1>3, <1>6, IdleOK DEF RequestOK, Request, Steps
<1>8. PICK q : req' = [req EXCEPT ![r] = q] /\ RequestOK(q, users', roles)
  BY <1>2, <1>7
<1>9. /\ users' = [users EXCEPT ![u] = row]
      /\ row.roleIds \subseteq roles
      /\ row.failedLoginAttempts = misses'[u]
      /\ row.lockedUntil # None <=> misses'[u] >= MaxAttempts
      /\ users[u] # None /\ users[u].deleted => row.deleted
      /\ misses' \in [Users -> Nat]
      /\ \A k \in Users \ {u} : misses'[k] = misses[k]
  BY <1>1, <1>2, <1>3, <1>4, <1>5 DEF row
<1> HIDE DEF u
<1>10. QED
  BY <1>2, <1>3, <1>5, <1>8, <1>9, UserWritten

(* An administrator changes isActive or deletes; no deletion is taken back. *)
LEMMA UserStatusStep ==
    ASSUME IInv, NEW r \in Requests, NEW active \in BOOLEAN,
           UpdateUser(r, active) \/ DeactivateUser(r)
    PROVE  IInv'
<1> DEFINE u == req[r].userId
<1>1. /\ req[r].pc # "idle" /\ UNCHANGED <<roles, misses, clock, tokenTables>>
      /\ req' = [req EXCEPT ![r] = Idle]
  BY DEF UpdateUser, DeactivateUser, Respond
<1>2. /\ u \in Users /\ u \in Registered
      /\ users[u] \in UserRow /\ users[u].roleIds \subseteq roles
      /\ users[u].failedLoginAttempts = misses[u]
      /\ users[u].lockedUntil # None <=> misses[u] >= MaxAttempts
      /\ misses \in [Users -> Nat]
  BY <1>1, InHand DEF IInv, UsersOK
<1>3. PICK row :
         /\ users' = [users EXCEPT ![u] = row]
         /\ row \in UserRow /\ row.roleIds = users[u].roleIds
         /\ users[u].deleted => row.deleted
         /\ row.failedLoginAttempts = users[u].failedLoginAttempts
         /\ row.lockedUntil = users[u].lockedUntil
  <2> DEFINE updated == [users[u] EXCEPT !.isActive = active]
             removed == [users[u] EXCEPT !.isActive = FALSE, !.deleted = TRUE]
  <2>1. \A row \in {updated, removed} :
           /\ row \in UserRow /\ row.roleIds = users[u].roleIds
           /\ users[u].deleted => row.deleted
           /\ row.failedLoginAttempts = users[u].failedLoginAttempts
           /\ row.lockedUntil = users[u].lockedUntil
    BY <1>2 DEF UserRow
  <2>2. \/ users' = [users EXCEPT ![u] = updated]
        \/ users' = [users EXCEPT ![u] = removed]
    BY DEF UpdateUser, DeactivateUser
  <2> HIDE DEF updated, removed
  <2>3. QED
    BY <2>1, <2>2
<1>4. /\ row.failedLoginAttempts = misses'[u]
      /\ row.lockedUntil # None <=> misses'[u] >= MaxAttempts
      /\ row.roleIds \subseteq roles /\ row \in UserRow
      /\ users[u] # None /\ users[u].deleted => row.deleted
      /\ misses' \in [Users -> Nat] /\ \A k \in Users \ {u} : misses'[k] = misses[k]
  BY <1>1, <1>2, <1>3
<1>5. users' = [users EXCEPT ![u] = row] /\ UNCHANGED <<roles, clock, tokenTables>>
  BY <1>1, <1>3
<1> HIDE DEF u
<1>6. QED
  BY <1>1, <1>2, <1>4, <1>5, IdleOK, UserWritten

(* A failure is counted and from the threshold on locks the account; a      *)
(* success clears the counter and the lock together.                        *)
LEMMA LockoutStep ==
    ASSUME IInv, NEW r \in Requests, RecordFailure(r) \/ ResetAttempts(r)
    PROVE  IInv'
<1> DEFINE u == req[r].userId
           attempts == users[u].failedLoginAttempts + 1
<1>1. /\ req[r].pc \in {"recordFailure", "reset"}
      /\ req' = [req EXCEPT ![r] = [req[r] EXCEPT !.pc = "issue"]]
            \/ req' = [req EXCEPT ![r] = Idle]
      /\ UNCHANGED <<roles, clock, tokenTables>>
  BY DEF RecordFailure, ResetAttempts, Proceed, Respond
<1>2. /\ u \in Users /\ users[u] \in UserRow /\ users[u].roleIds \subseteq roles
      /\ req[r] \in Request /\ RequestOK(req[r], users, roles)
      /\ ~req[r].late
      /\ users[u].failedLoginAttempts = misses[u]
      /\ users[u].lockedUntil # None <=> misses[u] >= MaxAttempts
      /\ misses \in [Users -> Nat] /\ misses[u] \in Nat
      /\ clock + LockDuration \in Nat /\ clock + LockDuration # None
  BY <1>1, InHand DEF RequestOK, IInv, UsersOK
<1>3. PICK n \in Nat, until \in Instant :
         /\ users' = [users EXCEPT ![u] = [users[u] EXCEPT !.failedLoginAttempts = n,
                                                         !.lockedUntil = until]]
         /\ misses' = [misses EXCEPT ![u] = n]
         /\ until # None <=> n >= MaxAttempts
  <2>1. CASE RecordFailure(r)
    <3> DEFINE until == IF attempts < MaxAttempts THEN users[u].lockedUntil
                        ELSE clock + LockDuration
    <3>1. /\ users' = [users EXCEPT ![u] = [users[u] EXCEPT
                          !.failedLoginAttempts = attempts, !.lockedUntil = until]]
          /\ misses' = [misses EXCEPT ![u] = misses[u] + 1]
      BY <2>1 DEF RecordFailure
    <3>2. /\ attempts \in Nat /\ attempts = misses[u] + 1 /\ until \in Instant
          /\ until # None <=> attempts >= MaxAttempts
      BY <1>2 DEF UserRow, Instant
    <3>3. QED
      BY <3>1, <3>2
  <2>2. CASE ResetAttempts(r)
    <3>1. /\ users' = [users EXCEPT ![u] = [users[u] EXCEPT
                          !.failedLoginAttempts = 0, !.lockedUntil = None]]
          /\ misses' = [misses EXCEPT ![u] = 0]
      BY <2>2 DEF ResetAttempts
    <3>2. None \in Instant /\ 0 \in Nat /\ ~(0 >= MaxAttempts)
      BY DEF Instant
    <3>3. QED
      BY <3>1, <3>2
  <2>3. QED
    BY <2>1, <2>2
<1> DEFINE row == [users[u] EXCEPT !.failedLoginAttempts = n, !.lockedUntil = until]
<1>4. /\ row \in UserRow /\ row.roleIds = users[u].roleIds
      /\ row.deleted = users[u].deleted
      /\ row.failedLoginAttempts = n /\ row.lockedUntil = until
  BY <1>2 DEF UserRow
<1>5. users' = [users EXCEPT ![u] = row]
  BY <1>3
<1> HIDE DEF row
<1>6. users'[u] # None
  BY <1>2, <1>4, <1>5, NoneIsNoRow DEF IInv, UsersOK
<1>7. /\ RequestOK([req[r] EXCEPT !.pc = "issue"], users', roles)
      /\ RequestOK(Idle, users', roles)
  BY <1>1, <1>2, <1>6, IdleOK DEF RequestOK, Request, Steps
<1>8. /\ misses' \in [Users -> Nat] /\ misses'[u] = n
      /\ \A k \in Users \ {u} : misses'[k] = misses[k]
  BY <1>2, <1>3
<1>9. PICK q : req' = [req EXCEPT ![r] = q] /\ RequestOK(q, users', roles)
  BY <1>1, <1>7
<1>10. /\ row.roleIds \subseteq roles
       /\ row.failedLoginAttempts = misses'[u]
       /\ row.lockedUntil # None <=> misses'[u] >= MaxAttempts
       /\ users[u] # None /\ users[u].deleted => row.deleted
  BY <1>2, <1>3, <1>4, <1>8
<1> HIDE DEF u
<1>11. QED
  BY <1>1, <1>2, <1>4, <1>5, <1>8, <1>9, <1>10, UserWritten

-----------------------------------------------------------------------------
(***************************************************************************)
(* Steps that only read.                                                   *)
(***************************************************************************)

(* Requests arrive with a user that exists. *)
LEMMA ArriveStep ==
    ASSUME IInv, NEW r \in Requests,
           \/ \E u \in Users, b \in BOOLEAN : Login(r, u, b)
           \/ \E u \in Users, role \in Roles, pc \in {"assignRole", "removeRole"} :
                 ChangeRole(r, u, role, pc)
           \/ \E u \in Users, pc \in {"updateUser", "deactivateUser"} :
                 RequireUser(r, u, pc)
           \/ \E t \in Tokens, pc \in {"findUser", "revoke"} : Present(r, t, pc)
    PROVE  IInv'
<1>1. CASE \E u \in Users, b \in BOOLEAN : Login(r, u, b)
  <2>1. PICK u \in Users, b \in BOOLEAN : Login(r, u, b)
    BY <1>1
  <2> DEFINE q == [Idle EXCEPT !.userId = u, !.signIn = TRUE,
                               !.pc = IF b THEN "reset" ELSE "recordFailure"]
  <2>2. RequestOK(q, users, roles)
    BY <2>1 DEF Login, Visible, Registered, RequestOK, Idle, Request, Steps
  <2>3. req' = [req EXCEPT ![r] = q] /\ UNCHANGED <<userTables, clock, tokenTables>>
    BY <2>1 DEF Login
  <2> HIDE DEF q
  <2>4. QED
    BY <2>2, <2>3, OnlyRequest
<1>2. CASE \E u \in Users, role \in Roles, pc \in {"assignRole", "removeRole"} :
              ChangeRole(r, u, role, pc)
  <2>1. PICK u \in Users, role \in Roles, pc \in {"assignRole", "removeRole"} :
           ChangeRole(r, u, role, pc)
    BY <1>2
  <2> DEFINE q == [Idle EXCEPT !.pc = pc, !.userId = u, !.role = role]
  <2>2. RequestOK(q, users, roles)
    BY <2>1 DEF ChangeRole, Visible, Registered, RequestOK, Idle, Request, Steps
  <2>3. req' = [req EXCEPT ![r] = q] /\ UNCHANGED <<userTables, clock, tokenTables>>
    BY <2>1 DEF ChangeRole
  <2> HIDE DEF q
  <2>4. QED
    BY <2>2, <2>3, OnlyRequest
<1>3. CASE \E t \in Tokens, pc \in {"findUser", "revoke"} : Present(r, t, pc)
  <2>1. PICK t \in Tokens, pc \in {"findUser", "revoke"} : Present(r, t, pc)
    BY <1>3
  <2> DEFINE u == tokens[t].userId
             q == [Idle EXCEPT !.pc = pc, !.userId = u, !.token = t,
                               !.late = users[u].deleted]
  <2>2. u \in Users /\ users[u] \in UserRow /\ users[u] # None
    BY <2>1 DEF Present, ValidToken, IInv, OwnersOK, UsersOK, Registered
  <2>3. RequestOK(q, users, roles)
    BY <2>1, <2>2 DEF RequestOK, Idle, Request, Steps, UserRow
  <2>4. req' = [req EXCEPT ![r] = q] /\ UNCHANGED <<userTables, clock, tokenTables>>
    BY <2>1 DEF Present
  <2> HIDE DEF q
  <2>5. QED
    BY <2>3, <2>4, OnlyRequest
<1>4. CASE \E u \in Users, pc \in {"updateUser", "deactivateUser"} : RequireUser(r, u, pc)
  <2>1. PICK u \in Users, pc \in {"updateUser", "deactivateUser"} : RequireUser(r, u, pc)
    BY <1>4
  <2> DEFINE q == [Idle EXCEPT !.pc = pc, !.userId = u]
  <2>2. RequestOK(q, users, roles)
    BY <2>1 DEF RequireUser, Visible, Registered, RequestOK, Idle, Request, Steps
  <2>3. req' = [req EXCEPT ![r] = q] /\ UNCHANGED <<userTables, clock, tokenTables>>
    BY <2>1 DEF RequireUser
  <2> HIDE DEF q
  <2>4. QED
    BY <2>2, <2>3, OnlyRequest
<1>5. QED
  BY <1>1, <1>2, <1>3, <1>4

(* A read decides how a request goes on; a deleted user is not found. *)
LEMMA ReadStep ==
    ASSUME IInv, NEW r \in Requests,
           FindDefaultRole(r) \/ FindUser(r) \/ Abort(r)
    PROVE  IInv'
<1> DEFINE found == [req[r] EXCEPT !.pc = "assignRole", !.role = DefaultRole]
           active == [req[r] EXCEPT !.pc = "rotate"]
<1>1. /\ req[r].pc # "idle"
      /\ UNCHANGED <<userTables, clock, tokenTables>>
  BY DEF FindDefaultRole, FindUser, Abort
<1>2. req[r] \in Request /\ RequestOK(req[r], users, roles)
  BY <1>1, InHand
<1>3. CASE req' = [req EXCEPT ![r] = Idle]
  BY <1>1, <1>3, IdleOK, OnlyRequest
<1>4. CASE FindDefaultRole(r) /\ req' = [req EXCEPT ![r] = found] /\ DefaultRole \in roles
  <2>1. RequestOK(found, users, roles)
    BY <1>2, <1>4 DEF FindDefaultRole, RequestOK, Request, Steps
  <2> HIDE DEF found
  <2>2. QED
    BY <1>1, <1>4, <2>1, OnlyRequest
<1>5. CASE FindUser(r) /\ req' = [req EXCEPT ![r] = active] /\ Visible(req[r].userId)
  <2>1. RequestOK(active, users, roles)
    BY <1>2, <1>5 DEF FindUser, Visible, RequestOK, Request, Steps
  <2> HIDE DEF active
  <2>2. QED
    BY <1>1, <1>5, <2>1, OnlyRequest
<1>6. QED
  BY <1>3, <1>4, <1>5 DEF FindDefaultRole, FindUser, Abort, Proceed, Respond

-----------------------------------------------------------------------------
(***************************************************************************)
(* Steps that write tokens.                                                *)
(***************************************************************************)

(* A token that is inserted is new; it has no parent or a revoked one. *)
LEMMA InsertToken ==
    ASSUME IInv, NEW t \in Tokens \ issued, NEW u \in Users, u \in Registered,
           NEW parent \in (Stored \cup {None}),
           NEW old \in [Tokens -> TokenRow \cup {None}],
           \A s \in Tokens : old[s] # None <=> s \in Stored,
           \A s \in Stored : /\ old[s].parent = tokens[s].parent
                             /\ old[s].userId = tokens[s].userId
                             /\ tokens[s].revokedAt # None => old[s].revokedAt # None,
           parent # None => old[parent].revokedAt # None,
           tokens' = [old EXCEPT ![t] = NewToken(u, parent)],
           issued' = issued \cup {t},
           UNCHANGED users
    PROVE  TokensOK' /\ OwnersOK'
<1> DEFINE row == NewToken(u, parent)
<1>1. /\ row \in TokenRow /\ row # None /\ row.parent = parent /\ row.userId = u
  <2>1. row \in TokenRow /\ row.parent = parent /\ row.userId = u
    BY DEF NewToken, TokenRow, Instant, IInv, TokensOK, Stored
  <2>2. QED
    BY <2>1, NoneIsNoRow
<1> HIDE DEF row
<1>2. /\ tokens' \in [Tokens -> TokenRow \cup {None}]
      /\ tokens'[t] = row
      /\ \A s \in Tokens \ {t} : tokens'[s] = old[s]
  BY <1>1 DEF row
<1>3. t \notin Stored /\ Stored' = Stored \cup {t}
  BY <1>1, <1>2 DEF Stored, IInv, TokensOK
<1>4. /\ Stored' \subseteq issued' /\ issued' \subseteq Tokens
      /\ \A s \in Stored' : tokens'[s].parent \in issued' \cup {None}
  BY <1>1, <1>2, <1>3 DEF IInv, TokensOK
<1>5. RotatedIsRevoked'
  <2>1. ASSUME NEW s \in Stored', tokens'[s].parent \in Stored'
        PROVE  tokens'[tokens'[s].parent].revokedAt # None
    <3>1. CASE s = t
      BY <1>1, <1>2, <1>3, <2>1, <3>1 DEF IInv, TokensOK, Stored
    <3>2. CASE s # t
      <4>1. s \in Stored /\ s \in Tokens /\ tokens'[s].parent = tokens[s].parent
        BY <1>2, <1>3, <3>2 DEF Stored
      <4>2. tokens[s].parent # t /\ tokens[s].parent \in Stored
        BY <1>3, <2>1, <4>1 DEF IInv, TokensOK, Stored
      <4>3. tokens[tokens[s].parent].revokedAt # None
        BY <4>1, <4>2 DEF IInv, TokensOK, RotatedIsRevoked
      <4>4. QED
        BY <1>2, <4>1, <4>2, <4>3 DEF Stored
    <3>3. QED
      BY <3>1, <3>2
  <2>2. QED
    BY <2>1 DEF RotatedIsRevoked
<1>6. OwnersOK'
  BY <1>1, <1>2, <1>3 DEF IInv, OwnersOK, Registered, Stored
<1>7. QED
  BY <1>2, <1>4, <1>5, <1>6 DEF TokensOK

(* Revoking one token revokes no other and changes no parent. *)
LEMMA RevokedRow ==
    ASSUME IInv, NEW s \in Stored
    PROVE  LET old == [tokens EXCEPT ![s] = [tokens[s] EXCEPT !.revokedAt = clock]]
           IN  /\ old \in [Tokens -> TokenRow \cup {None}]
               /\ \A t \in Tokens : old[t] # None <=> t \in Stored
               /\ \A t \in Stored : /\ old[t].parent = tokens[t].parent
                                    /\ old[t].userId = tokens[t].userId
                                    /\ tokens[t].revokedAt # None => old[t].revokedAt # None
               /\ \A t \in Tokens \ {s} : old[t] = tokens[t]
               /\ old[s].revokedAt # None
<1> DEFINE row == [tokens[s] EXCEPT !.revokedAt = clock]
           old == [tokens EXCEPT ![s] = row]
<1>1. /\ s \in Tokens /\ tokens[s] \in TokenRow
      /\ clock \in Nat /\ clock # None
      /\ tokens \in [Tokens -> TokenRow \cup {None}]
  BY DEF IInv, TokensOK, Stored
<1>2. row \in TokenRow /\ row.parent = tokens[s].parent /\ row.revokedAt = clock
      /\ row.userId = tokens[s].userId
  BY <1>1 DEF TokenRow, Instant
<1>3. row # None
  BY <1>2, NoneIsNoRow
<1> HIDE DEF row
<1>4. /\ old \in [Tokens -> TokenRow \cup {None}]
      /\ old[s] = row
      /\ \A t \in Tokens \ {s} : old[t] = tokens[t]
  BY <1>1, <1>2
<1> HIDE DEF old
<1>5. QED
  BY <1>1, <1>2, <1>3, <1>4 DEF Stored, old, row

(* A login's token has no parent. *)
LEMMA IssueStep ==
    ASSUME IInv, NEW r \in Requests, NEW t \in Tokens, Issue(r, t)
    PROVE  IInv'
<1>1. /\ req[r].pc # "idle" /\ t \notin issued
      /\ tokens' = [tokens EXCEPT ![t] = NewToken(req[r].userId, None)]
      /\ issued' = issued \cup {t}
      /\ req' = [req EXCEPT ![r] = Idle]
      /\ UNCHANGED <<userTables, clock>>
  BY DEF Issue, Respond
<1>2. req[r].userId \in Users /\ req[r].userId \in Registered
  BY <1>1, InHand
<1>3. TokensOK' /\ OwnersOK'
  <2>1. /\ tokens \in [Tokens -> TokenRow \cup {None}]
        /\ \A s \in Tokens : tokens[s] # None <=> s \in Stored
    BY DEF IInv, TokensOK, Stored
  <2>2. QED
    BY <1>1, <1>2, <2>1, InsertToken
<1>4. QED
  BY <1>1, <1>3, IdleOK, TokensWritten

(* The presented token is revoked with the insertion of the new one. *)
LEMMA RotateStep ==
    ASSUME IInv, NEW r \in Requests, NEW t \in Tokens, Rotate(r, t)
    PROVE  IInv'
<1> DEFINE s == req[r].token
           old == [tokens EXCEPT ![s] = [tokens[s] EXCEPT !.revokedAt = clock]]
           q == [req[r] EXCEPT !.pc = "reset"]
<1>1. req[r].pc = "rotate" /\ t \notin issued /\ UNCHANGED <<userTables, clock>>
  BY DEF Rotate
<1>2. /\ req[r] \in Request /\ RequestOK(req[r], users, roles) /\ req[r].userId \in Users
      /\ req[r].userId \in Registered
  BY <1>1, InHand
<1>3. CASE s \notin Stored
  BY <1>1, <1>3, IdleOK, OnlyRequest DEF Rotate, Respond
<1>4. CASE s \in Stored
  <2>1. /\ tokens' = [old EXCEPT ![t] = NewToken(req[r].userId, s)]
        /\ issued' = issued \cup {t}
        /\ req' = [req EXCEPT ![r] = q]
    BY <1>4 DEF Rotate, Proceed
  <2>2. /\ old \in [Tokens -> TokenRow \cup {None}]
        /\ \A k \in Tokens : old[k] # None <=> k \in Stored
        /\ \A k \in Stored : /\ old[k].parent = tokens[k].parent
                             /\ old[k].userId = tokens[k].userId
                             /\ tokens[k].revokedAt # None => old[k].revokedAt # None
        /\ old[s].revokedAt # None
    BY <1>4, RevokedRow
  <2>3. RequestOK(q, users, roles)
    BY <1>1, <1>2 DEF RequestOK, Request, Steps
  <2> HIDE DEF old, q, s
  <2>4. TokensOK' /\ OwnersOK'
    <3>1. s \in Stored \cup {None} /\ t \in Tokens \ issued
      BY <1>1, <1>4 DEF s
    <3>2. s \in Stored
      BY <1>4 DEF s
    <3>3. /\ \A k \in Tokens : old[k] # None <=> k \in Stored
          /\ \A k \in Stored : /\ old[k].parent = tokens[k].parent
                               /\ old[k].userId = tokens[k].userId
                               /\ tokens[k].revokedAt # None => old[k].revokedAt # None
          /\ s # None => old[s].revokedAt # None
      BY <2>2
    <3>4. QED
      BY <1>1, <1>2, <2>1, <2>2, <3>1, <3>3, InsertToken
  <2>5. QED
    BY <1>1, <2>1, <2>3, <2>4, TokensWritten
<1>5. QED
  BY <1>3, <1>4

(* Logout revokes the presented token, or finds it cleaned up. *)
LEMMA RevokeStep ==
    ASSUME IInv, NEW r \in Requests, Revoke(r)
    PROVE  IInv'
<1> DEFINE s == req[r].token
           old == [tokens EXCEPT ![s] = [tokens[s] EXCEPT !.revokedAt = clock]]
<1>1. /\ req' = [req EXCEPT ![r] = Idle]
      /\ UNCHANGED <<userTables, clock, issued>>
  BY DEF Revoke, Respond
<1>2. CASE s \notin Stored
  BY <1>1, <1>2, IdleOK, OnlyRequest DEF Revoke
<1>3. CASE s \in Stored
  <2>1. tokens' = old
    BY <1>3 DEF Revoke
  <2>2. /\ old \in [Tokens -> TokenRow \cup {None}]
        /\ \A k \in Tokens : old[k] # None <=> k \in Stored
        /\ \A k \in Stored : /\ old[k].parent = tokens[k].parent
                             /\ old[k].userId = tokens[k].userId
                             /\ tokens[k].revokedAt # None => old[k].revokedAt # None
    BY <1>3, RevokedRow
  <2> HIDE DEF old
  <2>3. Stored' = Stored
    BY <2>1, <2>2 DEF Stored
  <2>4. RotatedIsRevoked'
    <3>1. ASSUME NEW k \in Stored, tokens'[k].parent \in Stored
          PROVE  tokens'[tokens'[k].parent].revokedAt # None
      <4>1. tokens[tokens[k].parent].revokedAt # None /\ tokens'[k].parent = tokens[k].parent
        BY <2>1, <2>2, <3>1 DEF IInv, TokensOK, RotatedIsRevoked
      <4>2. QED
        BY <2>1, <2>2, <3>1, <4>1
    <3>2. QED
      BY <2>3, <3>1 DEF RotatedIsRevoked
  <2>5. TokensOK' /\ OwnersOK'
    BY <1>1, <2>1, <2>2, <2>3, <2>4 DEF IInv, TokensOK, OwnersOK, Registered
  <2>6. QED
    BY <1>1, <2>5, IdleOK, TokensWritten
<1>4. QED
  BY <1>2, <1>3

(* The cleanup drops rows and changes none. *)
LEMMA CleanupStep ==
    ASSUME IInv, Cleanup
    PROVE  IInv'
<1>1. /\ tokens' = [t \in Tokens |-> IF t \in Stored /\ Stale(t) THEN None ELSE tokens[t]]
      /\ UNCHANGED <<userTables, issued, clock, req>>
  BY DEF Cleanup
<1>2. /\ tokens' \in [Tokens -> TokenRow \cup {None}]
      /\ Stored' \subseteq Stored
      /\ \A t \in Stored' : tokens'[t] = tokens[t]
  BY <1>1 DEF IInv, TokensOK, Stored
<1>3. TokensOK'
  BY <1>1, <1>2 DEF IInv, TokensOK, RotatedIsRevoked
<1>4. UsersOK' /\ RequestsOK' /\ OwnersOK'
  BY <1>1, <1>2 DEF IInv, UsersOK, Registered, LockMatchesFailures, RequestsOK, OwnersOK
<1>5. QED
  BY <1>1, <1>3, <1>4 DEF IInv

-----------------------------------------------------------------------------
(***************************************************************************)
(* The invariant.                                                          *)
(***************************************************************************)

(* Time passes; nothing of the invariant reads the clock. *)
LEMMA TickStep ==
    ASSUME IInv, Tick
    PROVE  IInv'
<1>1. clock' \in Nat /\ UNCHANGED <<userTables, tokenTables, req>>
  BY DEF Tick, IInv
<1>2. UsersOK' /\ TokensOK' /\ OwnersOK' /\ RequestsOK'
  BY <1>1 DEF IInv, UsersOK, Registered, LockMatchesFailures, TokensOK, Stored,
              RotatedIsRevoked, OwnersOK, RequestsOK
<1>3. QED
  BY <1>1, <1>2 DEF IInv

(* A stutter. *)
LEMMA StutterStep ==
    ASSUME IInv, UNCHANGED vars
    PROVE  IInv'
<1>1. UNCHANGED <<userTables, clock, tokenTables, req>>
  BY DEF vars
<1>2. UsersOK' /\ TokensOK' /\ OwnersOK' /\ RequestsOK'
  BY <1>1 DEF IInv, UsersOK, Registered, LockMatchesFailures, TokensOK, Stored,
              RotatedIsRevoked, OwnersOK, RequestsOK
<1>3. QED
  BY <1>1, <1>2 DEF IInv

(* An empty organization has no user, no token and no request in flight. *)
LEMMA Initially == Init => IInv
<1> SUFFICES ASSUME Init PROVE IInv
  OBVIOUS
<1>1. Registered = {} /\ Stored = {}
  BY DEF Init, Registered, Stored
<1>2. UsersOK /\ TokensOK /\ OwnersOK /\ clock \in Nat
  BY <1>1 DEF Init, UsersOK, LockMatchesFailures, TokensOK, RotatedIsRevoked, OwnersOK
<1>3. RequestsOK
  BY IdleOK DEF Init, RequestsOK
<1>4. QED
  BY <1>2, <1>3 DEF IInv

(* Every step keeps the invariant. *)
LEMMA EveryStep == IInv /\ [Next]_vars => IInv'
<1> SUFFICES ASSUME IInv, [Next]_vars PROVE IInv'
  OBVIOUS
<1>1. CASE Tick \/ Cleanup
  BY <1>1, TickStep, CleanupStep
<1>2. ASSUME NEW r \in Requests, Arrival(r) PROVE IInv'
  <2>1. ASSUME NEW u \in Users, NEW b \in BOOLEAN, CreateUser(r, u, b) PROVE IInv'
    BY <2>1, CreateUserStep
  <2>2. ASSUME NEW role \in Roles, CreateRole(r, role) PROVE IInv'
    BY <2>2, CreateRoleStep
  <2>3. CASE \/ \E u \in Users, b \in BOOLEAN : Login(r, u, b)
             \/ \E u \in Users, role \in Roles, pc \in {"assignRole", "removeRole"} :
                   ChangeRole(r, u, role, pc)
             \/ \E u \in Users, pc \in {"updateUser", "deactivateUser"} :
                   RequireUser(r, u, pc)
             \/ \E t \in Tokens, pc \in {"findUser", "revoke"} : Present(r, t, pc)
    BY <2>3, ArriveStep
  <2>4. QED
    BY <1>2, <2>1, <2>2, <2>3 DEF Arrival
<1>3. ASSUME NEW r \in Requests, Step(r) \/ Abort(r) PROVE IInv'
  <2>1. ASSUME NEW t \in Tokens, Issue(r, t) \/ Rotate(r, t) PROVE IInv'
    BY <2>1, IssueStep, RotateStep
  <2>2. CASE DeactivateUser(r) \/ \E active \in BOOLEAN : UpdateUser(r, active)
    BY <2>2, UserStatusStep
  <2>3. QED
    BY <1>3, <2>1, <2>2, ReadStep, RoleOfUserStep, LockoutStep, RevokeStep DEF Step
<1>4. CASE UNCHANGED vars
  BY <1>4, StutterStep
<1>5. QED
  BY <1>1, <1>2, <1>3, <1>4 DEF Next

(* The invariant holds of every behaviour. *)
THEOREM Inductive == Spec => []IInv
BY Initially, EveryStep, PTL DEF Spec

-----------------------------------------------------------------------------
(***************************************************************************)
(* What follows from it.                                                   *)
(***************************************************************************)

(* Types, and no role assigned that the organization does not have. *)
THEOREM TypeCorrect == Spec => []TypeOK
<1>1. IInv => TypeOK
  BY DEF IInv, UsersOK, TokensOK, RequestsOK, TypeOK
<1>2. QED
  BY <1>1, Inductive, PTL

(* The lock and the counter agree with the wrong passwords answered. *)
THEOREM LockoutExact == Spec => []LockMatchesFailures
<1>1. IInv => LockMatchesFailures
  BY DEF IInv, UsersOK
<1>2. QED
  BY <1>1, Inductive, PTL

(* A token and its successor are never both usable. *)
THEOREM RotationRevokes == Spec => []RotatedIsRevoked
<1>1. IInv => RotatedIsRevoked
  BY DEF IInv, TokensOK
<1>2. QED
  BY <1>1, Inductive, PTL

(* A request that comes after the deletion of its user gets no new token. *)
THEOREM DeletedStaysOut == Spec => []DeletedUserIsOut
<1>1. IInv => DeletedUserIsOut
  BY DEF IInv, RequestsOK, RequestOK, DeletedUserIsOut
<1>2. QED
  BY <1>1, Inductive, PTL

(* What a step can do to a token that has been issued: leave it, revoke it  *)
(* or, when it is stale, drop it.                                           *)
LEMMA TokenFates ==
    ASSUME IInv, [Next]_vars, NEW t \in issued
    PROVE  /\ clock' \in Nat /\ clock' >= clock
           /\ \/ tokens'[t] = tokens[t]
              \/ tokens'[t] # None /\ tokens'[t].revokedAt # None
              \/ tokens'[t] = None /\ t \in Stored /\ Stale(t)
<1>1. /\ t \in Tokens /\ clock \in Nat /\ clock # None
      /\ tokens \in [Tokens -> TokenRow \cup {None}]
  BY DEF IInv, TokensOK
<1>2. CASE Tick
  BY <1>1, <1>2 DEF Tick
<1>3. CASE Cleanup
  BY <1>1, <1>3 DEF Cleanup
<1>4. ASSUME NEW r \in Requests, NEW s \in Tokens, Issue(r, s)
      PROVE  clock' = clock /\ tokens'[t] = tokens[t]
  BY <1>1, <1>4 DEF Issue
<1>5. ASSUME NEW r \in Requests, Revoke(r) \/ \E s \in Tokens : Rotate(r, s)
      PROVE  /\ clock' = clock
             /\ \/ tokens'[t] = tokens[t]
                \/ tokens'[t] # None /\ tokens'[t].revokedAt # None
  <2> DEFINE old == [tokens EXCEPT ![req[r].token] = [tokens[req[r].token] EXCEPT
                                                        !.revokedAt = clock]]
  <2>1. CASE req[r].token \notin Stored
    BY <1>5, <2>1 DEF Revoke, Rotate, tokenTables
  <2>2. CASE req[r].token \in Stored
    <3>1. /\ old \in [Tokens -> TokenRow \cup {None}]
          /\ \A k \in Tokens : old[k] # None <=> k \in Stored
          /\ \A k \in Tokens \ {req[r].token} : old[k] = tokens[k]
          /\ old[req[r].token].revokedAt # None
      BY <2>2, RevokedRow
    <3>2. \/ tokens' = old
          \/ \E s \in Tokens \ issued :
                tokens' = [old EXCEPT ![s] = NewToken(req[r].userId, req[r].token)]
      BY <1>5, <2>2 DEF Revoke, Rotate
    <3>3. clock' = clock
      BY <1>5 DEF Revoke, Rotate
    <3> HIDE DEF old
    <3>4. tokens'[t] = old[t]
      BY <1>1, <3>1, <3>2
    <3>5. QED
      BY <1>1, <2>2, <3>1, <3>3, <3>4
  <2>3. QED
    BY <2>1, <2>2
<1>6. ASSUME NEW r \in Requests,
             \/ FindDefaultRole(r) \/ AssignRole(r) \/ RemoveRole(r) \/ RecordFailure(r)
             \/ ResetAttempts(r) \/ FindUser(r) \/ Abort(r) \/ Arrival(r)
             \/ DeactivateUser(r) \/ \E active \in BOOLEAN : UpdateUser(r, active)
      PROVE  clock' = clock /\ tokens'[t] = tokens[t]
  BY <1>6 DEF FindDefaultRole, AssignRole, RemoveRole, RecordFailure, ResetAttempts, FindUser,
              Abort, Arrival, CreateUser, Login, UpdateUser, DeactivateUser, CreateRole,
              ChangeRole, RequireUser, Present
<1>7. CASE UNCHANGED vars
  BY <1>1, <1>7 DEF vars
<1>8. ASSUME NEW r \in Requests, Arrival(r) \/ Step(r) \/ Abort(r)
      PROVE  /\ clock' = clock
             /\ \/ tokens'[t] = tokens[t]
                \/ tokens'[t] # None /\ tokens'[t].revokedAt # None
  BY <1>4, <1>5, <1>6, <1>8 DEF Step
<1>9. QED
  BY <1>1, <1>2, <1>3, <1>7, <1>8 DEF Next

(* No step drops a usable token or makes an unusable one usable. *)
THEOREM SessionsKept == Spec => SessionsEndByRevocation
<1>1. IInv /\ [Next]_vars =>
        [\A t \in issued : /\ ValidToken(t) => tokens'[t] # None
                           /\ ValidToken(t)' => ValidToken(t)]_vars
  <2> SUFFICES ASSUME IInv, [Next]_vars, NEW t \in issued
               PROVE  /\ ValidToken(t) => tokens'[t] # None
                      /\ ValidToken(t)' => ValidToken(t)
    OBVIOUS
  <2>1. /\ clock \in Nat /\ t \in Tokens
        /\ tokens[t] # None => tokens[t].expiresAt \in Nat
    BY DEF IInv, TokensOK, TokenRow
  <2>2. /\ clock' \in Nat /\ clock' >= clock
        /\ \/ tokens'[t] = tokens[t]
           \/ tokens'[t] # None /\ tokens'[t].revokedAt # None
           \/ tokens'[t] = None /\ t \in Stored /\ Stale(t)
    BY TokenFates
  <2>3. ValidToken(t) => ~Stale(t)
    BY <2>1 DEF ValidToken, Stale, Stored
  <2>4. ValidToken(t) => tokens'[t] # None
    BY <2>2, <2>3 DEF ValidToken, Stored
  <2>5. ASSUME ValidToken(t)' PROVE ValidToken(t)
    <3>1. /\ tokens'[t] # None /\ tokens'[t].revokedAt = None
          /\ tokens'[t].expiresAt > clock'
      BY <2>5 DEF ValidToken, Stored
    <3>2. tokens'[t] = tokens[t]
      BY <2>2, <3>1
    <3>3. QED
      BY <2>1, <2>2, <3>1, <3>2 DEF ValidToken, Stored
  <2>6. QED
    BY <2>4, <2>5
<1>2. QED
  BY <1>1, Inductive, PTL DEF Spec, SessionsEndByRevocation
=============================================================================
