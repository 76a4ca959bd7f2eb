-------------------------------- MODULE Accounts --------------------------------
(***************************************************************************)
(* Accounts and sessions of the API (api/security, api/auth_routes) and    *)
(* the commands of the shell that write the same tables.  A request runs   *)
(* in a thread of its own and every statement commits by itself, so two    *)
(* requests meet between any two statements of either.                     *)
(***************************************************************************)
EXTENDS FiniteSets, Naturals

CONSTANTS
  Users,       \* the email addresses in use
  First,       \* AUTH_ADMIN_EMAIL
  Sessions,    \* session rows in use
  Requests,    \* request threads and shell commands at work
  NoUser,      \* a request of the shell acts for nobody
  NoSession,
  MaxFails,    \* max_failed_logins
  IpBudget,    \* ip_max_attempts
  MaxIssued,   \* bound: passwords set per account
  Upsets       \* what the environment may do: "overlaps", "raises"

ASSUME AccountsAssumption ==
  /\ IsFiniteSet(Users) /\ First \in Users /\ NoUser \notin Users
  /\ IsFiniteSet(Requests)
  /\ NoSession \notin Sessions
  /\ MaxFails \in Nat \ {0} /\ IpBudget \in Nat \ {0} /\ MaxIssued \in Nat \ {0}
  /\ Upsets \subseteq {"overlaps", "raises"}

VARIABLES
  users,     \* the table users, by email
  sessions,  \* the table sessions
  request,   \* what each request has read and is about to write
  hits       \* attempts of the one address the users share (_ip_hits)

vars == <<users, sessions, request, hits>>

(* A password is the number it was issued under and who thought of it: an   *)
(* administrator or the generator, the owner, the operator's environment.   *)
Password == [n: 0..MaxIssued, by: {"temporary", "owner", "operator"}]
NoPassword == [n |-> 0, by |-> "temporary"]
UserRow == [role: {"none", "officer", "admin"}, active: BOOLEAN, must: BOOLEAN,
            fails: 0..MaxFails, locked: BOOLEAN, password: Password]
NoRow == [role |-> "none", active |-> FALSE, must |-> FALSE, fails |-> 0, locked |-> FALSE,
          password |-> NoPassword]
SessionRow == [user: Users \cup {NoUser}, live: BOOLEAN, password: 0..MaxIssued, late: BOOLEAN]
NoLogin == [user |-> NoUser, live |-> FALSE, password |-> 0, late |-> FALSE]
Phases == {"idle", "admitted", "verifying", "opening", "changing", "acting", "deactivating", "resetting",
           "sweeping", "founding"}
Seen == [fails: 0..MaxFails, password: Password]
SeenOf(row) == [fails |-> row.fails, password |-> row.password]
RequestState == [at: Phases, by: Users \cup {NoUser}, session: Sessions \cup {NoSession},
                 user: Users \cup {NoUser}, seen: Seen, late: BOOLEAN]
Idle == [at |-> "idle", by |-> NoUser, session |-> NoSession, user |-> NoUser, seen |-> SeenOf(NoRow),
         late |-> FALSE]

(* Every request may have been let in on the last attempt of the budget.    *)
MostHits == IpBudget + Cardinality(Requests) - 1

TypeOK ==
  /\ users \in [Users -> UserRow]
  /\ sessions \in [Sessions -> SessionRow]
  /\ request \in [Requests -> RequestState]
  /\ hits \in 0..MostHits

Init ==
  /\ users = [u \in Users |-> NoRow]
  /\ sessions = [s \in Sessions |-> NoLogin]
  /\ request = [r \in Requests |-> Idle]
  /\ hits = 0

-----------------------------------------------------------------------------
(* The statements of users.py.                                              *)

Exists(u) == users[u].role # "none"
ActiveAdmins == {u \in Users : users[u].role = "admin" /\ users[u].active}

Ended(r) == request' = [request EXCEPT ![r] = Idle]

(* What a session stands for on this very request: revoked and expired ones *)
(* nothing, and nothing for an account that was deactivated.                *)
Resolves(s) == sessions[s].live /\ users[sessions[s].user].active

MayWork(s) == Resolves(s) /\ ~users[sessions[s].user].must
MayAdminister(s) == MayWork(s) /\ users[sessions[s].user].role = "admin"

(* INSERT INTO users, refused by the unique index if the address is taken.  *)
Inserted(u, role, password, must) ==
  users' = [users EXCEPT ![u] =
    [role |-> role, active |-> TRUE, must |-> must, fails |-> 0, locked |-> FALSE,
     password |-> password]]

Issued(u, by) == [n |-> users[u].password.n + 1, by |-> by]

PasswordSet(u, password, must) ==
  users' = [users EXCEPT ![u] =
    [@ EXCEPT !.password = password, !.must = must, !.fails = 0, !.locked = FALSE]]

(* A sign-in that has read the row before the password is set is late.      *)
Overtaken(r, u, next) ==
  [q \in Requests |->
     IF q = r THEN next
     ELSE IF request[q].user = u /\ request[q].at \in {"verifying", "opening"}
          THEN [request[q] EXCEPT !.late = TRUE] ELSE request[q]]

(* Mutant: without IS NULL the comparison with no session holds for no row. *)
Revoked_NotNull(u, keep) ==
  [s \in Sessions |->
     IF sessions[s].user = u /\ sessions[s].live /\ s # keep /\ keep # NoSession
     THEN NoLogin ELSE sessions[s]]

Revoked(u, keep) ==
  [s \in Sessions |->
     IF sessions[s].user # u \/ ~sessions[s].live THEN sessions[s]
     ELSE IF s = keep THEN [sessions[s] EXCEPT !.password = users[u].password.n]
     ELSE NoLogin]

(* The second statement of set_password and set_active.                     *)
Sweep(r) ==
  /\ request[r].at = "sweeping"
  /\ sessions' = Revoked(request[r].user, request[r].session)
  /\ Ended(r)
  /\ UNCHANGED <<users, hits>>

-----------------------------------------------------------------------------
(* Signing in and out.                                                      *)

(* Mutant: the budget is not looked at before the attempt is counted.       *)
CheckAddress_Unchecked(r) ==
  /\ request[r].at = "idle"
  /\ request' = [request EXCEPT ![r] = [Idle EXCEPT !.at = "admitted"]]
  /\ UNCHANGED <<users, sessions, hits>>

(* An address over its budget is turned away before anything is read.       *)
CheckAddress(r) ==
  /\ request[r].at = "idle" /\ hits < IpBudget
  /\ request' = [request EXCEPT ![r] = [Idle EXCEPT !.at = "admitted"]]
  /\ UNCHANGED <<users, sessions, hits>>

(* The attempt is recorded by a call of its own, under no lock, and then    *)
(* the row is read; a form left blank or an account that does not exist, is *)
(* inactive or locked ends it.  The record touches hits alone and the read  *)
(* users alone, so they are one step.                                       *)
Attempt(r, u) ==
  /\ request[r].at = "admitted"
  /\ hits' = hits + 1
  /\ \/ /\ users[u].active /\ ~users[u].locked
        /\ request' = [request EXCEPT ![r] =
             [Idle EXCEPT !.at = "verifying", !.user = u, !.seen = SeenOf(users[u])]]
     \/ Ended(r)
  /\ UNCHANGED <<users, sessions>>

Miscount(seen) == IF seen.fails < MaxFails THEN seen.fails + 1 ELSE MaxFails

WrongPassword(r) ==
  /\ request[r].at = "verifying"
  /\ LET u == request[r].user
         n == Miscount(request[r].seen)
     IN users' = [users EXCEPT ![u] = [@ EXCEPT !.fails = n, !.locked = (n >= MaxFails)]]
  /\ Ended(r)
  /\ UNCHANGED <<sessions, hits>>

(* The counters are written back blindly; a hash made with weaker           *)
(* parameters is replaced by one of the password that was typed.            *)
RightPassword(r) ==
  /\ request[r].at = "verifying"
  /\ LET u == request[r].user
         kept == [users[u] EXCEPT !.fails = 0, !.locked = FALSE]
         typed == IF "raises" \in Upsets THEN {request[r].seen.password} ELSE {}
     IN \E password \in {users[u].password} \cup typed :
          users' = [users EXCEPT ![u] = [kept EXCEPT !.password = password]]
  /\ request' = [request EXCEPT ![r].at = "opening"]
  /\ UNCHANGED <<sessions, hits>>

OpenSession(r) ==
  /\ request[r].at = "opening"
  /\ \E s \in Sessions :
       /\ ~sessions[s].live
       /\ sessions' = [sessions EXCEPT ![s] =
            [user |-> request[r].user, live |-> TRUE,
             password |-> request[r].seen.password.n, late |-> request[r].late]]
  /\ hits' = 0
  /\ Ended(r)
  /\ UNCHANGED users

(* Logout, or the end of session_hours.                                     *)
EndSession(s) ==
  /\ sessions[s].live
  /\ sessions' = [sessions EXCEPT ![s] = NoLogin]
  /\ UNCHANGED <<users, request, hits>>

(* Only a success or a new password resets the counter, so the next failure *)
(* after the lockout locks again at once.                                   *)
LockoutPasses(u) ==
  /\ users[u].locked
  /\ users' = [users EXCEPT ![u].locked = FALSE]
  /\ UNCHANGED <<sessions, request, hits>>

WindowPasses ==
  /\ hits > 0 /\ hits' = 0
  /\ UNCHANGED <<users, sessions, request>>

(* The current password is asked for again; the session that asks stays.    *)
AskChange(r, s) ==
  /\ request[r].at = "idle" /\ Resolves(s)
  /\ request' = [request EXCEPT ![r] =
       [Idle EXCEPT !.at = "changing", !.user = sessions[s].user, !.session = s]]
  /\ UNCHANGED <<users, sessions, hits>>

ChangePassword(r) ==
  /\ request[r].at = "changing"
  /\ LET u == request[r].user IN
       /\ users[u].password.n < MaxIssued
       /\ PasswordSet(u, Issued(u, "owner"), FALSE)
       /\ request' = Overtaken(r, u, [request[r] EXCEPT !.at = "sweeping"])
  /\ UNCHANGED <<sessions, hits>>

RefuseChange(r) ==
  /\ request[r].at = "changing"
  /\ Ended(r) /\ UNCHANGED <<users, sessions, hits>>

-----------------------------------------------------------------------------
(* Managing users: authorised once, then the work is done.                  *)

Authorise(r) ==
  /\ request[r].at = "idle"
  /\ \/ \E s \in Sessions :
          /\ MayAdminister(s)
          /\ request' = [request EXCEPT ![r] = [Idle EXCEPT !.at = "acting", !.by = sessions[s].user]]
     \/ request' = [request EXCEPT ![r] = [Idle EXCEPT !.at = "acting"]]
  /\ UNCHANGED <<users, sessions, hits>>

Shell(r) == request[r].by = NoUser

Create(r, u, role) ==
  /\ request[r].at = "acting" /\ ~Shell(r)
  /\ IF Exists(u) THEN UNCHANGED users
     ELSE Inserted(u, role, [n |-> 1, by |-> "temporary"], TRUE)
  /\ Ended(r) /\ UNCHANGED <<sessions, hits>>

(* Mutant: the count is taken as if the account in question stayed.         *)
MayDeactivate_Zero(r, u) == u # request[r].by /\ Cardinality(ActiveAdmins) > 0

(* Neither one's own account nor the last active administrator; the shell   *)
(* asks no name and lets an account pass that is inactive already.          *)
MayDeactivate(r, u) ==
  /\ u # request[r].by
  /\ users[u].role = "admin" =>
       \/ Cardinality(ActiveAdmins) > 1
       \/ Shell(r) /\ ~users[u].active

CheckDeactivate(r, u) ==
  /\ request[r].at = "acting"
  /\ Exists(u)
  /\ "overlaps" \in Upsets \/ \A q \in Requests : request[q].at # "deactivating"
  /\ IF MayDeactivate(r, u)
     THEN request' = [request EXCEPT ![r].at = "deactivating", ![r].user = u]
     ELSE Ended(r)
  /\ UNCHANGED <<users, sessions, hits>>

Deactivate(r) ==
  /\ request[r].at = "deactivating"
  /\ users' = [users EXCEPT ![request[r].user].active = FALSE]
  /\ request' = [request EXCEPT ![r].at = "sweeping"]
  /\ UNCHANGED <<sessions, hits>>

Reactivate(r, u) ==
  /\ request[r].at = "acting" /\ ~Shell(r) /\ Exists(u)
  /\ users' = [users EXCEPT ![u].active = TRUE]
  /\ Ended(r) /\ UNCHANGED <<sessions, hits>>

(* Mutant: an administrator's password is taken for the owner's.            *)
ResetPassword_Owned(r, u) ==
  /\ request[r].at = "acting" /\ Exists(u)
  /\ users[u].password.n < MaxIssued
  /\ PasswordSet(u, Issued(u, "temporary"), FALSE)
  /\ request' = Overtaken(r, u, [request[r] EXCEPT !.at = "sweeping", !.user = u])
  /\ UNCHANGED <<sessions, hits>>

ResetPassword(r, u) ==
  /\ request[r].at = "acting" /\ Exists(u)
  /\ users[u].password.n < MaxIssued
  /\ PasswordSet(u, Issued(u, "temporary"), TRUE)
  /\ request' = Overtaken(r, u, [request[r] EXCEPT !.at = "sweeping", !.user = u])
  /\ UNCHANGED <<sessions, hits>>

(* nhpc create-admin: look for an active administrator, then insert.        *)
LookForAdmin(r) ==
  /\ request[r].at = "acting" /\ Shell(r)
  /\ IF ActiveAdmins # {} THEN Ended(r)
     ELSE request' = [request EXCEPT ![r].at = "founding"]
  /\ UNCHANGED <<users, sessions, hits>>

CreateAdmin(r) ==
  /\ request[r].at = "founding"
  /\ IF Exists(First) THEN UNCHANGED users
     ELSE \E by \in {"temporary", "operator"} :
            Inserted(First, "admin", [n |-> 1, by |-> by], by = "temporary")
  /\ Ended(r) /\ UNCHANGED <<sessions, hits>>

Manage(r) ==
  \/ Authorise(r) \/ LookForAdmin(r) \/ CreateAdmin(r) \/ Deactivate(r) \/ Sweep(r)
  \/ \E u \in Users :
       \/ CheckDeactivate(r, u) \/ Reactivate(r, u) \/ ResetPassword(r, u)
       \/ \E role \in {"officer", "admin"} : Create(r, u, role)

SignIn(r) ==
  \/ CheckAddress(r)
  \/ \E u \in Users : Attempt(r, u)
  \/ WrongPassword(r) \/ RightPassword(r) \/ OpenSession(r)
  \/ \E s \in Sessions : AskChange(r, s)
  \/ ChangePassword(r) \/ RefuseChange(r)

Next ==
  \/ \E r \in Requests : Manage(r) \/ SignIn(r)
  \/ \E s \in Sessions : EndSession(s)
  \/ \E u \in Users : LockoutPasses(u)
  \/ WindowPasses

Spec == Init /\ [][Next]_vars

-----------------------------------------------------------------------------
(* Once there is an account there is an active administrator: "cannot       *)
(* deactivate the last active administrator" (admin_deactivate), whatever   *)
(* is deactivated, reactivated and bootstrapped, as long as two             *)
(* deactivations do not overlap.                                            *)
AdminRemains == (\E u \in Users : Exists(u)) => ActiveAdmins # {}

(* "Raises 429 when an IP has burned its attempt budget" (deps.py): not so, *)
(* for attempts that are checked before the others are recorded all pass.   *)
WithinBudget == hits <= IpBudget

(* Whoever may use the application has chosen the password of the account,  *)
(* or is the operator: a password an administrator knows opens nothing but  *)
(* the page that replaces it (require_user, admin_create_user).             *)
OwnPassword ==
  \A s \in Sessions : MayWork(s) => users[sessions[s].user].password.by # "temporary"

(* Setting a password signs out every session that was opened with an       *)
(* earlier one, but for the session that asked and a sign-in that was under *)
(* way at that moment (set_password, "revoke their other sessions").        *)
Sweeping(u) == \E r \in Requests : request[r].at = "sweeping" /\ request[r].user = u
EarlierSignedOut ==
  \A s \in Sessions :
    LET u == sessions[s].user IN
    sessions[s].live /\ ~sessions[s].late /\ ~Sweeping(u)
      => sessions[s].password = users[u].password.n
=============================================================================
