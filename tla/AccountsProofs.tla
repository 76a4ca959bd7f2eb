----------------------------- MODULE AccountsProofs -----------------------------
(***************************************************************************)
(* Theorems about Accounts, for any accounts, sessions, requests and       *)
(* bounds.                                                                  *)
(***************************************************************************)
EXTENDS Accounts, FiniteSetTheorems, TLAPS

-----------------------------------------------------------------------------
(* A request that works on an account names one, and so does a session in   *)
(* use: without it a sweep could write the password number of no account.   *)
RowsTyped ==
  /\ users \in [Users -> UserRow]
  /\ sessions \in [Sessions -> SessionRow]
  /\ request \in [Requests -> RequestState]
BusyHasUser == \A r \in Requests :
  request[r].at \notin {"idle", "admitted", "acting", "founding"} => request[r].user \in Users
LiveHasUser == \A s \in Sessions : sessions[s].live => sessions[s].user \in Users
TypeInv == RowsTyped /\ BusyHasUser /\ LiveHasUser

LEMMA Numbers ==
  /\ 0 \in 0..MaxIssued /\ 1 \in 0..MaxIssued /\ 0 \in 0..MaxFails
  /\ \A n \in 0..MaxIssued : n < MaxIssued => n + 1 \in 0..MaxIssued
BY AccountsAssumption

LEMMA NoRowTypes == NoRow \in UserRow /\ NoLogin \in SessionRow /\ Idle \in RequestState
BY Numbers DEF NoRow, UserRow, NoPassword, Password, NoLogin, SessionRow, Idle, RequestState, Phases,
  SeenOf, Seen

LEMMA SeenOfType == ASSUME NEW row \in UserRow PROVE SeenOf(row) \in Seen
BY DEF UserRow, SeenOf, Seen

(* What a new password makes of a row.                                      *)
LEMMA PasswordSetType ==
  ASSUME RowsTyped, NEW u \in Users, NEW password \in Password, NEW must \in BOOLEAN,
         PasswordSet(u, password, must)
  PROVE  users' \in [Users -> UserRow]
<1> DEFINE row == [users[u] EXCEPT !.password = password, !.must = must, !.fails = 0, !.locked = FALSE]
<1>1. users[u] \in UserRow
  BY DEF RowsTyped
<1>2. row \in UserRow
  BY <1>1, Numbers DEF UserRow
<1>3. users' = [users EXCEPT ![u] = row]
  BY DEF PasswordSet
<1> HIDE DEF row
<1> QED BY <1>2, <1>3 DEF RowsTyped

LEMMA IssuedType ==
  ASSUME RowsTyped, NEW u \in Users, NEW by \in {"temporary", "owner", "operator"},
         users[u].password.n < MaxIssued
  PROVE  Issued(u, by) \in Password
BY Numbers DEF RowsTyped, UserRow, Password, Issued

LEMMA InsertedType ==
  ASSUME RowsTyped, NEW u \in Users, NEW role \in {"officer", "admin"}, NEW password \in Password,
         NEW must \in BOOLEAN, Inserted(u, role, password, must)
  PROVE  users' \in [Users -> UserRow]
<1> DEFINE row == [role |-> role, active |-> TRUE, must |-> must, fails |-> 0, locked |-> FALSE,
                   password |-> password]
<1>1. row \in UserRow
  BY Numbers DEF UserRow
<1>2. users' = [users EXCEPT ![u] = row]
  BY DEF Inserted
<1> HIDE DEF row
<1> QED BY <1>1, <1>2 DEF RowsTyped

(* Marking the sign-ins that are late changes nothing else of them.         *)
LEMMA OvertakenType ==
  ASSUME TypeInv, NEW r \in Requests, NEW u \in Users, NEW next \in RequestState,
         next.at \notin {"idle", "admitted", "acting", "founding"} => next.user \in Users,
         request' = Overtaken(r, u, next)
  PROVE  request' \in [Requests -> RequestState] /\ BusyHasUser'
<1>1. ASSUME NEW q \in Requests
      PROVE  /\ request'[q] \in RequestState
             /\ request'[q].at \notin {"idle", "admitted", "acting", "founding"} => request'[q].user \in Users
  <2>1. request[q] \in RequestState
    BY DEF TypeInv, RowsTyped
  <2>2. [request[q] EXCEPT !.late = TRUE] \in RequestState
    BY <2>1 DEF RequestState
  <2>3. [request[q] EXCEPT !.late = TRUE].at = request[q].at /\ [request[q] EXCEPT !.late = TRUE].user = request[q].user
    BY <2>1 DEF RequestState
  <2> QED BY <2>1, <2>2, <2>3 DEF Overtaken, TypeInv, BusyHasUser
<1>2. request' = [q \in Requests |-> request'[q]]
  BY DEF Overtaken
<1> QED BY <1>1, <1>2 DEF BusyHasUser

LEMMA RevokedType ==
  ASSUME TypeInv, NEW u \in Users, NEW keep, sessions' = Revoked(u, keep)
  PROVE  sessions' \in [Sessions -> SessionRow] /\ LiveHasUser'
<1>1. ASSUME NEW s \in Sessions
      PROVE  /\ sessions'[s] \in SessionRow
             /\ sessions'[s].live => sessions'[s].user \in Users
  <2>1. sessions[s] \in SessionRow /\ users[u].password.n \in 0..MaxIssued
    BY DEF TypeInv, RowsTyped, UserRow, Password
  <2>2. [sessions[s] EXCEPT !.password = users[u].password.n] \in SessionRow
    BY <2>1 DEF SessionRow
  <2>3. [sessions[s] EXCEPT !.password = users[u].password.n].user = sessions[s].user
    BY <2>1 DEF SessionRow
  <2>4. NoLogin \in SessionRow /\ ~NoLogin.live
    BY NoRowTypes DEF NoLogin
  <2> QED BY <2>1, <2>2, <2>3, <2>4 DEF Revoked, TypeInv, LiveHasUser
<1>2. sessions' = [s \in Sessions |-> sessions'[s]]
  BY DEF Revoked
<1> QED BY <1>1, <1>2 DEF LiveHasUser

(* A request that goes on to another state, when no other does.             *)
LEMMA RequestMoves ==
  ASSUME TypeInv, NEW r \in Requests, NEW next \in RequestState,
         next.at \notin {"idle", "admitted", "acting", "founding"} => next.user \in Users,
         request' = [request EXCEPT ![r] = next]
  PROVE  request' \in [Requests -> RequestState] /\ BusyHasUser'
BY DEF TypeInv, RowsTyped, BusyHasUser

LEMMA RequestTypes ==
  ASSUME TypeInv, NEW r \in Requests
  PROVE  /\ request[r] \in RequestState
         /\ request[r].user \in Users => users[request[r].user] \in UserRow
BY DEF TypeInv, RowsTyped

LEMMA SweepTypes ==
  ASSUME TypeInv, NEW r \in Requests, Sweep(r)
  PROVE  TypeInv'
<1>1. request[r].user \in Users
  BY DEF Sweep, TypeInv, BusyHasUser
<1>2. sessions' \in [Sessions -> SessionRow] /\ LiveHasUser'
  BY <1>1, RevokedType DEF Sweep
<1>3. request' \in [Requests -> RequestState] /\ BusyHasUser'
  BY RequestMoves, NoRowTypes DEF Sweep, Ended, Idle
<1> QED BY <1>2, <1>3 DEF TypeInv, RowsTyped, Sweep

LEMMA SignInTypes ==
  ASSUME TypeInv, NEW r \in Requests, SignIn(r)
  PROVE  TypeInv'
<1> USE DEF TypeInv, RowsTyped
<1>0. request[r] \in RequestState
  BY RequestTypes
<1>1. ASSUME NEW u \in Users, Attempt(r, u)
      PROVE  TypeInv'
  <2> DEFINE next == [Idle EXCEPT !.at = "verifying", !.user = u, !.seen = SeenOf(users[u])]
  <2>1. next \in RequestState /\ next.user \in Users
    BY NoRowTypes, SeenOfType DEF RequestState, Phases, Idle
  <2>2. request' = [request EXCEPT ![r] = next] \/ request' = [request EXCEPT ![r] = Idle]
    BY <1>1 DEF Attempt, Ended
  <2> HIDE DEF next
  <2>3. Idle \in RequestState /\ Idle.at = "idle"
    BY NoRowTypes DEF Idle
  <2>4. request' \in [Requests -> RequestState] /\ BusyHasUser'
    BY <2>1, <2>2, <2>3, RequestMoves
  <2> QED BY <1>1, <2>4 DEF Attempt, LiveHasUser
<1>8. ASSUME CheckAddress(r)
      PROVE  TypeInv'
  <2> DEFINE next == [Idle EXCEPT !.at = "admitted"]
  <2>1. next \in RequestState /\ next.at = "admitted" /\ request' = [request EXCEPT ![r] = next]
    BY <1>8, NoRowTypes DEF CheckAddress, RequestState, Phases, Idle
  <2> HIDE DEF next
  <2>2. request' \in [Requests -> RequestState] /\ BusyHasUser'
    BY <2>1, RequestMoves
  <2> QED BY <1>8, <2>2 DEF CheckAddress, LiveHasUser
<1>2. ASSUME WrongPassword(r)
      PROVE  TypeInv'
  <2>1. request[r].user \in Users
    BY <1>2 DEF WrongPassword, BusyHasUser
  <2> DEFINE u == request[r].user
             n == Miscount(request[r].seen)
             full == n >= MaxFails
             row == [users[u] EXCEPT !.fails = n, !.locked = full]
  <2>2. n \in 0..MaxFails
    BY <1>0, AccountsAssumption DEF Miscount, RequestState, Seen
  <2>3. users' = [users EXCEPT ![u] = row]
    BY <1>2 DEF WrongPassword
  <2>4. full \in BOOLEAN
    OBVIOUS
  <2> HIDE DEF n, full
  <2>5. row \in UserRow
    BY <2>1, <2>2, <2>4, RequestTypes DEF UserRow
  <2> HIDE DEF row
  <2>6. users' \in [Users -> UserRow]
    BY <2>1, <2>3, <2>5
  <2>7. request' \in [Requests -> RequestState] /\ BusyHasUser'
    BY <1>2, RequestMoves, NoRowTypes DEF WrongPassword, Ended, Idle
  <2> QED BY <1>2, <2>6, <2>7 DEF WrongPassword, LiveHasUser
<1>3. ASSUME RightPassword(r)
      PROVE  TypeInv'
  <2>1. request[r].user \in Users
    BY <1>3 DEF RightPassword, BusyHasUser
  <2> DEFINE u == request[r].user
             row(password) == [[users[u] EXCEPT !.fails = 0, !.locked = FALSE] EXCEPT !.password = password]
             next == [request[r] EXCEPT !.at = "opening"]
  <2>2. users[u].password \in Password /\ request[r].seen.password \in Password
    BY <1>0, <2>1, RequestTypes DEF RequestState, Seen, UserRow
  <2>3. \E password \in {users[u].password, request[r].seen.password} :
          users' = [users EXCEPT ![u] = row(password)]
    BY <1>3 DEF RightPassword
  <2>4. PICK password \in Password : users' = [users EXCEPT ![u] = row(password)]
    <3> HIDE DEF row
    <3> QED BY <2>2, <2>3
  <2>5. row(password) \in UserRow
    BY <2>1, Numbers, RequestTypes DEF UserRow
  <2> HIDE DEF row
  <2>6. users' \in [Users -> UserRow]
    BY <2>1, <2>4, <2>5
  <2>7. next \in RequestState /\ next.user \in Users /\ request' = [request EXCEPT ![r] = next]
    BY <1>0, <1>3, <2>1 DEF RightPassword, RequestState, Phases
  <2> HIDE DEF next
  <2>8. request' \in [Requests -> RequestState] /\ BusyHasUser'
    BY <2>7, RequestMoves
  <2> QED BY <1>3, <2>6, <2>8 DEF RightPassword, LiveHasUser
<1>4. ASSUME OpenSession(r)
      PROVE  TypeInv'
  <2>1. request[r].user \in Users
    BY <1>4 DEF OpenSession, BusyHasUser
  <2> DEFINE row == [user |-> request[r].user, live |-> TRUE, password |-> request[r].seen.password.n,
                     late |-> request[r].late]
  <2>2. row \in SessionRow /\ row.user \in Users
    BY <1>0, <2>1 DEF SessionRow, RequestState, Seen, Password
  <2>3. PICK s \in Sessions : sessions' = [sessions EXCEPT ![s] = row]
    BY <1>4 DEF OpenSession
  <2> HIDE DEF row
  <2>4. sessions' \in [Sessions -> SessionRow] /\ LiveHasUser'
    BY <2>2, <2>3 DEF LiveHasUser
  <2>5. request' \in [Requests -> RequestState] /\ BusyHasUser'
    BY <1>4, RequestMoves, NoRowTypes DEF OpenSession, Ended, Idle
  <2> QED BY <1>4, <2>4, <2>5, Numbers DEF OpenSession
<1>5. ASSUME NEW s \in Sessions, AskChange(r, s)
      PROVE  TypeInv'
  <2> DEFINE next == [Idle EXCEPT !.at = "changing", !.user = sessions[s].user, !.session = s]
  <2>1. sessions[s].user \in Users
    BY <1>5 DEF AskChange, Resolves, LiveHasUser
  <2>2. next \in RequestState /\ next.user \in Users
    BY <2>1, NoRowTypes DEF RequestState, Phases, Idle
  <2>3. request' = [request EXCEPT ![r] = next]
    BY <1>5 DEF AskChange
  <2> HIDE DEF next
  <2>4. request' \in [Requests -> RequestState] /\ BusyHasUser'
    BY <2>2, <2>3, RequestMoves
  <2> QED BY <1>5, <2>4 DEF AskChange, LiveHasUser
<1>6. ASSUME ChangePassword(r)
      PROVE  TypeInv'
  <2> DEFINE u == request[r].user
             next == [request[r] EXCEPT !.at = "sweeping"]
  <2>1. u \in Users
    BY <1>6 DEF ChangePassword, BusyHasUser
  <2>2. Issued(u, "owner") \in Password
    BY <1>6, <2>1, IssuedType DEF ChangePassword
  <2>3. users' \in [Users -> UserRow]
    BY <1>6, <2>1, <2>2, PasswordSetType DEF ChangePassword
  <2>4. next \in RequestState /\ next.user \in Users /\ request' = Overtaken(r, u, next)
    BY <1>0, <1>6, <2>1 DEF ChangePassword, RequestState, Phases
  <2> HIDE DEF next
  <2>5. request' \in [Requests -> RequestState] /\ BusyHasUser'
    BY <2>1, <2>4, OvertakenType
  <2> QED BY <1>6, <2>3, <2>5 DEF ChangePassword, LiveHasUser
<1>7. ASSUME RefuseChange(r)
      PROVE  TypeInv'
  <2>1. request' \in [Requests -> RequestState] /\ BusyHasUser'
    BY <1>7, RequestMoves, NoRowTypes DEF RefuseChange, Ended, Idle
  <2> QED BY <1>7, <2>1 DEF RefuseChange, LiveHasUser
<1> QED BY <1>1, <1>2, <1>3, <1>4, <1>5, <1>6, <1>7, <1>8 DEF SignIn

LEMMA ManageTypes ==
  ASSUME TypeInv, NEW r \in Requests, Manage(r)
  PROVE  TypeInv'
<1> USE DEF TypeInv, RowsTyped
<1>0. request[r] \in RequestState
  BY RequestTypes
<1> DEFINE Done == request' = [request EXCEPT ![r] = Idle]
<1>1. Done => request' \in [Requests -> RequestState] /\ BusyHasUser'
  BY RequestMoves, NoRowTypes DEF Idle
<1>2. ASSUME Authorise(r)
      PROVE  TypeInv'
  <2>1. PICK next \in RequestState : next.at = "acting" /\ request' = [request EXCEPT ![r] = next]
    <3>1. CASE request' = [request EXCEPT ![r] = [Idle EXCEPT !.at = "acting"]]
      <4>1. [Idle EXCEPT !.at = "acting"] \in RequestState /\ [Idle EXCEPT !.at = "acting"].at = "acting"
        BY NoRowTypes DEF RequestState, Phases
      <4> QED BY <3>1, <4>1
    <3>2. ASSUME NEW s \in Sessions, MayAdminister(s),
                 request' = [request EXCEPT ![r] = [Idle EXCEPT !.at = "acting", !.by = sessions[s].user]]
          PROVE  \E next \in RequestState : next.at = "acting" /\ request' = [request EXCEPT ![r] = next]
      <4> DEFINE by == sessions[s].user
                 next == [Idle EXCEPT !.at = "acting", !.by = by]
      <4>1. by \in Users
        BY <3>2 DEF MayAdminister, MayWork, Resolves, LiveHasUser
      <4>2. next \in RequestState /\ next.at = "acting"
        BY <4>1, NoRowTypes DEF RequestState, Phases
      <4> QED BY <3>2, <4>2
    <3> QED BY <1>2, <3>1, <3>2 DEF Authorise
  <2>2. request' \in [Requests -> RequestState] /\ BusyHasUser'
    BY <2>1, RequestMoves
  <2> QED BY <1>2, <2>2 DEF Authorise, LiveHasUser
<1>3. ASSUME LookForAdmin(r)
      PROVE  TypeInv'
  <2> DEFINE next == [request[r] EXCEPT !.at = "founding"]
  <2>1. next \in RequestState /\ next.at = "founding"
    BY <1>0 DEF RequestState, Phases
  <2>2. Done \/ request' = [request EXCEPT ![r] = next]
    BY <1>3, <1>0 DEF LookForAdmin, Ended, RequestState
  <2> HIDE DEF next
  <2>3. request' \in [Requests -> RequestState] /\ BusyHasUser'
    BY <1>1, <2>1, <2>2, RequestMoves
  <2> QED BY <1>3, <2>3 DEF LookForAdmin, LiveHasUser
<1>4. ASSUME CreateAdmin(r)
      PROVE  TypeInv'
  <2>1. CASE Exists(First)
    BY <1>1, <1>4, <2>1 DEF CreateAdmin, Ended, LiveHasUser
  <2>2. CASE ~Exists(First)
    <3>1. PICK by \in {"temporary", "operator"} :
            Inserted(First, "admin", [n |-> 1, by |-> by], by = "temporary")
      BY <1>4, <2>2 DEF CreateAdmin
    <3>2. [n |-> 1, by |-> by] \in Password /\ First \in Users
      BY Numbers, AccountsAssumption DEF Password
    <3>3. users' \in [Users -> UserRow]
      BY <3>1, <3>2, InsertedType
    <3> QED BY <1>1, <1>4, <3>3 DEF CreateAdmin, Ended, LiveHasUser
  <2> QED BY <2>1, <2>2
<1>5. ASSUME Deactivate(r)
      PROVE  TypeInv'
  <2> DEFINE u == request[r].user
             row == [users[u] EXCEPT !.active = FALSE]
             next == [request[r] EXCEPT !.at = "sweeping"]
  <2>1. u \in Users
    BY <1>5 DEF Deactivate, BusyHasUser
  <2>2. row \in UserRow
    BY <2>1 DEF UserRow
  <2>3. users' = [users EXCEPT ![u] = row]
    BY <1>5 DEF Deactivate
  <2>4. next \in RequestState /\ next.user \in Users /\ request' = [request EXCEPT ![r] = next]
    BY <1>0, <1>5, <2>1 DEF Deactivate, RequestState, Phases
  <2> HIDE DEF row, next
  <2>5. users' \in [Users -> UserRow]
    BY <2>1, <2>2, <2>3
  <2>6. request' \in [Requests -> RequestState] /\ BusyHasUser'
    BY <2>4, RequestMoves
  <2> QED BY <1>5, <2>5, <2>6 DEF Deactivate, LiveHasUser
<1>6. ASSUME NEW u \in Users, CheckDeactivate(r, u)
      PROVE  TypeInv'
  <2> DEFINE next == [request[r] EXCEPT !.at = "deactivating", !.user = u]
  <2>1. next \in RequestState /\ next.user \in Users
    BY <1>0 DEF RequestState, Phases
  <2>2. Done \/ request' = [request EXCEPT ![r] = next]
    BY <1>6, <1>0 DEF CheckDeactivate, Ended, RequestState
  <2> HIDE DEF next
  <2>3. request' \in [Requests -> RequestState] /\ BusyHasUser'
    BY <1>1, <2>1, <2>2, RequestMoves
  <2> QED BY <1>6, <2>3 DEF CheckDeactivate, LiveHasUser
<1>7. ASSUME NEW u \in Users, Reactivate(r, u)
      PROVE  TypeInv'
  <2> DEFINE row == [users[u] EXCEPT !.active = TRUE]
  <2>1. row \in UserRow /\ users' = [users EXCEPT ![u] = row]
    BY <1>7 DEF Reactivate, UserRow
  <2> HIDE DEF row
  <2>2. users' \in [Users -> UserRow]
    BY <2>1
  <2> QED BY <1>1, <1>7, <2>2 DEF Reactivate, Ended, LiveHasUser
<1>8. ASSUME NEW u \in Users, ResetPassword(r, u)
      PROVE  TypeInv'
  <2> DEFINE next == [request[r] EXCEPT !.at = "sweeping", !.user = u]
  <2>1. users' \in [Users -> UserRow]
    BY <1>8, IssuedType, PasswordSetType DEF ResetPassword
  <2>2. next \in RequestState /\ next.user \in Users /\ request' = Overtaken(r, u, next)
    BY <1>0, <1>8 DEF ResetPassword, RequestState, Phases
  <2> HIDE DEF next
  <2>3. request' \in [Requests -> RequestState] /\ BusyHasUser'
    BY <2>2, OvertakenType
  <2> QED BY <1>8, <2>1, <2>3 DEF ResetPassword, LiveHasUser
<1>9. ASSUME NEW u \in Users, NEW role \in {"officer", "admin"}, Create(r, u, role)
      PROVE  TypeInv'
  <2>1. [n |-> 1, by |-> "temporary"] \in Password
    BY Numbers DEF Password
  <2>2. users' \in [Users -> UserRow]
    BY <1>9, <2>1, InsertedType DEF Create
  <2> QED BY <1>1, <1>9, <2>2 DEF Create, Ended, LiveHasUser
<1> QED BY <1>2, <1>3, <1>4, <1>5, <1>6, <1>7, <1>8, <1>9, SweepTypes DEF Manage

LEMMA InitTypes == Init => TypeInv
BY NoRowTypes, Numbers DEF Init, TypeInv, RowsTyped, BusyHasUser, LiveHasUser, Idle, NoLogin

LEMMA StepTypes == TypeInv /\ [Next]_vars => TypeInv'
<1> SUFFICES ASSUME TypeInv, [Next]_vars PROVE TypeInv'
  OBVIOUS
<1> USE DEF TypeInv, RowsTyped
<1>1. CASE UNCHANGED vars
  BY <1>1 DEF vars, BusyHasUser, LiveHasUser
<1>2. ASSUME NEW s \in Sessions, EndSession(s)
      PROVE  TypeInv'
  <2>1. sessions' \in [Sessions -> SessionRow] /\ LiveHasUser'
    BY <1>2, NoRowTypes DEF EndSession, LiveHasUser, NoLogin
  <2> QED BY <1>2, <2>1 DEF EndSession, BusyHasUser
<1>3. ASSUME NEW u \in Users, LockoutPasses(u)
      PROVE  TypeInv'
  <2> DEFINE row == [users[u] EXCEPT !.locked = FALSE]
  <2>1. row \in UserRow /\ users' = [users EXCEPT ![u] = row]
    BY <1>3 DEF LockoutPasses, UserRow
  <2> HIDE DEF row
  <2>2. users' \in [Users -> UserRow]
    BY <2>1
  <2> QED BY <1>3, <2>2 DEF LockoutPasses, BusyHasUser, LiveHasUser
<1>4. ASSUME WindowPasses
      PROVE  TypeInv'
  BY <1>4, Numbers DEF WindowPasses, BusyHasUser, LiveHasUser
<1> QED BY <1>1, <1>2, <1>3, <1>4, ManageTypes, SignInTypes DEF Next

(* Every attempt let in and not yet recorded may add one to the hits, and   *)
(* at most one of them saw the last attempt of the budget alone.            *)
Admitted == {r \in Requests : request[r].at = "admitted"}
HitsInv == hits \in Nat /\ hits + Cardinality(Admitted) <= MostHits

LEMMA FewAdmitted ==
  /\ IsFiniteSet(Admitted) /\ Cardinality(Admitted) \in Nat
  /\ Cardinality(Requests) \in Nat /\ Cardinality(Admitted) <= Cardinality(Requests)
BY AccountsAssumption, FS_Subset, FS_CardinalityType DEF Admitted

LEMMA FewerHits ==
  ASSUME HitsInv, hits' \in Nat, hits' <= hits, Admitted' \subseteq Admitted
  PROVE  HitsInv'
<1>1. IsFiniteSet(Admitted') /\ Cardinality(Admitted') \in Nat /\ Cardinality(Admitted') <= Cardinality(Admitted)
  BY FewAdmitted, FS_Subset, FS_CardinalityType
<1>2. MostHits \in Int /\ MostHits' = MostHits
  BY FewAdmitted, AccountsAssumption DEF MostHits
<1> QED BY <1>1, <1>2, FewAdmitted DEF HitsInv

LEMMA AttemptCounts ==
  ASSUME HitsInv, RowsTyped, NEW r \in Requests, NEW u, Attempt(r, u)
  PROVE  HitsInv'
<1>1. r \in Admitted /\ request[r].at = "admitted"
  BY DEF Attempt, Admitted
<1>2. request'[r].at # "admitted" /\ \A q \in Requests : q # r => request'[q] = request[q]
  <2> DEFINE next == [Idle EXCEPT !.at = "verifying", !.user = u, !.seen = SeenOf(users[u])]
  <2>1. next.at # "admitted" /\ Idle.at # "admitted"
    BY DEF Idle
  <2>2. request' = [request EXCEPT ![r] = next] \/ request' = [request EXCEPT ![r] = Idle]
    BY DEF Attempt, Ended
  <2> HIDE DEF next
  <2> QED BY <2>1, <2>2 DEF RowsTyped
<1>3. Admitted' = Admitted \ {r}
  BY <1>2 DEF Admitted
<1>4. Cardinality(Admitted') = Cardinality(Admitted) - 1
  BY <1>1, <1>3, FewAdmitted, FS_RemoveElement
<1>5. MostHits \in Int /\ MostHits' = MostHits /\ hits' = hits + 1
  BY FewAdmitted, AccountsAssumption DEF MostHits, Attempt
<1> QED BY <1>4, <1>5, FewAdmitted DEF HitsInv

LEMMA CheckCounts ==
  ASSUME HitsInv, NEW r \in Requests, CheckAddress(r)
  PROVE  HitsInv'
<1>1. IsFiniteSet(Admitted') /\ Cardinality(Admitted') \in Nat /\ Cardinality(Admitted') <= Cardinality(Requests)
  BY AccountsAssumption, FS_Subset, FS_CardinalityType DEF Admitted
<1>2. hits' = hits /\ hits < IpBudget
  BY DEF CheckAddress
<1> QED BY <1>1, <1>2, FewAdmitted, AccountsAssumption DEF HitsInv, MostHits

(* Nothing else lets a request in or adds to the hits.                      *)
LEMMA OthersCount ==
  ASSUME HitsInv, TypeInv, [Next]_vars, \A r \in Requests : ~CheckAddress(r),
         \A r \in Requests, u \in Users : ~Attempt(r, u)
  PROVE  HitsInv'
<1> DEFINE NoneIn == \A q \in Requests : request'[q].at = "admitted" => request[q].at = "admitted"
           NoneMore == hits' \in Nat /\ hits' <= hits
<1>0. hits \in Nat
  BY DEF HitsInv
<1>1. ASSUME NEW r \in Requests, NEW next, next.at # "admitted",
             request' = [request EXCEPT ![r] = next]
      PROVE  NoneIn
  BY <1>1 DEF TypeInv, RowsTyped
<1>2. ASSUME NEW r \in Requests, NEW at, at # "admitted",
             request' = [request EXCEPT ![r] = [@ EXCEPT !.at = at]]
      PROVE  NoneIn
  BY <1>2 DEF TypeInv, RowsTyped, RequestState
<1>4. ASSUME NEW r \in Requests, Ended(r)
      PROVE  NoneIn
  BY <1>1, <1>4 DEF Ended, Idle
<1>5. ASSUME NEW r \in Requests, NEW u, NEW next, next.at # "admitted", request' = Overtaken(r, u, next)
      PROVE  NoneIn
  BY <1>5 DEF Overtaken, TypeInv, RowsTyped, RequestState
<1>6. UNCHANGED request => NoneIn
  OBVIOUS
<1>7. ASSUME NEW r \in Requests, SignIn(r)
      PROVE  NoneIn /\ NoneMore
  <2> HIDE DEF NoneIn
  <2>1. WrongPassword(r) \/ RefuseChange(r) => NoneIn /\ NoneMore
    BY <1>0, <1>4 DEF WrongPassword, RefuseChange
  <2>2. RightPassword(r) => NoneIn /\ NoneMore
    <3> SUFFICES ASSUME RightPassword(r) PROVE NoneIn /\ NoneMore
      OBVIOUS
    <3> DEFINE next == [request[r] EXCEPT !.at = "opening"]
    <3>1. next.at # "admitted"
      BY DEF TypeInv, RowsTyped, RequestState
    <3>2. request' = [request EXCEPT ![r] = next] /\ hits' = hits
      BY DEF RightPassword
    <3> HIDE DEF next
    <3>3. NoneIn
      BY <1>1, <3>1, <3>2
    <3> QED BY <1>0, <3>2, <3>3
  <2>3. OpenSession(r) => NoneIn /\ NoneMore
    BY <1>0, <1>4 DEF OpenSession
  <2>4. ASSUME NEW s \in Sessions, AskChange(r, s)
        PROVE  NoneIn /\ NoneMore
    <3> DEFINE next == [Idle EXCEPT !.at = "changing", !.user = sessions[s].user, !.session = s]
    <3>1. next.at # "admitted"
      BY DEF Idle
    <3>2. request' = [request EXCEPT ![r] = next] /\ hits' = hits
      BY <2>4 DEF AskChange
    <3> HIDE DEF next
    <3>3. NoneIn
      BY <1>1, <3>1, <3>2
    <3> QED BY <1>0, <3>2, <3>3
  <2>5. ChangePassword(r) => NoneIn /\ NoneMore
    <3> SUFFICES ASSUME ChangePassword(r) PROVE NoneIn /\ NoneMore
      OBVIOUS
    <3> DEFINE next == [request[r] EXCEPT !.at = "sweeping"]
    <3>1. next.at # "admitted"
      BY DEF TypeInv, RowsTyped, RequestState
    <3>2. request' = Overtaken(r, request[r].user, next) /\ hits' = hits
      BY DEF ChangePassword
    <3> HIDE DEF next
    <3> QED BY <1>0, <1>5, <3>1, <3>2
  <2> QED BY <1>7, <2>1, <2>2, <2>3, <2>4, <2>5 DEF SignIn
<1>8. ASSUME NEW r \in Requests, Manage(r)
      PROVE  NoneIn /\ NoneMore
  <2> HIDE DEF NoneIn
  <2>1. LookForAdmin(r) \/ CreateAdmin(r) \/ Deactivate(r) \/ Sweep(r) => NoneIn /\ NoneMore
    BY <1>0, <1>2, <1>4 DEF LookForAdmin, CreateAdmin, Deactivate, Sweep
  <2>2. Authorise(r) => NoneIn /\ NoneMore
    <3> SUFFICES ASSUME Authorise(r) PROVE NoneIn /\ NoneMore
      OBVIOUS
    <3>1. PICK next : next.at = "acting" /\ request' = [request EXCEPT ![r] = next]
      BY DEF Authorise, Idle
    <3>2. hits' = hits
      BY DEF Authorise
    <3>3. NoneIn
      BY <1>1, <3>1, <3>2
    <3> QED BY <1>0, <3>2, <3>3
  <2>3. ASSUME NEW u \in Users, CheckDeactivate(r, u) \/ Reactivate(r, u)
        PROVE  NoneIn /\ NoneMore
    <3>1. CASE Ended(r)
      BY <1>0, <1>4, <2>3, <3>1 DEF CheckDeactivate, Reactivate
    <3>2. CASE ~Ended(r)
      <4> DEFINE next == [request[r] EXCEPT !.at = "deactivating", !.user = u]
      <4>1. next.at # "admitted"
        BY DEF TypeInv, RowsTyped, RequestState
      <4>2. request' = [request EXCEPT ![r] = next] /\ hits' = hits
        BY <2>3, <3>2 DEF CheckDeactivate, Reactivate
      <4> HIDE DEF next
      <4>3. NoneIn
        BY <1>1, <4>1, <4>2
      <4> QED BY <1>0, <4>2, <4>3
    <3> QED BY <3>1, <3>2
  <2>4. ASSUME NEW u \in Users, ResetPassword(r, u)
        PROVE  NoneIn /\ NoneMore
    <3> DEFINE next == [request[r] EXCEPT !.at = "sweeping", !.user = u]
    <3>1. next.at # "admitted"
      BY DEF TypeInv, RowsTyped, RequestState
    <3>2. request' = Overtaken(r, u, next) /\ hits' = hits
      BY <2>4 DEF ResetPassword
    <3> HIDE DEF next
    <3> QED BY <1>0, <1>5, <3>1, <3>2
  <2>5. ASSUME NEW u \in Users, NEW role, Create(r, u, role)
        PROVE  NoneIn /\ NoneMore
    BY <1>0, <1>4, <2>5 DEF Create
  <2> QED BY <1>8, <2>1, <2>2, <2>3, <2>4, <2>5 DEF Manage
<1>9. NoneIn /\ NoneMore
  <2> HIDE DEF NoneIn
  <2>1. UNCHANGED vars => NoneIn /\ NoneMore
    BY <1>0, <1>6 DEF vars
  <2>2. ASSUME NEW s \in Sessions, EndSession(s)
        PROVE  NoneIn /\ NoneMore
    BY <1>0, <1>6, <2>2 DEF EndSession
  <2>3. ASSUME NEW u \in Users, LockoutPasses(u)
        PROVE  NoneIn /\ NoneMore
    BY <1>0, <1>6, <2>3 DEF LockoutPasses
  <2>4. WindowPasses => NoneIn /\ NoneMore
    BY <1>0, <1>6 DEF WindowPasses
  <2> QED BY <1>7, <1>8, <2>1, <2>2, <2>3, <2>4 DEF Next
<1>10. Admitted' \subseteq Admitted
  BY <1>9 DEF Admitted
<1> QED BY <1>9, <1>10, FewerHits

LEMMA InitHits == Init => HitsInv
<1> SUFFICES ASSUME Init PROVE HitsInv
  OBVIOUS
<1>1. Admitted = {} /\ hits = 0
  BY DEF Init, Admitted, Idle
<1>2. Cardinality(Admitted) = 0
  BY <1>1, FS_EmptySet
<1> QED BY <1>1, <1>2, FewAdmitted, AccountsAssumption DEF HitsInv, MostHits

(* The tables users and sessions and the requests at work keep their types, *)
(* whatever requests overlap (users.py, auth_routes.py), and the attempts   *)
(* of an address exceed its budget at most by the requests that were let in *)
(* side by side (deps.py).                                                  *)
THEOREM AccountsTyped == Spec => []TypeOK
<1>1. Spec => []TypeInv
  BY InitTypes, StepTypes, PTL DEF Spec
<1>2. HitsInv /\ TypeInv /\ [Next]_vars => HitsInv'
  BY AttemptCounts, CheckCounts, OthersCount DEF TypeInv
<1>3. Spec => []HitsInv
  BY <1>1, <1>2, InitHits, PTL DEF Spec
<1>4. TypeInv /\ HitsInv => TypeOK
  <2>1. MostHits \in Int
    BY FewAdmitted, AccountsAssumption DEF MostHits
  <2> QED BY <2>1, FewAdmitted DEF TypeInv, RowsTyped, HitsInv, TypeOK
<1> QED BY <1>1, <1>3, <1>4, PTL

-----------------------------------------------------------------------------
(* An administrator remains.  The check of a deactivation is a statement    *)
(* before the deactivation itself; what keeps it true in between is that    *)
(* another active administrator was there and that only one deactivation is *)
(* under way.  Whoever acts for an account acts for one that exists, so the *)
(* very first account is the administrator's.                               *)
ActiveExists == \A u \in Users : users[u].active => Exists(u)
ActorExists == \A r \in Requests : request[r].by # NoUser => request[r].by \in Users /\ Exists(request[r].by)
OneDeactivates == \A r, q \in Requests :
  request[r].at = "deactivating" /\ request[q].at = "deactivating" => r = q
AnotherStays == \A r \in Requests :
  request[r].at = "deactivating" => \E v \in ActiveAdmins : v # request[r].user
AdminInv == ActiveExists /\ ActorExists /\ OneDeactivates /\ AnotherStays /\ AdminRemains

SameAccounts == \A u \in Users : users'[u].role = users[u].role /\ users'[u].active = users[u].active
SameActors == \A q \in Requests :
  /\ request'[q].at = "deactivating" => request[q].at = "deactivating" /\ request'[q].user = request[q].user
  /\ request'[q].by \in {NoUser, request[q].by}

LEMMA QuietSteps == AdminInv /\ SameAccounts /\ SameActors => AdminInv'
<1> SUFFICES ASSUME AdminInv, SameAccounts, SameActors PROVE AdminInv'
  OBVIOUS
<1>1. (\A u \in Users : Exists(u)' <=> Exists(u)) /\ ActiveAdmins' = ActiveAdmins
  BY DEF SameAccounts, Exists, ActiveAdmins
<1>2. ActiveExists'
  BY <1>1 DEF AdminInv, ActiveExists, SameAccounts
<1>3. ActorExists'
  BY <1>1 DEF AdminInv, ActorExists, SameActors, Exists
<1>4. OneDeactivates'
  BY DEF AdminInv, OneDeactivates, SameActors
<1>5. AnotherStays'
  BY <1>1 DEF AdminInv, AnotherStays, SameActors
<1>6. AdminRemains'
  BY <1>1 DEF AdminInv, AdminRemains
<1> QED BY <1>2, <1>3, <1>4, <1>5, <1>6 DEF AdminInv

LEMMA MovedActors ==
  ASSUME TypeInv, NEW r \in Requests, NEW next, next.at # "deactivating", next.by \in {NoUser, request[r].by},
         request' = [request EXCEPT ![r] = next]
  PROVE  SameActors
BY DEF TypeInv, RowsTyped, SameActors

LEMMA EndedActors ==
  ASSUME TypeInv, NEW r \in Requests, Ended(r)
  PROVE  SameActors /\ request'[r].by = NoUser /\ request'[r].at = "idle"
         /\ \A q \in Requests : q # r => request'[q] = request[q]
<1>1. Idle.at # "deactivating" /\ Idle.by = NoUser /\ Idle.at = "idle"
  BY DEF Idle
<1> QED BY <1>1, MovedActors DEF Ended, TypeInv, RowsTyped

LEMMA OvertakenActors ==
  ASSUME TypeInv, NEW r \in Requests, NEW u, NEW next, next.at # "deactivating",
         next.by \in {NoUser, request[r].by}, request' = Overtaken(r, u, next)
  PROVE  SameActors
<1> SUFFICES ASSUME NEW q \in Requests
             PROVE  /\ request'[q].at = "deactivating" =>
                         request[q].at = "deactivating" /\ request'[q].user = request[q].user
                    /\ request'[q].by \in {NoUser, request[q].by}
  BY DEF SameActors
<1> DEFINE marked == [request[q] EXCEPT !.late = TRUE]
<1>1. marked.at = request[q].at /\ marked.user = request[q].user /\ marked.by = request[q].by
  BY DEF TypeInv, RowsTyped, RequestState
<1>2. (request'[q] = next /\ q = r) \/ request'[q] = marked \/ request'[q] = request[q]
  BY DEF Overtaken
<1> HIDE DEF marked
<1> QED BY <1>1, <1>2

(* A row written anew with the role and activity it had.                    *)
LEMMA RowKept ==
  ASSUME TypeInv, NEW u \in Users, NEW row, users' = [users EXCEPT ![u] = row],
         row.role = users[u].role, row.active = users[u].active
  PROVE  SameAccounts
BY DEF TypeInv, RowsTyped, SameAccounts

LEMMA PasswordSetKeeps ==
  ASSUME TypeInv, NEW u \in Users, NEW password, NEW must, PasswordSet(u, password, must)
  PROVE  SameAccounts
<1> DEFINE row == [users[u] EXCEPT !.password = password, !.must = must, !.fails = 0, !.locked = FALSE]
<1>1. row.role = users[u].role /\ row.active = users[u].active /\ users' = [users EXCEPT ![u] = row]
  BY DEF PasswordSet, TypeInv, RowsTyped, UserRow
<1> HIDE DEF row
<1> QED BY <1>1, RowKept

LEMMA SameUsers == UNCHANGED users => SameAccounts
BY DEF SameAccounts
LEMMA SameRequests == UNCHANGED request => SameActors
BY DEF SameActors

LEMMA SignInQuiet ==
  ASSUME TypeInv, NEW r \in Requests, SignIn(r)
  PROVE  SameAccounts /\ SameActors
<1>0. request[r] \in RequestState
  BY RequestTypes
<1>1. ASSUME NEW u \in Users, Attempt(r, u)
      PROVE  SameAccounts /\ SameActors
  <2> DEFINE next == [Idle EXCEPT !.at = "verifying", !.user = u, !.seen = SeenOf(users[u])]
  <2>1. next.at # "deactivating" /\ next.by = NoUser /\ Idle.at # "deactivating" /\ Idle.by = NoUser
    BY DEF Idle
  <2>2. request' = [request EXCEPT ![r] = next] \/ request' = [request EXCEPT ![r] = Idle]
    BY <1>1 DEF Attempt, Ended
  <2> HIDE DEF next
  <2> QED BY <1>1, <2>1, <2>2, MovedActors, SameUsers DEF Attempt
<1>8. ASSUME CheckAddress(r)
      PROVE  SameAccounts /\ SameActors
  <2> DEFINE next == [Idle EXCEPT !.at = "admitted"]
  <2>1. next.at # "deactivating" /\ next.by = NoUser /\ request' = [request EXCEPT ![r] = next]
    BY <1>8 DEF CheckAddress, Idle
  <2> HIDE DEF next
  <2> QED BY <1>8, <2>1, MovedActors, SameUsers DEF CheckAddress
<1>2. ASSUME WrongPassword(r)
      PROVE  SameAccounts /\ SameActors
  <2> DEFINE u == request[r].user
             n == Miscount(request[r].seen)
             row == [users[u] EXCEPT !.fails = n, !.locked = (n >= MaxFails)]
  <2>1. u \in Users
    BY <1>2 DEF WrongPassword, TypeInv, BusyHasUser
  <2>2. users' = [users EXCEPT ![u] = row] /\ Ended(r)
    BY <1>2 DEF WrongPassword
  <2>3. row.role = users[u].role /\ row.active = users[u].active
    BY <2>1, RequestTypes DEF UserRow
  <2> HIDE DEF row
  <2> QED BY <2>1, <2>2, <2>3, RowKept, EndedActors
<1>3. ASSUME RightPassword(r)
      PROVE  SameAccounts /\ SameActors
  <2> DEFINE u == request[r].user
             row(password) == [[users[u] EXCEPT !.fails = 0, !.locked = FALSE] EXCEPT !.password = password]
             next == [request[r] EXCEPT !.at = "opening"]
  <2>1. u \in Users
    BY <1>3 DEF RightPassword, TypeInv, BusyHasUser
  <2>2. \E password \in {users[u].password, request[r].seen.password} :
          users' = [users EXCEPT ![u] = row(password)]
    BY <1>3 DEF RightPassword
  <2>3. \A password : row(password).role = users[u].role /\ row(password).active = users[u].active
    BY <2>1, RequestTypes DEF UserRow
  <2> HIDE DEF row
  <2>4. SameAccounts
    BY <2>1, <2>2, <2>3, RowKept
  <2>5. next.at # "deactivating" /\ next.by = request[r].by /\ request' = [request EXCEPT ![r] = next]
    BY <1>0, <1>3 DEF RightPassword, RequestState
  <2> HIDE DEF next
  <2> QED BY <2>4, <2>5, MovedActors
<1>4. ASSUME OpenSession(r)
      PROVE  SameAccounts /\ SameActors
  BY <1>4, EndedActors, SameUsers DEF OpenSession
<1>5. ASSUME NEW s \in Sessions, AskChange(r, s)
      PROVE  SameAccounts /\ SameActors
  <2> DEFINE next == [Idle EXCEPT !.at = "changing", !.user = sessions[s].user, !.session = s]
  <2>1. next.at # "deactivating" /\ next.by = NoUser
    BY DEF Idle
  <2>2. request' = [request EXCEPT ![r] = next]
    BY <1>5 DEF AskChange
  <2> HIDE DEF next
  <2> QED BY <1>5, <2>1, <2>2, MovedActors, SameUsers DEF AskChange
<1>6. ASSUME ChangePassword(r)
      PROVE  SameAccounts /\ SameActors
  <2> DEFINE next == [request[r] EXCEPT !.at = "sweeping"]
  <2>1. next.at # "deactivating" /\ next.by = request[r].by /\ request[r].user \in Users
    BY <1>0, <1>6 DEF ChangePassword, RequestState, TypeInv, BusyHasUser
  <2>2. request' = Overtaken(r, request[r].user, next)
    BY <1>6 DEF ChangePassword
  <2> HIDE DEF next
  <2>3. SameActors
    BY <2>1, <2>2, OvertakenActors
  <2> QED BY <1>6, <2>1, <2>3, PasswordSetKeeps DEF ChangePassword
<1>7. ASSUME RefuseChange(r)
      PROVE  SameAccounts /\ SameActors
  BY <1>7, EndedActors, SameUsers DEF RefuseChange
<1> QED BY <1>1, <1>2, <1>3, <1>4, <1>5, <1>6, <1>7, <1>8 DEF SignIn

(* With more than one active administrator there is one besides any account. *)
LEMMA NotTheOnly ==
  ASSUME TypeInv, NEW u, Cardinality(ActiveAdmins) > 1
  PROVE  \E v \in ActiveAdmins : v # u
<1> SUFFICES ASSUME \A v \in ActiveAdmins : v = u PROVE FALSE
  OBVIOUS
<1>1. ActiveAdmins = {} \/ ActiveAdmins = {u}
  OBVIOUS
<1>2. Cardinality({}) = 0 /\ Cardinality({u}) = 1
  BY FS_EmptySet, FS_Singleton
<1> QED BY <1>1, <1>2

(* A new account is active, and the others are what they were.              *)
LEMMA InsertKeepsAdmins ==
  ASSUME TypeInv, AdminInv, NEW r \in Requests, Ended(r), NEW u \in Users, NEW role \in {"officer", "admin"},
         NEW password, NEW must, Inserted(u, role, password, must), ~Exists(u),
         ActiveAdmins # {} \/ role = "admin"
  PROVE  AdminInv'
<1>1. users'[u].role = role /\ users'[u].active /\ \A v \in Users : v # u => users'[v] = users[v]
  BY DEF Inserted, TypeInv, RowsTyped
<1>2. ActiveAdmins \subseteq ActiveAdmins' /\ (role = "admin" => u \in ActiveAdmins')
  BY <1>1 DEF ActiveAdmins, Exists
<1>3. \A v \in Users : Exists(v) => Exists(v)'
  BY <1>1 DEF Exists
<1>4. ActiveExists'
  BY <1>1 DEF AdminInv, ActiveExists, Exists
<1>5. ActorExists'
  BY <1>3, EndedActors DEF AdminInv, ActorExists, SameActors
<1>6. OneDeactivates'
  BY EndedActors DEF AdminInv, OneDeactivates, SameActors
<1>7. AnotherStays'
  BY <1>2, EndedActors DEF AdminInv, AnotherStays, SameActors
<1>8. AdminRemains'
  BY <1>2 DEF AdminRemains
<1> QED BY <1>4, <1>5, <1>6, <1>7, <1>8 DEF AdminInv

LEMMA CheckKeepsAdmins ==
  ASSUME "overlaps" \notin Upsets, TypeInv, AdminInv, NEW r \in Requests, NEW u \in Users, CheckDeactivate(r, u)
  PROVE  AdminInv'
<1> DEFINE next == [request[r] EXCEPT !.at = "deactivating", !.user = u]
<1>0. request[r] \in RequestState
  BY RequestTypes
<1>1. CASE ~MayDeactivate(r, u)
  BY <1>1, EndedActors, SameUsers, QuietSteps DEF CheckDeactivate
<1>2. CASE MayDeactivate(r, u)
  <2>1. next.at = "deactivating" /\ next.user = u /\ next.by = request[r].by
    BY <1>0 DEF RequestState
  <2>2. request' = [request EXCEPT ![r] = next] /\ UNCHANGED users
    BY <1>0, <1>2 DEF CheckDeactivate, RequestState
  <2>3. request'[r] = next /\ \A q \in Requests : q # r => request'[q] = request[q]
    BY <2>2 DEF TypeInv, RowsTyped
  <2> HIDE DEF next
  <2>4. \A q \in Requests : request[q].at # "deactivating"
    BY <1>2 DEF CheckDeactivate
  <2>5. \E v \in ActiveAdmins : v # u
    <3>1. CASE users[u].role = "admin" /\ Cardinality(ActiveAdmins) > 1
      BY <3>1, NotTheOnly
    <3>2. CASE ~(users[u].role = "admin" /\ users[u].active)
      BY <3>2, <1>2 DEF CheckDeactivate, AdminInv, AdminRemains, ActiveAdmins
    <3> QED BY <1>2, <3>1, <3>2 DEF MayDeactivate
  <2>6. ActiveAdmins' = ActiveAdmins /\ \A v \in Users : Exists(v)' <=> Exists(v)
    BY <2>2 DEF ActiveAdmins, Exists
  <2>7. OneDeactivates'
    BY <2>3, <2>4 DEF OneDeactivates
  <2>8. AnotherStays'
    BY <2>1, <2>3, <2>4, <2>5, <2>6 DEF AnotherStays
  <2>9. ActorExists'
    BY <2>1, <2>3, <2>6 DEF AdminInv, ActorExists
  <2> QED BY <2>2, <2>6, <2>7, <2>8, <2>9 DEF AdminInv, ActiveExists, AdminRemains
<1> QED BY <1>1, <1>2

LEMMA DeactivateKeepsAdmins ==
  ASSUME TypeInv, AdminInv, NEW r \in Requests, Deactivate(r)
  PROVE  AdminInv'
<1> DEFINE u == request[r].user
           row == [users[u] EXCEPT !.active = FALSE]
           next == [request[r] EXCEPT !.at = "sweeping"]
<1>1. u \in Users
  BY DEF Deactivate, TypeInv, BusyHasUser
<1>2. row.role = users[u].role /\ ~row.active
  BY <1>1, RequestTypes DEF UserRow
<1>3. users' = [users EXCEPT ![u] = row]
  BY DEF Deactivate
<1>4. next.at # "deactivating" /\ next.by = request[r].by
  BY RequestTypes DEF RequestState
<1>5. request' = [request EXCEPT ![r] = next]
  BY DEF Deactivate
<1> HIDE DEF row, next
<1>6. SameActors /\ request'[r].at # "deactivating"
  BY <1>4, <1>5, MovedActors DEF TypeInv, RowsTyped
<1>7. users'[u] = row /\ \A v \in Users : v # u => users'[v] = users[v]
  BY <1>1, <1>3 DEF TypeInv, RowsTyped
<1>8. (\A v \in Users : Exists(v)' <=> Exists(v)) /\ ActiveAdmins' = ActiveAdmins \ {u}
  BY <1>2, <1>7 DEF Exists, ActiveAdmins
<1>9. \E v \in ActiveAdmins : v # u
  BY DEF AdminInv, AnotherStays, Deactivate
<1>10. \A q \in Requests : request'[q].at # "deactivating"
  BY <1>6 DEF AdminInv, OneDeactivates, SameActors, Deactivate
<1>11. ActiveExists'
  BY <1>2, <1>7, <1>8 DEF AdminInv, ActiveExists
<1>12. ActorExists'
  BY <1>6, <1>8 DEF AdminInv, ActorExists, SameActors
<1>13. AdminRemains'
  BY <1>8, <1>9 DEF AdminRemains
<1> QED BY <1>10, <1>11, <1>12, <1>13 DEF AdminInv, OneDeactivates, AnotherStays

LEMMA ManageKeepsAdmins ==
  ASSUME "overlaps" \notin Upsets, TypeInv, AdminInv, NEW r \in Requests, Manage(r)
  PROVE  AdminInv'
<1>0. request[r] \in RequestState
  BY RequestTypes
<1>1. ASSUME Authorise(r)
      PROVE  AdminInv'
  <2>1. PICK next : /\ next.at = "acting" /\ (next.by # NoUser => next.by \in Users /\ Exists(next.by))
                    /\ request' = [request EXCEPT ![r] = next]
    <3>1. CASE request' = [request EXCEPT ![r] = [Idle EXCEPT !.at = "acting"]]
      BY <3>1 DEF Idle
    <3>2. ASSUME NEW s \in Sessions, MayAdminister(s),
                 request' = [request EXCEPT ![r] = [Idle EXCEPT !.at = "acting", !.by = sessions[s].user]]
          PROVE  \E next : /\ next.at = "acting" /\ (next.by # NoUser => next.by \in Users /\ Exists(next.by))
                           /\ request' = [request EXCEPT ![r] = next]
      <4> DEFINE next == [Idle EXCEPT !.at = "acting", !.by = sessions[s].user]
      <4>1. sessions[s].user \in Users /\ Exists(sessions[s].user)
        BY <3>2 DEF MayAdminister, MayWork, Resolves, TypeInv, LiveHasUser, Exists
      <4>2. next.at = "acting" /\ next.by = sessions[s].user
        BY DEF Idle
      <4> HIDE DEF next
      <4> QED BY <3>2, <4>1, <4>2 DEF next
    <3> QED BY <1>1, <3>1, <3>2 DEF Authorise
  <2>2. request'[r] = next /\ UNCHANGED users /\ \A q \in Requests : q # r => request'[q] = request[q]
    BY <1>1, <2>1 DEF Authorise, TypeInv, RowsTyped
  <2>3. ActiveAdmins' = ActiveAdmins /\ \A v \in Users : Exists(v)' <=> Exists(v)
    BY <2>2 DEF ActiveAdmins, Exists
  <2>4. ActorExists'
    BY <2>1, <2>2, <2>3 DEF AdminInv, ActorExists
  <2>5. OneDeactivates' /\ AnotherStays'
    BY <2>1, <2>2, <2>3 DEF AdminInv, OneDeactivates, AnotherStays
  <2> QED BY <2>2, <2>3, <2>4, <2>5 DEF AdminInv, ActiveExists, AdminRemains
<1>2. ASSUME LookForAdmin(r)
      PROVE  AdminInv'
  <2> DEFINE next == [request[r] EXCEPT !.at = "founding"]
  <2>1. next.at # "deactivating" /\ next.by = request[r].by
    BY <1>0 DEF RequestState
  <2>2. Ended(r) \/ request' = [request EXCEPT ![r] = next]
    BY <1>0, <1>2 DEF LookForAdmin, RequestState
  <2> HIDE DEF next
  <2> QED BY <1>2, <2>1, <2>2, MovedActors, EndedActors, SameUsers, QuietSteps DEF LookForAdmin
<1>3. ASSUME CreateAdmin(r)
      PROVE  AdminInv'
  <2>1. CASE Exists(First)
    BY <1>3, <2>1, EndedActors, SameUsers, QuietSteps DEF CreateAdmin
  <2>2. CASE ~Exists(First)
    BY <1>3, <2>2, InsertKeepsAdmins, AccountsAssumption DEF CreateAdmin
  <2> QED BY <2>1, <2>2
<1>4. ASSUME Sweep(r)
      PROVE  AdminInv'
  BY <1>4, EndedActors, SameUsers, QuietSteps DEF Sweep
<1>5. ASSUME NEW u \in Users, Reactivate(r, u)
      PROVE  AdminInv'
  <2> DEFINE row == [users[u] EXCEPT !.active = TRUE]
  <2>1. row.role = users[u].role /\ row.active /\ users' = [users EXCEPT ![u] = row]
    BY <1>5 DEF Reactivate, TypeInv, RowsTyped, UserRow
  <2> HIDE DEF row
  <2>2. users'[u] = row /\ \A v \in Users : v # u => users'[v] = users[v]
    BY <2>1 DEF TypeInv, RowsTyped
  <2>3. (\A v \in Users : Exists(v)' <=> Exists(v)) /\ ActiveAdmins \subseteq ActiveAdmins'
    BY <2>1, <2>2 DEF Exists, ActiveAdmins
  <2>4. SameActors
    BY <1>5, EndedActors DEF Reactivate
  <2>5. ActiveExists'
    BY <1>5, <2>2, <2>3 DEF AdminInv, ActiveExists, Reactivate
  <2>6. ActorExists'
    BY <2>3, <2>4 DEF AdminInv, ActorExists, SameActors
  <2>7. OneDeactivates' /\ AnotherStays'
    BY <2>3, <2>4 DEF AdminInv, OneDeactivates, AnotherStays, SameActors
  <2>8. AdminRemains'
    BY <2>3 DEF AdminInv, AdminRemains
  <2> QED BY <2>5, <2>6, <2>7, <2>8 DEF AdminInv
<1>6. ASSUME NEW u \in Users, ResetPassword(r, u)
      PROVE  AdminInv'
  <2> DEFINE next == [request[r] EXCEPT !.at = "sweeping", !.user = u]
  <2>1. next.at # "deactivating" /\ next.by = request[r].by /\ request' = Overtaken(r, u, next)
    BY <1>0, <1>6 DEF ResetPassword, RequestState
  <2> HIDE DEF next
  <2>2. SameActors
    BY <2>1, OvertakenActors
  <2> QED BY <1>6, <2>2, PasswordSetKeeps, QuietSteps DEF ResetPassword
<1>7. ASSUME NEW u \in Users, NEW role \in {"officer", "admin"}, Create(r, u, role)
      PROVE  AdminInv'
  <2>1. CASE Exists(u)
    BY <1>7, <2>1, EndedActors, SameUsers, QuietSteps DEF Create
  <2>2. CASE ~Exists(u)
    <3>1. ActiveAdmins # {}
      BY <1>7 DEF Create, Shell, AdminInv, ActorExists, AdminRemains
    <3> QED BY <1>7, <2>2, <3>1, InsertKeepsAdmins DEF Create
  <2> QED BY <2>1, <2>2
<1> QED BY <1>1, <1>2, <1>3, <1>4, <1>5, <1>6, <1>7, CheckKeepsAdmins, DeactivateKeepsAdmins DEF Manage

LEMMA StepKeepsAdmins == "overlaps" \notin Upsets /\ TypeInv /\ AdminInv /\ [Next]_vars => AdminInv'
<1> SUFFICES ASSUME "overlaps" \notin Upsets, TypeInv, AdminInv, [Next]_vars PROVE AdminInv'
  OBVIOUS
<1>1. CASE UNCHANGED vars
  BY <1>1, SameUsers, SameRequests, QuietSteps DEF vars
<1>2. ASSUME NEW s \in Sessions, EndSession(s)
      PROVE  AdminInv'
  BY <1>2, SameUsers, SameRequests, QuietSteps DEF EndSession
<1>3. ASSUME NEW u \in Users, LockoutPasses(u)
      PROVE  AdminInv'
  <2> DEFINE row == [users[u] EXCEPT !.locked = FALSE]
  <2>1. row.role = users[u].role /\ row.active = users[u].active /\ users' = [users EXCEPT ![u] = row]
    BY <1>3 DEF LockoutPasses, TypeInv, RowsTyped, UserRow
  <2> HIDE DEF row
  <2> QED BY <1>3, <2>1, RowKept, SameRequests, QuietSteps DEF LockoutPasses
<1>4. ASSUME WindowPasses
      PROVE  AdminInv'
  BY <1>4, SameUsers, SameRequests, QuietSteps DEF WindowPasses
<1> QED BY <1>1, <1>2, <1>3, <1>4, ManageKeepsAdmins, SignInQuiet, QuietSteps DEF Next

LEMMA InitAdmins == Init => AdminInv
BY DEF Init, AdminInv, ActiveExists, ActorExists, OneDeactivates, AnotherStays, AdminRemains, Exists, NoRow, Idle

(* As long as no two deactivations overlap, there is an active              *)
(* administrator whenever there is an account at all (admin_deactivate,     *)
(* create_user, bootstrap.create_admin), for any number of accounts,        *)
(* sessions, request threads and shell commands.                            *)
THEOREM AdminStays == "overlaps" \notin Upsets => (Spec => []AdminRemains)
<1> SUFFICES ASSUME "overlaps" \notin Upsets PROVE Spec => []AdminRemains
  OBVIOUS
<1>1. Init => TypeInv /\ AdminInv
  BY InitTypes, InitAdmins
<1>2. TypeInv /\ AdminInv /\ [Next]_vars => (TypeInv /\ AdminInv)'
  BY StepTypes, StepKeepsAdmins
<1>3. TypeInv /\ AdminInv => AdminRemains
  BY DEF AdminInv
<1> QED BY <1>1, <1>2, <1>3, PTL DEF Spec

-----------------------------------------------------------------------------
(* Passwords belong to their owners.  An account that is not asked for a    *)
(* new password has one its owner or the operator chose, and that holds of  *)
(* inactive accounts too, which may be activated again.                     *)
OwnedRow(row) ==
  /\ row.active => row.role # "none"
  /\ row.role # "none" /\ ~row.must => row.password.by # "temporary"
RowsOwned == \A u \in Users : OwnedRow(users[u])

LEMMA RowOwned ==
  ASSUME TypeInv, RowsOwned, NEW u \in Users, NEW row, users' = [users EXCEPT ![u] = row], OwnedRow(row)
  PROVE  RowsOwned'
BY DEF TypeInv, RowsTyped, RowsOwned

LEMMA SetOwned ==
  ASSUME TypeInv, RowsOwned, NEW u \in Users, NEW by \in {"temporary", "owner", "operator"}, NEW must \in BOOLEAN,
         PasswordSet(u, Issued(u, by), must), must \/ by # "temporary"
  PROVE  RowsOwned'
<1> DEFINE password == Issued(u, by)
           row == [users[u] EXCEPT !.password = password, !.must = must, !.fails = 0, !.locked = FALSE]
<1>1. users' = [users EXCEPT ![u] = row]
  BY DEF PasswordSet
<1>2. password.by = by
  BY DEF Issued
<1> HIDE DEF password
<1>3. /\ row.role = users[u].role /\ row.active = users[u].active
      /\ row.must = must /\ row.password = password
  BY DEF TypeInv, RowsTyped, UserRow
<1> HIDE DEF row
<1>4. OwnedRow(row)
  BY <1>2, <1>3 DEF OwnedRow, RowsOwned
<1> QED BY <1>1, <1>4, RowOwned

LEMMA InsertOwned ==
  ASSUME TypeInv, RowsOwned, NEW u \in Users, NEW role \in {"officer", "admin"}, NEW password, NEW must \in BOOLEAN,
         Inserted(u, role, password, must), must \/ password.by # "temporary"
  PROVE  RowsOwned'
<1> DEFINE row == [role |-> role, active |-> TRUE, must |-> must, fails |-> 0, locked |-> FALSE,
                   password |-> password]
<1>1. users' = [users EXCEPT ![u] = row] /\ OwnedRow(row)
  BY DEF Inserted, OwnedRow
<1> HIDE DEF row
<1> QED BY <1>1, RowOwned

LEMMA SameOwned == RowsOwned /\ UNCHANGED users => RowsOwned'
BY DEF RowsOwned

LEMMA SignInOwned ==
  ASSUME "raises" \notin Upsets, TypeInv, RowsOwned, NEW r \in Requests, SignIn(r)
  PROVE  RowsOwned'
<1>1. ASSUME WrongPassword(r)
      PROVE  RowsOwned'
  <2> DEFINE u == request[r].user
             n == Miscount(request[r].seen)
             full == n >= MaxFails
             row == [users[u] EXCEPT !.fails = n, !.locked = full]
  <2>1. u \in Users
    BY <1>1 DEF WrongPassword, TypeInv, BusyHasUser
  <2>2. users' = [users EXCEPT ![u] = row]
    BY <1>1 DEF WrongPassword
  <2> HIDE DEF n, full
  <2>3. row.role = users[u].role /\ row.active = users[u].active /\ row.must = users[u].must
        /\ row.password = users[u].password
    BY <2>1, RequestTypes DEF UserRow
  <2> HIDE DEF row
  <2>4. OwnedRow(row)
    BY <2>1, <2>3 DEF OwnedRow, RowsOwned
  <2> QED BY <2>1, <2>2, <2>4, RowOwned
<1>2. ASSUME RightPassword(r)
      PROVE  RowsOwned'
  <2> DEFINE u == request[r].user
             row == [[users[u] EXCEPT !.fails = 0, !.locked = FALSE] EXCEPT !.password = users[u].password]
  <2>1. u \in Users
    BY <1>2 DEF RightPassword, TypeInv, BusyHasUser
  <2>2. users' = [users EXCEPT ![u] = row]
    BY <1>2 DEF RightPassword
  <2>3. row.role = users[u].role /\ row.active = users[u].active /\ row.must = users[u].must
        /\ row.password = users[u].password
    BY <2>1, RequestTypes DEF UserRow
  <2> HIDE DEF row
  <2>4. OwnedRow(row)
    BY <2>1, <2>3 DEF OwnedRow, RowsOwned
  <2> QED BY <2>1, <2>2, <2>4, RowOwned
<1>3. ASSUME ChangePassword(r)
      PROVE  RowsOwned'
  <2>1. request[r].user \in Users
    BY <1>3 DEF ChangePassword, TypeInv, BusyHasUser
  <2> QED BY <1>3, <2>1, SetOwned DEF ChangePassword
<1> QED BY <1>1, <1>2, <1>3, SameOwned DEF SignIn, CheckAddress, Attempt, OpenSession, AskChange, RefuseChange

LEMMA ManageOwned ==
  ASSUME TypeInv, RowsOwned, NEW r \in Requests, Manage(r)
  PROVE  RowsOwned'
<1>1. ASSUME CreateAdmin(r)
      PROVE  RowsOwned'
  <2>1. CASE Exists(First)
    BY <1>1, <2>1, SameOwned DEF CreateAdmin
  <2>2. CASE ~Exists(First)
    <3>1. PICK by \in {"temporary", "operator"} :
            Inserted(First, "admin", [n |-> 1, by |-> by], by = "temporary")
      BY <1>1, <2>2 DEF CreateAdmin
    <3> DEFINE must == by = "temporary"
    <3>2. must \in BOOLEAN /\ (must \/ [n |-> 1, by |-> by].by # "temporary")
      OBVIOUS
    <3> QED BY <3>1, <3>2, InsertOwned, AccountsAssumption
  <2> QED BY <2>1, <2>2
<1>2. ASSUME Deactivate(r)
      PROVE  RowsOwned'
  <2> DEFINE u == request[r].user
             row == [users[u] EXCEPT !.active = FALSE]
  <2>1. u \in Users /\ users' = [users EXCEPT ![u] = row]
    BY <1>2 DEF Deactivate, TypeInv, BusyHasUser
  <2>2. ~row.active /\ row.role = users[u].role /\ row.must = users[u].must /\ row.password = users[u].password
    BY <2>1, RequestTypes DEF UserRow
  <2> HIDE DEF row
  <2>3. OwnedRow(row)
    BY <2>1, <2>2 DEF OwnedRow, RowsOwned
  <2> QED BY <2>1, <2>3, RowOwned
<1>3. ASSUME NEW u \in Users, Reactivate(r, u)
      PROVE  RowsOwned'
  <2> DEFINE row == [users[u] EXCEPT !.active = TRUE]
  <2>1. users' = [users EXCEPT ![u] = row] /\ users[u].role # "none"
    BY <1>3 DEF Reactivate, Exists
  <2>2. row.role = users[u].role /\ row.must = users[u].must /\ row.password = users[u].password
    BY DEF TypeInv, RowsTyped, UserRow
  <2> HIDE DEF row
  <2>3. OwnedRow(row)
    BY <2>1, <2>2 DEF OwnedRow, RowsOwned
  <2> QED BY <2>1, <2>3, RowOwned
<1>4. ASSUME NEW u \in Users, ResetPassword(r, u)
      PROVE  RowsOwned'
  BY <1>4, SetOwned DEF ResetPassword
<1>5. ASSUME NEW u \in Users, NEW role \in {"officer", "admin"}, Create(r, u, role)
      PROVE  RowsOwned'
  BY <1>5, InsertOwned, SameOwned DEF Create
<1> QED BY <1>1, <1>2, <1>3, <1>4, <1>5, SameOwned DEF Manage, Authorise, LookForAdmin, Sweep, CheckDeactivate

LEMMA StepOwned == "raises" \notin Upsets /\ TypeInv /\ RowsOwned /\ [Next]_vars => RowsOwned'
<1> SUFFICES ASSUME "raises" \notin Upsets, TypeInv, RowsOwned, [Next]_vars PROVE RowsOwned'
  OBVIOUS
<1>1. ASSUME NEW u \in Users, LockoutPasses(u)
      PROVE  RowsOwned'
  <2> DEFINE row == [users[u] EXCEPT !.locked = FALSE]
  <2>1. users' = [users EXCEPT ![u] = row]
    BY <1>1 DEF LockoutPasses
  <2>2. row.role = users[u].role /\ row.active = users[u].active /\ row.must = users[u].must
        /\ row.password = users[u].password
    BY DEF TypeInv, RowsTyped, UserRow
  <2> HIDE DEF row
  <2>3. OwnedRow(row)
    BY <2>2 DEF OwnedRow, RowsOwned
  <2> QED BY <2>1, <2>3, RowOwned
<1> QED BY <1>1, SignInOwned, ManageOwned, SameOwned DEF Next, vars, EndSession, WindowPasses

LEMMA InitOwned == Init => RowsOwned
BY DEF Init, RowsOwned, OwnedRow, NoRow

(* If the cost of a hash is not raised while a sign-in is under way, whoever *)
(* may work has a password an administrator does not know (users.create_user,*)
(* set_password, deps.require_user), however requests interleave.            *)
THEOREM OwnedPasswords == "raises" \notin Upsets => (Spec => []OwnPassword)
<1> SUFFICES ASSUME "raises" \notin Upsets PROVE Spec => []OwnPassword
  OBVIOUS
<1>1. Init => TypeInv /\ RowsOwned
  BY InitTypes, InitOwned
<1>2. TypeInv /\ RowsOwned /\ [Next]_vars => (TypeInv /\ RowsOwned)'
  BY StepTypes, StepOwned
<1>3. TypeInv /\ RowsOwned => OwnPassword
  BY DEF TypeInv, LiveHasUser, RowsOwned, OwnedRow, OwnPassword, MayWork, Resolves
<1> QED BY <1>1, <1>2, <1>3, PTL DEF Spec

-----------------------------------------------------------------------------
(* A new password signs out.  Between the password and the sweep a sign-in  *)
(* may still open a session: either it was marked late, or it read the      *)
(* password that is in force.                                               *)
SigningIn(q) == q.at \in {"verifying", "opening"}
SignInExists == \A r \in Requests : SigningIn(request[r]) => Exists(request[r].user)
SignInCurrent == \A r \in Requests :
  SigningIn(request[r]) /\ ~request[r].late => request[r].seen.password.n = users[request[r].user].password.n
LiveExists == \A s \in Sessions : sessions[s].live => Exists(sessions[s].user)
PassInv == SignInExists /\ SignInCurrent /\ LiveExists /\ EarlierSignedOut

SamePasswords == \A u \in Users : users'[u].role = users[u].role /\ users'[u].password = users[u].password
SamePhases == \A q \in Requests :
  /\ SigningIn(request'[q]) => /\ SigningIn(request[q]) /\ request'[q].user = request[q].user
                               /\ request'[q].seen = request[q].seen /\ request'[q].late = request[q].late
  /\ request[q].at = "sweeping" => request'[q].at = "sweeping" /\ request'[q].user = request[q].user

LEMMA CalmSteps ==
  TypeInv /\ PassInv /\ SamePasswords /\ SamePhases /\ UNCHANGED sessions => PassInv'
<1> SUFFICES ASSUME TypeInv, PassInv, SamePasswords, SamePhases, UNCHANGED sessions PROVE PassInv'
  OBVIOUS
<1>1. \A u \in Users : (Exists(u)' <=> Exists(u)) /\ users'[u].password = users[u].password
  BY DEF SamePasswords, Exists
<1>2. \A r \in Requests : SigningIn(request[r]) => request[r].user \in Users
  BY DEF TypeInv, BusyHasUser, SigningIn
<1>3. SignInExists' /\ SignInCurrent'
  BY <1>1, <1>2 DEF PassInv, SignInExists, SignInCurrent, SamePhases
<1>4. LiveExists'
  BY <1>1 DEF PassInv, LiveExists, TypeInv, LiveHasUser
<1>5. \A u \in Users : Sweeping(u) => Sweeping(u)'
  BY DEF Sweeping, SamePhases
<1>6. EarlierSignedOut'
  BY <1>1, <1>5 DEF PassInv, EarlierSignedOut, TypeInv, LiveHasUser
<1> QED BY <1>3, <1>4, <1>6 DEF PassInv

LEMMA MovedPhases ==
  ASSUME TypeInv, NEW r \in Requests, NEW next, ~SigningIn(next), request[r].at # "sweeping",
         request' = [request EXCEPT ![r] = next]
  PROVE  SamePhases
BY DEF TypeInv, RowsTyped, SamePhases

LEMMA EndedPhases ==
  ASSUME TypeInv, NEW r \in Requests, Ended(r), request[r].at # "sweeping"
  PROVE  SamePhases
<1>1. ~SigningIn(Idle)
  BY DEF Idle, SigningIn
<1> QED BY <1>1, MovedPhases DEF Ended

LEMMA RowPasswordKept ==
  ASSUME TypeInv, NEW u \in Users, NEW row, users' = [users EXCEPT ![u] = row],
         row.role = users[u].role, row.password = users[u].password
  PROVE  SamePasswords
BY DEF TypeInv, RowsTyped, SamePasswords

LEMMA UsersCalm == UNCHANGED users => SamePasswords
BY DEF SamePasswords
LEMMA RequestsCalm == UNCHANGED request => SamePhases
BY DEF SamePhases

(* A password is set: the sign-ins under way are late, and the sessions are *)
(* swept next.                                                              *)
LEMMA SetSignsOut ==
  ASSUME TypeInv, PassInv, NEW r \in Requests, NEW u \in Users, NEW password, NEW must,
         PasswordSet(u, password, must), NEW next, next.at = "sweeping", next.user = u,
         request[r].at # "sweeping", request' = Overtaken(r, u, next), UNCHANGED sessions
  PROVE  PassInv'
<1> DEFINE row == [users[u] EXCEPT !.password = password, !.must = must, !.fails = 0, !.locked = FALSE]
           marked(q) == [request[q] EXCEPT !.late = TRUE]
<1>1. users' = [users EXCEPT ![u] = row]
  BY DEF PasswordSet
<1>2. row.role = users[u].role
  BY DEF TypeInv, RowsTyped, UserRow
<1> HIDE DEF row
<1>3. (\A v \in Users : Exists(v)' <=> Exists(v)) /\ \A v \in Users : v # u => users'[v] = users[v]
  BY <1>1, <1>2 DEF TypeInv, RowsTyped, Exists
<1>4. \A q \in Requests :
        /\ marked(q).at = request[q].at /\ marked(q).user = request[q].user
        /\ marked(q).seen = request[q].seen /\ marked(q).late
  BY DEF TypeInv, RowsTyped, RequestState
<1>5. \A q \in Requests :
        \/ q = r /\ request'[q] = next
        \/ q # r /\ request[q].user = u /\ SigningIn(request[q]) /\ request'[q] = marked(q)
        \/ q # r /\ ~(request[q].user = u /\ SigningIn(request[q])) /\ request'[q] = request[q]
  BY DEF Overtaken, SigningIn
<1> HIDE DEF marked
<1>6. ~SigningIn(next)
  BY DEF SigningIn
<1>7. \A q \in Requests : SigningIn(request'[q]) =>
        /\ SigningIn(request[q]) /\ request'[q].user = request[q].user /\ request'[q].user \in Users
        /\ request'[q].seen = request[q].seen
        /\ ~request'[q].late => ~request[q].late /\ request[q].user # u
  BY <1>4, <1>5, <1>6 DEF TypeInv, BusyHasUser, SigningIn
<1>8. SignInExists' /\ SignInCurrent'
  BY <1>3, <1>7 DEF PassInv, SignInExists, SignInCurrent
<1>9. LiveExists'
  BY <1>3 DEF PassInv, LiveExists, TypeInv, LiveHasUser
<1>10. Sweeping(u)' /\ \A v \in Users : Sweeping(v) => Sweeping(v)'
  BY <1>4, <1>5 DEF Sweeping, SigningIn
<1>11. EarlierSignedOut'
  BY <1>3, <1>10 DEF PassInv, EarlierSignedOut, TypeInv, LiveHasUser
<1> QED BY <1>8, <1>9, <1>11 DEF PassInv

LEMMA SweepSignsOut ==
  ASSUME TypeInv, PassInv, NEW r \in Requests, Sweep(r)
  PROVE  PassInv'
<1> DEFINE u == request[r].user
           kept(s) == [sessions[s] EXCEPT !.password = users[u].password.n]
<1>0. u \in Users
  BY DEF Sweep, TypeInv, BusyHasUser
<1>1. ~NoLogin.live
  BY DEF NoLogin
<1>2. \A s \in Sessions : /\ kept(s).user = sessions[s].user /\ kept(s).live = sessions[s].live
                          /\ kept(s).password = users[u].password.n
  BY DEF TypeInv, RowsTyped, SessionRow
<1>3. \A s \in Sessions :
        \/ (sessions[s].user # u \/ ~sessions[s].live) /\ sessions'[s] = sessions[s]
        \/ sessions[s].user = u /\ sessions'[s] = kept(s)
        \/ sessions'[s] = NoLogin
  BY DEF Sweep, Revoked
<1> HIDE DEF kept
<1>4. \A q \in Requests : q # r => request'[q] = request[q]
  BY EndedActors DEF Sweep
<1>5. request'[r].at = "idle" /\ UNCHANGED users
  BY EndedActors DEF Sweep
<1>6. SignInExists' /\ SignInCurrent'
  BY <1>4, <1>5 DEF PassInv, SignInExists, SignInCurrent, SigningIn, Exists
<1>7. LiveExists'
  BY <1>1, <1>2, <1>3, <1>5 DEF PassInv, LiveExists, Exists
<1>8. \A v \in Users : v # u /\ Sweeping(v) => Sweeping(v)'
  BY <1>4 DEF Sweeping
<1>9. EarlierSignedOut'
  <2> SUFFICES ASSUME NEW s \in Sessions, (sessions[s].live)', ~(sessions[s].late)', ~Sweeping(sessions[s].user)'
               PROVE  (sessions[s].password = users[sessions[s].user].password.n)'
    BY DEF EarlierSignedOut
  <2>1. CASE sessions[s].user = u /\ sessions'[s] = kept(s)
    BY <2>1, <1>2, <1>5
  <2>2. CASE sessions[s].user # u /\ sessions'[s] = sessions[s]
    BY <2>2, <1>5, <1>8 DEF PassInv, EarlierSignedOut, TypeInv, LiveHasUser, Sweeping
  <2> QED BY <2>1, <2>2, <1>1, <1>3
<1> QED BY <1>6, <1>7, <1>9 DEF PassInv

(* The account is new, so nobody is signed in to it.                        *)
LEMMA InsertSignsOut ==
  ASSUME TypeInv, PassInv, NEW r \in Requests, Ended(r), request[r].at # "sweeping", NEW u \in Users,
         NEW role \in {"officer", "admin"}, NEW password, NEW must, Inserted(u, role, password, must),
         ~Exists(u), UNCHANGED sessions
  PROVE  PassInv'
<1>1. users'[u].role = role /\ \A v \in Users : v # u => users'[v] = users[v]
  BY DEF Inserted, TypeInv, RowsTyped
<1>2. \A v \in Users : Exists(v) => v # u /\ Exists(v)'
  BY <1>1 DEF Exists
<1>3. SamePhases
  BY EndedPhases
<1>4. \A q \in Requests : SigningIn(request[q]) => request[q].user \in Users
  BY DEF TypeInv, BusyHasUser, SigningIn
<1>5. SignInExists' /\ SignInCurrent'
  BY <1>1, <1>2, <1>3, <1>4 DEF PassInv, SignInExists, SignInCurrent, SamePhases
<1>6. LiveExists'
  BY <1>2 DEF PassInv, LiveExists, TypeInv, LiveHasUser
<1>7. \A v \in Users : Sweeping(v) => Sweeping(v)'
  BY <1>3 DEF Sweeping, SamePhases
<1>8. EarlierSignedOut'
  BY <1>1, <1>2, <1>7 DEF PassInv, EarlierSignedOut, LiveExists, TypeInv, LiveHasUser
<1> QED BY <1>5, <1>6, <1>8 DEF PassInv

LEMMA SignInSignsOut ==
  ASSUME "raises" \notin Upsets, TypeInv, RowsOwned, PassInv, NEW r \in Requests, SignIn(r)
  PROVE  PassInv'
<1>0. request[r] \in RequestState
  BY RequestTypes
<1>1. ASSUME NEW u \in Users, Attempt(r, u)
      PROVE  PassInv'
  <2>1. CASE Ended(r)
    BY <1>1, <2>1, EndedPhases, UsersCalm, CalmSteps DEF Attempt
  <2>2. CASE users[u].active /\ ~users[u].locked /\ ~Ended(r)
    <3> DEFINE next == [Idle EXCEPT !.at = "verifying", !.user = u, !.seen = SeenOf(users[u])]
    <3>1. next.user = u /\ next.seen.password = users[u].password
      BY DEF Idle, SeenOf
    <3>2. request' = [request EXCEPT ![r] = next] /\ UNCHANGED <<users, sessions>>
      BY <1>1, <2>2 DEF Attempt
    <3> HIDE DEF next
    <3>3. request'[r] = next /\ \A q \in Requests : q # r => request'[q] = request[q]
      BY <3>2 DEF TypeInv, RowsTyped
    <3>4. Exists(u) /\ \A v \in Users : Exists(v)' <=> Exists(v)
      BY <2>2, <3>2 DEF RowsOwned, OwnedRow, Exists
    <3>5. \A q \in Requests : SigningIn(request[q]) => request[q].user \in Users
      BY DEF TypeInv, BusyHasUser, SigningIn
    <3>6. SignInExists' /\ SignInCurrent'
      BY <3>1, <3>2, <3>3, <3>4, <3>5 DEF PassInv, SignInExists, SignInCurrent
    <3>7. LiveExists'
      BY <3>2, <3>4 DEF PassInv, LiveExists, TypeInv, LiveHasUser
    <3>8. \A v \in Users : Sweeping(v) => Sweeping(v)'
      BY <1>1, <3>3 DEF Sweeping, Attempt
    <3>9. EarlierSignedOut'
      BY <3>2, <3>8 DEF PassInv, EarlierSignedOut, TypeInv, LiveHasUser
    <3> QED BY <3>6, <3>7, <3>9 DEF PassInv
  <2> QED BY <1>1, <2>1, <2>2 DEF Attempt
<1>2. ASSUME WrongPassword(r)
      PROVE  PassInv'
  <2> DEFINE u == request[r].user
             n == Miscount(request[r].seen)
             row == [users[u] EXCEPT !.fails = n, !.locked = (n >= MaxFails)]
  <2>1. u \in Users /\ request[r].at # "sweeping"
    BY <1>2 DEF WrongPassword, TypeInv, BusyHasUser
  <2>2. users' = [users EXCEPT ![u] = row]
    BY <1>2 DEF WrongPassword
  <2>3. row.role = users[u].role /\ row.password = users[u].password
    BY <2>1, RequestTypes DEF UserRow
  <2> HIDE DEF row
  <2>4. SamePasswords
    BY <2>1, <2>2, <2>3, RowPasswordKept
  <2> QED BY <1>2, <2>1, <2>4, EndedPhases, CalmSteps DEF WrongPassword
<1>3. ASSUME RightPassword(r)
      PROVE  PassInv'
  <2> DEFINE u == request[r].user
             row == [[users[u] EXCEPT !.fails = 0, !.locked = FALSE] EXCEPT !.password = users[u].password]
             next == [request[r] EXCEPT !.at = "opening"]
  <2>1. u \in Users
    BY <1>3 DEF RightPassword, TypeInv, BusyHasUser
  <2>2. users' = [users EXCEPT ![u] = row]
    BY <1>3 DEF RightPassword
  <2>3. row.role = users[u].role /\ row.password = users[u].password
    BY <2>1, RequestTypes DEF UserRow
  <2> HIDE DEF row
  <2>4. SamePasswords
    BY <2>1, <2>2, <2>3, RowPasswordKept
  <2>5. next.at = "opening" /\ next.user = request[r].user /\ next.seen = request[r].seen /\ next.late = request[r].late
    BY <1>0 DEF RequestState
  <2>6. request' = [request EXCEPT ![r] = next] /\ request[r].at = "verifying"
    BY <1>3 DEF RightPassword
  <2> HIDE DEF next
  <2>7. SamePhases
    BY <2>5, <2>6 DEF SamePhases, SigningIn, TypeInv, RowsTyped
  <2> QED BY <1>3, <2>4, <2>7, CalmSteps DEF RightPassword
<1>4. ASSUME OpenSession(r)
      PROVE  PassInv'
  <2> DEFINE u == request[r].user
             row == [user |-> request[r].user, live |-> TRUE, password |-> request[r].seen.password.n,
                     late |-> request[r].late]
  <2>1. u \in Users /\ Exists(u) /\ (~request[r].late => request[r].seen.password.n = users[u].password.n)
    BY <1>4 DEF OpenSession, TypeInv, BusyHasUser, PassInv, SignInExists, SignInCurrent, SigningIn
  <2>2. PICK s \in Sessions : sessions' = [sessions EXCEPT ![s] = row]
    BY <1>4 DEF OpenSession
  <2>3. row.user = u /\ row.password = request[r].seen.password.n /\ row.late = request[r].late
    OBVIOUS
  <2> HIDE DEF row
  <2>4. sessions'[s] = row /\ \A x \in Sessions : x # s => sessions'[x] = sessions[x]
    BY <2>2 DEF TypeInv, RowsTyped
  <2>5. SamePhases /\ UNCHANGED users
    BY <1>4, EndedPhases DEF OpenSession
  <2>6. \A v \in Users : Exists(v)' <=> Exists(v)
    BY <2>5 DEF Exists
  <2>7. SignInExists' /\ SignInCurrent'
    BY <2>5, <2>6 DEF PassInv, SignInExists, SignInCurrent, SamePhases, TypeInv, BusyHasUser, SigningIn
  <2>8. LiveExists'
    BY <2>1, <2>3, <2>4, <2>6 DEF PassInv, LiveExists, TypeInv, LiveHasUser
  <2>9. \A v \in Users : Sweeping(v) => Sweeping(v)'
    BY <2>5 DEF Sweeping, SamePhases
  <2>10. EarlierSignedOut'
    BY <2>1, <2>3, <2>4, <2>5, <2>9 DEF PassInv, EarlierSignedOut, TypeInv, LiveHasUser
  <2> QED BY <2>7, <2>8, <2>10 DEF PassInv
<1>5. ASSUME NEW s \in Sessions, AskChange(r, s)
      PROVE  PassInv'
  <2> DEFINE next == [Idle EXCEPT !.at = "changing", !.user = sessions[s].user, !.session = s]
  <2>1. ~SigningIn(next)
    BY DEF Idle, SigningIn
  <2>2. request' = [request EXCEPT ![r] = next] /\ request[r].at = "idle"
    BY <1>5 DEF AskChange
  <2> HIDE DEF next
  <2> QED BY <1>5, <2>1, <2>2, MovedPhases, UsersCalm, CalmSteps DEF AskChange
<1>6. ASSUME ChangePassword(r)
      PROVE  PassInv'
  <2> DEFINE next == [request[r] EXCEPT !.at = "sweeping"]
  <2>1. next.at = "sweeping" /\ next.user = request[r].user /\ request[r].user \in Users
    BY <1>0, <1>6 DEF ChangePassword, RequestState, TypeInv, BusyHasUser
  <2>2. request' = Overtaken(r, request[r].user, next) /\ request[r].at # "sweeping"
    BY <1>6 DEF ChangePassword
  <2> HIDE DEF next
  <2> QED BY <1>6, <2>1, <2>2, SetSignsOut DEF ChangePassword
<1>7. ASSUME RefuseChange(r)
      PROVE  PassInv'
  BY <1>7, EndedPhases, UsersCalm, CalmSteps DEF RefuseChange
<1>8. ASSUME CheckAddress(r)
      PROVE  PassInv'
  <2>1. ~SigningIn([Idle EXCEPT !.at = "admitted"])
    BY DEF Idle, SigningIn
  <2> QED BY <1>8, <2>1, MovedPhases, UsersCalm, CalmSteps DEF CheckAddress
<1> QED BY <1>1, <1>2, <1>3, <1>4, <1>5, <1>6, <1>7, <1>8 DEF SignIn

LEMMA ManageSignsOut ==
  ASSUME TypeInv, PassInv, NEW r \in Requests, Manage(r)
  PROVE  PassInv'
<1>0. request[r] \in RequestState
  BY RequestTypes
<1>1. ASSUME Authorise(r)
      PROVE  PassInv'
  <2>1. PICK by : request' = [request EXCEPT ![r] = [Idle EXCEPT !.at = "acting", !.by = by]]
                  \/ request' = [request EXCEPT ![r] = [Idle EXCEPT !.at = "acting"]]
    BY <1>1 DEF Authorise
  <2>2. ~SigningIn([Idle EXCEPT !.at = "acting", !.by = by]) /\ ~SigningIn([Idle EXCEPT !.at = "acting"])
    BY DEF Idle, SigningIn
  <2>3. SamePhases
    BY <1>1, <2>1, <2>2, MovedPhases DEF Authorise
  <2> QED BY <1>1, <2>3, UsersCalm, CalmSteps DEF Authorise
<1>2. ASSUME LookForAdmin(r)
      PROVE  PassInv'
  <2> DEFINE next == [request[r] EXCEPT !.at = "founding"]
  <2>1. ~SigningIn(next)
    BY <1>0 DEF RequestState, SigningIn
  <2>2. Ended(r) \/ request' = [request EXCEPT ![r] = next]
    BY <1>0, <1>2 DEF LookForAdmin, RequestState
  <2> HIDE DEF next
  <2>3. SamePhases
    BY <1>2, <2>1, <2>2, MovedPhases, EndedPhases DEF LookForAdmin
  <2> QED BY <1>2, <2>3, UsersCalm, CalmSteps DEF LookForAdmin
<1>3. ASSUME CreateAdmin(r)
      PROVE  PassInv'
  <2>1. CASE Exists(First)
    BY <1>3, <2>1, EndedPhases, UsersCalm, CalmSteps DEF CreateAdmin
  <2>2. CASE ~Exists(First)
    BY <1>3, <2>2, InsertSignsOut, AccountsAssumption DEF CreateAdmin
  <2> QED BY <2>1, <2>2
<1>4. ASSUME Deactivate(r)
      PROVE  PassInv'
  <2> DEFINE u == request[r].user
             row == [users[u] EXCEPT !.active = FALSE]
             next == [request[r] EXCEPT !.at = "sweeping"]
  <2>1. u \in Users /\ users' = [users EXCEPT ![u] = row]
    BY <1>4 DEF Deactivate, TypeInv, BusyHasUser
  <2>2. row.role = users[u].role /\ row.password = users[u].password
    BY <2>1, RequestTypes DEF UserRow
  <2> HIDE DEF row
  <2>3. SamePasswords
    BY <2>1, <2>2, RowPasswordKept
  <2>4. ~SigningIn(next)
    BY <1>0 DEF RequestState, SigningIn
  <2>5. request' = [request EXCEPT ![r] = next] /\ request[r].at # "sweeping"
    BY <1>4 DEF Deactivate
  <2> HIDE DEF next
  <2> QED BY <1>4, <2>3, <2>4, <2>5, MovedPhases, CalmSteps DEF Deactivate
<1>5. ASSUME NEW u \in Users, CheckDeactivate(r, u)
      PROVE  PassInv'
  <2> DEFINE next == [request[r] EXCEPT !.at = "deactivating", !.user = u]
  <2>1. ~SigningIn(next)
    BY <1>0 DEF RequestState, SigningIn
  <2>2. Ended(r) \/ request' = [request EXCEPT ![r] = next]
    BY <1>0, <1>5 DEF CheckDeactivate, RequestState
  <2> HIDE DEF next
  <2>3. SamePhases
    BY <1>5, <2>1, <2>2, MovedPhases, EndedPhases DEF CheckDeactivate
  <2> QED BY <1>5, <2>3, UsersCalm, CalmSteps DEF CheckDeactivate
<1>6. ASSUME NEW u \in Users, Reactivate(r, u)
      PROVE  PassInv'
  <2> DEFINE row == [users[u] EXCEPT !.active = TRUE]
  <2>1. users' = [users EXCEPT ![u] = row] /\ row.role = users[u].role /\ row.password = users[u].password
    BY <1>6 DEF Reactivate, TypeInv, RowsTyped, UserRow
  <2> HIDE DEF row
  <2>2. SamePasswords
    BY <2>1, RowPasswordKept
  <2> QED BY <1>6, <2>2, EndedPhases, CalmSteps DEF Reactivate
<1>7. ASSUME NEW u \in Users, ResetPassword(r, u)
      PROVE  PassInv'
  <2> DEFINE next == [request[r] EXCEPT !.at = "sweeping", !.user = u]
  <2>1. next.at = "sweeping" /\ next.user = u
    BY <1>0 DEF RequestState
  <2>2. request' = Overtaken(r, u, next) /\ request[r].at # "sweeping"
    BY <1>7 DEF ResetPassword
  <2> HIDE DEF next
  <2> QED BY <1>7, <2>1, <2>2, SetSignsOut DEF ResetPassword
<1>8. ASSUME NEW u \in Users, NEW role \in {"officer", "admin"}, Create(r, u, role)
      PROVE  PassInv'
  <2>1. CASE Exists(u)
    BY <1>8, <2>1, EndedPhases, UsersCalm, CalmSteps DEF Create
  <2>2. CASE ~Exists(u)
    BY <1>8, <2>2, InsertSignsOut DEF Create
  <2> QED BY <2>1, <2>2
<1> QED BY <1>1, <1>2, <1>3, <1>4, <1>5, <1>6, <1>7, <1>8, SweepSignsOut DEF Manage

LEMMA StepSignsOut ==
  "raises" \notin Upsets /\ TypeInv /\ RowsOwned /\ PassInv /\ [Next]_vars => PassInv'
<1> SUFFICES ASSUME "raises" \notin Upsets, TypeInv, RowsOwned, PassInv, [Next]_vars PROVE PassInv'
  OBVIOUS
<1>1. CASE UNCHANGED vars
  BY <1>1, UsersCalm, RequestsCalm, CalmSteps DEF vars
<1>2. ASSUME NEW s \in Sessions, EndSession(s)
      PROVE  PassInv'
  <2>1. sessions'[s] = NoLogin /\ \A x \in Sessions : x # s => sessions'[x] = sessions[x]
    BY <1>2 DEF EndSession, TypeInv, RowsTyped
  <2>2. ~NoLogin.live
    BY DEF NoLogin
  <2>3. SignInExists' /\ SignInCurrent'
    BY <1>2 DEF EndSession, PassInv, SignInExists, SignInCurrent, Exists
  <2>4. LiveExists'
    BY <1>2, <2>1, <2>2 DEF EndSession, PassInv, LiveExists, Exists
  <2>5. EarlierSignedOut'
    BY <1>2, <2>1, <2>2 DEF EndSession, PassInv, EarlierSignedOut, Sweeping
  <2> QED BY <2>3, <2>4, <2>5 DEF PassInv
<1>3. ASSUME NEW u \in Users, LockoutPasses(u)
      PROVE  PassInv'
  <2> DEFINE row == [users[u] EXCEPT !.locked = FALSE]
  <2>1. users' = [users EXCEPT ![u] = row] /\ row.role = users[u].role /\ row.password = users[u].password
    BY <1>3 DEF LockoutPasses, TypeInv, RowsTyped, UserRow
  <2> HIDE DEF row
  <2> QED BY <1>3, <2>1, RowPasswordKept, RequestsCalm, CalmSteps DEF LockoutPasses
<1>4. ASSUME WindowPasses
      PROVE  PassInv'
  BY <1>4, UsersCalm, RequestsCalm, CalmSteps DEF WindowPasses
<1> QED BY <1>1, <1>2, <1>3, <1>4, SignInSignsOut, ManageSignsOut DEF Next

LEMMA InitSignsOut == Init => PassInv
BY DEF Init, PassInv, SignInExists, SignInCurrent, LiveExists, EarlierSignedOut, SigningIn, Idle, NoLogin

(* Under the same assumption a session that is in use was opened with the   *)
(* password in force, unless a sweep is still to come, it asked for the     *)
(* change itself, or its sign-in was under way (users.set_password).        *)
THEOREM ChangedPasswordsSignOut == "raises" \notin Upsets => (Spec => []EarlierSignedOut)
<1> SUFFICES ASSUME "raises" \notin Upsets PROVE Spec => []EarlierSignedOut
  OBVIOUS
<1>1. Init => TypeInv /\ RowsOwned /\ PassInv
  BY InitTypes, InitOwned, InitSignsOut
<1>2. TypeInv /\ RowsOwned /\ PassInv /\ [Next]_vars => (TypeInv /\ RowsOwned /\ PassInv)'
  BY StepTypes, StepOwned, StepSignsOut
<1>3. TypeInv /\ RowsOwned /\ PassInv => EarlierSignedOut
  BY DEF PassInv
<1> QED BY <1>1, <1>2, <1>3, PTL DEF Spec
=============================================================================
