--------------------------- MODULE AdminRequestsProofs ---------------------------
(***************************************************************************)
(* For any number of users, sessions and threads: the panel keeps an       *)
(* administrator and sessions follow the users file; and a request on      *)
(* AstDB that is answered with success did, or lists, what it says.        *)
(***************************************************************************)
EXTENDS AdminUsers, AdminPolicies, FiniteSetTheorems, SequenceTheorems, TLAPS

----------------------------------------------------------------------------
(* The users file and the sessions.                                        *)

HasAdmin(rows) == \E r \in rows : r.role = "admin"

\* A request is in progress only while the server runs; what a login or a
\* verification has read, and what it could read now, is in what it has seen.
Progress ==
  \A t \in UserThreads : ut[t].pc # "idle" =>
    /\ server = "up" /\ ut[t].op \in UserRequests
    /\ ut[t].op.kind \in Opens => Named(users.rows, ut[t].who) \subseteq ut[t].seen
    /\ ut[t].pc = "open" => ut[t].op.kind \in Opens /\ ut[t].rows \subseteq ut[t].seen
    /\ ut[t].pc = "open" /\ ut[t].op.kind = "verify" => \A r \in ut[t].rows : r.totp \in {"setup", "on"}

\* What the file holds, and what is about to be written over it, has an
\* administrator, unless a demotion took or is about to take the last.
AdminStays ==
  /\ users.state = "whole" /\ (server = "up" \/ users.rows # {}) /\ demoted = {} => HasAdmin(users.rows)
  /\ \A t \in UserThreads : ut[t].pc \in {"truncate", "fill"} =>
       demoted # {} \/ Demotes(ut[t].op) \/ HasAdmin(ut[t].rows)

IInv == UsersTypeOK /\ Progress /\ AdminStays /\ SessionsFollowTheFile
----------------------------------------------------------------------------
\* Every change of the rows that is not refused keeps them well formed.
LEMMA NewRowsTyped ==
  ASSUME NEW rows \in SUBSET Row, NEW op \in UserRequest, NEW who \in People
  PROVE  NewRows(op, who, rows) \subseteq Row
BY DEF NewRows, AddUser, UpdateUser, DeleteUser, SetupTotp, ConfirmTotp, DisableTotp, Revised,
       Named, Row, UserRequest, Roles, Totp

\* A revision keeps an administrator when the revised rows keep the one who is
\* revised; an EXCEPT on the second factor keeps the role.
LEMMA RevisedKeepsAdmin ==
  ASSUME NEW rows, NEW u, NEW new, NEW x \in rows, x.role = "admin",
         x.user = u => \E y \in new : y.role = "admin", Revised(rows, u, new) # {}
  PROVE  HasAdmin(Revised(rows, u, new))
BY DEF Revised, Named, HasAdmin

LEMMA TotpKeepsRole ==
  ASSUME NEW x \in Row, NEW f
  PROVE  [x EXCEPT !.totp = f].role = x.role
BY DEF Row

\* And keeps an administrator among them, unless it is a demotion.
LEMMA NewRowsKeepAdmin ==
  ASSUME NEW rows \in SUBSET Row, NEW op \in UserRequest, NEW who \in People,
         HasAdmin(rows), ~Demotes(op), NewRows(op, who, rows) # {}
  PROVE  HasAdmin(NewRows(op, who, rows))
<1>. PICK x \in rows : x.role = "admin"
  BY DEF HasAdmin
<1>. x \in Row
  OBVIOUS
<1>2. CASE op.kind = "add"
  BY <1>2 DEF NewRows, AddUser, HasAdmin
<1>3. CASE op.kind = "update"
  <2>. DEFINE new == {[r EXCEPT !.role = op.role] : r \in Named(rows, op.user)}
  <2>1. NewRows(op, who, rows) = Revised(rows, op.user, new)
    BY <1>3 DEF NewRows, UpdateUser
  <2>2. x.user = op.user => [x EXCEPT !.role = op.role] \in new
    BY DEF Named
  <2>3. [x EXCEPT !.role = op.role].role = "admin"
    BY <1>3 DEF Demotes, Row
  <2>. HIDE DEF new
  <2>. QED BY <2>1, <2>2, <2>3, RevisedKeepsAdmin
<1>4. CASE op.kind = "delete"
  BY <1>4 DEF NewRows, DeleteUser, HasAdmin
<1>5. CASE op.kind = "setup"
  <2>. DEFINE new == {[r EXCEPT !.totp = "setup"] : r \in Named(rows, who)}
  <2>1. NewRows(op, who, rows) = Revised(rows, who, new)
    BY <1>5 DEF NewRows, SetupTotp
  <2>2. x.user = who => [x EXCEPT !.totp = "setup"] \in new
    BY DEF Named
  <2>3. [x EXCEPT !.totp = "setup"].role = "admin"
    BY TotpKeepsRole
  <2>. HIDE DEF new
  <2>. QED BY <2>1, <2>2, <2>3, RevisedKeepsAdmin
<1>6. CASE op.kind = "confirm"
  <2>. DEFINE to(r) == IF r.totp \in {"off", "locked"} THEN "locked" ELSE "on"
              new == {[r EXCEPT !.totp = to(r)] : r \in Named(rows, who)}
  <2>1. NewRows(op, who, rows) = Revised(rows, who, new)
    BY <1>6 DEF NewRows, ConfirmTotp
  <2>2. x.user = who => [x EXCEPT !.totp = to(x)] \in new
    BY DEF Named
  <2>3. [x EXCEPT !.totp = to(x)].role = "admin"
    BY TotpKeepsRole
  <2>. HIDE DEF new
  <2>. QED BY <2>1, <2>2, <2>3, RevisedKeepsAdmin
<1>7. CASE op.kind \notin {"add", "update", "delete", "setup", "confirm"}
  <2>. DEFINE new == {[r EXCEPT !.totp = "off"] : r \in Named(rows, who)}
  <2>1. NewRows(op, who, rows) = Revised(rows, who, new)
    BY <1>7 DEF NewRows, DisableTotp
  <2>2. x.user = who => [x EXCEPT !.totp = "off"] \in new
    BY DEF Named
  <2>3. [x EXCEPT !.totp = "off"].role = "admin"
    BY TotpKeepsRole
  <2>. HIDE DEF new
  <2>. QED BY <2>1, <2>2, <2>3, RevisedKeepsAdmin
<1>. QED BY <1>2, <1>3, <1>4, <1>5, <1>6, <1>7

----------------------------------------------------------------------------
\* What an earlier process left has an administrator, if it has anybody.
LEMMA InitHolds == UsersInit => IInv
<1>. SUFFICES ASSUME UsersInit PROVE IInv
  OBVIOUS
<1>1. /\ users.state = "whole" /\ users.rows \in SUBSET Row /\ users \in UserFile
      /\ users.rows # {} => HasAdmin(users.rows)
  BY UsersAssumption DEF UsersInit, Whole, UserFile, HasAdmin
<1>2. Resting \in Thread /\ Resting.pc = "idle"
  BY UsersAssumption DEF Resting, Thread, Row
<1>3. UsersTypeOK
  BY <1>1, <1>2 DEF UsersInit, UsersTypeOK
<1>4. Progress /\ SessionsFollowTheFile
  BY <1>2 DEF UsersInit, Progress, SessionsFollowTheFile
<1>5. AdminStays
  BY <1>1, <1>2 DEF UsersInit, AdminStays
<1>. QED
  BY <1>3, <1>4, <1>5 DEF IInv

\* The actions of the server and of a session.
LEMMA StartKeeps == IInv /\ Start => IInv'
<1>. SUFFICES ASSUME IInv, Start PROVE IInv'
  OBVIOUS
<1>. DEFINE row == [user |-> FirstAdmin, role |-> "admin", totp |-> "off"]
<1>1. row \in Row /\ row.role = "admin"
  BY UsersAssumption DEF Row, Roles, Totp
<1>2. UsersTypeOK'
  BY <1>1 DEF IInv, UsersTypeOK, Start, UserFile, Whole
<1>3. Progress'
  BY DEF IInv, Progress, Start
<1>4. AdminStays'
  BY <1>1 DEF IInv, AdminStays, UsersTypeOK, UserFile, Start, HasAdmin, Whole
<1>5. SessionsFollowTheFile'
  BY DEF IInv, SessionsFollowTheFile, Start
<1>. QED BY <1>2, <1>3, <1>4, <1>5 DEF IInv

LEMMA LogoutKeeps == IInv /\ Logout => IInv'
BY DEF IInv, Logout, UsersTypeOK, Progress, AdminStays, SessionsFollowTheFile

LEMMA DieKeeps == IInv /\ Die => IInv'
BY UsersAssumption DEF IInv, Die, UsersTypeOK, Progress, AdminStays,
   SessionsFollowTheFile, Resting, Thread, Row

\* The steps of a request.
LEMMA BeginKeeps == ASSUME NEW t \in UserThreads PROVE IInv /\ Begin(t) => IInv'
<1>. SUFFICES ASSUME IInv, Begin(t) PROVE IInv'
  OBVIOUS
<1>. PICK op \in UserRequests, who \in People, seen \in SUBSET Row :
       /\ server = "up"
       /\ op.kind \in Opens => Named(users.rows, who) \subseteq seen
       /\ ut' = [ut EXCEPT ![t] = [pc |-> "read", op |-> op, rows |-> {}, who |-> who,
                                   seen |-> seen]]
       /\ UNCHANGED <<users, server, sessions, demoted, crashes>>
  <2>0. PICK op \in UserRequests :
          /\ server = "up" /\ UNCHANGED <<users, server, sessions, demoted, crashes>>
          /\ \E who \in IF op.kind = "login" THEN {op.user} ELSE {s.user : s \in Entitled(op)} :
               ut' = [ut EXCEPT ![t] = [pc |-> "read", op |-> op, rows |-> {},
                                        who |-> IF op.kind \in AdminOnly THEN op.user ELSE who,
                                        seen |-> Seen(op, who, users.rows)]]
    BY DEF Begin
  <2>1. PICK who \in IF op.kind = "login" THEN {op.user} ELSE {s.user : s \in Entitled(op)} :
          ut' = [ut EXCEPT ![t] = [pc |-> "read", op |-> op, rows |-> {},
                                   who |-> IF op.kind \in AdminOnly THEN op.user ELSE who,
                                   seen |-> Seen(op, who, users.rows)]]
    BY <2>0
  <2>2. op.user \in People
    BY UsersAssumption DEF UserRequest
  <2>3. \A s \in Entitled(op) : s.user \in People
    BY DEF Entitled, OpenTo, IInv, UsersTypeOK, Session
  <2>4. Seen(op, who, users.rows) \in SUBSET Row
    BY DEF Seen, Named, IInv, UsersTypeOK, UserFile
  <2>5. op.kind \in Opens => op.kind \notin AdminOnly /\ Named(users.rows, who) \subseteq Seen(op, who, users.rows)
    BY DEF Opens, AdminOnly, Seen
  <2>. DEFINE w == IF op.kind \in AdminOnly THEN op.user ELSE who
              sn == Seen(op, who, users.rows)
  <2>6. w \in People
    BY <2>2, <2>3
  <2>7. op.kind \in Opens => Named(users.rows, w) \subseteq sn
    BY <2>5
  <2>8. ut' = [ut EXCEPT ![t] = [pc |-> "read", op |-> op, rows |-> {}, who |-> w, seen |-> sn]]
    BY <2>1
  <2>9. sn \in SUBSET Row
    BY <2>4
  <2>. HIDE DEF w, sn
  <2>. QED BY <2>0, <2>6, <2>7, <2>8, <2>9
<1>1. UsersTypeOK'
  BY UsersAssumption DEF IInv, UsersTypeOK, Thread
<1>2. Progress'
  <2>1. ut'[t] = [pc |-> "read", op |-> op, rows |-> {}, who |-> who, seen |-> seen]
    BY DEF IInv, UsersTypeOK
  <2>2. \A u \in UserThreads \ {t} : ut'[u] = ut[u]
    BY DEF IInv, UsersTypeOK
  <2>3. users' = users /\ server' = "up"
    OBVIOUS
  <2>. SUFFICES ASSUME NEW u \in UserThreads, ut'[u].pc # "idle"
                PROVE  /\ server' = "up" /\ ut'[u].op \in UserRequests
                       /\ ut'[u].op.kind \in Opens =>
                            Named(users'.rows, ut'[u].who) \subseteq ut'[u].seen
                       /\ ut'[u].pc = "open" =>
                            ut'[u].op.kind \in Opens /\ ut'[u].rows \subseteq ut'[u].seen
                       /\ ut'[u].pc = "open" /\ ut'[u].op.kind = "verify" =>
                            \A r \in ut'[u].rows : r.totp \in {"setup", "on"}
    BY DEF Progress
  <2>4. CASE u = t
    BY <2>1, <2>3, <2>4
  <2>5. CASE u # t
    BY <2>2, <2>3, <2>5 DEF IInv, Progress
  <2>. QED BY <2>4, <2>5
<1>3. AdminStays'
  BY DEF IInv, AdminStays, UsersTypeOK
<1>. QED BY <1>1, <1>2, <1>3 DEF IInv, SessionsFollowTheFile

LEMMA LookKeeps == ASSUME NEW t \in UserThreads PROVE IInv /\ Look(t) => IInv'
<1>. SUFFICES ASSUME IInv, Look(t) PROVE IInv'
  OBVIOUS
<1>. PICK fit \in SUBSET Named(users.rows, ut[t].who), pc \in {"open", "reread"} :
       /\ ut[t].pc = "read"
       /\ pc = "open" => ut[t].op.kind \in Opens
       /\ ut[t].op.kind = "verify" => \A r \in fit : r.totp \in {"setup", "on"}
       /\ \/ ut' = [ut EXCEPT ![t] = Resting]
          \/ ut' = [ut EXCEPT ![t] = Moved(@, pc, fit)]
       /\ UNCHANGED <<users, server, sessions, demoted, crashes>>
  <2>. DEFINE mine == Named(users.rows, ut[t].who)
              kept == IF ut[t].op.kind \in {"verify", "confirm"}
                      THEN {r \in mine : r.totp \in {"setup", "on"}} ELSE mine
              next == IF ut[t].op.kind \in Opens THEN "open" ELSE "reread"
  <2>1. kept \in SUBSET mine /\ next \in {"open", "reread"}
    OBVIOUS
  <2>2. /\ ut[t].pc = "read" /\ UNCHANGED <<users, server, sessions, demoted, crashes>>
        /\ ut' = [ut EXCEPT ![t] = IF users.state # "whole" \/ kept = {} THEN Resting
                                   ELSE Moved(@, next, kept)]
    BY DEF Look
  <2>3. next = "open" => ut[t].op.kind \in Opens
    OBVIOUS
  <2>4. ut[t].op.kind = "verify" => \A r \in kept : r.totp \in {"setup", "on"}
    OBVIOUS
  <2>. HIDE DEF kept, next
  <2>. QED BY <2>1, <2>2, <2>3, <2>4
<1>1. ut[t] \in Thread /\ Resting \in Thread /\ fit \subseteq Row
  BY UsersAssumption DEF IInv, UsersTypeOK, Thread, Resting, UserFile, Named
<1>. DEFINE y == Moved(ut[t], pc, fit)
<1>11. /\ y \in Thread /\ y.pc = pc /\ y.rows = fit /\ y.op = ut[t].op /\ y.who = ut[t].who
       /\ y.seen = ut[t].seen
  <2>1. fit \in SUBSET Row /\ pc \in {"idle", "read", "reread", "open", "truncate", "fill"}
    BY <1>1
  <2>. QED BY <1>1, <2>1 DEF Thread, Moved
<1>12. ut' = [ut EXCEPT ![t] = Resting] \/ ut' = [ut EXCEPT ![t] = y]
  OBVIOUS
<1>. HIDE DEF y
<1>2. UsersTypeOK'
  BY <1>1, <1>11, <1>12 DEF IInv, UsersTypeOK
<1>3. Progress'
  BY <1>1, <1>11, <1>12 DEF IInv, Progress, UsersTypeOK, Resting
<1>4. AdminStays'
  BY <1>1, <1>11, <1>12 DEF IInv, AdminStays, UsersTypeOK, Resting
<1>. QED BY <1>2, <1>3, <1>4 DEF IInv, SessionsFollowTheFile

LEMMA LoadKeeps == ASSUME NEW t \in UserThreads PROVE IInv /\ Load(t) => IInv'
<1>. SUFFICES ASSUME IInv, Load(t) PROVE IInv'
  OBVIOUS
<1>. DEFINE new == NewRows(ut[t].op, ut[t].who, users.rows)
            y == Moved(ut[t], "truncate", new)
<1>1. /\ ut[t] \in Thread /\ Resting \in Thread /\ users.rows \subseteq Row
      /\ server = "up" /\ ut[t].op \in UserRequest /\ ut[t].who \in People
  BY UsersAssumption DEF IInv, UsersTypeOK, Progress, Thread, Resting, UserFile, Load
<1>2. new \subseteq Row
  BY <1>1, NewRowsTyped
<1>3. users.state = "whole" /\ new # {} => demoted # {} \/ Demotes(ut[t].op) \/ HasAdmin(new)
  BY <1>1, NewRowsKeepAdmin DEF IInv, AdminStays
<1>4. /\ ut' = [ut EXCEPT ![t] = IF users.state # "whole" \/ new = {} THEN Resting ELSE y]
      /\ UNCHANGED <<users, server, sessions, demoted, crashes>>
  BY DEF Load
<1>11. /\ y \in Thread /\ y.pc = "truncate" /\ y.rows = new /\ y.op = ut[t].op
       /\ y.who = ut[t].who /\ y.seen = ut[t].seen
  <2>1. new \in SUBSET Row /\ "truncate" \in {"idle", "read", "reread", "open", "truncate", "fill"}
    BY <1>2
  <2>. HIDE DEF new
  <2>. QED BY <1>1, <2>1 DEF Thread, Moved
<1>. HIDE DEF new, y
<1>12. \/ ut' = [ut EXCEPT ![t] = Resting]
       \/ users.state = "whole" /\ new # {} /\ ut' = [ut EXCEPT ![t] = y]
  BY <1>4
<1>. ut[t].pc # "idle"
  BY DEF Load
<1>5. UsersTypeOK'
  BY <1>1, <1>4, <1>11, <1>12 DEF IInv, UsersTypeOK
<1>6. Progress'
  BY <1>1, <1>4, <1>11, <1>12 DEF IInv, Progress, UsersTypeOK, Resting
<1>7. AdminStays'
  BY <1>1, <1>3, <1>4, <1>11, <1>12 DEF IInv, AdminStays, UsersTypeOK, Resting
<1>. QED BY <1>4, <1>5, <1>6, <1>7 DEF IInv, SessionsFollowTheFile

LEMMA TruncateKeeps == ASSUME NEW t \in UserThreads PROVE IInv /\ Truncate(t) => IInv'
<1>. SUFFICES ASSUME IInv, Truncate(t) PROVE IInv'
  OBVIOUS
<1>1. ut[t] \in Thread
  BY DEF IInv, UsersTypeOK
<1>2. UsersTypeOK'
  BY <1>1 DEF IInv, UsersTypeOK, Truncate, Thread, UserFile
<1>3. Progress'
  <2>1. ut'[t].pc = "fill" /\ ut'[t].op = ut[t].op /\ ut[t].pc # "idle"
    BY <1>1 DEF IInv, UsersTypeOK, Truncate, Thread
  <2>2. \A u \in UserThreads \ {t} : ut'[u] = ut[u]
    BY DEF IInv, UsersTypeOK, Truncate
  <2>3. \A u \in People : Named(users'.rows, u) = {}
    BY DEF Truncate, Named
  <2>4. \A u \in UserThreads : ut'[u].who \in People
    BY <1>2, UsersAssumption DEF UsersTypeOK, Thread
  <2>. QED BY <2>1, <2>2, <2>3, <2>4 DEF IInv, Progress, Truncate
<1>4. AdminStays'
  BY <1>1 DEF IInv, AdminStays, UsersTypeOK, Truncate, Thread
<1>. QED BY <1>2, <1>3, <1>4 DEF IInv, Truncate, SessionsFollowTheFile

LEMMA FillKeeps == ASSUME NEW t \in UserThreads PROVE IInv /\ Fill(t) => IInv'
<1>. SUFFICES ASSUME IInv, Fill(t) PROVE IInv'
  OBVIOUS
<1>1. ut[t] \in Thread /\ Resting \in Thread
  BY UsersAssumption DEF IInv, UsersTypeOK, Thread, Resting
<1>2. /\ users' = Whole(ut[t].rows) \/ users' = [state |-> "torn", rows |-> {}]
      /\ demoted' = demoted \cup Demoted(ut[t].op)
      /\ ut' = [u \in UserThreads |-> IF u = t THEN Resting ELSE Saw(ut[u], users'.rows)]
      /\ UNCHANGED <<server, sessions>>
  BY DEF Fill
<1>11. Demoted(ut[t].op) \subseteq People /\ ut[t].rows \subseteq Row
  BY <1>1, UsersAssumption DEF IInv, UsersTypeOK, Progress, Thread, Demoted, UserRequest, Fill
<1>12. users' \in UserFile
  BY <1>2, <1>11 DEF UserFile, Whole
<1>13. ASSUME NEW u \in UserThreads \ {t}
       PROVE  /\ ut'[u] \in Thread /\ ut'[u].pc = ut[u].pc /\ ut'[u].op = ut[u].op
              /\ ut'[u].who = ut[u].who /\ ut'[u].rows = ut[u].rows
              /\ ut'[u].seen = ut[u].seen \cup Seen(ut[u].op, ut[u].who, users'.rows)
  <2>1. ut[u] \in Thread /\ ut'[u] = Saw(ut[u], users'.rows)
    BY <1>2 DEF IInv, UsersTypeOK
  <2>2. Seen(ut[u].op, ut[u].who, users'.rows) \subseteq Row
    BY <1>12 DEF Seen, Named, UserFile
  <2>. QED BY <2>1, <2>2 DEF Saw, Thread
<1>14. ut'[t] = Resting /\ DOMAIN ut' = UserThreads
  BY <1>2
<1>3. UsersTypeOK'
  <2>1. ut' = [u \in UserThreads |-> ut'[u]] /\ \A u \in UserThreads : ut'[u] \in Thread
    BY <1>1, <1>2, <1>13
  <2>. QED BY <1>2, <1>11, <1>12, <2>1 DEF IInv, UsersTypeOK
<1>4. Progress'
  <2>. SUFFICES ASSUME NEW u \in UserThreads \ {t}, ut'[u].pc # "idle"
                PROVE  /\ server' = "up" /\ ut'[u].op \in UserRequests
                       /\ ut'[u].op.kind \in Opens =>
                            Named(users'.rows, ut'[u].who) \subseteq ut'[u].seen
                       /\ ut'[u].pc = "open" =>
                            ut'[u].op.kind \in Opens /\ ut'[u].rows \subseteq ut'[u].seen
                       /\ ut'[u].pc = "open" /\ ut'[u].op.kind = "verify" =>
                            \A r \in ut'[u].rows : r.totp \in {"setup", "on"}
    BY <1>14 DEF Progress, Resting
  <2>. QED BY <1>2, <1>13 DEF IInv, Progress, Seen
<1>5. AdminStays'
  BY <1>2, <1>13, <1>14 DEF IInv, AdminStays, Resting, Whole, Fill, Demoted
<1>7. SessionsFollowTheFile'
  BY <1>2 DEF IInv, SessionsFollowTheFile
<1>. QED BY <1>3, <1>4, <1>5, <1>7 DEF IInv

LEMMA OpenKeeps == ASSUME NEW t \in UserThreads PROVE IInv /\ OpenSession(t) => IInv'
<1>. SUFFICES ASSUME IInv, OpenSession(t) PROVE IInv'
  OBVIOUS
<1>. PICK k \in Free, r \in ut[t].rows, kept \in SUBSET sessions :
       /\ ut[t].pc = "open"
       /\ sessions' = kept \cup {[token |-> k, user |-> r.user,
                                  role |-> GivenRole(ut[t].op.kind, r), via |-> ut[t].op.kind,
                                  seen |-> ut[t].seen]}
       /\ ut' = [ut EXCEPT ![t] = Resting]
       /\ UNCHANGED <<users, server, demoted, crashes>>
  <2>1. {s \in sessions : s.token # ut[t].op.token} \in SUBSET sessions
    OBVIOUS
  <2>. QED BY <2>1 DEF OpenSession
<1>1. /\ ut[t] \in Thread /\ Resting \in Thread /\ r \in Row /\ r \in ut[t].seen /\ k \in Tokens
      /\ ut[t].op.kind \in {"login", "verify"} /\ ut[t].seen \in SUBSET Row
  BY UsersAssumption DEF IInv, UsersTypeOK, Progress, Thread, Resting, Free, Opens
<1>2. UsersTypeOK'
  BY <1>1 DEF IInv, UsersTypeOK, Session, GivenRole, Row
<1>3. Progress'
  BY <1>1 DEF IInv, Progress, UsersTypeOK, Resting
<1>4. AdminStays'
  BY <1>1 DEF IInv, AdminStays, UsersTypeOK, Resting
<1>5. SessionsFollowTheFile'
  <2>. DEFINE s == [token |-> k, user |-> r.user, role |-> GivenRole(ut[t].op.kind, r),
                    via |-> ut[t].op.kind, seen |-> ut[t].seen]
  <2>1. ut[t].op.kind = "verify" => r.totp \in {"setup", "on"}
    BY DEF IInv, Progress
  <2>2. /\ s.user = r.user /\ s.via = ut[t].op.kind /\ s.seen = ut[t].seen
        /\ s.role # "pending" => s.role = r.role
        /\ s.role # "pending" /\ s.via = "login" => r.totp \in {"off", "setup"}
    BY <1>1 DEF GivenRole, Row, Totp
  <2>3. sessions' = kept \cup {s}
    OBVIOUS
  <2>. HIDE DEF s
  <2>. QED
    BY <1>1, <2>1, <2>2, <2>3 DEF IInv, SessionsFollowTheFile
<1>. QED BY <1>2, <1>3, <1>4, <1>5 DEF IInv

LEMMA StutterKeeps == IInv /\ UNCHANGED userVars => IInv'
BY DEF IInv, userVars, UsersTypeOK, Progress, AdminStays, SessionsFollowTheFile

\* IInv holds throughout: it is implied by the initial states and kept by
\* every step of the server and of its requests.
THEOREM UsersInvariant == UsersSpec => []IInv
<1>1. IInv /\ [UsersNext]_userVars => IInv'
  BY StartKeeps, LogoutKeeps, DieKeeps, BeginKeeps, LookKeeps, LoadKeeps, TruncateKeeps,
     FillKeeps, OpenKeeps, StutterKeeps DEF UsersNext
<1>. QED BY InitHolds, <1>1, PTL DEF UsersSpec

\* Every variable of the users and their sessions keeps its type (users.py).
THEOREM UsersTyped == UsersSpec => []UsersTypeOK
<1>1. IInv => UsersTypeOK
  BY DEF IInv
<1>. QED BY <1>1, UsersInvariant, PTL

\* Only a demotion can leave the panel without an administrator (delete_user).
THEOREM AdminAlwaysKept == UsersSpec => []AdminKept
<1>1. IInv => AdminKept
  BY DEF IInv, AdminStays, AdminKept, HasAdmin
<1>. QED BY <1>1, UsersInvariant, PTL

\* A session has the role its user had in a version of the file read while it was opened, and
\* the second factor was then as its kind of opening needs (the handlers of login and verify).
THEOREM SessionsTrue == UsersSpec => []SessionsFollowTheFile
<1>1. IInv => SessionsFollowTheFile
  BY DEF IInv
<1>. QED BY <1>1, UsersInvariant, PTL

----------------------------------------------------------------------------
(* The policies in AstDB.                                                  *)

\* A finite set put in sequence has its elements and no others.
LEMMA InSequence ==
  ASSUME NEW S, IsFiniteSet(S), NEW q, q = SetToSeq(S)
  PROVE  q \in Seq(S) /\ {q[i] : i \in DOMAIN q} = S
<1>. DEFINE n == Cardinality(S)
<1>1. n \in Nat /\ ExistsBijection(1..n, S)
  BY FS_CardinalityType
<1>2. \E f \in [1..n -> S] : IsInjective(f)
  BY <1>1 DEF ExistsBijection, Bijection, Injection, IsInjective
<1>3. q \in [1..n -> S] /\ IsInjective(q)
  BY <1>2 DEF SetToSeq
<1>. HIDE DEF n
<1>4. q \in Injection(1..n, S)
  BY <1>3 DEF Injection, IsInjective
<1>5. IsFiniteSet(1..n) /\ Cardinality(1..n) = n
  <2>1. 1 \in Int /\ n \in Int
    BY <1>1
  <2>2. IsFiniteSet(1..n) /\ Cardinality(1..n) = IF 1 > n THEN 0 ELSE n - 1 + 1
    BY <2>1, FS_Interval
  <2>. QED
    BY <1>1, <2>2
<1>6. q \in Surjection(1..n, S)
  BY <1>4, <1>5, FS_Injection DEF n
<1>7. {q[i] : i \in DOMAIN q} = S
  BY <1>3, <1>6 DEF Surjection
<1>. QED
  BY <1>1, <1>3, <1>7

\* Frames on their way, one at least.
IsWire(q) == q \in Seq({q[i] : i \in DOMAIN q}) /\ q # <<>>

\* What a connection carries after the reply to a listing: the entries, then its end.
Lists(q, entries) ==
  /\ IsWire(q)
  /\ q[Len(q)].frame = "complete" /\ q[Len(q)].own
  /\ \A i \in 1 .. Len(q) - 1 : q[i].frame = "entry" /\ q[i].own /\ q[i].entry \in entries
  /\ \A e \in entries : \E i \in 1 .. Len(q) - 1 : q[i].entry = e
Keeps(entries, op) == {e \in entries : Kept(op, e)}
Held(tree, op) == \E e \in tree : e.cell = Cell(op)

\* A thread has the answer of Asterisk before it, and in a listing what it has kept and
\* what is to come are the entries of the family when Asterisk took it.
Listens(r) ==
  /\ r.pc \in {"send", "reply"} => r.got = {}
  /\ r.pc = "reply" =>
       /\ IsWire(r.wire)
       /\ LET f == Head(r.wire) IN f.frame = "reply" /\ f.own /\ f.good = r.accepted
       /\ r.op.action = "get" /\ r.accepted => Held(r.tree, r.op)
       /\ r.op.action = "tree" /\ r.accepted =>
            \E entries : Lists(Tail(r.wire), entries) /\ r.tree = Keeps(entries, r.op)
  /\ r.pc = "tree" =>
       /\ r.accepted /\ r.op.action = "tree"
       /\ \E entries : Lists(r.wire, entries) /\ r.tree = r.got \cup Keeps(entries, r.op)
  /\ r.pc = "answer" /\ r.ok =>
       /\ r.op.action = "tree" => r.got = r.tree
       /\ r.op.action = "get" /\ r.said => Held(r.tree, r.op)
       /\ Confirmed(r.op) => r.accepted

\* A thread's record has its ten fields.
IsThread(r) ==
  r \in [pc : {r.pc}, op : {r.op}, wire : {r.wire}, got : {r.got}, frames : {r.frames},
         unrelated : {r.unrelated}, ok : {r.ok}, said : {r.said}, accepted : {r.accepted},
         tree : {r.tree}]

PoliciesInv ==
  /\ IsFiniteSet(astdb) /\ pt = [t \in PolicyThreads |-> pt[t]]
  /\ \A t \in PolicyThreads : IsThread(pt[t]) /\ Listens(pt[t])

\* A step of one thread.
LEMMA ThreadStep ==
  ASSUME PoliciesInv, NEW t \in PolicyThreads, NEW r, PSet(t, r), IsThread(r), Listens(r),
         IsFiniteSet(astdb')
  PROVE  PoliciesInv'
<1>1. pt' = [u \in PolicyThreads |-> pt'[u]]
  BY DEF PoliciesInv, PSet
<1>2. \A u \in PolicyThreads : pt'[u] = IF u = t THEN r ELSE pt[u]
  BY DEF PoliciesInv, PSet
<1>. QED
  BY <1>1, <1>2 DEF PoliciesInv

\* What goes out with the reply to a listing.
LEMMA ListingSent ==
  ASSUME IsFiniteSet(astdb), NEW op, op.action = "tree"
  PROVE  LET q == Frames(op, TRUE)
         IN  /\ IsWire(q) /\ Head(q) = Reply(TRUE, TRUE)
             /\ Lists(Tail(q), {e \in astdb : e.cell.family = op.family})
<1>. DEFINE E == {e \in astdb : e.cell.family = op.family}
            S == {Listed(TRUE, e) : e \in E}
            m == SetToSeq(S)
            c == Complete(TRUE)
            w == m \o <<c>>
            q == Frames(op, TRUE)
<1>1. IsFiniteSet(E)
  BY FS_Subset
<1>2. IsFiniteSet(S)
  <2>. DEFINE f == [e \in E |-> Listed(TRUE, e)]
  <2>1. f \in [E -> S] /\ \A x \in S : \E e \in E : f[e] = x
    OBVIOUS
  <2>2. f \in Surjection(E, S)
    BY <2>1 DEF Surjection
  <2>. QED
    BY <1>1, <2>2, FS_Surjection
<1>. HIDE DEF S
<1>3. m \in Seq(S) /\ {m[i] : i \in DOMAIN m} = S
  BY <1>2, InSequence
<1>. HIDE DEF m
<1>4. /\ w \in Seq(S \cup {c}) /\ Len(w) = Len(m) + 1 /\ w[Len(w)] = c /\ Len(m) \in Nat
      /\ \A i \in 1 .. Len(m) : w[i] = m[i]
  <2>. HIDE DEF c
  <2>1. m \in Seq(S \cup {c}) /\ <<c>> \in Seq(S \cup {c}) /\ Len(<<c>>) = 1 /\ <<c>>[1] = c
    BY <1>3
  <2>. QED
    BY <2>1, ConcatProperties
<1>. DEFINE a == Reply(TRUE, TRUE)
            T == S \cup {c} \cup {a}
<1>5. q = <<a>> \o w
  <2>1. q = (<<a>> \o m) \o <<c>>
    BY Zenon DEF Frames, m, S
  <2>. HIDE DEF a, c
  <2>2. <<a>> \in Seq(T) /\ m \in Seq(T) /\ <<c>> \in Seq(T)
    BY <1>3
  <2>. HIDE DEF T, q
  <2>. QED
    BY <2>1, <2>2, ConcatAssociative
<1>. HIDE DEF w, q, c, a
<1>6. /\ q \in Seq(T) /\ Len(q) = Len(w) + 1 /\ q[1] = a
      /\ \A i \in 1 .. Len(w) : q[i + 1] = w[i]
  <2>1. w \in Seq(T) /\ <<a>> \in Seq(T) /\ Len(<<a>>) = 1 /\ <<a>>[1] = a
    BY <1>4
  <2>. HIDE DEF T
  <2>. QED
    BY <1>5, <2>1, ConcatProperties
<1>7. IsWire(q) /\ Head(q) = a
  <2>. HIDE DEF T
  <2>1. Len(q) > 0
    BY <1>4, <1>6
  <2>. QED
    BY <1>6, <2>1 DEF IsWire
<1>8. Tail(q) = w
  <2>. HIDE DEF T
  <2>. QED
  BY <1>4, <1>6, HeadTailProperties
<1>9. IsWire(w)
  BY <1>4 DEF IsWire
<1>10. \A i \in 1 .. Len(w) - 1 : w[i].frame = "entry" /\ w[i].own /\ w[i].entry \in E
  <2>. TAKE i \in 1 .. Len(w) - 1
  <2>1. i \in 1 .. Len(m) /\ w[i] = m[i]
    BY <1>4
  <2>2. m[i] \in S
    BY <1>3, <2>1
  <2>. QED
    BY <2>1, <2>2 DEF S, Listed
<1>11. \A e \in E : \E i \in 1 .. Len(w) - 1 : w[i].entry = e
  <2>. TAKE e \in E
  <2>. DEFINE x == Listed(TRUE, e)
  <2>1. x \in S /\ x.entry = e
    BY DEF S, Listed
  <2>. HIDE DEF x
  <2>2. PICK i \in 1 .. Len(m) : m[i] = x
    BY <1>3, <2>1
  <2>. QED
    BY <1>4, <2>1, <2>2
<1>12. w[Len(w)].frame = "complete" /\ w[Len(w)].own
  BY <1>4 DEF c, Complete
<1>13. Lists(w, E)
  BY <1>9, <1>10, <1>11, <1>12 DEF Lists
<1>. QED
  BY <1>7, <1>8, <1>13 DEF q, a

\* What is left of a listing when its first frame is read.
Leads(q, entries, op) ==
  \/ Head(q).frame = "complete" /\ Head(q).own /\ entries = {}
  \/ /\ Head(q).frame = "entry" /\ Head(q).own
     /\ \E others :
          /\ Lists(Tail(q), others)
          /\ Keeps(entries, op) = Keeps(others, op) \cup {e \in {Head(q).entry} : Kept(op, e)}
LEMMA ListingRead ==
  ASSUME NEW q, NEW entries, Lists(q, entries), NEW op
  PROVE  Leads(q, entries, op)
<1>1. /\ q \in Seq({q[i] : i \in DOMAIN q}) /\ q # <<>> /\ Len(q) \in Nat \ {0}
      /\ Head(q) = q[1]
  BY DEF Lists, IsWire
<1>2. CASE Len(q) = 1
  BY <1>1, <1>2 DEF Lists, Leads
<1>3. CASE Len(q) > 1
  <2>. DEFINE w == Tail(q)
              n == Len(w)
              others == {w[i].entry : i \in 1 .. n - 1}
  <2>1. /\ w \in Seq({q[i] : i \in DOMAIN q}) /\ Len(w) = Len(q) - 1
        /\ \A i \in 1 .. Len(w) : w[i] = q[i + 1]
    BY <1>1, HeadTailProperties
  <2>. HIDE DEF w
  <2>2. IsWire(w) /\ Len(w) \in Nat \ {0}
    BY <1>1, <1>3, <2>1 DEF IsWire
  <2>len. n \in Nat \ {0} /\ Len(q) = n + 1 /\ \A i \in 1 .. n : w[i] = q[i + 1]
    BY <1>1, <2>1, <2>2
  <2>. HIDE DEF n
  <2>others. \A e : e \in others <=> \E i \in 1 .. n - 1 : w[i].entry = e
    OBVIOUS
  <2>. HIDE DEF others
  <2>3. w[n].frame = "complete" /\ w[n].own
    BY <2>len DEF Lists
  <2>4. \A i \in 1 .. n - 1 : i + 1 \in 1 .. Len(q) - 1 /\ w[i] = q[i + 1]
    BY <2>len
  <2>5. Lists(w, others)
    <3>1. \A i \in 1 .. n - 1 : w[i].frame = "entry" /\ w[i].own
      BY <2>4 DEF Lists
    <3>. QED
      BY <2>2, <2>3, <2>others, <3>1 DEF Lists, n
  <2>6. q[1].frame = "entry" /\ q[1].own /\ q[1].entry \in entries
    BY <1>1, <1>3 DEF Lists
  <2>7. \A e \in others : e \in entries
    BY <2>4, <2>others DEF Lists
  <2>8. \A e \in entries : e = q[1].entry \/ e \in others
    <3>. TAKE e \in entries
    <3>1. PICK i \in 1 .. Len(q) - 1 : q[i].entry = e
      BY DEF Lists
    <3>2. i = 1 \/ (i - 1 \in 1 .. n - 1 /\ w[i - 1] = q[i])
      BY <2>len
    <3>. QED
      BY <2>others, <3>1, <3>2
  <2>9. Keeps(entries, op) = Keeps(others, op) \cup {e \in {q[1].entry} : Kept(op, e)}
    BY <2>6, <2>7, <2>8 DEF Keeps
  <2>. QED
    BY <1>1, <2>5, <2>6, <2>9 DEF w, Leads
<1>4. Len(q) = 1 \/ Len(q) > 1
  <2>1. \A n \in Nat \ {0} : n = 1 \/ n > 1
    OBVIOUS
  <2>. QED
    BY <1>1, <2>1
<1>. QED
  BY <1>2, <1>3, <1>4

\* A frame that is not of the answer has another ActionID, or is an event.
LEMMA StrayFrames ==
  ASSUME NEW op, NEW f \in Strays(op)
  PROVE  f.own => f.frame = "event"
BY DEF Strays, Event, Reply, Complete, Listed

\* The frame read is the next of the answer, or one that came in front of it.
IsRead(r, f, rest) ==
  \/ f = Head(r.wire) /\ rest = Tail(r.wire)
  \/ (f.own => f.frame = "event") /\ rest = r.wire

\* A request that fails keeps nothing.
LEMMA FailedListens ==
  ASSUME NEW r, IsThread(r), Listens(r)
  PROVE  IsThread(PFailed(r)) /\ Listens(PFailed(r))
BY DEF PFailed, IsThread, Listens

\* What a thread takes for its reply is the reply to its action.
LEMMA ReplyRead ==
  ASSUME NEW r, NEW f, NEW rest, IsThread(r), Listens(r), r.pc = "reply", IsRead(r, f, rest)
  PROVE  IsThread(AfterReply(r, f, rest)) /\ Listens(AfterReply(r, f, rest))
<1>. DEFINE skip == [r EXCEPT !.wire = rest, !.frames = @ + 1]
            on == [r EXCEPT !.pc = "tree", !.wire = rest, !.frames = 0]
            off == [r EXCEPT !.pc = "answer", !.wire = <<>>, !.said = f.good,
                             !.ok = r.op.action # "tree" /\ Judged(r.op, f.good)]
            more == f.frame # "reply" /\ r.frames + 1 < MaxEventsPerAction
            tree == r.op.action = "tree" /\ f.good
            ours == f.frame = "reply" /\ Ours(f)
<1>1. \/ more /\ AfterReply(r, f, rest) = skip
      \/ ours /\ tree /\ AfterReply(r, f, rest) = on
      \/ ours /\ ~tree /\ AfterReply(r, f, rest) = off
      \/ AfterReply(r, f, rest) = PFailed(r)
  BY Zenon DEF AfterReply
<1>2. /\ r.got = {} /\ IsWire(r.wire) /\ Head(r.wire).frame = "reply"
      /\ Head(r.wire).good = r.accepted
      /\ r.op.action = "get" /\ r.accepted => Held(r.tree, r.op)
      /\ r.op.action = "tree" /\ r.accepted =>
            \E entries : Lists(Tail(r.wire), entries) /\ r.tree = Keeps(entries, r.op)
  BY DEF Listens
<1>3. f.frame # "reply" => rest = r.wire
  BY <1>2 DEF IsRead
<1>4. ours => f.good = r.accepted /\ rest = Tail(r.wire)
  BY <1>2 DEF IsRead, Ours
<1>5. ASSUME more PROVE IsThread(skip) /\ Listens(skip)
  <2>1. rest = r.wire
    BY <1>3, <1>5
  <2>. QED
    BY <2>1 DEF IsThread, Listens
<1>6. ASSUME ours, tree PROVE IsThread(on) /\ Listens(on)
  <2>1. IsThread(on)
    BY DEF IsThread
  <2>2. /\ on.pc = "tree" /\ on.op = r.op /\ on.got = {} /\ on.tree = r.tree
        /\ on.wire = Tail(r.wire) /\ on.accepted = r.accepted
    BY <1>2, <1>4, <1>6 DEF IsThread
  <2>3. r.accepted /\ r.op.action = "tree"
    BY <1>4, <1>6
  <2>. HIDE DEF on
  <2>. QED
    BY <1>2, <2>1, <2>2, <2>3 DEF Listens
<1>7. ASSUME ours, ~tree PROVE IsThread(off) /\ Listens(off)
  <2>1. IsThread(off)
    BY DEF IsThread
  <2>2. /\ off.pc = "answer" /\ off.op = r.op /\ off.tree = r.tree /\ off.accepted = r.accepted
        /\ off.said = r.accepted
        /\ off.ok = (r.op.action # "tree" /\ Judged(r.op, r.accepted))
    BY <1>4, <1>7 DEF IsThread
  <2>. HIDE DEF off
  <2>. QED
    BY <1>2, <2>1, <2>2 DEF Listens, Judged
<1>8. IsThread(PFailed(r)) /\ Listens(PFailed(r))
  BY FailedListens
<1>. HIDE DEF skip, on, off, more, ours, tree
<1>. QED
  BY <1>1, <1>5, <1>6, <1>7, <1>8

\* And what it takes for an entry, or for the end, of its listing is one.
LEMMA FrameRead ==
  ASSUME NEW r, NEW f, NEW rest, IsThread(r), Listens(r), r.pc = "tree", IsRead(r, f, rest)
  PROVE  IsThread(AfterFrame(r, f, rest)) /\ Listens(AfterFrame(r, f, rest))
<1>. DEFINE got == r.got \cup {e \in {f.entry} : Kept(r.op, e)}
            skip == [r EXCEPT !.unrelated = @ + 1]
            add == [r EXCEPT !.got = got]
            done == [r EXCEPT !.pc = "answer", !.wire = <<>>, !.ok = TRUE]
            other == ~Ours(f) /\ r.unrelated < MaxUnrelated
            end == Ours(f) /\ f.frame = "complete"
            entry == Ours(f) /\ f.frame = "entry" /\ Cardinality(r.got) < MaxEntries
<1>1. \/ other /\ AfterFrame(r, f, rest) = GoesOn(skip, rest)
      \/ end /\ AfterFrame(r, f, rest) = done
      \/ entry /\ AfterFrame(r, f, rest) = GoesOn(add, rest)
      \/ AfterFrame(r, f, rest) = PFailed(r)
  BY Zenon DEF AfterFrame
<1>2. PICK entries : Lists(r.wire, entries) /\ r.tree = r.got \cup Keeps(entries, r.op)
  BY DEF Listens
<1>3. r.accepted /\ r.op.action = "tree" /\ Leads(r.wire, entries, r.op)
  BY <1>2, ListingRead DEF Listens
<1>4. Head(r.wire).own
  BY <1>3 DEF Leads
<1>5. ASSUME other PROVE IsThread(GoesOn(skip, rest)) /\ Listens(GoesOn(skip, rest))
  <2>1. rest = r.wire
    BY <1>4, <1>5 DEF IsRead, Ours
  <2>2. IsThread(skip) /\ Listens(skip) /\ skip.wire = r.wire
    BY DEF IsThread, Listens
  <2>. HIDE DEF skip
  <2>. DEFINE more == [skip EXCEPT !.wire = rest, !.frames = @ + 1]
  <2>3. IsThread(more)
    BY <2>2 DEF IsThread
  <2>5. /\ more.pc = skip.pc /\ more.op = skip.op /\ more.got = skip.got /\ more.tree = skip.tree
        /\ more.accepted = skip.accepted /\ more.wire = skip.wire /\ more.ok = skip.ok
        /\ more.said = skip.said
    BY <2>1, <2>2 DEF IsThread
  <2>6. Listens(more)
    <3>. HIDE DEF more
    <3>. QED
      BY <2>2, <2>5 DEF Listens
  <2>4. IsThread(PFailed(skip)) /\ Listens(PFailed(skip))
    BY <2>2, FailedListens
  <2>. QED
    BY <2>3, <2>4, <2>6 DEF GoesOn
<1>6. ASSUME end PROVE IsThread(done) /\ Listens(done)
  <2>1. f = Head(r.wire)
    BY <1>6 DEF IsRead, Ours
  <2>2. r.tree = r.got
    BY <1>2, <1>3, <1>6, <2>1 DEF Leads, Keeps
  <2>3. IsThread(done)
    BY DEF IsThread
  <2>4. /\ done.pc = "answer" /\ done.op = r.op /\ done.got = r.got /\ done.tree = r.tree
        /\ done.accepted = r.accepted
    BY DEF IsThread
  <2>. HIDE DEF done
  <2>. QED
    BY <1>3, <2>2, <2>3, <2>4 DEF Listens
<1>7. ASSUME entry PROVE IsThread(GoesOn(add, rest)) /\ Listens(GoesOn(add, rest))
  <2>1. f = Head(r.wire) /\ rest = Tail(r.wire)
    BY <1>7 DEF IsRead, Ours
  <2>2. PICK others :
          /\ Lists(rest, others)
          /\ Keeps(entries, r.op) = Keeps(others, r.op) \cup {e \in {f.entry} : Kept(r.op, e)}
    BY <1>3, <1>7, <2>1 DEF Leads
  <2>3. r.tree = got \cup Keeps(others, r.op)
    BY <1>2, <2>2
  <2>. HIDE DEF got
  <2>. DEFINE more == [add EXCEPT !.wire = rest, !.frames = @ + 1]
  <2>4. /\ IsThread(more) /\ more.pc = "tree" /\ more.op = r.op /\ more.got = got
        /\ more.wire = rest /\ more.tree = r.tree /\ more.accepted = r.accepted
    BY DEF IsThread
  <2>5. Listens(more)
    <3>. HIDE DEF more
    <3>. QED
      BY <1>3, <2>2, <2>3, <2>4 DEF Listens
  <2>6. IsThread(PFailed(add)) /\ PFailed(add).pc = "answer" /\ PFailed(add).ok = FALSE
    BY DEF PFailed, IsThread
  <2>7. Listens(PFailed(add))
    BY <2>6 DEF Listens
  <2>. HIDE DEF add
  <2>. QED
    BY <2>4, <2>5, <2>6, <2>7 DEF GoesOn
<1>8. IsThread(PFailed(r)) /\ Listens(PFailed(r))
  BY FailedListens
<1>. HIDE DEF skip, add, done, other, end, entry
<1>. QED
  BY <1>1, <1>5, <1>6, <1>7, <1>8

\* Each step of each thread.
LEMMA PoliciesStep == PoliciesInv /\ [PoliciesNext]_policyVars => PoliciesInv'
<1>. SUFFICES ASSUME PoliciesInv, [PoliciesNext]_policyVars PROVE PoliciesInv'
  OBVIOUS
<1>1. ASSUME NEW t \in PolicyThreads, Demand(t) PROVE PoliciesInv'
  <2>1. PICK op : PSet(t, [Silent EXCEPT !.pc = "send", !.op = op]) /\ astdb' = astdb
    BY <1>1 DEF Demand
  <2>. DEFINE r == [Silent EXCEPT !.pc = "send", !.op = op]
  <2>2. IsThread(r) /\ Listens(r)
    BY DEF Silent, IsThread, Listens
  <2>. QED
    BY <2>1, <2>2, ThreadStep DEF PoliciesInv
<1>2. ASSUME NEW t \in PolicyThreads, Send(t) PROVE PoliciesInv'
  <2>. DEFINE op == pt[t].op
              sent(good) == [pt[t] EXCEPT !.pc = "reply", !.wire = Frames(op, good),
                                          !.accepted = good, !.tree = OfFamily(astdb, op)]
  <2>1. /\ pt[t].pc = "send"
        /\ \/ Acceptable(op) /\ astdb' = Stored(op) /\ PSet(t, sent(TRUE))
           \/ astdb' = astdb /\ PSet(t, sent(FALSE))
    BY <1>2 DEF Send
  <2>2. IsThread(pt[t]) /\ Listens(pt[t]) /\ IsFiniteSet(astdb)
    BY DEF PoliciesInv
  <2>3. pt[t].got = {}
    BY <2>1, <2>2 DEF Listens
  <2>4. IsFiniteSet(Stored(op))
    <3>1. IsFiniteSet(astdb \ Entry(op))
      BY <2>2, FS_Difference
    <3>2. IsFiniteSet((astdb \ Entry(op)) \cup {[cell |-> Cell(op), val |-> op.val]})
      BY <3>1, FS_AddElement
    <3>. QED
      BY <2>2, <3>1, <3>2 DEF Stored
  <2>5. ASSUME NEW good \in BOOLEAN, good => Acceptable(op)
        PROVE  IsThread(sent(good)) /\ Listens(sent(good))
    <3>. DEFINE E == {e \in astdb : e.cell.family = op.family}
                r == sent(good)
                q == Frames(op, good)
    <3>1. /\ IsThread(r) /\ r.pc = "reply" /\ r.got = {} /\ r.accepted = good /\ r.op = op
          /\ r.wire = q /\ r.tree = OfFamily(astdb, op)
      BY <2>2, <2>3 DEF IsThread
    <3>. HIDE DEF r, q
    <3>2. OfFamily(astdb, op) = Keeps(E, op)
      BY DEF OfFamily, Keeps, Kept
    <3>get. op.action = "get" /\ good => Held(OfFamily(astdb, op), op)
      BY <2>5 DEF Acceptable, Entry, Held, OfFamily, Cell
    <3>3. ASSUME op.action = "tree", good PROVE Listens(r)
      <4>1. IsWire(q) /\ Head(q) = Reply(TRUE, TRUE) /\ Lists(Tail(q), E)
        BY <2>2, <3>3, ListingSent DEF q
      <4>. HIDE DEF E
      <4>2. good = TRUE
        BY <3>3
      <4>3. Reply(TRUE, TRUE).good = TRUE /\ Reply(TRUE, TRUE).own /\ Reply(TRUE, TRUE).frame = "reply"
        BY DEF Reply
      <4>4. /\ IsWire(r.wire) /\ Head(r.wire).good = r.accepted /\ Head(r.wire).own
            /\ Head(r.wire).frame = "reply"
            /\ Lists(Tail(r.wire), E) /\ r.tree = Keeps(E, r.op)
        BY <3>1, <3>2, <4>1, <4>2, <4>3, Zenon
      <4>. QED
        BY <3>1, <3>get, <4>4 DEF Listens
    <3>4. ASSUME ~(op.action = "tree" /\ good) PROVE Listens(r)
      <4>1. q = <<Reply(TRUE, good)>>
        BY <3>4 DEF Frames, q
      <4>. DEFINE a == Reply(TRUE, good)
      <4>3. a.good = good /\ a.own /\ a.frame = "reply"
        BY DEF Reply
      <4>. HIDE DEF a
      <4>4. q = <<a>>
        BY <4>1 DEF a
      <4>2. IsWire(q) /\ Head(q) = a
        BY <4>4 DEF IsWire
      <4>. QED
        BY <3>1, <3>4, <3>get, <4>2, <4>3 DEF Listens
    <3>. QED
      BY <3>1, <3>3, <3>4 DEF r
  <2>. HIDE DEF sent
  <2>. QED
    BY <2>1, <2>2, <2>4, <2>5, ThreadStep
<1>3. ASSUME NEW t \in PolicyThreads, Cut(t) PROVE PoliciesInv'
  <2>1. IsThread(PFailed(pt[t])) /\ Listens(PFailed(pt[t]))
    BY FailedListens DEF PoliciesInv
  <2>. QED
    BY <1>3, <2>1, ThreadStep DEF Cut, PoliciesInv
<1>4. ASSUME NEW t \in PolicyThreads, ReadReply(t) PROVE PoliciesInv'
  <2>1. PICK f, rest : /\ IsRead(pt[t], f, rest) /\ PSet(t, AfterReply(pt[t], f, rest))
                       /\ pt[t].pc = "reply" /\ astdb' = astdb
    BY <1>4, StrayFrames DEF ReadReply, IsRead
  <2>2. IsThread(pt[t]) /\ Listens(pt[t]) /\ IsFiniteSet(astdb)
    BY DEF PoliciesInv
  <2>. QED
    BY <2>1, <2>2, ReplyRead, ThreadStep
<1>5. ASSUME NEW t \in PolicyThreads, ReadTree(t) PROVE PoliciesInv'
  <2>1. PICK f, rest : /\ IsRead(pt[t], f, rest) /\ PSet(t, AfterFrame(pt[t], f, rest))
                       /\ pt[t].pc = "tree" /\ astdb' = astdb
    BY <1>5, StrayFrames DEF ReadTree, IsRead
  <2>2. IsThread(pt[t]) /\ Listens(pt[t]) /\ IsFiniteSet(astdb)
    BY DEF PoliciesInv
  <2>. QED
    BY <2>1, <2>2, FrameRead, ThreadStep
<1>7. ASSUME NEW t \in PolicyThreads, Close(t) PROVE PoliciesInv'
  BY <1>7, ThreadStep DEF Close, Silent, IsThread, Listens, PoliciesInv
<1>8. CASE UNCHANGED policyVars
  BY <1>8 DEF policyVars, PoliciesInv
<1>. QED
  BY <1>1, <1>2, <1>3, <1>4, <1>5, <1>7, <1>8 DEF PoliciesNext

\* No request yet.
LEMMA PoliciesStart == PoliciesInit => PoliciesInv
<1>. SUFFICES ASSUME PoliciesInit PROVE PoliciesInv
  OBVIOUS
<1>1. IsFiniteSet(astdb)
  BY FS_EmptySet DEF PoliciesInit
<1>2. IsThread(Silent) /\ Listens(Silent)
  BY DEF Silent, IsThread, Listens
<1>. QED
  BY <1>1, <1>2 DEF PoliciesInit, PoliciesInv

\* At every step of a request what it has heard and what is to come make up the answer of
\* Asterisk, whatever other requests change meanwhile.
THEOREM Listening == PoliciesSpec => []PoliciesInv
BY PoliciesStart, PoliciesStep, PTL DEF PoliciesSpec

\* A listing is the family as it was when Asterisk took it, a holiday or a PIN answered as
\* configured was, and a number answered as blocked, a VIP as registered and an international
\* policy as set were accepted, for any number of requests, entries, strange frames and
\* broken connections (server.py, the policy handlers; ami_client.py, the two filters).
THEOREM AnswersTrue == PoliciesSpec => []ConfirmedAnswersAreTrue
<1>1. PoliciesInv => ConfirmedAnswersAreTrue
  BY DEF PoliciesInv, Listens, Held, ConfirmedAnswersAreTrue
<1>. QED
  BY <1>1, Listening, PTL
==================================================================================
