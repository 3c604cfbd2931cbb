------------------------------ MODULE AdminUsers ------------------------------
(***************************************************************************)
(* admin-api: the users of the panel and their sessions.  users.json is    *)
(* read whole and written whole, without a lock and not atomically: a      *)
(* write truncates the file and then fills it, and the server has a thread *)
(* per request.  Sessions are in memory and keep the role read at login.   *)
(* Passwords and TOTP codes are taken to be right; a wrong one changes     *)
(* nothing.  So does a request without the session or the role it needs.   *)
(***************************************************************************)
EXTENDS Naturals, FiniteSets

CONSTANTS UserThreads, People, Tokens,
          FirstAdmin,        \* ADMIN_USERNAME
          Installed,         \* the rows that an earlier process may have left,
                             \* with an administrator among them if there are any
          UserRequests,      \* records [kind, token, user, role]
          MaxUserRequests, MaxUserCrashes

VARIABLES users,      \* users.json: [state, rows]
          server,     \* "up", "down", or "unconfigured": up without a user
          sessions,   \* the records of SessionStore
          ut,         \* the threads
          demoted,    \* the users an update made supervisors
          requests, crashes
userVars == <<users, server, sessions, ut, demoted, requests, crashes>>

Roles == {"admin", "supervisor"}
\* No secret; one not confirmed; in use; in use without a secret.
Totp == {"off", "setup", "on", "locked"}
Row == [user : People, role : Roles, totp : Totp]
UserFile == [state : {"whole", "empty", "torn"}, rows : SUBSET Row]
Kinds == {"login", "verify", "setup", "confirm", "disable", "add", "update", "delete"}
UserRequest == [kind : Kinds, token : Tokens \cup {"none"}, user : People, role : Roles]
Session == [token : Tokens, user : People, role : Roles \cup {"pending"},
            via : {"login", "verify"}, seen : SUBSET Row]
NoRequest == [kind |-> "none", token |-> "none", user |-> FirstAdmin, role |-> "admin"]
Thread == [pc : {"idle", "read", "reread", "open", "truncate", "fill"},
           op : UserRequest \cup {NoRequest}, who : People, rows : SUBSET Row,
           seen : SUBSET Row]   \* what a login could have read since it began

ASSUME UsersAssumption ==
  /\ FirstAdmin \in People /\ UserRequests \subseteq UserRequest
  /\ \A rows \in Installed : rows \subseteq Row /\ (rows # {} => \E r \in rows : r.role = "admin")

Whole(rows) == [state |-> "whole", rows |-> rows]
Resting == [pc |-> "idle", op |-> NoRequest, who |-> FirstAdmin, rows |-> {},
            seen |-> {}]
Moved(r, pc, rows) == [pc |-> pc, op |-> r.op, who |-> r.who, rows |-> rows, seen |-> r.seen]

UsersInit ==
  /\ users \in {Whole(rows) : rows \in Installed} /\ server = "down" /\ sessions = {}
  /\ ut = [t \in UserThreads |-> Resting]
  /\ demoted = {} /\ requests = 0 /\ crashes = 0

Named(rows, u) == {r \in rows : r.user = u}
Free == {k \in Tokens : \A s \in sessions : s.token # k}
OpenTo(k, roles) == {s \in sessions : s.token = k /\ s.role \in roles}
UserCrash == crashes < MaxUserCrashes /\ crashes' = crashes + 1

\* main: a file that cannot be read stops the server for good; a missing one
\* gets the first administrator, unless the process dies while it writes.
\* Without ADMIN_PASSWORD_HASH it stays missing, and there is nobody to log in.
Start ==
  LET first == {[user |-> FirstAdmin, role |-> "admin", totp |-> "off"]} IN
  /\ server = "down" /\ users.state = "whole"
  /\ IF users.rows # {}
     THEN server' = "up" /\ UNCHANGED <<users, crashes>>
     ELSE \/ /\ server' = "up" /\ users' = Whole(first)
             /\ UNCHANGED crashes
          \/ /\ UserCrash /\ users' = [users EXCEPT !.state = "empty"]
             /\ UNCHANGED server
          \/ server' = "unconfigured" /\ UNCHANGED <<users, crashes>>
  /\ UNCHANGED <<sessions, ut, demoted, requests>>

----------------------------------------------------------------------------
\* What each kind of request needs of the session, and whose row it is about.
\* Setup, confirm and disable take any session (_require_auth): a pending one
\* too, although the comment at server.py:102-105 has it do nothing but verify.
AnySession == {"setup", "confirm", "disable"}
AdminOnly == {"add", "update", "delete"}
Entitled(op) ==
  CASE op.kind \in AdminOnly  -> OpenTo(op.token, {"admin"})
    [] op.kind = "verify"     -> OpenTo(op.token, {"pending"})
    [] OTHER                  -> OpenTo(op.token, Roles \cup {"pending"})

Opens == {"login", "verify"}
Seen(op, who, rows) == IF op.kind \in Opens THEN Named(rows, who) ELSE {}

Begin(t) ==
  \E op \in UserRequests :
    /\ server = "up" /\ ut[t].pc = "idle" /\ requests < MaxUserRequests
    /\ requests' = requests + 1
    /\ \E who \in IF op.kind = "login" THEN {op.user} ELSE {s.user : s \in Entitled(op)} :
         ut' = [ut EXCEPT ![t] = [pc |-> "read", op |-> op, rows |-> {},
                                  who |-> IF op.kind \in AdminOnly THEN op.user ELSE who,
                                  seen |-> Seen(op, who, users.rows)]]
    /\ UNCHANGED <<users, server, sessions, demoted, crashes>>

Logout ==
  \E s \in sessions : /\ server = "up" /\ sessions' = sessions \ {s}
                      /\ UNCHANGED <<users, server, ut, demoted, requests, crashes>>

\* validate_user_input in add_user and update_user: the rows to save, or none
\* when the request is refused.  An update keeps what it does not name.
Revised(rows, u, new) == IF new = {} THEN {} ELSE (rows \ Named(rows, u)) \cup new
AddUser(rows, op) ==
  IF Named(rows, op.user) # {} THEN {}
  ELSE rows \cup {[user |-> op.user, role |-> op.role, totp |-> "off"]}
UpdateUser(rows, op) ==
  Revised(rows, op.user, {[r EXCEPT !.role = op.role] : r \in Named(rows, op.user)})
\* Mutant: the check looks at the rows before the removal.
DeleteUserChecksBefore(rows, op) ==
  LET filtered == rows \ Named(rows, op.user) IN
  IF filtered = rows \/ \A r \in rows : r.role # "admin" THEN {} ELSE filtered

DeleteUser(rows, op) ==
  LET filtered == rows \ Named(rows, op.user) IN
  IF filtered = rows \/ \A r \in filtered : r.role # "admin" THEN {} ELSE filtered
SetupTotp(rows, u) == Revised(rows, u, {[r EXCEPT !.totp = "setup"] : r \in Named(rows, u)})
ConfirmTotp(rows, u) ==
  Revised(rows, u, {[r EXCEPT !.totp = IF @ \in {"off", "locked"} THEN "locked" ELSE "on"]
                      : r \in Named(rows, u)})
DisableTotp(rows, u) == Revised(rows, u, {[r EXCEPT !.totp = "off"] : r \in Named(rows, u)})

NewRows(op, who, rows) ==
  CASE op.kind = "add"     -> AddUser(rows, op)
    [] op.kind = "update"  -> UpdateUser(rows, op)
    [] op.kind = "delete"  -> DeleteUser(rows, op)
    [] op.kind = "setup"   -> SetupTotp(rows, who)
    [] op.kind = "confirm" -> ConfirmTotp(rows, who)
    [] OTHER               -> DisableTotp(rows, who)

\* login, verify, confirm and disable look at the user's row first; the last
\* two then load the file again.  A file that is not whole ends the request.
Look(t) ==
  LET op == ut[t].op
      mine == Named(users.rows, ut[t].who)
      fit == IF op.kind \in {"verify", "confirm"}
             THEN {r \in mine : r.totp \in {"setup", "on"}} ELSE mine
  IN  /\ ut[t].pc = "read" /\ op.kind \in {"login", "verify", "confirm", "disable"}
      /\ ut' = [ut EXCEPT ![t] =
                  IF users.state # "whole" \/ fit = {} THEN Resting
                  ELSE Moved(@, IF op.kind \in Opens THEN "open" ELSE "reread",
                             fit)]
      /\ UNCHANGED <<users, server, sessions, demoted, requests, crashes>>

Load(t) ==
  LET new == NewRows(ut[t].op, ut[t].who, users.rows) IN
  /\ \/ ut[t].pc = "reread"
     \/ ut[t].pc = "read" /\ ut[t].op.kind \in AdminOnly \cup {"setup"}
  /\ ut' = [ut EXCEPT ![t] = IF users.state # "whole" \/ new = {} THEN Resting
                             ELSE Moved(@, "truncate", new)]
  /\ UNCHANGED <<users, server, sessions, demoted, requests, crashes>>

\* save_users: open for writing, then one write from the start of the file.
\* Over what another thread has written since, the longer tail stays.
Truncate(t) ==
  /\ ut[t].pc = "truncate"
  /\ users' = [state |-> "empty", rows |-> {}]
  /\ ut' = [ut EXCEPT ![t].pc = "fill"]
  /\ UNCHANGED <<server, sessions, demoted, requests, crashes>>

Saw(r, rows) == [pc |-> r.pc, op |-> r.op, who |-> r.who, rows |-> r.rows,
                 seen |-> r.seen \cup Seen(r.op, r.who, rows)]
Demotes(op) == op.kind = "update" /\ op.role # "admin"
Demoted(op) == IF Demotes(op) THEN {op.user} ELSE {}
Fill(t) ==
  /\ ut[t].pc = "fill"
  /\ users' \in {Whole(ut[t].rows)} \cup
       (IF users.state = "empty" THEN {} ELSE {[state |-> "torn", rows |-> {}]})
  /\ demoted' = demoted \cup Demoted(ut[t].op)
  /\ ut' = [u \in UserThreads |-> IF u = t THEN Resting ELSE Saw(ut[u], users'.rows)]
  /\ UNCHANGED <<server, sessions, requests, crashes>>

\* A login with the second factor on gets a session that can only verify it.
\* Mutant: the second factor is not asked for.
GivenRoleAtOnce(kind, row) == row.role

GivenRole(kind, row) == IF kind = "login" /\ row.totp \in {"on", "locked"} THEN "pending" ELSE row.role
OpenSession(t) ==
  \E k \in Free, r \in ut[t].rows :
    LET op == ut[t].op
        kept == IF op.kind = "verify" THEN {s \in sessions : s.token # op.token} ELSE sessions
    IN  /\ ut[t].pc = "open"
        /\ sessions' = kept \cup {[token |-> k, user |-> r.user,
                                   role |-> GivenRole(op.kind, r), via |-> op.kind,
                                   seen |-> ut[t].seen]}
        /\ ut' = [ut EXCEPT ![t] = Resting]
        /\ UNCHANGED <<users, server, demoted, requests, crashes>>

Die ==
  /\ server # "down" /\ UserCrash
  /\ server' = "down" /\ sessions' = {} /\ ut' = [t \in UserThreads |-> Resting]
  /\ UNCHANGED <<users, demoted, requests>>

UsersNext ==
  \/ Start \/ Logout \/ Die
  \/ \E t \in UserThreads : Begin(t) \/ Look(t) \/ Load(t) \/ Truncate(t) \/ Fill(t) \/ OpenSession(t)

UsersSpec == UsersInit /\ [][UsersNext]_userVars
----------------------------------------------------------------------------
UsersTypeOK ==
  /\ users \in UserFile /\ server \in {"up", "down", "unconfigured"} /\ sessions \subseteq Session
  /\ ut \in [UserThreads -> Thread]
  /\ demoted \subseteq People

\* The panel always has an administrator, whatever changes and removals of
\* users overlap and lose one another's writes: only an update that demotes
\* one can take the last (users.py, the check in delete_user).
AdminKept ==
  server = "up" /\ users.state = "whole" /\ demoted = {} => \E r \in users.rows : r.role = "admin"

\* A session has the role that its user had in a version of the file that was
\* current while the login or the verification was in progress.  In it, one
\* opened by the password alone has a user whose second factor was off, and one
\* opened by a code a user with a secret to compare it with, whatever changes
\* overlap.  It says nothing of later versions: the role stays until the session
\* ends (auth.py, get_role).  And it does not say who gave the secret: a pending
\* session may set up, confirm or disable the second factor (server.py:496, 514
\* and 535), so the code may be compared with a secret made after the password.
SessionsFollowTheFile ==
  \A s \in sessions : s.role # "pending" =>
    \E r \in s.seen : /\ r.user = s.user /\ r.role = s.role
                     /\ r.totp \in IF s.via = "login" THEN {"off", "setup"} ELSE {"setup", "on"}
=============================================================================
