---------------------------- MODULE ConsoleLogins ----------------------------
(***************************************************************************)
(* Logins of the admin console and their sessions: src/console/index.js,   *)
(* src/console/auth.js, src/console/store.js.  Handlers await the database *)
(* and the password hash between their steps.                              *)
(*                                                                         *)
(* A password is a number that is never used again (a hash has its own     *)
(* salt), so a session's fingerprint of the hash is that number.  Bound:   *)
(* MaxPasswords of them.                                                   *)
(***************************************************************************)
EXTENDS Integers, FiniteSets

CONSTANTS
  Logins,         \* usernames
  Handlers,       \* requests in progress
  MaxPasswords

ASSUME LoginsAssumption == Logins # {} /\ MaxPasswords \in Nat

VARIABLES
  logins,     \* rows of the table: username, role, and the password whose
              \* hash is stored; nothing keeps a username unique
  sessions,   \* tokens out there: the login, the fingerprint, and the last
              \* password its holder had shown to know or chosen
  handler,    \* requests
  passwords,  \* how many there have been
  raced       \* a check was overtaken: an admin counted while another was
              \* being taken, or a username inserted twice

lvars == <<logins, sessions, handler, passwords, raced>>

\* A request: what it is, the step it has come to, the login it is about, and the
\* password that a sign-in has shown.
Handling(op, step, on, known) == [op |-> op, step |-> step, on |-> on, known |-> known]
NoHandler == Handling("none", "none", CHOOSE u \in Logins : TRUE, 0)

LoginsInit ==
  /\ logins = {} /\ sessions = {} /\ passwords = 0
  /\ handler = [r \in Handlers |-> NoHandler]
  /\ raced = FALSE

Row(u, r, p) == [user |-> u, role |-> r, password |-> p]
RowsOf(u) == {l \in logins : l.user = u}
Admins == {l \in logins : l.role = "admin"}
AdminOps == {"create", "demote", "promote", "delete", "reset"}
Begins(r, op, step, on, known) ==
  /\ handler[r].op = "none"
  /\ handler' = [handler EXCEPT ![r] = Handling(op, step, on, known)]
Goes(r, step) == handler' = [handler EXCEPT ![r] = Handling(@.op, step, @.on, @.known)]
Over(r) == handler' = [handler EXCEPT ![r] = NoHandler]

\* UPDATE of the rows of a username.
Rewritten(u, rows) == (logins \ RowsOf(u)) \cup rows

\* loadSession: the token's login is there, with the password it was made for.
Accepts(l, s) == l.user = s.user /\ l.password = s.print
Session(u, print, shown) == [user |-> u, print |-> print, shown |-> shown]
Fresh == passwords < MaxPasswords
-----------------------------------------------------------------------------
(* POST /setup and POST /login. *)

\* The code is right and nobody can sign in yet.
SetupStarts(r, u) ==
  /\ logins = {} /\ Begins(r, "setup", "hash", u, 0)
  /\ UNCHANGED <<logins, sessions, passwords, raced>>

\* Once the password is hashed the logins are counted again.
SetupCounts(r) ==
  /\ handler[r].op = "setup" /\ handler[r].step = "hash"
  /\ IF logins = {} THEN Goes(r, "create") ELSE Over(r)
  /\ UNCHANGED <<logins, sessions, passwords, raced>>

SetupCreates(r) ==
  LET u == handler[r].on
  IN /\ handler[r].op = "setup" /\ handler[r].step = "create" /\ Fresh
     /\ logins' = logins \cup {Row(u, "admin", passwords + 1)}
     /\ passwords' = passwords + 1
     /\ sessions' = sessions \cup {Session(u, passwords + 1, passwords + 1)}
     /\ raced' = (raced \/ RowsOf(u) # {})
     /\ Over(r)

\* findUser, then the password that was sent is held against that row's hash.
LoginStarts(r, l) ==
  /\ l \in logins /\ Begins(r, "login", "verify", l.user, l.password)
  /\ UNCHANGED <<logins, sessions, passwords, raced>>

\* issueSession, with the hash of the row that was read.
IssuedFor(r) == handler[r].known

LoginEnds(r) ==
  /\ handler[r].op = "login" /\ handler[r].step = "verify"
  /\ \/ UNCHANGED sessions
     \/ sessions' = sessions \cup
          {Session(handler[r].on, IssuedFor(r), handler[r].known)}
  /\ Over(r)
  /\ UNCHANGED <<logins, passwords, raced>>
-----------------------------------------------------------------------------
(* Signed in. *)

\* POST /me/password: the current password is verified, the new one hashed.
ChangeStarts(r, s) ==
  /\ \E l \in logins : Accepts(l, s)
  /\ Begins(r, "password", "write", s.user, 0)
  /\ UNCHANGED <<logins, sessions, passwords, raced>>

\* An UPDATE of a login that was deleted meanwhile changes no row.
ChangeWrites(r) ==
  LET u == handler[r].on
  IN /\ handler[r].op = "password" /\ handler[r].step = "write" /\ Fresh
     /\ logins' = Rewritten(u, {Row(u, l.role, passwords + 1) : l \in RowsOf(u)})
     /\ passwords' = passwords + 1
     /\ sessions' = sessions \cup {Session(u, passwords + 1, passwords + 1)}
     /\ Over(r)
     /\ UNCHANGED raced

\* POST, PATCH and DELETE /logins of an administrator: the session's role and
\* the login are read first.
AdminStarts(r, s, op, u) ==
  /\ \E l \in Admins : Accepts(l, s)
  /\ op = "delete" => u # s.user
  /\ \/ op = "create" /\ RowsOf(u) = {} /\ Begins(r, op, "write", u, 0)
     \/ /\ op # "create"
        /\ \E l \in RowsOf(u) :
             IF op \in {"demote", "delete"} /\ l.role = "admin"
             THEN Begins(r, op, "count", u, 0) ELSE Begins(r, op, "write", u, 0)
  /\ UNCHANGED <<logins, sessions, passwords, raced>>

\* Mutant: the number of admins is not looked at.
MayLoseAny(r) == TRUE

MayLose(r) == Cardinality(Admins) > 1

\* countAdmins: the last admin is neither demoted nor deleted.
AdminCounts(r) ==
  /\ handler[r].step = "count"
  /\ IF MayLose(r) THEN Goes(r, "write") ELSE Over(r)
  /\ raced' = (raced \/ \E q \in Handlers : /\ handler[q].step = "write"
                                             /\ handler[q].op \in {"demote", "delete"})
  /\ UNCHANGED <<logins, sessions, passwords>>

AdminWrites(r) ==
  LET u == handler[r].on   op == handler[r].op   next == passwords + 1
      Given(role) == Rewritten(u, {Row(u, role, l.password) : l \in RowsOf(u)})
  IN /\ handler[r].step = "write" /\ op \in AdminOps
     /\ op \in {"create", "reset"} => Fresh
     /\ logins' = CASE op = "create" -> logins \cup {Row(u, "viewer", next)}
                    [] op = "delete" -> Rewritten(u, {})
                    [] op = "demote" -> Given("viewer")
                    [] op = "promote" -> Given("admin")
                    [] op = "reset" -> Rewritten(u, {Row(u, l.role, next) : l \in RowsOf(u)})
     /\ passwords' = IF op \in {"create", "reset"} THEN next ELSE passwords
     /\ raced' = (raced \/ (op = "create" /\ RowsOf(u) # {}))
     /\ Over(r)
     /\ UNCHANGED sessions

\* The command line tool may delete the last login.
DeletedByHand(u) ==
  /\ logins # {} /\ logins = RowsOf(u)
  /\ \A r \in Handlers : handler[r] = NoHandler
  /\ logins' = {}
  /\ UNCHANGED <<sessions, handler, passwords, raced>>

LoginsNext ==
  \/ \E r \in Handlers :
       \/ \E u \in Logins : SetupStarts(r, u)
       \/ \E l \in logins : LoginStarts(r, l)
       \/ SetupCounts(r) \/ SetupCreates(r) \/ LoginEnds(r)
       \/ \E s \in sessions :
            \/ ChangeStarts(r, s)
            \/ \E u \in Logins, op \in AdminOps : AdminStarts(r, s, op, u)
       \/ ChangeWrites(r) \/ AdminCounts(r) \/ AdminWrites(r)
  \/ \E u \in Logins : DeletedByHand(u)

LoginsSpec == LoginsInit /\ [][LoginsNext]_lvars
-----------------------------------------------------------------------------
LoginsTypeOK ==
  /\ logins \subseteq [user : Logins, role : {"viewer", "admin"},
                      password : 1..MaxPasswords]
  /\ passwords \in 0..MaxPasswords
  /\ \A s \in sessions : s.user \in Logins /\ s.print \in 1..MaxPasswords

\* While there are logins one of them is an admin, unless two requests that
\* may take the last one ran at once (PATCH and DELETE /logins count first).
AdminRemains == ~raced /\ logins # {} => Admins # {}

\* A session that is accepted belongs to someone who knew the login's present
\* password, whatever was changed or reset while the password of a sign-in
\* was being verified (the fingerprint in the token).
SessionsKnow ==
  \A s \in sessions, l \in logins : Accepts(l, s) => s.shown = l.password
=============================================================================
