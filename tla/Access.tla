------------------------------- MODULE Access -------------------------------
(***************************************************************************)
(* Who may use a table: src/rbac.js, src/acl.js and the middleware of      *)
(* src/index.js.  Gateways share the tables of users, roles, permissions   *)
(* and ACLs, and each keeps what it read for a while.                      *)
(*                                                                         *)
(* A request looks one kind of row up after the other.  A lookup that is   *)
(* not cached is three steps: the clock is read, the database answers, the *)
(* answer is cached under the time read first.  An administrator's request *)
(* runs its statements one by one; each may fail and end it there.         *)
(*                                                                         *)
(* One API key and one table; rows that are equal are one.  Bounds:        *)
(* EndOfAccess of the clock, AccessAttempts of an administrator's request. *)
(***************************************************************************)
EXTENDS Integers, AccessStatements

CONSTANTS
  AccessHosts,    \* gateways
  Checks,         \* requests that need access to the table
  Changers,       \* administrators' requests, and gateways that start
  AccessHost,     \* the gateway each of them is on
  AccessNeed,     \* what each request wants to do: "read" or "write"
  TTL,            \* RBAC_CACHE_TTL_MS, ACL_CACHE_TTL_MS
  Listed,         \* is the key in the environment's API_KEYS?
  EndOfAccess, AccessAttempts

ASSUME AccessAssumption ==
  /\ AccessHost \in [Checks \cup Changers -> AccessHosts]
  /\ AccessNeed \in [Checks -> {"read", "write"}]
  /\ TTL \in Nat /\ EndOfAccess \in Nat /\ AccessAttempts \in Nat
  /\ Listed \in BOOLEAN

VARIABLES
  accessRows,   \* [Kinds -> set of the rows' values]
  changed,   \* when the rows of a kind last changed
  cached,    \* per gateway and kind: what was read, and the time before it
  check,     \* the requests
  work,      \* what an administrator's request still has to run
  job,       \* what it is
  tries, hour

avars == <<accessRows, changed, cached, check, work, job, tries, hour>>

NoEntry == [rows |-> {}, stamp |-> -TTL - 1]

\* Rows are read without an order: of several, any one is accessRows[0].
Readable(k) == IF k = "role" \/ accessRows[k] = {} THEN {accessRows[k]}
               ELSE {{v} : v \in accessRows[k]}

\* A request that looks up nothing yet.
Lookup(at, step, got, roles, stamp) ==
  [at |-> at, step |-> step, got |-> got, roles |-> roles, stamp |-> stamp]
Asking(at, roles) == Lookup(at, "look", {}, roles, 0)
NotAsking == Asking("idle", {})

\* The statements left of an administrator's request, and what the last count found.
Rest(todo, found) == [todo |-> todo, found |-> found]

Migrating == \E a \in Changers : job[a] = migrateToAcl

AccessInit ==
  /\ accessRows \in [Kinds -> {{}, {"active"}, {"owner"}}]
  /\ accessRows["user"] \in {{}, {"active"}} /\ accessRows["acl"] \in {{}, {"owner"}}
  /\ accessRows["role"] = {} /\ accessRows["perm"] = {} /\ accessRows["meta"] = {}
  /\ accessRows["column"] = IF Migrating THEN {"owner"} ELSE {}
  /\ changed = [k \in Kinds |-> -TTL - 1]
  /\ cached = [h \in AccessHosts |-> [k \in Cached |-> NoEntry]]
  /\ check = [c \in Checks |-> NotAsking]
  /\ work = [a \in Changers |-> Rest(<<>>, FALSE)]
  /\ tries = [a \in Changers |-> 0]
  /\ hour = 0
-----------------------------------------------------------------------------
(* A request. *)

NextKind == [auth |-> "user", user |-> "role", role |-> "perm", perm |-> "acl"]
KindOf(at) == IF at = "auth" THEN "user" ELSE at

\* checkAccess, once the permission is known.
Permitted(c, perm) ==
  IF "superuser" \in check[c].roles THEN perm # {"deny"}
  ELSE /\ perm # {"deny"}
       /\ \/ perm = {"allow_write"} \/ "writer" \in check[c].roles
          \/ /\ AccessNeed[c] = "read"
             /\ perm = {"allow_read"} \/ "reader" \in check[c].roles

\* Where a lookup that found v leads: on, to the ACL where RBAC refuses, or to
\* an answer.
After(c, v) ==
  LET at == check[c].at
  IN CASE at = "auth" -> IF v = {"active"} \/ Listed THEN "user" ELSE "refused"
       [] at = "user" -> IF v = {"active"} THEN "role" ELSE "acl"
       [] at = "role" -> "perm"
       [] at = "perm" -> IF Permitted(c, v) THEN "allowed" ELSE "acl"
       [] at = "acl" -> IF \/ v = {"owner"}
                           \/ v = {"reader"} /\ AccessNeed[c] = "read"
                        THEN "allowed" ELSE "refused"

Uses(c, v) ==
  check' = [check EXCEPT ![c] =
              Asking(After(c, v), IF check[c].at = "role" THEN v ELSE check[c].roles)]

Asked(x, time) == Lookup(x.at, "asked", {}, x.roles, time)
Answer(x, v) == Lookup(x.at, "answered", v, x.roles, x.stamp)

Looking == {"auth", "user", "role", "perm", "acl"}

AskAccess(c) ==
  /\ check[c].at \notin Looking
  /\ check' = [check EXCEPT ![c] = Asking("auth", {})]
  /\ UNCHANGED <<accessRows, changed, cached, work, job, tries, hour>>

LookUp(c) ==
  LET e == cached[AccessHost[c]][KindOf(check[c].at)]
  IN /\ check[c].at \in Looking /\ check[c].step = "look"
     /\ IF e.stamp + TTL > hour THEN Uses(c, e.rows)
        ELSE check' = [check EXCEPT ![c] = Asked(@, hour)]
     /\ UNCHANGED <<accessRows, changed, cached, work, job, tries, hour>>

DatabaseAnswers(c) ==
  /\ check[c].step = "asked"
  /\ \E v \in Readable(KindOf(check[c].at)) :
       check' = [check EXCEPT ![c] = Answer(@, v)]
  /\ UNCHANGED <<accessRows, changed, cached, work, job, tries, hour>>

\* Mutant: the time is read once the database has answered.
StampAtFill(c) == hour

\* The time an answer is cached under.
Stamp(c) == check[c].stamp

\* A missing ACL is not cached; a missing user, role or permission is.
Fill(c) ==
  LET k == KindOf(check[c].at)
  IN /\ check[c].step = "answered"
     /\ cached' = IF k = "acl" /\ check[c].got = {} THEN cached
                  ELSE [cached EXCEPT ![AccessHost[c]][k] =
                          [rows |-> check[c].got, stamp |-> Stamp(c)]]
     /\ Uses(c, check[c].got)
     /\ UNCHANGED <<accessRows, changed, work, job, tries, hour>>

\* A failing read of RBAC tables goes on to the API_KEYS list or to the ACL,
\* one of the ACL is an error.
LookupFails(c) ==
  /\ check[c].step = "asked"
  /\ LET at == check[c].at
         next == CASE at = "auth" -> IF Listed THEN "user" ELSE "refused"
                   [] at = "acl" -> "refused"
                   [] OTHER -> "acl"
     IN check' = [check EXCEPT ![c] = Asking(next, check[c].roles)]
  /\ UNCHANGED <<accessRows, changed, cached, work, job, tries, hour>>

-----------------------------------------------------------------------------
(* Changes. *)

Change(a) ==
  /\ work[a].todo = <<>> /\ tries[a] < AccessAttempts
  /\ work' = [work EXCEPT ![a] = Rest(job[a], FALSE)]
  /\ tries' = [tries EXCEPT ![a] = @ + 1]
  /\ UNCHANGED <<accessRows, changed, cached, check, job, hour>>

LeftWith(a, todo) == [work EXCEPT ![a] = Rest(todo, @.found)]
ChangeGoes(a) == LeftWith(a, Tail(work[a].todo))

RunCount(a, s) ==
  /\ s.do = "count"
  /\ work' = [work EXCEPT ![a] =
                Rest(Tail(@.todo),
                     IF s.v = "any" THEN accessRows[s.k] # {} ELSE s.v \in accessRows[s.k])]
  /\ UNCHANGED <<accessRows, changed, cached>>

\* Early returns: createUser of a user that is there, a migration that is
\* recorded, and one with no column left on the table, or none any more.
RunGuard(a, s) ==
  /\ s.do \in {"absent", "present", "read"}
  /\ LET todo == work[a].todo
     IN work' = CASE s.do = "absent" /\ work[a].found -> LeftWith(a, <<>>)
                  [] s.do = "present" /\ accessRows[s.k] = {} ->
                       LeftWith(a, SubSeq(todo, Len(todo) - 1, Len(todo)))
                  [] s.do = "read" /\ accessRows[s.k] = {} -> LeftWith(a, <<>>)
                  [] OTHER -> ChangeGoes(a)
  /\ UNCHANGED <<accessRows, changed, cached>>

\* The rows of its kind after a statement.
StatementWritten(a, s) ==
  LET old == accessRows[s.k]
      all == IF old = {} THEN {} ELSE {s.v}
  IN CASE s.do = "insert" -> old \cup {s.v}
       [] s.do = "insertNew" -> IF work[a].found THEN old ELSE old \cup {s.v}
       [] s.do = "upsert" -> IF work[a].found THEN all ELSE old \cup {s.v}
       [] s.do = "update" -> all
       [] s.do = "delete" -> {}

RunWrite(a, s) ==
  /\ s.do \in {"insert", "insertNew", "upsert", "update", "delete"}
  /\ accessRows' = [accessRows EXCEPT ![s.k] = StatementWritten(a, s)]
  /\ changed' = [changed EXCEPT ![s.k] = IF StatementWritten(a, s) # accessRows[s.k] THEN hour ELSE @]
  /\ work' = ChangeGoes(a)
  /\ UNCHANGED cached

\* A column that cannot be dropped (a partition key) is left.
RunDropFails(a, s) ==
  /\ s = Delete("column")
  /\ work' = ChangeGoes(a)
  /\ UNCHANGED <<accessRows, changed, cached>>

RunClear(a, s) ==
  /\ s.do = "clear"
  /\ cached' = [cached EXCEPT ![AccessHost[a]] =
                  [k \in Cached |-> IF k \in Cleared(s) THEN NoEntry ELSE @[k]]]
  /\ work' = ChangeGoes(a)
  /\ UNCHANGED <<accessRows, changed>>

RunStatement(a) ==
  /\ work[a].todo # <<>>
  /\ LET s == Head(work[a].todo)
     IN RunCount(a, s) \/ RunGuard(a, s) \/ RunWrite(a, s) \/ RunDropFails(a, s)
          \/ RunClear(a, s)
  /\ UNCHANGED <<check, job, tries, hour>>

\* A statement throws, or the process dies: the rest is not run.
StatementFails(a) ==
  /\ work[a].todo # <<>>
  /\ work' = LeftWith(a, <<>>)
  /\ UNCHANGED <<accessRows, changed, cached, check, job, tries, hour>>

HourPasses ==
  /\ hour < EndOfAccess
  /\ hour' = hour + 1
  /\ UNCHANGED <<accessRows, changed, cached, check, work, job, tries>>

CheckStep(c) == LookUp(c) \/ DatabaseAnswers(c) \/ Fill(c) \/ LookupFails(c)

AccessNext ==
  \/ \E c \in Checks : AskAccess(c) \/ CheckStep(c)
  \/ \E a \in Changers : Change(a) \/ RunStatement(a) \/ StatementFails(a)
  \/ HourPasses

AccessSpec == AccessInit /\ [][AccessNext]_avars
-----------------------------------------------------------------------------
Values == {"active", "inactive", "superuser", "writer", "reader", "deny", "allow_read",
           "allow_write", "owner", "other", "done"}

AccessTypeOK ==
  /\ accessRows \in [Kinds -> SUBSET Values]
  /\ \A h \in AccessHosts, k \in Cached : cached[h][k].stamp \in Int
  /\ \A c \in Checks : check[c].at \in Looking \cup {"idle", "allowed", "refused"}
  /\ hour \in 0..EndOfAccess

\* What a gateway answers from its cache was true less than a TTL before: an
\* entry that is in use and no longer matches the tables matched them until a
\* change less than a TTL ago, however long the read of it took and whichever
\* gateway made the change.  (The caches of rbac.js and acl.js take the time
\* before they read, and hold it against the TTL.)
StalenessBounded ==
  \A h \in AccessHosts, k \in Cached :
    LET e == cached[h][k]
    IN e.stamp + TTL > hour => e.rows \in Readable(k) \/ changed[k] + TTL > hour

\* A table whose _api_key column was dropped has an ACL with its owners,
\* whichever gateways migrated it at once, failed or died on the way
\* (migrateToAcl).
OwnersKept == Migrating /\ accessRows["column"] = {} => accessRows["acl"] = {"owner"}

AccessSafe == StalenessBounded /\ OwnersKept
=============================================================================
