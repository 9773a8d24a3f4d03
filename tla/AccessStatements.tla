-------------------------- MODULE AccessStatements --------------------------
(***************************************************************************)
(* What the operations on roles, permissions and table ACLs send to the    *)
(* database, statement by statement: src/rbac.js, src/acl.js.  The rows    *)
(* are those of one API key and one table, by kind:                        *)
(*   "user"    _rbac_users: is the key active                              *)
(*   "role"    _rbac_user_roles: the roles of the key                      *)
(*   "perm"    _rbac_table_permissions: what the key may do on the table   *)
(*   "acl"     _table_acls: what an ACL of the table makes of the key      *)
(*   "column"  a legacy _api_key column of the table that holds the key    *)
(*   "meta"    _gateway_meta: the migration to ACLs is recorded            *)
(* No two statements are in one transaction.                               *)
(***************************************************************************)
EXTENDS Sequences

Cached == {"user", "role", "perm", "acl"}
Kinds == Cached \cup {"column", "meta"}

Stmt(do, k, v) == [do |-> do, k |-> k, v |-> v]

\* Is there a row of the kind (with that value, where one is asked for)?
CountRoles(k) == Stmt("count", k, "any")
CountOf(k, v) == Stmt("count", k, v)
\* The operation ends unless the last count found something, or nothing.
Absent == Stmt("absent", "meta", "any")
Present(k) == Stmt("present", k, "any")
\* A query that fails where the column is not there.
Read(k) == Stmt("read", k, "any")
InsertInto(k, v) == Stmt("insert", k, v)
\* INSERT if the last count found no row, else UPDATE, or else nothing.
Upsert(k, v) == Stmt("upsert", k, v)
InsertNew(k, v) == Stmt("insertNew", k, v)
UpdateTo(k, v) == Stmt("update", k, v)
Delete(k) == Stmt("delete", k, "any")
\* Caches of this gateway: of the key, of the table's ACL, or all.
ClearUser == Stmt("clear", "user", "any")
ClearAcl == Stmt("clear", "acl", "any")
ClearAll == Stmt("clear", "role", "any")

\* The caches a "clear" empties.  The entries of permCache are keyed by
\* apiKey::table, and invalidateUserCache deletes the key apiKey of it.
Cleared(s) == CASE s = ClearUser -> {"user", "role"}
                [] s = ClearAcl -> {"acl"}
                [] OTHER -> {"user", "role", "perm"}

InsertEach(rs) == [i \in DOMAIN rs |-> InsertInto("role", rs[i])]

createUser(rs) == <<CountRoles("user"), Absent, InsertInto("user", "active")>>
                    \o InsertEach(rs) \o <<ClearUser>>

updateUser(active) == <<UpdateTo("user", active), ClearUser>>

setUserRoles(rs) == <<Delete("role")>> \o InsertEach(rs) \o <<ClearUser>>

setTablePermission(p) == <<CountRoles("perm"), Upsert("perm", p), ClearUser>>

\* A key on the list of API keys, and one that was taken off it.
legacyBootstrap ==
  <<CountRoles("user"), InsertNew("user", "inactive"), UpdateTo("user", "active"),
    CountOf("role", "superuser"), InsertNew("role", "superuser"), ClearAll>>

syncRemoved == <<UpdateTo("user", "inactive"), ClearAll>>

\* A key of RBAC_USERS with one role and one table permission, and one of
\* RBAC_SUPERUSERS.
bootstrapUser(r, p) ==
  <<CountRoles("user"), Upsert("user", "active"), CountOf("role", r),
    InsertNew("role", r), CountRoles("perm"), Upsert("perm", p), ClearAll>>

bootstrapSuperuser ==
  <<CountRoles("user"), Upsert("user", "active"), CountOf("role", "superuser"),
    InsertNew("role", "superuser"), ClearAll>>

ensureTableAcl(v) == <<CountRoles("acl"), InsertNew("acl", v), ClearAcl>>

updateTableAcl(v) == <<UpdateTo("acl", v), ClearAcl>>

\* Migration of one table: the keys of its _api_key column become the owners
\* of its ACL, and the column is dropped.
migrateToAcl ==
  <<CountRoles("meta"), Absent, Present("column"), Read("column"),
    CountRoles("acl"), InsertNew("acl", "owner"), Delete("column"), CountRoles("meta"),
    InsertNew("meta", "done")>>
=============================================================================
