--------------------------- MODULE DocumentAccess ---------------------------
(***************************************************************************)
(* Who may read and manage which document: users and tokens (api/auth.py,  *)
(* api/main.py, api/routers/users.py), permissions (api/rbac.py,           *)
(* api/routers/permissions.py), collections (api/routers/collections.py)   *)
(* and the documents these speak of (api/routers/documents.py).            *)
(*                                                                         *)
(* A handler is one action: on the loop nothing runs between its           *)
(* authentication and its answer.  Only uploads and streams await in the   *)
(* middle; AnswerAccess begins and ends them.  The worker is condensed to  *)
(* what IngestionQueue and TenantIndex say of it.                          *)
(***************************************************************************)
EXTENDS Naturals, FiniteSets

CONSTANTS
    Users,          \* rows of table users that exist or may be created
    Tenants,
    Docs,           \* documents, never reused once deleted (uuid4)
    Collections,
    TenantOf,       \* tenant of a user
    EmailOf,        \* email of a user: one person may have a row per tenant
    HashOf,         \* file_hash of a document
    HomeOf,         \* tenant of a collection
    FirstRole,      \* role of the users that exist at first, else "none"
    Legacy,         \* documents older than permissions; one may exist at first
    LegacyTenant,   \* its tenant
    MaxTokens,      \* bound: users who log in
    MaxEdits        \* bound: changes of users, permissions, collections,
                    \* none of them once there is a second document

ASSUME AccessAssumption ==
    /\ TenantOf \in [Users -> Tenants] /\ HomeOf \in [Collections -> Tenants]
    /\ FirstRole \in [Users -> {"none", "member", "admin"}]
    /\ Legacy \subseteq Docs /\ LegacyTenant \in Tenants
    /\ EmailOf = [u \in Users |-> EmailOf[u]]
    /\ HashOf = [d \in Docs |-> HashOf[d]]
    /\ MaxTokens \in Nat /\ MaxEdits \in Nat

Nobody == "nobody"
NoTenant == "no tenant"
NoCollection == "unassigned"
ASSUME NoneAssumption ==
    /\ Nobody \notin Users /\ NoTenant \notin Tenants
    /\ NoCollection \notin Collections

VARIABLES
    role,       \* users.role, "none" before the row is created
    active,     \* the users with is_active
    tokens,     \* the users for whom a token was issued
    status,     \* documents.status; "absent" before, "gone" after the row
    tenant,     \* documents.tenant_id, kept after the row is gone
    acl,        \* document_permissions: level of each user on a document
    collections,\* rows of table collections
    assigned,   \* documents.collection_id
    working,    \* documents whose job the worker has in hand
    indexed,    \* documents with chunks in the Qdrant collection and BM25 file
    opened,     \* history: documents whose last permission was revoked
    beside,     \* history: copies being ingested when a document was inserted
    edits

people  == <<role, active, tokens>>
shelf   == <<collections, assigned>>
rows    == <<status, tenant, beside>>
chunks  == <<working, indexed>>
rights  == <<acl, opened>>
library == <<rows, chunks, rights, shelf>>
accessVars == <<people, library, edits>>

Levels == {"viewer", "editor", "owner"}
Rank == [none |-> 0, viewer |-> 1, editor |-> 2, owner |-> 3]
Live(d) == status[d] \notin {"absent", "gone"}
NoRows == [u \in Users |-> "none"]

\* Migration 0003 gave every active user of the tenant a row on each document
\* that had none; an API process refuses to start before it has run.
Backfill ==
    [u \in Users |->
        IF FirstRole[u] = "none" \/ TenantOf[u] # LegacyTenant THEN "none"
        ELSE IF FirstRole[u] = "admin" THEN "owner" ELSE "viewer"]

AccessInit ==
    /\ role = FirstRole
    /\ active = {u \in Users : FirstRole[u] # "none"}
    /\ tokens = {}
    /\ \E old \in {s \in SUBSET Legacy : \A d, e \in s : d = e} :
        /\ status = [d \in Docs |-> IF d \in old THEN "ready" ELSE "absent"]
        /\ tenant = [d \in Docs |-> IF d \in old THEN LegacyTenant
                                              ELSE NoTenant]
        /\ acl = [d \in Docs |-> IF d \in old THEN Backfill ELSE NoRows]
        /\ indexed = old
    /\ collections = {}
    /\ assigned = [d \in Docs |-> NoCollection]
    /\ working = {}
    /\ opened = {} /\ beside = [d \in Docs |-> {}]
    /\ edits = 0

\* A request that changes nothing is no step.
Edit == edits < MaxEdits /\ edits' = edits + 1

-----------------------------------------------------------------------------
(* Authentication and authorisation.                                        *)

\* get_current_user: the token names the row, the row decides.
Authenticated(u) == u \in tokens /\ role[u] # "none" /\ u \in active
IsAdmin(u) == Authenticated(u) /\ role[u] = "admin"

HasLevel(u, d, level) == Rank[acl[d][u]] >= Rank[level]
HasAcl(d) == \E u \in Users : acl[d][u] # "none"
CanManage(u, d, level) == role[u] = "admin" \/ HasLevel(u, d, level)

\* get_accessible_document_ids: the WHERE clause of its query.
Accessible(u) ==
    {d \in Docs : /\ Live(d) /\ tenant[d] = TenantOf[u]
                  /\ ~HasAcl(d) \/ HasLevel(u, d, "viewer")}

\* What the listings of documents and jobs, and the dashboard, select from.
Listed(u) ==
    IF role[u] = "admin"
      THEN {d \in Docs : Live(d) /\ tenant[d] = TenantOf[u]}
      ELSE Accessible(u)

IssueToken(u) ==
    /\ tokens' = tokens \cup {u}
    /\ Cardinality(tokens') <= MaxTokens

Login(u) ==
    /\ role[u] # "none" /\ u \in active
    /\ IssueToken(u)
    /\ UNCHANGED <<role, active, library, edits>>

\* switch_admin_tenant: v is the row of the same person in the destination.
SwitchTenant(u, v) ==
    /\ IsAdmin(u) /\ EmailOf[v] = EmailOf[u]
    /\ role[v] = "admin" /\ v \in active
    /\ IssueToken(v)
    /\ UNCHANGED <<role, active, library, edits>>

CreateUser(a, u, r) ==
    /\ IsAdmin(a) /\ TenantOf[u] = TenantOf[a] /\ role[u] = "none"
    /\ Edit
    /\ role' = [role EXCEPT ![u] = r] /\ active' = active \cup {u}
    /\ UNCHANGED <<tokens, library>>

\* update_user, deactivate_user: nothing keeps an admin from his own row.
ChangeRole(a, u, r) ==
    /\ IsAdmin(a) /\ TenantOf[u] = TenantOf[a] /\ role[u] # "none"
    /\ role[u] # r /\ Edit
    /\ role' = [role EXCEPT ![u] = r]
    /\ UNCHANGED <<active, tokens, library>>

Activate(a, u) ==
    /\ IsAdmin(a) /\ TenantOf[u] = TenantOf[a] /\ role[u] # "none"
    /\ u \notin active /\ Edit
    /\ active' = active \cup {u}
    /\ UNCHANGED <<role, tokens, library>>

Deactivate_AnyTenant(a, u) ==
    /\ IsAdmin(a) /\ role[u] # "none"
    /\ u \in active /\ Edit
    /\ active' = active \ {u}
    /\ UNCHANGED <<role, tokens, library>>

Deactivate(a, u) ==
    /\ IsAdmin(a) /\ TenantOf[u] = TenantOf[a] /\ role[u] # "none"
    /\ u \in active /\ Edit
    /\ active' = active \ {u}
    /\ UNCHANGED <<role, tokens, library>>

-----------------------------------------------------------------------------
(* Permissions.  The grantee is any string: not even of the tenant.         *)

ManagesAsOwner(u, d) ==
    /\ Authenticated(u) /\ Live(d) /\ tenant[d] = TenantOf[u]
    /\ CanManage(u, d, "owner")

GrantAccess(u, d, v, level) ==
    /\ ManagesAsOwner(u, d)
    /\ acl[d][v] # level /\ Edit
    /\ acl' = [acl EXCEPT ![d][v] = level]
    /\ UNCHANGED <<people, shelf, rows, chunks, opened>>

RevokeAccess_EveryUser(u, d, v) ==
    /\ ManagesAsOwner(u, d) /\ acl[d][v] # "none"
    /\ Edit
    /\ acl' = [acl EXCEPT ![d] = NoRows]
    /\ opened' = IF acl'[d] = NoRows THEN opened \cup {d} ELSE opened
    /\ UNCHANGED <<people, shelf, rows, chunks>>

RevokeAccess(u, d, v) ==
    /\ ManagesAsOwner(u, d) /\ acl[d][v] # "none"
    /\ Edit
    /\ acl' = [acl EXCEPT ![d][v] = "none"]
    /\ opened' = IF acl'[d] = NoRows THEN opened \cup {d} ELSE opened
    /\ UNCHANGED <<people, shelf, rows, chunks>>

-----------------------------------------------------------------------------
(* Collections.                                                             *)

CreateCollection(a, c) ==
    /\ IsAdmin(a) /\ HomeOf[c] = TenantOf[a] /\ c \notin collections
    /\ Edit
    /\ collections' = collections \cup {c}
    /\ UNCHANGED <<people, assigned, rows, chunks, rights>>

\* documents.collection_id is ON DELETE SET NULL.
DeleteCollection(a, c) ==
    /\ IsAdmin(a) /\ HomeOf[c] = TenantOf[a] /\ c \in collections
    /\ Edit
    /\ collections' = collections \ {c}
    /\ assigned' = [d \in Docs |-> IF assigned[d] = c THEN NoCollection
                                                       ELSE assigned[d]]
    /\ UNCHANGED <<people, rows, chunks, rights>>

AssignDocument_AnyTenant(u, c, d) ==
    /\ Authenticated(u) /\ c \in collections /\ HomeOf[c] = TenantOf[u]
    /\ CanManage(u, d, "editor")
    /\ Live(d)
    /\ assigned[d] # c /\ Edit
    /\ assigned' = [assigned EXCEPT ![d] = c]
    /\ UNCHANGED <<people, collections, rows, chunks, rights>>

AssignDocument(u, c, d) ==
    /\ Authenticated(u) /\ c \in collections /\ HomeOf[c] = TenantOf[u]
    /\ CanManage(u, d, "editor")
    /\ Live(d) /\ tenant[d] = TenantOf[u]
    /\ assigned[d] # c /\ Edit
    /\ assigned' = [assigned EXCEPT ![d] = c]
    /\ UNCHANGED <<people, collections, rows, chunks, rights>>

-----------------------------------------------------------------------------
(* Documents.                                                               *)

SameFile(d, e) == HashOf[d] = HashOf[e] /\ tenant[d] = tenant[e]

\* The collection must exist and no ready document may have the same content.
MayInsert(u, d, c) ==
    /\ status[d] = "absent"
    /\ c = NoCollection \/ (c \in collections /\ HomeOf[c] = TenantOf[u])
    /\ ~\E e \in Docs : /\ status[e] = "ready" /\ HashOf[e] = HashOf[d]
                        /\ tenant[e] = TenantOf[u]

\* upload_document after its last await; `state` tells how far it comes: row,
\* owner and job; or a row without job and perhaps owner, after a crash or
\* when the rollback fails too.
InsertDocument(u, d, c, state, owner) ==
    /\ MayInsert(u, d, c)
    /\ IF \A e \in Docs : status[e] = "absent" THEN UNCHANGED edits
       ELSE edits = 0 /\ edits' = MaxEdits
    /\ status' = [status EXCEPT ![d] = state]
    /\ tenant' = [tenant EXCEPT ![d] = TenantOf[u]]
    /\ acl' = [acl EXCEPT ![d][u] = owner]
    /\ assigned' = [assigned EXCEPT ![d] = c]
    /\ beside' = [beside EXCEPT ![d] =
                    {e \in Docs : status[e] \in {"queued", "stranded", "error"}
                                  /\ SameFile(d, e)'}]
    /\ UNCHANGED <<people, collections, chunks, opened>>

AcceptUpload_GrantIgnored(u, d, c) ==
    \E owner \in {"none", "owner"} : InsertDocument(u, d, c, "queued", owner)

AcceptUpload(u, d, c) == InsertDocument(u, d, c, "queued", "owner")
StrandUpload(u, d, c) ==
    \E owner \in {"none", "owner"} : InsertDocument(u, d, c, "stranded", owner)

\* The row goes with its permissions and jobs; the vectors may stay behind.
DeleteDocument(u, d) ==
    /\ Authenticated(u) /\ Live(d) /\ tenant[d] = TenantOf[u]
    /\ CanManage(u, d, "editor")
    /\ status' = [status EXCEPT ![d] = "gone"]
    /\ acl' = [acl EXCEPT ![d] = NoRows]
    /\ assigned' = [assigned EXCEPT ![d] = NoCollection]
    /\ indexed' \in {indexed, indexed \ {d}}
    /\ UNCHANGED <<people, collections, tenant, beside, working, opened, edits>>

StartIngest(d) ==
    /\ status[d] = "queued" /\ d \notin working
    /\ working' = working \cup {d}
    /\ UNCHANGED <<people, shelf, rows, indexed, rights, edits>>

\* The chunks are searchable before the status says so, and after a deletion.
WriteIndex(d) ==
    /\ d \in working /\ d \notin indexed
    /\ indexed' = indexed \cup {d}
    /\ UNCHANGED <<people, shelf, rows, working, rights, edits>>

\* Ready, failed for good, or back in the queue for a retry.
EndIngest(d, state) ==
    /\ d \in working /\ (state = "ready" => d \in indexed)
    /\ working' = working \ {d}
    /\ status' = IF Live(d) THEN [status EXCEPT ![d] = state] ELSE status
    /\ UNCHANGED <<people, shelf, tenant, beside, indexed, rights, edits>>

-----------------------------------------------------------------------------
UserStep(u) ==
    \/ Login(u)
    \/ \E v \in Users :
        \/ SwitchTenant(u, v)
        \/ \E r \in {"member", "admin"} :
            CreateUser(u, v, r) \/ ChangeRole(u, v, r)
        \/ Activate(u, v)
        \/ Deactivate(u, v)
    \/ \E d \in Docs :
        \/ \E v \in Users :
            \/ \E level \in Levels : GrantAccess(u, d, v, level)
            \/ RevokeAccess(u, d, v)
        \/ DeleteDocument(u, d)
    \/ \E c \in Collections :
        \/ CreateCollection(u, c)
        \/ DeleteCollection(u, c)
        \/ \E d \in Docs : AssignDocument(u, c, d)

WorkerStep(d) ==
    \/ StartIngest(d)
    \/ WriteIndex(d)
    \/ \E state \in {"ready", "error", "queued"} : EndIngest(d, state)

=============================================================================
