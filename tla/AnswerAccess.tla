---------------------------- MODULE AnswerAccess ----------------------------
(***************************************************************************)
(* What a user is told: POST /chat with the semantic cache                 *)
(* (api/routers/chat.py, retrieval/semantic_cache.py), the scope of a      *)
(* WebSocket stream, and the listings, over the users, permissions and     *)
(* documents of DocumentAccess.                                            *)
(*                                                                         *)
(* The cache is cleared by uploads alone.  Permissions, roles and          *)
(* deletions leave its entries as they are, so a cached answer is as old   *)
(* as the permissions it was computed with.                                *)
(***************************************************************************)
EXTENDS DocumentAccess

CONSTANTS
    TTL,            \* CACHE_TTL_SECONDS, in ticks
    MaxEntries      \* bound: entries in the cache; further writes fail

ASSUME CacheAssumption == TTL \in Nat /\ MaxEntries \in Nat

Ages == 0..TTL + 1          \* capped one above the TTL
Older(n) == IF n > TTL THEN n ELSE n + 1
VARIABLES
    cache,      \* points of the cache collection
    request,    \* the request that awaits (an upload, a stream) or that was
                \* answered by the last step; one at a time
    lastSeen    \* history: ticks since a user was permitted a document, kept
                \* while an answer of his is in the cache or on its way

vars == <<accessVars, cache, request, lastSeen>>

\* An answer cites several documents; what is said of it is said of each, so
\* an entry and a reply name one.
Entries == [tenant : Tenants, scope : Users, cites : Docs, age : Ages]
Replies == {"chat", "cache", "list", "streamed"}
Requests ==
    [user : Users, kind : {"upload"}] \cup
    [user : Users, kind : {"stream"} \cup Replies, cites : Docs, age : Ages]
NoRequest == [user |-> Nobody, kind |-> "none"]
Answered == request.kind \in Replies
Rest == IF Answered THEN NoRequest ELSE request

\* The reference: an active member reads what lists him or lists nobody, an
\* active admin what his tenant has, chunks left behind by a deletion too.
Permitted(u, d) ==
    /\ u \in active /\ tenant[d] = TenantOf[u]
    /\ IF role[u] = "admin" THEN Live(d) \/ d \in indexed
       ELSE Live(d) /\ (acl[d][u] # "none" \/ acl[d] = NoRows)

Init ==
    /\ AccessInit
    /\ cache = {} /\ request = NoRequest
    /\ lastSeen = [u \in Users |-> [d \in Docs |->
                    IF Permitted(u, d) THEN 0 ELSE TTL + 1]]

-----------------------------------------------------------------------------
(* The cache.  Its failures are swallowed: a get may always miss, a put and *)
(* an invalidation may always do nothing, as in a process whose cache was   *)
(* disabled by its first use.                                               *)

CacheGet_AnyUser(u, e) ==
    /\ e \in cache /\ e.tenant = TenantOf[u]
    /\ e.age <= TTL

\* SemanticCache.get: the nearest point of the tenant and the scope, unless it
\* has expired.  Similar questions share a point, so any may be the nearest.
CacheGet(u, e) ==
    /\ e \in cache /\ e.tenant = TenantOf[u] /\ e.scope = u
    /\ e.age <= TTL

CachePut(u, d) ==
    \/ cache' = cache
    \/ /\ cache' = cache \cup
            {[tenant |-> TenantOf[u], scope |-> u, cites |-> d, age |-> 0]}
       /\ Cardinality(cache') <= MaxEntries

CacheInvalidate(t) == cache' \in {cache, {e \in cache : e.tenant # t}}

-----------------------------------------------------------------------------
(* Answers.                                                                 *)

\* accessible_doc_ids: None, no filter, for an admin.
Scope(u) == IF role[u] = "admin" THEN Docs ELSE Accessible(u)

\* HybridRetriever.retrieve: hits of the tenant's index, filtered by the scope.
Retrievable(u, scope) == {d \in indexed : tenant[d] = TenantOf[u]} \cap scope

Reply(u, kind, d, age) ==
    request' = [user |-> u, kind |-> kind, cites |-> d, age |-> age]

Idle(u) == Authenticated(u) /\ Rest = NoRequest

AnswerFromCache(u) ==
    /\ Idle(u)
    /\ \E e \in cache : CacheGet(u, e) /\ Reply(u, "cache", e.cites, e.age)
    /\ UNCHANGED <<accessVars, cache>>

\* A miss: retrieve, generate, cite, put.
AnswerFresh(u) ==
    /\ Idle(u)
    /\ \E d \in Retrievable(u, Scope(u)) :
            Reply(u, "chat", d, 0) /\ CachePut(u, d)
    /\ UNCHANGED accessVars

\* chat_stream and the retrieval of stream_rag_response are one step of the
\* loop; the tokens and the citations come later, and nothing looks at the user
\* or the permissions again.
BeginStream(u) ==
    /\ Idle(u)
    /\ \E d \in Retrievable(u, Scope(u)) : Reply(u, "stream", d, 0)
    /\ UNCHANGED <<accessVars, cache>>

AnswerStream ==
    /\ request.kind = "stream"
    /\ request' \in {[request EXCEPT !.kind = "streamed"], NoRequest}
    /\ UNCHANGED <<accessVars, cache>>

List(u) ==
    /\ Idle(u)
    /\ \E d \in Listed(u) : Reply(u, "list", d, 0)
    /\ UNCHANGED <<accessVars, cache>>

-----------------------------------------------------------------------------
(* Uploads, and the changes beside the answers.                             *)

\* upload_document up to `await file.read`: other requests run meanwhile.
BeginUpload(u) ==
    /\ Idle(u)
    /\ request' = [user |-> u, kind |-> "upload"]
    /\ UNCHANGED <<accessVars, cache>>

\* The cache is cleared when the upload starts its work, not when it is done.
EndUpload ==
    /\ request.kind = "upload"
    /\ \E d \in Docs, c \in collections \cup {NoCollection} :
            AcceptUpload(request.user, d, c) \/ StrandUpload(request.user, d, c)
    /\ CacheInvalidate(TenantOf[request.user])
    /\ request' = NoRequest

\* Rejected, or failed and rolled back: the row is gone with its permissions.
AbandonUpload ==
    /\ request.kind = "upload"
    /\ CacheInvalidate(TenantOf[request.user])
    /\ request' = NoRequest
    /\ UNCHANGED accessVars

OtherStep ==
    /\ (\E u \in Users : UserStep(u)) \/ (\E d \in Docs : WorkerStep(d))
    /\ request' = Rest /\ UNCHANGED cache

\* A new process: the request and the job in hand are lost; the cache is found,
\* or made anew for another vector size.
Restart ==
    /\ request # NoRequest \/ working # {} \/ cache # {}
    /\ request' = NoRequest
    /\ working' = {}
    /\ cache' \in {cache, {}}
    /\ UNCHANGED <<people, rows, indexed, rights, shelf, edits>>

Tick ==
    /\ \/ request.kind = "stream" /\ request.age <= TTL
       \/ \E e \in cache : e.age <= TTL
    /\ cache' = {[e EXCEPT !.age = Older(@)] : e \in cache}
    /\ request' = IF request.kind = "stream"
                    THEN [request EXCEPT !.age = Older(@)] ELSE Rest
    /\ UNCHANGED accessVars

\* One has an answer to come as long as it is in the cache or on its way.
Awaits(u) ==
    request.user = u \/ \E e \in cache : e.scope = u /\ e.age <= TTL

Remember(Age(_)) ==
    lastSeen' = [u \in Users |-> [d \in Docs |->
                    IF Permitted(u, d)' THEN 0
                    ELSE IF Awaits(u)' THEN Age(lastSeen[u][d]) ELSE TTL + 1]]

Step ==
    \/ \E u \in Users :
        \/ AnswerFromCache(u) \/ AnswerFresh(u) \/ List(u)
        \/ BeginStream(u) \/ BeginUpload(u)
    \/ AnswerStream \/ EndUpload \/ AbandonUpload
    \/ OtherStep
    \/ Restart

Next ==
    \/ Step /\ Remember(LAMBDA n : n)
    \/ Tick /\ Remember(Older)

Spec == Init /\ [][Next]_vars

-----------------------------------------------------------------------------
(* Properties.                                                              *)

TypeOK ==
    /\ role \in [Users -> {"none", "member", "admin"}]
    /\ active \subseteq Users /\ tokens \subseteq Users
    /\ status \in [Docs -> {"absent", "queued", "stranded", "ready",
                           "error", "gone"}]
    /\ tenant \in [Docs -> Tenants \cup {NoTenant}]
    /\ acl \in [Docs -> [Users -> Levels \cup {"none"}]]
    /\ collections \subseteq Collections
    /\ assigned \in [Docs -> Collections \cup {NoCollection}]
    /\ working \subseteq Docs /\ indexed \subseteq Docs /\ opened \subseteq Docs
    /\ beside \in [Docs -> SUBSET Docs]
    /\ edits \in 0..MaxEdits
    /\ cache \subseteq Entries
    /\ request \in Requests \cup {NoRequest}
    /\ lastSeen \in [Users -> [Docs -> Ages]]

\* What a user is told was permitted to him at most as long ago as the answer
\* is old: now for a listing or a fresh answer, since its start for a stream,
\* and never longer than the TTL for a cached answer, whatever was revoked,
\* deleted, demoted or restarted meanwhile.  Only streams answer deactivated
\* users.
AnswersWerePermitted ==
    Answered =>
        /\ tenant[request.cites] = TenantOf[request.user]
        /\ lastSeen[request.user][request.cites] <= request.age
        /\ request.kind = "cache" => request.age <= TTL
        /\ request.kind # "streamed" => request.user \in active

\* A searchable document that the whole tenant may read for want of permissions
\* lost its last one to a revocation, or is older than permissions and had
\* nobody to give one to: an upload that failed half-way never gets there.
OpenMeansRevoked ==
    \A d \in indexed :
        Live(d) /\ acl[d] = NoRows =>
            d \in opened \/ (d \in Legacy /\ Backfill = NoRows)

\* Two ready copies of a file in a tenant were uploaded while one was still
\* being ingested: the check for duplicates looks at ready documents only.
CopiesOverlapped ==
    \A d, e \in Docs :
        d # e /\ status[d] = "ready" /\ status[e] = "ready" /\ SameFile(d, e)
            => d \in beside[e] \/ e \in beside[d]

\* Nothing is in a collection that was deleted or belongs to another tenant;
\* a document of a deleted collection remains (routers/collections.py:168).
CollectionsStayInTenant ==
    \A d \in Docs :
        assigned[d] # NoCollection =>
            /\ Live(d) /\ assigned[d] \in collections
            /\ HomeOf[assigned[d]] = tenant[d]

\* What the stored rows keep through overlapping uploads, deletions, crashes and
\* concurrent administration: their types, and the two relations above.
AccessInv == TypeOK /\ CopiesOverlapped /\ CollectionsStayInTenant

\* A revocation gives a document to somebody only when it takes the very last
\* permission (rbac.py:30, documents without rows stay visible to the tenant);
\* otherwise one comes to see an existing document by a permission of one's
\* own or a change of one's user row, and an admin by chunks left behind.
SightWidensKnowingly ==
    [][\A u \in Users, d \in Docs :
        ~Permitted(u, d) /\ Permitted(u, d)' /\ status[d] # "absent" =>
            \/ role'[u] # role[u] \/ u \notin active
            \/ acl'[d][u] # acl[d][u] /\ acl'[d][u] # "none"
            \/ acl'[d] = NoRows /\ Cardinality({v \in Users :
                                                acl[d][v] # "none"}) = 1
            \/ role[u] = "admin" /\ d \in indexed' \ indexed]_vars

ActiveAdmins(t) ==
    {u \in Users : TenantOf[u] = t /\ role[u] = "admin" /\ u \in active}

\* A tenant loses its last active admin only through that admin himself: no
\* member and no admin of another tenant can lock it out.
LastAdminLeavesHimself ==
    [][\A t \in Tenants :
        ActiveAdmins(t) # {} /\ ActiveAdmins(t)' = {} =>
            /\ Cardinality(ActiveAdmins(t)) = 1
            /\ ActiveAdmins(t) \subseteq tokens]_vars
=============================================================================
