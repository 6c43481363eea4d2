------------------------- MODULE AnswerAccessProofs -------------------------
(***************************************************************************)
(* What users may see and are told, for every number of users, tenants,    *)
(* documents and cached answers, and for every TTL.                        *)
(***************************************************************************)
EXTENDS AnswerAccess, FiniteSetTheorems, TLAPS

\* The types of the rows, and those of the answers.
RowTypes ==
    /\ role \in [Users -> {"none", "member", "admin"}]
    /\ active \subseteq Users /\ tokens \subseteq Users
    /\ status \in [Docs -> {"absent", "queued", "stranded", "ready",
                           "error", "gone"}]
    /\ tenant \in [Docs -> Tenants \cup {NoTenant}]
    /\ acl \in [Docs -> [Users -> Levels \cup {"none"}]]
    /\ collections \subseteq Collections
    /\ assigned \in [Docs -> Collections \cup {NoCollection}]
    /\ working \subseteq Docs /\ indexed \subseteq Docs /\ opened \subseteq Docs
    /\ beside \in [Docs -> SUBSET Docs]
    /\ edits \in 0..MaxEdits

AnswerTypes ==
    /\ cache \subseteq Entries
    /\ request \in Requests \cup {NoRequest}
    /\ lastSeen \in [Users -> [Docs -> Ages]]

\* A document gets its tenant with its row, and keeps it.
TenantComesWithTheRow ==
    \A d \in Docs : status[d] = "absent" => tenant[d] = NoTenant

\* Only an upload that got its permission and its job is ever ingested.
IngestedWereAccepted ==
    \A d \in working \cup indexed : status[d] \notin {"absent", "stranded"}

\* Such a document has a permission until somebody revokes the last one.
AcceptedHavePermissions ==
    \A d \in Docs :
        Live(d) /\ status[d] # "stranded" /\ acl[d] = NoRows =>
            d \in opened \/ (d \in Legacy /\ Backfill = NoRows)

\* Of two rows with the same content, one was inserted beside the other: while
\* that one was not ready.
CopiesMet ==
    \A d, e \in Docs :
        d # e /\ Live(d) /\ Live(e) /\ SameFile(d, e)
            => d \in beside[e] \/ e \in beside[d]

RowInv ==
    /\ RowTypes
    /\ TenantComesWithTheRow
    /\ IngestedWereAccepted
    /\ AcceptedHavePermissions
    /\ CopiesMet
    /\ CollectionsStayInTenant

\* An answer that may still be given, from the cache or at the end of a stream,
\* was permitted when it was as young as it is old.
CachedWerePermitted ==
    \A e \in cache :
        e.age <= TTL =>
            /\ e.tenant = TenantOf[e.scope] /\ tenant[e.cites] = e.tenant
            /\ lastSeen[e.scope][e.cites] <= e.age

StreamWasPermitted ==
    request.kind = "stream" =>
        /\ tenant[request.cites] = TenantOf[request.user]
        /\ lastSeen[request.user][request.cites] <= request.age

\* The inductive invariant.
AnswerInv ==
    /\ RowInv
    /\ AnswerTypes
    /\ CachedWerePermitted
    /\ StreamWasPermitted
    /\ AnswersWerePermitted

-----------------------------------------------------------------------------
\* The rows.

\* What a step of the whole system does to users, documents and permissions.
RowStep ==
    \/ \E u \in Users : UserStep(u)
    \/ \E d \in Docs : WorkerStep(d)
    \/ \E u \in Users, d \in Docs, c \in collections \cup {NoCollection} :
            AcceptUpload(u, d, c) \/ StrandUpload(u, d, c)
    \/ /\ working' = {}
       /\ UNCHANGED <<people, rows, indexed, rights, shelf, edits>>
    \/ UNCHANGED accessVars

\* An upload is awaited by a user.
LEMMA UploadsHaveUsers ==
    ASSUME AnswerTypes, request.kind = "upload"
    PROVE  request.user \in Users
BY DEF AnswerTypes, Requests, NoRequest, Replies

\* Every step of AnswerAccess is one of these.
LEMMA StepsOfRows ==
    ASSUME AnswerTypes, [Next]_vars
    PROVE  RowStep
<1>1. CASE EndUpload
  BY <1>1, UploadsHaveUsers DEF EndUpload, RowStep
<1>2. CASE UNCHANGED accessVars
  BY <1>2 DEF RowStep
<1>3. CASE OtherStep \/ Restart
  BY <1>3 DEF OtherStep, Restart, RowStep
<1>4. QED
  BY <1>1, <1>2, <1>3
     DEF Next, Step, Tick, AnswerFromCache, AnswerFresh, List, BeginStream,
         BeginUpload, AnswerStream, AbandonUpload, vars

\* An insertion concerns an absent document, which gets a live row.
LEMMA InsertionsFillAbsentRows ==
    ASSUME RowTypes, NEW u \in Users, NEW d \in Docs,
           NEW c \in collections \cup {NoCollection},
           AcceptUpload(u, d, c) \/ StrandUpload(u, d, c)
    PROVE  /\ MayInsert(u, d, c)
           /\ \E state \in {"queued", "stranded"}, owner \in {"none", "owner"} :
                /\ InsertDocument(u, d, c, state, owner)
                /\ status' = [status EXCEPT ![d] = state]
                /\ acl' = [acl EXCEPT ![d][u] = owner]
                /\ state = "queued" => owner = "owner"
           /\ tenant' = [tenant EXCEPT ![d] = TenantOf[u]]
           /\ assigned' = [assigned EXCEPT ![d] = c]
           /\ UNCHANGED <<role, active, tokens, collections, working, indexed,
                          opened>>
BY DEF AcceptUpload, StrandUpload, InsertDocument, people, chunks

\* No step leaves the types of the rows.
LEMMA RowTypesPreserved ==
    ASSUME RowTypes, RowStep
    PROVE  RowTypes'
<1> USE AccessAssumption, NoneAssumption
<1>1. ASSUME NEW u \in Users, UserStep(u)
      PROVE  RowTypes'
  <2> USE DEF RowTypes, people, library, rows, chunks, rights, shelf, Edit
  <2>1. CASE Login(u) \/ \E v \in Users : SwitchTenant(u, v)
    BY <2>1 DEF Login, SwitchTenant, IssueToken
  <2>2. CASE \E v \in Users, r \in {"member", "admin"} :
                CreateUser(u, v, r) \/ ChangeRole(u, v, r)
    BY <2>2 DEF CreateUser, ChangeRole
  <2>3. CASE \E v \in Users : Activate(u, v) \/ Deactivate(u, v)
    BY <2>3 DEF Activate, Deactivate
  <2>4. CASE \E d \in Docs, v \in Users, level \in Levels :
                GrantAccess(u, d, v, level)
    BY <2>4 DEF GrantAccess
  <2>5. CASE \E d \in Docs, v \in Users : RevokeAccess(u, d, v)
    BY <2>5 DEF RevokeAccess
  <2>6. CASE \E d \in Docs : DeleteDocument(u, d)
    BY <2>6 DEF DeleteDocument, NoRows
  <2>7. CASE \E c \in Collections : CreateCollection(u, c)
                                 \/ DeleteCollection(u, c)
    BY <2>7 DEF CreateCollection, DeleteCollection
  <2>8. CASE \E c \in Collections, d \in Docs : AssignDocument(u, c, d)
    BY <2>8 DEF AssignDocument
  <2>9. QED
    BY <1>1, <2>1, <2>2, <2>3, <2>4, <2>5, <2>6, <2>7, <2>8 DEF UserStep
<1>2. ASSUME NEW d \in Docs, WorkerStep(d)
      PROVE  RowTypes'
  <2> USE DEF RowTypes, people, rows, rights, shelf
  <2>1. CASE StartIngest(d)
    BY <2>1 DEF StartIngest
  <2>2. CASE WriteIndex(d)
    BY <2>2 DEF WriteIndex
  <2>3. CASE \E state \in {"ready", "error", "queued"} : EndIngest(d, state)
    BY <2>3 DEF EndIngest
  <2>4. QED
    BY <1>2, <2>1, <2>2, <2>3 DEF WorkerStep
<1>3. ASSUME NEW u \in Users, NEW d \in Docs,
             NEW c \in collections \cup {NoCollection},
             AcceptUpload(u, d, c) \/ StrandUpload(u, d, c)
      PROVE  RowTypes'
  <2>1. PICK state \in {"queued", "stranded"}, owner \in {"none", "owner"} :
             InsertDocument(u, d, c, state, owner)
    BY <1>3 DEF AcceptUpload, StrandUpload
  <2>2. edits' \in 0..MaxEdits
    <3>1. MaxEdits \in 0..MaxEdits
      OBVIOUS
    <3>2. QED
      BY <2>1, <3>1 DEF InsertDocument, RowTypes
  <2>3. /\ status' \in [Docs -> {"absent", "queued", "stranded", "ready",
                                "error", "gone"}]
        /\ tenant' \in [Docs -> Tenants \cup {NoTenant}]
        /\ acl' \in [Docs -> [Users -> Levels \cup {"none"}]]
        /\ assigned' \in [Docs -> Collections \cup {NoCollection}]
    BY <2>1 DEF InsertDocument, RowTypes, Levels
  <2>4. beside' \in [Docs -> SUBSET Docs]
    BY <2>1 DEF InsertDocument, RowTypes
  <2>5. QED
    BY <2>1, <2>2, <2>3, <2>4
       DEF InsertDocument, RowTypes, people, chunks
<1>4. QED
  BY <1>1, <1>2, <1>3
     DEF RowStep, RowTypes, people, rows, rights, shelf, accessVars, library,
         chunks

\* What a step may do to the row of one document.
LEMMA TenantKept ==
    ASSUME RowTypes, TenantComesWithTheRow, RowStep
    PROVE  /\ TenantComesWithTheRow'
           /\ \A d \in Docs : tenant[d] # NoTenant => tenant'[d] = tenant[d]
<1>1. ASSUME NEW u \in Users, NEW d \in Docs,
             NEW c \in collections \cup {NoCollection},
             AcceptUpload(u, d, c) \/ StrandUpload(u, d, c)
      PROVE  /\ TenantComesWithTheRow'
             /\ \A e \in Docs : tenant[e] # NoTenant => tenant'[e] = tenant[e]
  BY <1>1, InsertionsFillAbsentRows
     DEF MayInsert, RowTypes, TenantComesWithTheRow
<1>2. CASE /\ tenant' = tenant
           /\ \A d \in Docs : status'[d] = "absent" => status[d] = "absent"
  BY <1>2 DEF TenantComesWithTheRow
<1>3. ASSUME NEW u \in Users, UserStep(u)
      PROVE  /\ tenant' = tenant
             /\ \A d \in Docs : status'[d] = "absent" => status[d] = "absent"
  BY <1>3 DEF UserStep, Login, SwitchTenant, CreateUser, ChangeRole, Activate,
     Deactivate, GrantAccess, RevokeAccess, DeleteDocument, CreateCollection,
     DeleteCollection, AssignDocument, RowTypes, people, library, rows, chunks,
     rights, shelf
<1>4. ASSUME NEW d \in Docs, WorkerStep(d)
      PROVE  /\ tenant' = tenant
             /\ \A e \in Docs : status'[e] = "absent" => status[e] = "absent"
  BY <1>4 DEF WorkerStep, StartIngest, WriteIndex, EndIngest, RowTypes, rows
<1>5. QED
  BY <1>1, <1>2, <1>3, <1>4 DEF RowStep, accessVars, library, rows

\* A user's request ends documents but makes none; a permission goes last only
\* in a recorded revocation.
LEMMA UserStepsKeep ==
    ASSUME RowTypes, NEW u \in Users, UserStep(u)
    PROVE  /\ UNCHANGED <<tenant, beside, working>>
           /\ indexed' \subseteq indexed /\ opened \subseteq opened'
           /\ \A d \in Docs : status'[d] \in {status[d], "gone"}
           /\ \A d \in Docs : Live(d)' /\ acl'[d] = NoRows =>
                                acl[d] = NoRows \/ d \in opened'
<1> USE DEF people, library, rows, chunks, rights, shelf
<1>1. CASE acl' = acl /\ opened' = opened /\ status' = status
           /\ UNCHANGED <<tenant, beside, working, indexed>>
  BY <1>1
<1>2. CASE \E d \in Docs, v \in Users, level \in Levels :
              GrantAccess(u, d, v, level)
  <2>1. PICK d \in Docs, v \in Users, level \in Levels :
             GrantAccess(u, d, v, level)
    BY <1>2
  <2>2. level # "none" /\ NoRows[v] = "none"
    BY DEF Levels, NoRows
  <2>3. acl'[d][v] = level /\ \A e \in Docs : e # d => acl'[e] = acl[e]
    BY <2>1 DEF GrantAccess, RowTypes
  <2>4. QED
    BY <2>1, <2>2, <2>3 DEF GrantAccess, Live
<1>3. CASE \E d \in Docs, v \in Users : RevokeAccess(u, d, v)
  BY <1>3 DEF RevokeAccess, RowTypes, Live
<1>4. CASE \E d \in Docs : DeleteDocument(u, d)
  BY <1>4 DEF DeleteDocument, RowTypes, Live
<1>5. QED
  BY <1>1, <1>2, <1>3, <1>4
     DEF UserStep, Login, SwitchTenant, CreateUser, ChangeRole, Activate,
         Deactivate, CreateCollection, DeleteCollection, AssignDocument

\* The worker ingests what was accepted, and revives nothing.
LEMMA WorkerStepsKeep ==
    ASSUME RowTypes, NEW d \in Docs, WorkerStep(d)
    PROVE  /\ UNCHANGED <<tenant, beside, acl, opened, assigned, collections>>
           /\ UNCHANGED <<role, active, tokens>>
           /\ \A e \in working' \cup indexed' :
                e \in working \cup indexed \/ status[e] = "queued"
           /\ \A e \in Docs :
                \/ status'[e] = status[e]
                \/ /\ e \in working /\ Live(e)
                   /\ status'[e] \in {"ready", "error", "queued"}
BY DEF WorkerStep, StartIngest, WriteIndex, EndIngest, RowTypes, rows, rights,
   shelf, people

\* What is ingested was accepted.
LEMMA IngestedPreserved ==
    ASSUME RowTypes, IngestedWereAccepted, RowStep
    PROVE  IngestedWereAccepted'
<1> USE DEF IngestedWereAccepted
<1>1. ASSUME NEW u \in Users, UserStep(u) PROVE IngestedWereAccepted'
  BY <1>1, UserStepsKeep DEF RowTypes
<1>2. ASSUME NEW d \in Docs, WorkerStep(d) PROVE IngestedWereAccepted'
  <2>1. \A e \in working' \cup indexed' : e \in Docs
    BY <1>2, RowTypesPreserved DEF RowStep, RowTypes
  <2>2. QED
    BY <1>2, <2>1, WorkerStepsKeep
<1>3. ASSUME NEW u \in Users, NEW d \in Docs,
             NEW c \in collections \cup {NoCollection},
             AcceptUpload(u, d, c) \/ StrandUpload(u, d, c)
      PROVE  IngestedWereAccepted'
  BY <1>3, InsertionsFillAbsentRows, SMTT(30) DEF MayInsert, RowTypes
<1>4. QED
  BY <1>1, <1>2, <1>3 DEF RowStep, accessVars, library, rows, chunks

\* What was accepted has permissions until the last one is revoked.
LEMMA PermissionsPreserved ==
    ASSUME RowTypes, IngestedWereAccepted, AcceptedHavePermissions, RowStep
    PROVE  AcceptedHavePermissions'
<1> USE DEF AcceptedHavePermissions
<1>1. ASSUME NEW u \in Users, UserStep(u) PROVE AcceptedHavePermissions'
  BY <1>1, UserStepsKeep DEF RowTypes, Live
<1>2. ASSUME NEW d \in Docs, WorkerStep(d) PROVE AcceptedHavePermissions'
  BY <1>2, WorkerStepsKeep DEF RowTypes, Live, IngestedWereAccepted
<1>3. ASSUME NEW u \in Users, NEW d \in Docs,
             NEW c \in collections \cup {NoCollection},
             AcceptUpload(u, d, c) \/ StrandUpload(u, d, c)
      PROVE  AcceptedHavePermissions'
  <2>1. PICK state \in {"queued", "stranded"}, owner \in {"none", "owner"} :
           /\ status' = [status EXCEPT ![d] = state]
           /\ acl' = [acl EXCEPT ![d][u] = owner]
           /\ state = "queued" => owner = "owner"
    BY <1>3, InsertionsFillAbsentRows
  <2>2. opened' = opened
    BY <1>3, InsertionsFillAbsentRows
  <2>3. status'[d] # "stranded" => acl'[d][u] = "owner"
    BY <2>1 DEF RowTypes
  <2>4. NoRows[u] = "none"
    BY DEF NoRows
  <2>5. \A e \in Docs : e # d => status'[e] = status[e] /\ acl'[e] = acl[e]
    BY <2>1 DEF RowTypes
  <2>6. QED
    BY <2>2, <2>3, <2>4, <2>5 DEF Live
<1>4. QED
  BY <1>1, <1>2, <1>3 DEF RowStep, accessVars, library, rows, rights, Live

\* Two live rows with the same content have overlapped.
LEMMA CopiesPreserved ==
    ASSUME RowTypes, CopiesMet, RowStep
    PROVE  CopiesMet'
<1> USE DEF CopiesMet, SameFile
<1>1. ASSUME NEW u \in Users, UserStep(u) PROVE CopiesMet'
  BY <1>1, UserStepsKeep DEF RowTypes, Live
<1>2. ASSUME NEW d \in Docs, WorkerStep(d) PROVE CopiesMet'
  BY <1>2, WorkerStepsKeep DEF RowTypes, Live
<1>3. ASSUME NEW u \in Users, NEW d \in Docs,
             NEW c \in collections \cup {NoCollection},
             AcceptUpload(u, d, c) \/ StrandUpload(u, d, c)
      PROVE  CopiesMet'
  <2>1. /\ tenant' = [tenant EXCEPT ![d] = TenantOf[u]]
        /\ \A e \in Docs : e # d => status'[e] = status[e]
        /\ MayInsert(u, d, c)
    BY <1>3, InsertionsFillAbsentRows DEF RowTypes
  <2>2. beside' = [beside EXCEPT ![d] =
                    {e \in Docs : status[e] \in {"queued", "stranded", "error"}
                                  /\ HashOf[d] = HashOf[e]
                                  /\ tenant'[d] = tenant'[e]}]
    BY <1>3 DEF AcceptUpload, StrandUpload, InsertDocument
  <2>3. \A e \in Docs : e # d /\ Live(e)' /\ HashOf[d] = HashOf[e]
                        /\ tenant'[d] = tenant'[e] => e \in beside'[d]
    BY <2>1, <2>2 DEF RowTypes, Live, MayInsert
  <2>4. \A e \in Docs : e # d =>
            /\ beside'[e] = beside[e] /\ tenant'[e] = tenant[e]
            /\ Live(e)' => Live(e)
    BY <2>1, <2>2 DEF RowTypes, Live
  <2>5. QED
    BY <2>3, <2>4
<1>4. QED
  BY <1>1, <1>2, <1>3 DEF RowStep, accessVars, library, rows, Live

\* A document is in a collection of its tenant, or in none.
LEMMA CollectionsPreserved ==
    ASSUME RowTypes, CollectionsStayInTenant, RowStep
    PROVE  CollectionsStayInTenant'
<1> USE NoneAssumption DEF CollectionsStayInTenant
<1>1. ASSUME NEW u \in Users, UserStep(u) PROVE CollectionsStayInTenant'
  <2> USE DEF people, library, rows, chunks, rights, shelf, Live
  <2>1. CASE \E d \in Docs : DeleteDocument(u, d)
    BY <2>1 DEF DeleteDocument, RowTypes
  <2>2. CASE \E c \in Collections : CreateCollection(u, c)
                                 \/ DeleteCollection(u, c)
    BY <2>2 DEF CreateCollection, DeleteCollection, RowTypes
  <2>3. CASE \E c \in Collections, d \in Docs : AssignDocument(u, c, d)
    BY <2>3 DEF AssignDocument, RowTypes
  <2>4. CASE UNCHANGED <<status, tenant, shelf>>
    BY <2>4
  <2>5. QED
    BY <1>1, <2>1, <2>2, <2>3, <2>4
       DEF UserStep, Login, SwitchTenant, CreateUser, ChangeRole, Activate,
           Deactivate, GrantAccess, RevokeAccess
<1>2. ASSUME NEW d \in Docs, WorkerStep(d) PROVE CollectionsStayInTenant'
  BY <1>2, WorkerStepsKeep DEF RowTypes, Live
<1>3. ASSUME NEW u \in Users, NEW d \in Docs,
             NEW c \in collections \cup {NoCollection},
             AcceptUpload(u, d, c) \/ StrandUpload(u, d, c)
      PROVE  CollectionsStayInTenant'
  BY <1>3, InsertionsFillAbsentRows DEF MayInsert, RowTypes, Live
<1>4. QED
  BY <1>1, <1>2, <1>3 DEF RowStep, accessVars, library, rows, shelf, Live

\* So the rows keep their invariant.
LEMMA RowsPreserved ==
    ASSUME RowInv, RowStep
    PROVE  RowInv'
BY RowTypesPreserved, TenantKept, IngestedPreserved, PermissionsPreserved,
   CopiesPreserved, CollectionsPreserved DEF RowInv

-----------------------------------------------------------------------------
\* The answers.

\* What a request finds or lists is permitted to its user.
LEMMA ScopeIsPermitted ==
    ASSUME RowTypes, NEW u \in Users, Authenticated(u),
           NEW d \in Retrievable(u, Scope(u)) \cup Listed(u)
    PROVE  d \in Docs /\ u \in active /\ Permitted(u, d)
<1>1. d \in Docs
  BY DEF Retrievable, RowTypes, Listed, Accessible
<1>2. ~HasAcl(d) => acl[d] = NoRows
  BY <1>1 DEF HasAcl, NoRows, RowTypes
<1>3. HasLevel(u, d, "viewer") => acl[d][u] # "none"
  BY DEF HasLevel, Rank
<1>4. QED
  BY <1>1, <1>2, <1>3
     DEF Retrievable, Scope, Listed, Accessible, Authenticated, Permitted

\* The ways in which a step concerns the requests and the cache.
NothingAnswered ==
    /\ cache' \subseteq cache
    /\ request' \in {request, NoRequest} /\ ~Answered'

AnsweredFresh(u, d) ==
    /\ Permitted(u, d) /\ u \in active /\ UNCHANGED accessVars
    /\ \E kind \in {"chat", "list", "stream"} : Reply(u, kind, d, 0)
    /\ cache' \subseteq cache \cup
          {[tenant |-> TenantOf[u], scope |-> u, cites |-> d, age |-> 0]}

AnsweredFromCache(u, e) ==
    /\ CacheGet(u, e) /\ Reply(u, "cache", e.cites, e.age)
    /\ u \in active /\ UNCHANGED <<accessVars, cache>>

StreamAnswered ==
    /\ request.kind = "stream"
    /\ request' = [request EXCEPT !.kind = "streamed"]
    /\ UNCHANGED <<accessVars, cache>>

UploadBegun(u) ==
    /\ request' = [user |-> u, kind |-> "upload"]
    /\ UNCHANGED <<accessVars, cache>>

\* Every step but the clock's is one of them.
LEMMA StepsOfAnswers ==
    ASSUME RowTypes, AnswerTypes, Step
    PROVE  \/ NothingAnswered
           \/ \E u \in Users, d \in Docs : AnsweredFresh(u, d)
           \/ \E u \in Users, e \in cache : AnsweredFromCache(u, e)
           \/ StreamAnswered
           \/ \E u \in Users : UploadBegun(u)
<1>r. /\ ~(NoRequest.kind \in Replies)
      /\ (Rest = request /\ ~Answered) \/ Rest = NoRequest
  BY DEF NoRequest, Replies, Rest
<1>1. ASSUME NEW u \in Users, AnswerFresh(u) \/ List(u) \/ BeginStream(u)
      PROVE  \E d \in Docs : AnsweredFresh(u, d)
  <2>1. PICK d \in Retrievable(u, Scope(u)) \cup Listed(u),
             kind \in {"chat", "list", "stream"} :
                /\ Idle(u) /\ Reply(u, kind, d, 0) /\ UNCHANGED accessVars
                /\ cache' = cache \/ CachePut(u, d)
    BY <1>1 DEF AnswerFresh, List, BeginStream
  <2>2. d \in Docs /\ u \in active /\ Permitted(u, d)
    BY <2>1, ScopeIsPermitted DEF Idle
  <2>3. cache' \subseteq cache \cup
          {[tenant |-> TenantOf[u], scope |-> u, cites |-> d, age |-> 0]}
    BY <2>1 DEF CachePut
  <2>4. QED
    BY <2>1, <2>2, <2>3 DEF AnsweredFresh
<1>2. ASSUME NEW u \in Users, AnswerFromCache(u)
      PROVE  \E e \in cache : AnsweredFromCache(u, e)
  BY <1>2 DEF AnswerFromCache, AnsweredFromCache, Idle, Authenticated
<1>3. ASSUME NEW u \in Users, BeginUpload(u)
      PROVE  UploadBegun(u)
  BY <1>3 DEF BeginUpload, UploadBegun
<1>4. CASE AnswerStream
  BY <1>4, <1>r DEF AnswerStream, StreamAnswered, NothingAnswered, Answered
<1>5. CASE EndUpload \/ AbandonUpload \/ OtherStep \/ Restart
  BY <1>5, <1>r
     DEF EndUpload, AbandonUpload, OtherStep, Restart, CacheInvalidate,
         NothingAnswered, Answered
<1>6. QED
  BY <1>1, <1>2, <1>3, <1>4, <1>5 DEF Step

\* What is remembered when no time passes, and when it does.
LEMMA Remembered ==
    ASSUME AnswerTypes, Remember(LAMBDA n : n), NEW u \in Users, NEW d \in Docs
    PROVE  lastSeen'[u][d] =
             IF Permitted(u, d)' THEN 0
             ELSE IF Awaits(u)' THEN lastSeen[u][d] ELSE TTL + 1
BY DEF Remember, AnswerTypes

\* The same when time passes.
LEMMA RememberedLater ==
    ASSUME AnswerTypes, Remember(Older), NEW u \in Users, NEW d \in Docs
    PROVE  lastSeen'[u][d] =
             IF Permitted(u, d)' THEN 0
             ELSE IF Awaits(u)' THEN Older(lastSeen[u][d]) ELSE TTL + 1
BY DEF Remember, AnswerTypes

\* The youngest age and the oldest.
LEMMA AgeBounds == 0 \in Ages /\ TTL + 1 \in Ages
BY CacheAssumption DEF Ages

\* Ages grow together, up to their cap.
LEMMA OlderAges ==
    ASSUME NEW m \in Ages, NEW n \in Ages
    PROVE  /\ Older(n) \in Ages /\ 0 <= n
           /\ m <= n => Older(m) <= Older(n)
           /\ Older(n) <= TTL => n <= TTL
BY CacheAssumption DEF Older, Ages

\* Fresh answers and answers from the cache are well formed.
LEMMA RepliesTyped ==
    ASSUME NEW u \in Users, NEW d \in Docs, NEW age \in Ages,
           NEW kind \in {"stream"} \cup Replies, Reply(u, kind, d, age)
    PROVE  /\ request' \in Requests
           /\ request'.user = u /\ request'.kind = kind
           /\ request'.cites = d /\ request'.age = age
BY DEF Reply, Requests

\* So are new entries.
LEMMA EntriesTyped ==
    ASSUME NEW u \in Users, NEW d \in Docs
    PROVE  [tenant |-> TenantOf[u], scope |-> u, cites |-> d, age |-> 0]
              \in Entries
BY AccessAssumption, AgeBounds DEF Entries

\* A stream in progress, or its answer, names a user, a document and an age.
LEMMA StreamsTyped ==
    ASSUME AnswerTypes, request.kind \in {"stream"} \cup Replies
    PROVE  /\ request \in [user : Users, kind : {"stream"} \cup Replies,
                           cites : Docs, age : Ages]
           /\ request.user \in Users /\ request.cites \in Docs
           /\ request.age \in Ages
BY DEF AnswerTypes, Requests, NoRequest, Replies

\* The answer of a stream and an older stream differ from it in one field.
LEMMA StreamsMove ==
    ASSUME AnswerTypes, request.kind = "stream"
    PROVE  /\ LET r == [request EXCEPT !.kind = "streamed"]
              IN  /\ r \in Requests /\ r.user = request.user
                  /\ r.cites = request.cites /\ r.age = request.age
                  /\ r.kind = "streamed"
           /\ LET r == [request EXCEPT !.age = Older(@)]
              IN  /\ r \in Requests /\ r.user = request.user
                  /\ r.cites = request.cites /\ r.age = Older(request.age)
                  /\ r.kind = "stream"
<1>1. /\ request \in [user : Users, kind : {"stream"} \cup Replies,
                      cites : Docs, age : Ages]
      /\ Older(request.age) \in Ages
  BY StreamsTyped, OlderAges
<1>2. QED
  BY <1>1 DEF Requests, Replies

\* No step leaves the types of the answers.
LEMMA AnswerTypesPreserved ==
    ASSUME RowInv, AnswerTypes, [Next]_vars
    PROVE  AnswerTypes'
<1>1. CASE Step /\ Remember(LAMBDA n : n)
  <2>1. lastSeen' \in [Users -> [Docs -> Ages]]
    BY <1>1, AgeBounds DEF Remember, AnswerTypes
  <2>2. cache' \subseteq Entries /\ request' \in Requests \cup {NoRequest}
    <3>1. CASE NothingAnswered
      BY <3>1 DEF NothingAnswered, AnswerTypes
    <3>2. ASSUME NEW u \in Users, NEW d \in Docs, AnsweredFresh(u, d)
          PROVE  /\ cache' \subseteq Entries
                 /\ request' \in Requests \cup {NoRequest}
      BY <3>2, EntriesTyped, RepliesTyped, AgeBounds
         DEF AnsweredFresh, AnswerTypes, Replies
    <3>3. ASSUME NEW u \in Users, NEW e \in cache, AnsweredFromCache(u, e)
          PROVE  /\ cache' \subseteq Entries
                 /\ request' \in Requests \cup {NoRequest}
      <4>1. e.cites \in Docs /\ e.age \in Ages
        BY DEF AnswerTypes, Entries
      <4>2. QED
        BY <3>3, <4>1, RepliesTyped DEF AnsweredFromCache, AnswerTypes, Replies
    <3>4. CASE StreamAnswered
      BY <3>4, StreamsMove DEF StreamAnswered, AnswerTypes
    <3>5. ASSUME NEW u \in Users, UploadBegun(u)
          PROVE  /\ cache' \subseteq Entries
                 /\ request' \in Requests \cup {NoRequest}
      BY <3>5 DEF UploadBegun, AnswerTypes, Requests
    <3>6. QED
      BY <1>1, <3>1, <3>2, <3>3, <3>4, <3>5, StepsOfAnswers DEF RowInv
  <2>3. QED
    BY <2>1, <2>2 DEF AnswerTypes
<1>2. CASE Tick /\ Remember(Older)
  <2>1. lastSeen' \in [Users -> [Docs -> Ages]]
    BY <1>2, AgeBounds, OlderAges DEF Remember, AnswerTypes
  <2>2. \A e \in Entries : [e EXCEPT !.age = Older(@)] \in Entries
    BY OlderAges DEF Entries
  <2>3. cache' \subseteq Entries
    BY <1>2, <2>2 DEF Tick, AnswerTypes
  <2>4. request' \in Requests \cup {NoRequest}
    BY <1>2, StreamsMove DEF Tick, AnswerTypes, Rest
  <2>5. QED
    BY <2>1, <2>3, <2>4 DEF AnswerTypes
<1>3. CASE UNCHANGED vars
  BY <1>3 DEF vars, AnswerTypes
<1>4. QED
  BY <1>1, <1>2, <1>3 DEF Next

\* What was permitted a while ago is remembered as long as it matters.
LEMMA MemoryKept ==
    ASSUME AnswerTypes, Remember(LAMBDA n : n), NEW u \in Users, NEW d \in Docs,
           Awaits(u)', NEW age \in Ages, lastSeen[u][d] <= age
    PROVE  lastSeen'[u][d] <= age
<1>1. lastSeen[u][d] \in Ages /\ 0 <= age
  BY OlderAges DEF AnswerTypes
<1>2. QED
  BY <1>1, Remembered

\* Memory and answers grow old together.
LEMMA MemoryAges ==
    ASSUME AnswerTypes, Remember(Older), NEW u \in Users, NEW d \in Docs,
           Awaits(u)', NEW age \in Ages, lastSeen[u][d] <= age
    PROVE  lastSeen'[u][d] <= Older(age)
<1>1. lastSeen[u][d] \in Ages /\ Older(age) \in Ages /\ 0 <= Older(age)
  BY OlderAges DEF AnswerTypes
<1>2. Older(lastSeen[u][d]) <= Older(age)
  BY <1>1, OlderAges
<1>3. QED
  BY <1>1, <1>2, RememberedLater

\* What is permitted after the step was seen just now.
LEMMA MemoryFresh ==
    ASSUME AnswerTypes, Remember(LAMBDA n : n), NEW u \in Users, NEW d \in Docs,
           Permitted(u, d), UNCHANGED accessVars
    PROVE  lastSeen'[u][d] = 0 /\ tenant'[d] = TenantOf[u]
<1>1. Permitted(u, d)' /\ tenant'[d] = TenantOf[u]
  BY DEF Permitted, accessVars, people, library, rows, chunks, rights, Live
<1>2. QED
  BY <1>1, Remembered

\* A cached answer that has not expired was permitted when it was computed.
LEMMA CachePreserved ==
    ASSUME RowInv, AnswerTypes, CachedWerePermitted, [Next]_vars
    PROVE  CachedWerePermitted'
<1> SUFFICES ASSUME NEW e \in cache', e.age <= TTL
             PROVE  /\ e.tenant = TenantOf[e.scope]
                    /\ tenant'[e.cites] = e.tenant
                    /\ lastSeen'[e.scope][e.cites] <= e.age
  BY DEF CachedWerePermitted
<1>1. e \in Entries
  BY AnswerTypesPreserved DEF AnswerTypes
<1>2. /\ e.scope \in Users /\ e.cites \in Docs /\ e.tenant \in Tenants
      /\ e.age \in Ages
  BY <1>1 DEF Entries
<1>3. Awaits(e.scope)'
  BY DEF Awaits
<1>4. /\ RowStep /\ RowTypes /\ TenantComesWithTheRow
      /\ \A d \in Docs : tenant[d] # NoTenant => tenant'[d] = tenant[d]
  BY StepsOfRows, TenantKept DEF RowInv
<1>5. ASSUME e \in cache
      PROVE  /\ e.tenant = TenantOf[e.scope] /\ tenant'[e.cites] = e.tenant
             /\ lastSeen[e.scope][e.cites] <= e.age
  BY <1>2, <1>4, <1>5, NoneAssumption DEF CachedWerePermitted
<1>6. CASE Step /\ Remember(LAMBDA n : n)
  <2>1. CASE e \in cache
    BY <1>2, <1>3, <1>5, <1>6, <2>1, MemoryKept
  <2>2. ASSUME NEW u \in Users, NEW d \in Docs, AnsweredFresh(u, d),
               e \notin cache
        PROVE  /\ e.tenant = TenantOf[e.scope] /\ tenant'[e.cites] = e.tenant
               /\ lastSeen'[e.scope][e.cites] <= e.age
    <3>1. e = [tenant |-> TenantOf[u], scope |-> u, cites |-> d, age |-> 0]
      BY <2>2 DEF AnsweredFresh
    <3>2. lastSeen'[u][d] = 0 /\ tenant'[d] = TenantOf[u]
      BY <1>6, <2>2, MemoryFresh DEF AnsweredFresh
    <3>3. QED
      BY <3>1, <3>2
  <2>3. QED
    BY <1>4, <1>6, <2>1, <2>2, StepsOfAnswers
       DEF NothingAnswered, AnsweredFromCache, StreamAnswered, UploadBegun
<1>7. CASE Tick /\ Remember(Older)
  <2>1. PICK f \in cache : e = [f EXCEPT !.age = Older(@)]
    BY <1>7 DEF Tick
  <2>2. f \in Entries
    BY DEF AnswerTypes
  <2>3. /\ e.scope = f.scope /\ e.cites = f.cites /\ e.tenant = f.tenant
        /\ e.age = Older(f.age) /\ f.age \in Ages
    BY <2>1, <2>2 DEF Entries
  <2>4. f.age <= TTL
    BY <2>3, OlderAges
  <2>5. /\ f.tenant = TenantOf[f.scope] /\ tenant[f.cites] = f.tenant
        /\ lastSeen[f.scope][f.cites] <= f.age
    BY <2>4 DEF CachedWerePermitted
  <2>6. lastSeen'[e.scope][e.cites] <= e.age
    BY <1>2, <1>3, <1>7, <2>3, <2>5, MemoryAges
  <2>7. QED
    BY <1>2, <1>4, <2>3, <2>5, <2>6, NoneAssumption
<1>8. CASE UNCHANGED vars
  BY <1>5, <1>8 DEF vars
<1>9. QED
  BY <1>6, <1>7, <1>8 DEF Next

\* A stream in progress was permitted when it began.
LEMMA StreamPreserved ==
    ASSUME RowInv, AnswerTypes, StreamWasPermitted, [Next]_vars
    PROVE  StreamWasPermitted'
<1> SUFFICES ASSUME request'.kind = "stream"
             PROVE  /\ tenant'[request'.cites] = TenantOf[request'.user]
                    /\ lastSeen'[request'.user][request'.cites]
                         <= request'.age
  BY DEF StreamWasPermitted
<1>1. /\ request'.user \in Users /\ request'.cites \in Docs
      /\ request'.age \in Ages
  BY AnswerTypesPreserved DEF AnswerTypes, Requests, NoRequest, Replies
<1>2. \A u \in Users : u = request'.user => Awaits(u)'
  BY DEF Awaits
<1>3. \A d \in Docs : tenant[d] # NoTenant => tenant'[d] = tenant[d]
  BY StepsOfRows, TenantKept DEF RowInv
<1>4. TenantOf[request'.user] # NoTenant
  BY <1>1, AccessAssumption, NoneAssumption
<1>5. ASSUME request' = request
      PROVE  /\ tenant'[request'.cites] = TenantOf[request'.user]
             /\ lastSeen[request'.user][request'.cites] <= request'.age
  <2>1. /\ request'.kind = request.kind /\ request'.user = request.user
        /\ request'.cites = request.cites /\ request'.age = request.age
    BY <1>5
  <2>2. /\ tenant[request.cites] = TenantOf[request.user]
        /\ lastSeen[request.user][request.cites] <= request.age
    BY <2>1 DEF StreamWasPermitted
  <2>3. QED
    BY <1>1, <1>3, <1>4, <2>1, <2>2
<1>6. CASE Step /\ Remember(LAMBDA n : n)
  <2>1. CASE request' = request
    BY <1>1, <1>2, <1>5, <1>6, <2>1, MemoryKept
  <2>2. ASSUME NEW u \in Users, NEW d \in Docs, AnsweredFresh(u, d)
        PROVE  /\ tenant'[request'.cites] = TenantOf[request'.user]
               /\ lastSeen'[request'.user][request'.cites] <= request'.age
    <3>1. request'.user = u /\ request'.cites = d /\ request'.age = 0
      BY <2>2 DEF AnsweredFresh, Reply
    <3>2. lastSeen'[u][d] = 0 /\ tenant'[d] = TenantOf[u]
      BY <1>6, <2>2, MemoryFresh DEF AnsweredFresh
    <3>3. QED
      BY <3>1, <3>2
  <2>3. CASE NothingAnswered
    BY <2>1, <2>3 DEF NothingAnswered, NoRequest
  <2>4. \A u \in Users, e \in cache : ~AnsweredFromCache(u, e)
    BY DEF AnsweredFromCache, Reply
  <2>5. ~StreamAnswered
    BY StreamsMove DEF StreamAnswered
  <2>6. \A u \in Users : ~UploadBegun(u)
    BY DEF UploadBegun
  <2>7. QED
    BY <1>6, <2>2, <2>3, <2>4, <2>5, <2>6, StepsOfAnswers DEF RowInv
<1>7. CASE Tick /\ Remember(Older)
  <2>1. request.kind = "stream"
    BY <1>7 DEF Tick, Rest, NoRequest, Answered, Replies
  <2>2. request' = [request EXCEPT !.age = Older(@)]
    BY <1>7, <2>1 DEF Tick
  <2>3. /\ request'.user = request.user /\ request'.cites = request.cites
        /\ request'.age = Older(request.age) /\ request.age \in Ages
    BY <2>1, <2>2, StreamsMove, StreamsTyped
  <2>4. /\ tenant[request.cites] = TenantOf[request.user]
        /\ lastSeen[request.user][request.cites] <= request.age
    BY <2>1 DEF StreamWasPermitted
  <2>5. tenant'[request'.cites] = TenantOf[request'.user]
    BY <1>1, <1>3, <1>4, <2>3, <2>4
  <2>6. lastSeen'[request.user][request.cites] <= Older(request.age)
    BY <1>1, <1>2, <1>7, <2>3, <2>4, MemoryAges
  <2>7. QED
    BY <2>3, <2>5, <2>6
<1>8. CASE UNCHANGED vars
  BY <1>5, <1>8 DEF vars
<1>9. QED
  BY <1>6, <1>7, <1>8 DEF Next

\* So what is answered now was permitted.
LEMMA AnswersPreserved ==
    ASSUME AnswerInv, [Next]_vars
    PROVE  AnswersWerePermitted'
<1> SUFFICES ASSUME Answered'
             PROVE  AnswersWerePermitted'
  BY DEF AnswersWerePermitted
<1>inv. RowInv /\ RowTypes /\ AnswerTypes
  BY DEF AnswerInv, RowInv
<1>1. CASE Step /\ Remember(LAMBDA n : n)
  <2>1. ASSUME NEW u \in Users, NEW d \in Docs, AnsweredFresh(u, d)
        PROVE  AnswersWerePermitted'
    <3>1. /\ request'.user = u /\ request'.cites = d /\ request'.age = 0
          /\ request'.kind \in {"chat", "list", "stream"}
      BY <2>1 DEF AnsweredFresh, Reply
    <3>2. /\ lastSeen'[u][d] = 0 /\ tenant'[d] = TenantOf[u]
          /\ u \in active'
      BY <1>1, <1>inv, <2>1, MemoryFresh
         DEF AnsweredFresh, accessVars, people
    <3>3. QED
      BY <3>1, <3>2 DEF AnswersWerePermitted
  <2>2. ASSUME NEW u \in Users, NEW e \in cache, AnsweredFromCache(u, e)
        PROVE  AnswersWerePermitted'
    <3>1. /\ request'.user = u /\ request'.cites = e.cites
          /\ request'.age = e.age /\ request'.kind = "cache"
      BY <2>2 DEF AnsweredFromCache, Reply
    <3>2. /\ e.age <= TTL /\ e.scope = u /\ e.tenant = TenantOf[u]
          /\ e.cites \in Docs /\ e.age \in Ages
      BY <1>inv, <2>2 DEF AnsweredFromCache, CacheGet, AnswerTypes, Entries
    <3>3. /\ tenant[e.cites] = TenantOf[u] /\ lastSeen[u][e.cites] <= e.age
      BY <3>2 DEF AnswerInv, CachedWerePermitted
    <3>4. Awaits(u)'
      BY <3>1 DEF Awaits
    <3>5. lastSeen'[u][e.cites] <= e.age
      BY <1>1, <1>inv, <3>2, <3>3, <3>4, MemoryKept
    <3>6. tenant' = tenant /\ u \in active'
      BY <2>2 DEF AnsweredFromCache, accessVars, people, library, rows
    <3>7. QED
      BY <3>1, <3>2, <3>3, <3>5, <3>6 DEF AnswersWerePermitted
  <2>3. CASE StreamAnswered
    <3>1. /\ request'.user = request.user /\ request'.cites = request.cites
          /\ request'.age = request.age /\ request'.kind = "streamed"
          /\ request.user \in Users /\ request.cites \in Docs
          /\ request.age \in Ages
      BY <1>inv, <2>3, StreamsMove, StreamsTyped DEF StreamAnswered
    <3>2. /\ tenant[request.cites] = TenantOf[request.user]
          /\ lastSeen[request.user][request.cites] <= request.age
      BY <2>3 DEF StreamAnswered, AnswerInv, StreamWasPermitted
    <3>3. Awaits(request.user)'
      BY <3>1 DEF Awaits
    <3>4. lastSeen'[request.user][request.cites] <= request.age
      BY <1>1, <1>inv, <3>1, <3>2, <3>3, MemoryKept
    <3>5. tenant' = tenant
      BY <2>3 DEF StreamAnswered, accessVars, library, rows
    <3>6. QED
      BY <3>1, <3>2, <3>4, <3>5 DEF AnswersWerePermitted
  <2>4. ~NothingAnswered /\ \A u \in Users : ~UploadBegun(u)
    BY DEF NothingAnswered, UploadBegun, Answered, Replies
  <2>5. QED
    BY <1>1, <1>inv, <2>1, <2>2, <2>3, <2>4, StepsOfAnswers
<1>2. CASE Tick
  <2>1. CASE request.kind = "stream"
    BY <1>2, <1>inv, <2>1, StreamsMove DEF Tick, Answered, Replies
  <2>2. CASE request.kind # "stream"
    BY <1>2, <2>2 DEF Tick, Rest, NoRequest, Answered, Replies
  <2>3. QED
    BY <2>1, <2>2
<1>3. CASE UNCHANGED vars
  BY <1>3 DEF vars, accessVars, people, library, rows, AnswerInv,
     AnswersWerePermitted, Answered
<1>4. QED
  BY <1>1, <1>2, <1>3 DEF Next

-----------------------------------------------------------------------------
\* The invariant and what follows from it.

\* It holds at first: a document that is older than permissions was given all
\* those that migration 0003 could give.
LEMMA InitEstablishesAnswerInv == Init => AnswerInv
<1> SUFFICES ASSUME Init PROVE AnswerInv
  OBVIOUS
<1> USE AccessAssumption, NoneAssumption
<1>1. PICK old \in SUBSET Legacy :
        /\ \A d, e \in old : d = e
        /\ status = [d \in Docs |-> IF d \in old THEN "ready" ELSE "absent"]
        /\ tenant = [d \in Docs |-> IF d \in old THEN LegacyTenant
                                              ELSE NoTenant]
        /\ acl = [d \in Docs |-> IF d \in old THEN Backfill ELSE NoRows]
        /\ indexed = old
  BY DEF Init, AccessInit
<1>2. /\ role = FirstRole /\ active \subseteq Users /\ tokens = {}
      /\ collections = {} /\ assigned = [d \in Docs |-> NoCollection]
      /\ working = {} /\ opened = {} /\ beside = [d \in Docs |-> {}]
      /\ edits = 0
  BY DEF Init, AccessInit
<1>3. RowTypes
  <2>1. Backfill \in [Users -> Levels \cup {"none"}]
        /\ NoRows \in [Users -> Levels \cup {"none"}]
    BY DEF Backfill, NoRows, Levels
  <2>2. acl \in [Docs -> [Users -> Levels \cup {"none"}]]
    BY <1>1, <2>1
  <2>3. 0 \in 0..MaxEdits
    OBVIOUS
  <2>4. /\ status \in [Docs -> {"absent", "queued", "stranded", "ready",
                               "error", "gone"}]
        /\ tenant \in [Docs -> Tenants \cup {NoTenant}]
    BY <1>1
  <2>5. QED
    BY <1>1, <1>2, <2>2, <2>3, <2>4 DEF RowTypes
<1>4. TenantComesWithTheRow /\ IngestedWereAccepted /\ AcceptedHavePermissions
  BY <1>1, <1>2
     DEF TenantComesWithTheRow, IngestedWereAccepted, AcceptedHavePermissions,
         Live
<1>5. CopiesMet /\ CollectionsStayInTenant
  BY <1>1, <1>2 DEF CopiesMet, CollectionsStayInTenant, Live
<1>6. AnswerTypes
  <2>1. lastSeen \in [Users -> [Docs -> Ages]]
    BY AgeBounds DEF Init
  <2>2. QED
    BY <2>1 DEF Init, AnswerTypes
<1>7. CachedWerePermitted /\ StreamWasPermitted /\ AnswersWerePermitted
  BY DEF Init, CachedWerePermitted, StreamWasPermitted, AnswersWerePermitted,
     NoRequest, Answered, Replies
<1>8. QED
  BY <1>3, <1>4, <1>5, <1>6, <1>7 DEF AnswerInv, RowInv

\* Every step keeps it.
LEMMA AnswerInvPreserved ==
    ASSUME AnswerInv, [Next]_vars
    PROVE  AnswerInv'
<1>1. RowInv'
  BY StepsOfRows, RowsPreserved DEF AnswerInv
<1>2. QED
  BY <1>1, AnswerTypesPreserved, CachePreserved, StreamPreserved,
     AnswersPreserved DEF AnswerInv

\* Rows, permissions, the cache and the answers on their way fit together in
\* every state.
THEOREM AnswerInvariance == Spec => []AnswerInv
<1>1. AnswerInv /\ [Next]_vars => AnswerInv'
  BY AnswerInvPreserved
<1>2. QED
  BY <1>1, InitEstablishesAnswerInv, PTL DEF Spec

\* The stored rows keep their types, documents stay in collections of their
\* own tenant, and two ready copies of a file were uploaded at the same time.
THEOREM RowsStayConsistent == Spec => []AccessInv
<1>1. AnswerInv => AccessInv
  <2> SUFFICES ASSUME AnswerInv PROVE AccessInv
    OBVIOUS
  <2>1. TypeOK
    BY DEF AnswerInv, RowInv, RowTypes, AnswerTypes, TypeOK
  <2>2. CopiesOverlapped
    BY DEF AnswerInv, RowInv, CopiesMet, CopiesOverlapped, Live
  <2>3. QED
    BY <2>1, <2>2 DEF AnswerInv, RowInv, AccessInv
<1>2. QED
  BY <1>1, AnswerInvariance, PTL

\* Whatever is revoked, deleted, demoted or restarted: an answer was permitted
\* to its user when it was as young as it is old, at most a TTL ago if it comes
\* from the cache, and a listing or fresh answer is permitted now.
THEOREM NoAnswerBeyondPermission == Spec => []AnswersWerePermitted
BY AnswerInvariance, PTL DEF AnswerInv

\* A document that is open to its tenant for want of permissions is so by a
\* revocation, or by the migration: never by an upload that failed half-way.
THEOREM OpennessIsDeliberate == Spec => []OpenMeansRevoked
<1>1. AnswerInv => OpenMeansRevoked
  BY DEF AnswerInv, RowInv, RowTypes, IngestedWereAccepted,
     AcceptedHavePermissions, OpenMeansRevoked
<1>2. QED
  BY <1>1, AnswerInvariance, PTL

-----------------------------------------------------------------------------
\* What a step may do to sight and to the admins of a tenant.

\* The last permission on a document is a single one.
LEMMA LastPermissionIsSingle ==
    ASSUME RowTypes, NEW d \in Docs, NEW v \in Users, acl[d][v] # "none",
           [acl[d] EXCEPT ![v] = "none"] = NoRows
    PROVE  Cardinality({w \in Users : acl[d][w] # "none"}) = 1
<1>1. \A w \in Users : w # v => acl[d][w] = "none"
  BY DEF RowTypes, NoRows
<1>2. {w \in Users : acl[d][w] # "none"} = {v}
  BY <1>1
<1>3. QED
  BY <1>2, FS_Singleton

\* In each step, a user comes to see a document by his own row or permission,
\* by the revocation of the last one, or, an admin, by its chunks.
LEMMA SightOfRows ==
    ASSUME RowTypes, TenantComesWithTheRow, RowStep,
           NEW u \in Users, NEW d \in Docs,
           ~Permitted(u, d), Permitted(u, d)', status[d] # "absent"
    PROVE  \/ role'[u] # role[u] \/ u \notin active
           \/ acl'[d][u] # acl[d][u] /\ acl'[d][u] # "none"
           \/ acl'[d] = NoRows /\ Cardinality({v \in Users :
                                               acl[d][v] # "none"}) = 1
           \/ role[u] = "admin" /\ d \in indexed' \ indexed
<1> SUFFICES ASSUME role'[u] = role[u], u \in active,
                    ~(role[u] = "admin" /\ d \in indexed' \ indexed)
             PROVE  \/ acl'[d][u] # acl[d][u] /\ acl'[d][u] # "none"
                    \/ acl'[d] = NoRows /\ Cardinality({v \in Users :
                                               acl[d][v] # "none"}) = 1
  OBVIOUS
<1> DEFINE Seen == /\ tenant'[d] = tenant[d] /\ acl'[d] = acl[d]
                   /\ Live(d)' => Live(d)
<1>1. ~Seen
  BY DEF Permitted
<1>2. ASSUME NEW a \in Users, UserStep(a)
      PROVE  \/ acl'[d][u] # acl[d][u] /\ acl'[d][u] # "none"
             \/ acl'[d] = NoRows /\ Cardinality({v \in Users :
                                               acl[d][v] # "none"}) = 1
  <2>1. tenant' = tenant /\ (Live(d)' => Live(d))
    BY <1>2, UserStepsKeep DEF Live
  <2>2. ASSUME NEW e \in Docs, NEW v \in Users, NEW level \in Levels,
               GrantAccess(a, e, v, level)
        PROVE  acl'[d][u] # acl[d][u] /\ acl'[d][u] # "none"
    <3>1. acl' = [acl EXCEPT ![e][v] = level] /\ acl[e][v] # level
      BY <2>2 DEF GrantAccess
    <3>2. e = d
      BY <1>1, <2>1, <3>1 DEF RowTypes
    <3>3. level # "none" /\ NoRows[v] = "none"
      BY DEF Levels, NoRows
    <3>4. acl'[d][v] = level
      BY <3>1, <3>2 DEF RowTypes
    <3>5. CASE u = v
      BY <3>1, <3>2, <3>3, <3>4, <3>5
    <3>6. CASE u # v
      <4>1. acl'[d][u] = acl[d][u] /\ acl'[d] # NoRows
        BY <3>1, <3>2, <3>3, <3>4, <3>6 DEF RowTypes
      <4>2. QED
        BY <4>1, <2>1 DEF Permitted
    <3>7. QED
      BY <3>5, <3>6
  <2>3. ASSUME NEW e \in Docs, NEW v \in Users, RevokeAccess(a, e, v)
        PROVE  acl'[d] = NoRows /\ Cardinality({w \in Users :
                                               acl[d][w] # "none"}) = 1
    <3>1. acl' = [acl EXCEPT ![e][v] = "none"] /\ acl[e][v] # "none"
      BY <2>3 DEF RevokeAccess
    <3>2. e = d
      BY <1>1, <2>1, <3>1 DEF RowTypes
    <3>3. acl'[d] = [acl[d] EXCEPT ![v] = "none"]
      BY <3>1, <3>2 DEF RowTypes
    <3>4. acl'[d][u] # "none" => acl'[d][u] = acl[d][u]
      BY <3>3 DEF RowTypes
    <3>5. acl'[d] = NoRows
      BY <2>1, <3>4 DEF Permitted
    <3>6. QED
      BY <3>1, <3>2, <3>3, <3>5, LastPermissionIsSingle
  <2>4. ASSUME NEW e \in Docs, DeleteDocument(a, e)
        PROVE  FALSE
    <3>1. d = e
      BY <1>1, <2>1, <2>4 DEF DeleteDocument, RowTypes
    <3>2. ~Live(d)' /\ indexed' \subseteq indexed
      BY <2>4, <3>1 DEF DeleteDocument, RowTypes, Live
    <3>3. QED
      BY <2>1, <3>2 DEF Permitted
  <2>5. QED
    BY <1>1, <1>2, <2>1, <2>2, <2>3, <2>4
       DEF UserStep, Login, SwitchTenant, CreateUser, ChangeRole, Activate,
           Deactivate, CreateCollection, DeleteCollection, AssignDocument,
           library, rights
<1>3. ASSUME NEW e \in Docs, WorkerStep(e)
      PROVE  FALSE
  BY <1>1, <1>3, WorkerStepsKeep DEF Live
<1>4. ASSUME NEW a \in Users, NEW e \in Docs,
             NEW c \in collections \cup {NoCollection},
             AcceptUpload(a, e, c) \/ StrandUpload(a, e, c)
      PROVE  FALSE
  <2>1. /\ d # e /\ tenant' = [tenant EXCEPT ![e] = TenantOf[a]]
        /\ \E state \in {"queued", "stranded"} :
              status' = [status EXCEPT ![e] = state]
        /\ \E owner \in {"none", "owner"} :
              acl' = [acl EXCEPT ![e][a] = owner]
    BY <1>4, InsertionsFillAbsentRows DEF MayInsert
  <2>2. tenant'[d] = tenant[d] /\ status'[d] = status[d]
    BY <2>1 DEF RowTypes
  <2>3. acl'[d] = acl[d]
    BY <2>1 DEF RowTypes
  <2>4. QED
    BY <1>1, <2>2, <2>3 DEF Live
<1>5. QED
  BY <1>1, <1>2, <1>3, <1>4
     DEF RowStep, accessVars, library, rows, rights, Live

\* A revocation shows a document to somebody only if it takes the very last
\* permission; all other widening is by a grant to, or a change of, the user.
THEOREM SightIsGranted == Spec => SightWidensKnowingly
<1>1. AnswerInv /\ [Next]_vars =>
        [\A u \in Users, d \in Docs :
           ~Permitted(u, d) /\ Permitted(u, d)' /\ status[d] # "absent" =>
            \/ role'[u] # role[u] \/ u \notin active
            \/ acl'[d][u] # acl[d][u] /\ acl'[d][u] # "none"
            \/ acl'[d] = NoRows /\ Cardinality({v \in Users :
                                                acl[d][v] # "none"}) = 1
            \/ role[u] = "admin" /\ d \in indexed' \ indexed]_vars
  BY StepsOfRows, SightOfRows DEF AnswerInv, RowInv
<1>2. QED
  BY <1>1, AnswerInvariance, PTL DEF Spec, SightWidensKnowingly

\* An admin is lost to his tenant only by a request of an admin of that
\* tenant.
LEMMA AdminsOfRows ==
    ASSUME RowTypes, RowStep, NEW t \in Tenants,
           ActiveAdmins(t) # {}, ActiveAdmins(t)' = {}
    PROVE  \E a \in Users : ActiveAdmins(t) = {a} /\ a \in tokens
<1> USE DEF RowTypes, ActiveAdmins
<1>1. CASE role' = role /\ active' = active
  BY <1>1
<1>2. ASSUME NEW a \in Users, NEW u \in Users, NEW r \in {"member", "admin"},
             CreateUser(a, u, r) \/ ChangeRole(a, u, r)
      PROVE  \E b \in Users : ActiveAdmins(t) = {b} /\ b \in tokens
  <2>1. role' = [role EXCEPT ![u] = r] /\ active \subseteq active'
        /\ IsAdmin(a) /\ TenantOf[u] = TenantOf[a]
    BY <1>2 DEF CreateUser, ChangeRole
  <2>2. \A v \in ActiveAdmins(t) : v = u
    BY <2>1
  <2>3. ActiveAdmins(t) = {u} /\ TenantOf[u] = t
    BY <2>2
  <2>4. a = u
    BY <2>1, <2>3 DEF IsAdmin, Authenticated
  <2>5. QED
    BY <2>1, <2>3, <2>4 DEF IsAdmin, Authenticated
<1>3. ASSUME NEW a \in Users, NEW u \in Users, Deactivate(a, u)
      PROVE  \E b \in Users : ActiveAdmins(t) = {b} /\ b \in tokens
  <2>1. role' = role /\ active' = active \ {u}
        /\ IsAdmin(a) /\ TenantOf[u] = TenantOf[a]
    BY <1>3 DEF Deactivate
  <2>2. ActiveAdmins(t) = {u} /\ TenantOf[u] = t
    BY <2>1
  <2>3. a = u
    BY <2>1, <2>2 DEF IsAdmin, Authenticated
  <2>4. QED
    BY <2>1, <2>2, <2>3 DEF IsAdmin, Authenticated
<1>4. ASSUME NEW a \in Users, NEW u \in Users, Activate(a, u)
      PROVE  FALSE
  BY <1>4 DEF Activate
<1>5. ASSUME NEW a \in Users, UserStep(a)
      PROVE  \E b \in Users : ActiveAdmins(t) = {b} /\ b \in tokens
  BY <1>1, <1>2, <1>3, <1>4, <1>5
     DEF UserStep, Login, SwitchTenant, GrantAccess, RevokeAccess,
         DeleteDocument, CreateCollection, DeleteCollection, AssignDocument,
         people
<1>6. ASSUME NEW d \in Docs, WorkerStep(d)
      PROVE  role' = role /\ active' = active
  BY <1>6, WorkerStepsKeep
<1>7. ASSUME NEW u \in Users, NEW d \in Docs,
             NEW c \in collections \cup {NoCollection},
             AcceptUpload(u, d, c) \/ StrandUpload(u, d, c)
      PROVE  role' = role /\ active' = active
  BY <1>7, InsertionsFillAbsentRows
<1>8. QED
  BY <1>1, <1>5, <1>6, <1>7 DEF RowStep, accessVars, people

\* No member and no admin of another tenant can lock a tenant out: its last
\* active admin goes by his own request.
THEOREM LastAdminIsHisOwn == Spec => LastAdminLeavesHimself
<1>1. AnswerInv /\ [Next]_vars =>
        [\A t \in Tenants :
           ActiveAdmins(t) # {} /\ ActiveAdmins(t)' = {} =>
               /\ Cardinality(ActiveAdmins(t)) = 1
               /\ ActiveAdmins(t) \subseteq tokens]_vars
  BY StepsOfRows, AdminsOfRows, FS_Singleton DEF AnswerInv, RowInv
<1>2. QED
  BY <1>1, AnswerInvariance, PTL DEF Spec, LastAdminLeavesHimself
=============================================================================
