------------------------------- MODULE DbPool -------------------------------
(***************************************************************************)
(* The shared connection pool (api/db.py) over psycopg2's                  *)
(* ThreadedConnectionPool, whose getconn and putconn hold its lock and are *)
(* one step each.  Handles are the proxies that get_conn returns; any of   *)
(* the threads closes its own, perhaps more than once.  putconn may fail.  *)
(***************************************************************************)
EXTENDS Naturals, FiniteSets

CONSTANTS
    Handles,    \* bound: proxies at a time
    Conns,      \* bound: connections to PostgreSQL in the life of a process
    MinConn,    \* DB_POOL_MIN
    MaxConn     \* DB_POOL_MAX

\* _pool_bounds refuses everything else.
ASSUME PoolAssumption ==
    /\ MinConn \in Nat \ {0} /\ MaxConn \in Nat \ {0} /\ MinConn <= MaxConn
    /\ IsFiniteSet(Conns) /\ Cardinality(Conns) >= MaxConn

VARIABLES
    pool,       \* _pool: "none", "open" or "closed"
    idle, used, \* its connections that are waiting, and those it has given out
    handle,     \* _conn of a proxy
    open,       \* history: proxies whose owner has not closed them yet
    lost,       \* history: connections whose putconn raised in an open pool
    exhausted   \* the last get_conn raised PoolError
poolVars == <<pool, idle, used, handle, open, lost, exhausted>>

Cleared == "cleared"

\* None is not a connection.
ASSUME ClearedAssumption == Cleared \notin Conns

PoolInit ==
    /\ pool = "none" /\ idle = {} /\ used = {}
    /\ handle = [h \in Handles |-> Cleared] /\ open = {} /\ lost = {}
    /\ exhausted = FALSE

\* lifespan creates the pool before any other thread runs; the check in
\* _get_pool is not locked, and need not be.
WarmUpPool ==
    /\ pool = "none" /\ pool' = "open"
    /\ idle' \in {s \in SUBSET Conns : Cardinality(s) = MinConn}
    /\ UNCHANGED <<used, handle, open, lost, exhausted>>

Available(c) ==
    c \in idle \/ (idle = {} /\ c \notin used /\ Cardinality(used) < MaxConn)

GetConn(h) ==
    /\ pool = "open" /\ h \notin open
    /\ \E c \in Conns :
        /\ Available(c)
        /\ idle' = idle \ {c} /\ used' = used \cup {c}
        /\ handle' = [handle EXCEPT ![h] = c]
    /\ open' = open \cup {h}
    /\ exhausted' = FALSE
    /\ UNCHANGED <<pool, lost>>

GetConnRaises ==
    /\ pool = "open" /\ ~\E c \in Conns : Available(c)
    /\ ~exhausted /\ exhausted' = TRUE
    /\ UNCHANGED <<pool, idle, used, handle, open, lost>>

\* Beyond MinConn a connection is closed instead of kept.
PutBack(c) ==
    /\ used' = used \ {c}
    /\ idle' = IF Cardinality(idle) < MinConn THEN idle \cup {c} ELSE idle
    /\ UNCHANGED lost

\* The server has dropped the connection: the pool forgets it.
Discard(c) == used' = used \ {c} /\ UNCHANGED <<idle, lost>>

\* putconn raises before it has taken the connection out of its table, as when
\* the rollback of an open transaction fails: nobody holds it any more.
PutRaises(c) == lost' = lost \cup {c} /\ UNCHANGED <<idle, used>>

\* A pool that is closed, or has not given the connection out, refuses it; that
\* and a failing putconn are logged by close(), no more.
PutConn(c) ==
    IF pool = "open" /\ c \in used
      THEN PutBack(c) \/ Discard(c) \/ PutRaises(c)
      ELSE UNCHANGED <<idle, used, lost>>

Close_KeepsHandle(h) ==
    /\ handle[h] # Cleared
    /\ PutConn(handle[h])
    /\ open' = open \ {h}
    /\ exhausted' = FALSE
    /\ UNCHANGED <<pool, handle>>

\* _PooledConnection.close: the handle is cleared first, so a second call does
\* nothing.
Close(h) ==
    /\ handle[h] # Cleared
    /\ handle' = [handle EXCEPT ![h] = Cleared]
    /\ PutConn(handle[h])
    /\ open' = open \ {h}
    /\ exhausted' = FALSE
    /\ UNCHANGED pool

\* lifespan's end; daemon threads may still hold connections.
CloseAll ==
    /\ pool = "open" /\ pool' = "closed"
    /\ UNCHANGED <<idle, used, handle, open, lost, exhausted>>

PoolRestart ==
    /\ pool = "closed" /\ pool' = "none"
    /\ idle' = {} /\ used' = {}
    /\ handle' = [h \in Handles |-> Cleared] /\ open' = {} /\ lost' = {}
    /\ exhausted' = FALSE

PoolNext ==
    \/ WarmUpPool \/ GetConnRaises \/ CloseAll \/ PoolRestart
    \/ \E h \in Handles : GetConn(h) \/ Close(h)

PoolSpec == PoolInit /\ [][PoolNext]_poolVars

-----------------------------------------------------------------------------
\* A connection is in the hands of one owner at most and never also waiting to
\* be given out, although owners may close a handle again at any time; one whose
\* return has failed is in no hands, ever again.
HandlesAreExclusive ==
    /\ \A g, h \in open :
        /\ g # h => handle[g] # handle[h]
        /\ handle[h] \notin idle \cup lost
    /\ lost \cap idle = {}

\* Only a return that fails costs the pool a slot, and it costs it one: get_conn
\* raises when the handles that are really open and the failed returns make up
\* DB_POOL_MAX, never before, and the pool never has more connections.
OnlyFailedReturnsLeak ==
    /\ exhausted => Cardinality(open) + Cardinality(lost) = MaxConn
    /\ Cardinality(idle \cup used) <= MaxConn

\* Every connection of the pool waits, has one owner, or was lost by a return
\* that failed, through double closes, dropped connections, exhaustion and
\* shutdown.
ConnectionsAreAccounted == HandlesAreExclusive /\ OnlyFailedReturnsLeak
=============================================================================
