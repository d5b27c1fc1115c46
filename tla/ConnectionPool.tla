--------------------------- MODULE ConnectionPool ---------------------------
(***************************************************************************)
(* The database connections of one process: the engine of db/session.py    *)
(* keeps a pool of bounded size.  A session takes one with its first       *)
(* statement and gives it back when it commits, rolls back or is closed.   *)
(***************************************************************************)
EXTENDS Naturals, FiniteSets

CONSTANTS
  Requests,  \* whatever works with a session of its own
  PoolSize   \* pool size and overflow together

ASSUME PoolAssumption == PoolSize \in Nat \ {0} /\ IsFiniteSet(Requests)

VARIABLE holders  \* <<request, use>> of every connection that is out

\* The request's own session, or the one of the model cache inside it.
Uses == {"request", "cache"}

Free == Cardinality(holders) < PoolSize

Acquire(r, use) == Free /\ holders' = holders \cup {<<r, use>>}

Release(r, use) == holders' = holders \ {<<r, use>>}
=============================================================================
