------------------------------- MODULE MCPools -------------------------------
(* Model-checking instance of what goroutines share to use again: connections  *)
(* (XConnPool), buffers (XBufferPool) and cached values (XCache).  A behaviour *)
(* exercises one of them; the others stay in their initial states, so the      *)
(* states of the three add up.                                                 *)
EXTENDS XConnPool, XBufferPool, XCache, TLC

CONSTANTS k1, k2

MCHome == k1 :> 1 @@ k2 :> 2

VARIABLE part

PoolsInit == /\ part \in {"XConnPool", "XBufferPool", "XCache"}
             /\ Init /\ BufferInit /\ CacheInit

PoolsNext == /\ \/ part = "XConnPool" /\ Next /\ UNCHANGED <<bufferVars, cacheVars>>
                \/ part = "XBufferPool" /\ BufferNext /\ UNCHANGED <<vars, cacheVars>>
                \/ part = "XCache" /\ CacheNext /\ UNCHANGED <<vars, bufferVars>>
             /\ UNCHANGED part

\* The fairness of each module, for the behaviours that exercise it.
PoolsSpec == /\ PoolsInit
             /\ [][PoolsNext]_<<part, vars, bufferVars, cacheVars>>
             /\ \A p \in Procs : WF_vars(part = "XConnPool" /\ Step(p))
             /\ WF_cacheVars(part = "XCache" /\ Clean)
             /\ SF_cacheVars(part = "XCache" /\ CleanExit)

=============================================================================
