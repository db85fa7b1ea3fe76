---------------------------- MODULE XBufferPool ----------------------------
(***************************************************************************)
(* go-xbufferpool: buffers kept in a bounded channel.  Each goroutine has   *)
(* one XBuffer at a time, which its users do not share.  A buffer that      *)
(* nothing refers to is garbage, and a new buffer is a garbage one.         *)
(***************************************************************************)
EXTENDS Naturals, Sequences, SequencesExt, FiniteSets

CONSTANTS Users,     \* goroutines
          Bufs,      \* buffers in memory at once
          BufCap,    \* capacity of the pool
          NoBuffer

\* There is garbage to make a new buffer of whenever Get needs one.
ASSUME BufferAssumption == /\ BufCap \in Nat \ {0} /\ NoBuffer \notin Bufs
                           /\ IsFiniteSet(Bufs) /\ IsFiniteSet(Users)
                           /\ Cardinality(Bufs) >= Cardinality(Users) + BufCap

VARIABLES buffers,  \* the channel
          bufClosed,\* the channel is closed
          xb,       \* goroutine -> the Buffer of its XBuffer, or NoBuffer
          dirty,    \* buffers that hold bytes
          bufPc     \* goroutine -> "idle", or where its Close is

bufferVars == <<buffers, bufClosed, xb, dirty, bufPc>>

BufferGoto(p, at) == bufPc' = [bufPc EXCEPT ![p] = at]

Garbage == Bufs \ (ToSet(buffers) \cup {xb[p] : p \in Users})

BufferInit == /\ buffers = <<>> /\ bufClosed = FALSE
              /\ xb = [p \in Users |-> NoBuffer]
              /\ dirty = {}
              /\ bufPc = [p \in Users |-> "idle"]

\* Get: an idle buffer if there is one (wrapBuffer binds it).
GetPooled(p) == /\ bufPc[p] = "idle" /\ xb[p] = NoBuffer
                /\ buffers # <<>>
                /\ xb' = [xb EXCEPT ![p] = Head(buffers)]
                /\ buffers' = Tail(buffers)
                /\ UNCHANGED <<bufClosed, dirty, bufPc>>

\* ... and a new one if there is none.  From a closed channel Get receives
\* nil and returns ErrClosed, which changes nothing.
GetNew(p) == /\ bufPc[p] = "idle" /\ xb[p] = NoBuffer
             /\ buffers = <<>> /\ ~bufClosed
             /\ LET b == CHOOSE b \in Garbage : TRUE
                IN xb' = [xb EXCEPT ![p] = b] /\ dirty' = dirty \ {b}
             /\ UNCHANGED <<buffers, bufClosed, bufPc>>

Write(p) == /\ bufPc[p] = "idle" /\ xb[p] # NoBuffer
            /\ dirty' = dirty \cup {xb[p]}
            /\ UNCHANGED <<buffers, bufClosed, xb, bufPc>>

-----------------------------------------------------------------------------
(* XBuffer.Close, by way of put.                                            *)

\* A buffer is emptied before it is sent; put refuses a nil one.
Reset(p) == /\ bufPc[p] = "idle" /\ xb[p] # NoBuffer
            /\ dirty' = dirty \ {xb[p]}
            /\ BufferGoto(p, "send")
            /\ UNCHANGED <<buffers, bufClosed, xb>>

Send(p) == /\ bufPc[p] = "send" /\ ~bufClosed
           /\ Len(buffers) < BufCap
           /\ buffers' = Append(buffers, xb[p])
           /\ BufferGoto(p, "nil")
           /\ UNCHANGED <<bufClosed, xb, dirty>>

\* The pool is full: the buffer is left to the garbage collector.  It is
\* closed: the panic of the send is recovered and put returns ErrClosed.
Ignore(p) == /\ bufPc[p] = "send"
             /\ bufClosed \/ Len(buffers) = BufCap
             /\ BufferGoto(p, "nil")
             /\ UNCHANGED <<buffers, bufClosed, xb, dirty>>

\* Mutant of Forget: the XBuffer keeps the buffer that it has given back.
ForgetNot(p) == /\ bufPc[p] = "nil"
                /\ BufferGoto(p, "idle")
                /\ UNCHANGED <<buffers, bufClosed, xb, dirty>>

\* xb.Buffer = nil, after put.
Forget(p) == /\ bufPc[p] = "nil"
             /\ xb' = [xb EXCEPT ![p] = NoBuffer]
             /\ BufferGoto(p, "idle")
             /\ UNCHANGED <<buffers, bufClosed, dirty>>

-----------------------------------------------------------------------------
(* XBufferPool.Close.  A second Close panics, recovers and returns.         *)

ClosePool(p) == /\ bufPc[p] = "idle" /\ ~bufClosed
                /\ bufClosed' = TRUE
                /\ BufferGoto(p, "drain")
                /\ UNCHANGED <<buffers, xb, dirty>>

\* One turn of the loop.  Its break ends the select, not the loop, and a
\* closed channel is always ready, so the loop has no end: it goes on to
\* receive nil for ever.
Drain(p) == /\ bufPc[p] = "drain"
            /\ buffers # <<>>
            /\ buffers' = Tail(buffers)
            /\ UNCHANGED <<bufClosed, xb, dirty, bufPc>>

BufferStep(p) == \/ GetPooled(p) \/ GetNew(p) \/ Write(p)
                 \/ Reset(p) \/ Send(p) \/ Ignore(p) \/ Forget(p)
                 \/ ClosePool(p) \/ Drain(p)

BufferNext == \E p \in Users : BufferStep(p)

BufferSpec == BufferInit /\ [][BufferNext]_bufferVars

-----------------------------------------------------------------------------
(* Properties.                                                              *)

\* Buffers that a goroutine may use.
InUse == {xb[p] : p \in {q \in Users : bufPc[q] \in {"idle", "send"}}} \ {NoBuffer}

\* A buffer is in the pool once at most, empty, and nobody who may use it is
\* left; two goroutines never have the same buffer.
PooledUnused ==
    /\ IsInjective(buffers)
    /\ ToSet(buffers) \cap (InUse \cup dirty) = {}
    /\ \A p, q \in Users : xb[p] # NoBuffer /\ xb[p] = xb[q] /\ bufPc[p] # "nil" /\ bufPc[q] # "nil" => p = q

=============================================================================
