---------------------------- MODULE XLogDirProofs ----------------------------
(***************************************************************************)
(* What the registry of directories does guarantee, for any loggers and     *)
(* directories: no binding is ever left behind, and as long as no New was    *)
(* refused a directory, the loggers have different ones.  (The second       *)
(* condition is needed: see OneLoggerPerDir and its run.)                   *)
(***************************************************************************)
EXTENDS XLogDir, TLAPS

Active(l) == step[l] # "none"

\* The strengthening of SoundWithoutRefusal: it speaks of every logger whose
\* New has begun, not only of those in use, because a New that fails later
\* still owns the binding that its deferred function removes.
Owned == \A l, m \in Loggers :
            Active(l) /\ dir[l] \notin refused =>
                /\ dir[l] \in dirMap
                /\ Active(m) /\ dir[m] = dir[l] => m = l

IInv == TypeOK /\ NoStaleBinding /\ Owned

\* Nothing is bound at the start.
LEMMA InitInv == Init => IInv
BY DEF Init, IInv, TypeOK, NoStaleBinding, Owned, Active

\* A New that finds its directory free owns it from then on.
LEMMA BindInv == ASSUME NEW l \in Loggers, NEW d \in Dirs, IInv, Bind(l, d)
                 PROVE  IInv'
<1>1. TypeOK'
  BY DEF IInv, TypeOK, Bind, Goto
<1>2. NoStaleBinding'
  BY DEF IInv, TypeOK, NoStaleBinding, Bind, Goto
<1>3. Owned'
  BY DEF IInv, TypeOK, Owned, Active, Bind, Goto
<1> QED  BY <1>1, <1>2, <1>3 DEF IInv

\* A refused New makes its directory one of the refused ones.
LEMMA BindRefusedInv == ASSUME NEW l \in Loggers, NEW d \in Dirs, IInv, BindRefused(l, d)
                        PROVE  IInv'
<1>1. TypeOK'
  BY DEF IInv, TypeOK, BindRefused, Goto
<1>2. NoStaleBinding'
  BY DEF IInv, TypeOK, NoStaleBinding, BindRefused, Goto
<1>3. Owned'
  BY DEF IInv, TypeOK, Owned, Active, BindRefused, Goto
<1> QED  BY <1>1, <1>2, <1>3 DEF IInv

\* Steps of an active logger that leave the registry alone.
LEMMA QuietInv == ASSUME NEW l \in Loggers, IInv, CheckFails(l) \/ Opened(l) \/ CloseBegin(l)
                  PROVE  IInv'
<1> USE DEF CheckFails, Opened, CloseBegin, Goto
<1>1. TypeOK'
  BY DEF IInv, TypeOK
<1>2. NoStaleBinding'
  BY DEF IInv, TypeOK, NoStaleBinding
<1>3. Owned'
  BY DEF IInv, TypeOK, Owned, Active
<1> QED  BY <1>1, <1>2, <1>3 DEF IInv

\* unbindDir: any other logger with this directory shares it after a refusal.
LEMMA UnbindInv == ASSUME NEW l \in Loggers, IInv, NewFails(l) \/ CloseEnd(l)
                   PROVE  IInv'
<1> USE DEF NewFails, CloseEnd, Goto
<1>1. TypeOK'
  BY DEF IInv, TypeOK
<1>2. NoStaleBinding'
  BY DEF IInv, TypeOK, NoStaleBinding
<1>3. Owned'
  BY DEF IInv, TypeOK, Owned, Active
<1> QED  BY <1>1, <1>2, <1>3 DEF IInv

\* Every step of the registry keeps the invariant.
LEMMA NextInv == IInv /\ [Next]_vars => IInv'
<1> SUFFICES ASSUME IInv, [Next]_vars
             PROVE  IInv'
  OBVIOUS
<1>1. ASSUME UNCHANGED vars
      PROVE  IInv'
  BY <1>1 DEF IInv, TypeOK, NoStaleBinding, Owned, Active, vars
<1>2. ASSUME NEW l \in Loggers, NEW d \in Dirs, Bind(l, d) \/ BindRefused(l, d)
      PROVE  IInv'
  BY <1>2, BindInv, BindRefusedInv
<1>3. ASSUME NEW l \in Loggers, CheckFails(l) \/ Opened(l) \/ CloseBegin(l)
      PROVE  IInv'
  BY <1>3, QuietInv
<1>4. ASSUME NEW l \in Loggers, NewFails(l) \/ CloseEnd(l)
      PROVE  IInv'
  BY <1>4, UnbindInv
<1> QED  BY <1>1, <1>2, <1>3, <1>4 DEF Next

\* The inductive invariant of the registry.
THEOREM Invariant == Spec => []IInv
BY InitInv, NextInv, PTL DEF Spec

\* No directory stays bound without a logger that uses it or a New or Close
\* that is about to unbind it (the deferred unbindDir of New, xlog.go:83).
THEOREM NoStale == Spec => []NoStaleBinding
<1>1. IInv => NoStaleBinding
  BY DEF IInv
<1> QED  BY Invariant, <1>1, PTL

\* Directories that no New was ever refused have one logger each and stay
\* bound while it uses them, whichever checks fail and whoever closes.
THEOREM SoundUnlessRefused == Spec => []SoundWithoutRefusal
<1>1. IInv => SoundWithoutRefusal
  BY DEF IInv, SoundWithoutRefusal, Owned, Active, InUse
<1> QED  BY Invariant, <1>1, PTL

=============================================================================
