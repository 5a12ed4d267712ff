--------------------------- MODULE IbcLedgerProofs ---------------------------
(***************************************************************************)
(* Theorems about IbcLedger, for every set of callers, namespaces, orbits  *)
(* and hypotheses and every capacity: the ledgers in memory, in the file   *)
(* and in the hands of a caller are sound, orbits are bound once, and the  *)
(* file is only ever replaced by the ledger of the moment.                 *)
(***************************************************************************)
EXTENDS IbcLedger, TLAPS

\* What ActiveHasSession and BoundToItsOrbit say of one ledger, given the
\* hypotheses there are.
Good(l, rows) ==
  l # None =>
    /\ l.active # None => l.sessions[l.active] # None
    /\ \A n \in Ns, k \in Orbit :
         l.sessions[n] # None /\ l.sessions[n].bound[k] # None =>
           rows[l.sessions[n].bound[k]] = [ns |-> n, key |-> k]

AllGood ==
  Good(mem, hyp) /\ Good(file, hyp) /\ Good(tmp, hyp) /\ \A c \in Caller : Good(got[c], hyp)

\* What each caller knows where it is: it has a call, a ledger to adopt, a
\* place to go to after the write, a session to bind; what it will rename is
\* the ledger in memory.
Frames ==
  \A c \in Caller :
    /\ pc[c] # "idle" => op[c] \in Operation /\ ns[c] \in Ns
    /\ pc[c] = "adopt" => got[c] # None
    /\ pc[c] \in {"persist", "rename"} => then[c] \in {"drafts", "seal", "reply"}
    /\ pc[c] = "binding" => Session(c) # None
    /\ pc[c] = "rename" => tmp = mem

IInv == TypeOK /\ AllGood /\ Frames

LEMMA GoodMeans == AllGood => ActiveHasSession /\ BoundToItsOrbit
  BY DEF AllGood, Good, ActiveHasSession, BoundToItsOrbit, Ledgers

\* New rows do not harm a sound ledger.
LEMMA GoodGrows ==
  ASSUME NEW rows, NEW h \in Hyp, NEW row, NEW l \in LedgerType \cup {None},
         rows \in [Hyp -> Subject \cup {None}], rows[h] = None, Good(l, rows)
  PROVE  Good(l, [rows EXCEPT ![h] = row])
<1> SUFFICES ASSUME l # None PROVE Good(l, [rows EXCEPT ![h] = row])
  BY DEF Good
<1>1. ASSUME NEW n \in Ns, NEW k \in Orbit, l.sessions[n] # None, l.sessions[n].bound[k] # None
      PROVE  [rows EXCEPT ![h] = row][l.sessions[n].bound[k]] = [ns |-> n, key |-> k]
  <2> DEFINE g == l.sessions[n].bound[k]
  <2>1. g \in Hyp
    BY <1>1 DEF LedgerType, SessionType
  <2>2. rows[g] = [ns |-> n, key |-> k] /\ [ns |-> n, key |-> k] \in Subject
    BY <1>1 DEF Good, Subject
  <2>3. g # h
    BY <2>2, NoneAssumption
  <2> QED BY <2>1, <2>2, <2>3
<1> QED BY <1>1 DEF Good

-----------------------------------------------------------------------------
(* What visits, advances and bindings make of a ledger *)

LEMMA VisitedFact ==
  ASSUME NEW s \in SessionType \cup {None}, NEW t \in Visited(s)
  PROVE  /\ t \in SessionType
         /\ t.bound = Unbound \/ (s # None /\ t.bound = s.bound)
  BY BoundAssumption DEF Visited, Bumped, SessionType, Unbound

\* The ledger a visit leaves, with the namespaces in K.
Left(sessions, active, K) ==
  [active |-> active, sessions |-> [n \in Ns |-> IF n \in K THEN sessions[n] ELSE None]]

LEMMA VisitFact ==
  ASSUME NEW l \in LedgerType, NEW n \in Ns, NEW rows, Good(l, rows),
         NEW t \in Visited(l.sessions[n]),
         NEW K \in Retained([l.sessions EXCEPT ![n] = t], n)
  PROVE  /\ Left([l.sessions EXCEPT ![n] = t], n, K) \in LedgerType
         /\ Good(Left([l.sessions EXCEPT ![n] = t], n, K), rows)
<1> DEFINE s == l.sessions[n]
           sessions == [l.sessions EXCEPT ![n] = t]
<1>1. l.sessions \in [Ns -> SessionType \cup {None}] /\ s \in SessionType \cup {None}
  BY DEF LedgerType
<1>2. /\ t \in SessionType /\ t # None
      /\ t.bound = Unbound \/ (s # None /\ t.bound = s.bound)
  BY <1>1, VisitedFact, NoneAssumption
<1>3. sessions \in [Ns -> SessionType \cup {None}] /\ sessions[n] = t
  BY <1>1, <1>2
<1>4. n \in K
  BY <1>2, <1>3 DEF Retained, Present
<1>5. Left(sessions, n, K) \in LedgerType
  BY <1>3 DEF Left, LedgerType
<1>6. ASSUME NEW m \in Ns, NEW k \in Orbit, sessions[m] # None, sessions[m].bound[k] # None
      PROVE  rows[sessions[m].bound[k]] = [ns |-> m, key |-> k]
  <2>1. CASE m = n
    <3>1. t.bound[k] # None
      BY <1>3, <1>6, <2>1
    <3>2. s # None /\ t.bound = s.bound
      BY <1>2, <3>1 DEF Unbound
    <3>3. l # None
      BY NoneAssumption
    <3> QED BY <1>3, <2>1, <3>1, <3>2, <3>3 DEF Good
  <2>2. CASE m # n
    <3>1. l # None /\ sessions[m] = l.sessions[m]
      BY <1>1, <2>2, NoneAssumption
    <3> QED BY <1>6, <3>1 DEF Good
  <2> QED BY <2>1, <2>2
<1>7. Left(sessions, n, K).active = n /\ Left(sessions, n, K).sessions[n] # None
  BY <1>2, <1>3, <1>4 DEF Left
<1>8. ASSUME NEW m \in Ns, Left(sessions, n, K).sessions[m] # None
      PROVE  Left(sessions, n, K).sessions[m] = sessions[m]
  BY <1>8 DEF Left
<1> QED BY <1>5, <1>6, <1>7, <1>8 DEF Good

LEMMA AdvanceFact ==
  ASSUME NEW l \in LedgerType, NEW n \in Ns, NEW rows, Good(l, rows),
         NEW s, s = IF l.sessions[n] = None THEN [epoch |-> 0, bound |-> Unbound] ELSE l.sessions[n],
         NEW t \in {s} \cup Bumped(s)
  PROVE  LET x == [active |-> n, sessions |-> [l.sessions EXCEPT ![n] = t]]
         IN x \in LedgerType /\ Good(x, rows)
<1> DEFINE sessions == [l.sessions EXCEPT ![n] = t]
           x == [active |-> n, sessions |-> sessions]
<1>1. l.sessions \in [Ns -> SessionType \cup {None}]
  BY DEF LedgerType
<1>2. s \in SessionType
  BY <1>1, BoundAssumption DEF SessionType, Unbound
<1>3. t \in SessionType /\ t # None /\ t.bound = s.bound
  BY <1>2, BoundAssumption, NoneAssumption DEF Bumped, SessionType
<1>4. sessions \in [Ns -> SessionType \cup {None}] /\ sessions[n] = t
  BY <1>1, <1>3
<1>5. ASSUME NEW m \in Ns, NEW k \in Orbit, sessions[m] # None, sessions[m].bound[k] # None
      PROVE  rows[sessions[m].bound[k]] = [ns |-> m, key |-> k]
  <2>1. CASE m = n
    <3>1. s.bound[k] # None
      BY <1>3, <1>4, <1>5, <2>1
    <3>2. s = l.sessions[n] /\ l.sessions[n] # None
      BY <3>1 DEF Unbound
    <3>3. l # None
      BY NoneAssumption
    <3> QED BY <1>3, <1>4, <2>1, <3>1, <3>2, <3>3 DEF Good
  <2>2. CASE m # n
    <3>1. l # None /\ sessions[m] = l.sessions[m]
      BY <1>1, <2>2, NoneAssumption
    <3> QED BY <1>5, <3>1 DEF Good
  <2> QED BY <2>1, <2>2
<1>6. x \in LedgerType
  BY <1>4 DEF LedgerType
<1> QED BY <1>3, <1>4, <1>5, <1>6 DEF Good

\* Binding orbit k of namespace n to h, and inserting the row of h.
BoundTo(l, n, k, h) == [l EXCEPT !.sessions[n].bound[k] = h]

WithRow(rows, n, k, h) == [rows EXCEPT ![h] = [ns |-> n, key |-> k]]

LEMMA BindFact ==
  ASSUME NEW l \in LedgerType, NEW n \in Ns, NEW k \in Orbit, NEW h \in Hyp,
         NEW rows, rows \in [Hyp -> Subject \cup {None}], rows[h] = None,
         l.sessions[n] # None, Good(l, rows)
  PROVE  /\ BoundTo(l, n, k, h) \in LedgerType
         /\ Good(BoundTo(l, n, k, h), WithRow(rows, n, k, h))
         /\ \A m \in Ns : l.sessions[m] # None => BoundTo(l, n, k, h).sessions[m] # None
<1> DEFINE s == l.sessions[n]
           t == [s EXCEPT !.bound[k] = h]
           sessions == [l.sessions EXCEPT ![n] = t]
           x == [l EXCEPT !.sessions[n].bound[k] = h]
           new == [rows EXCEPT ![h] = [ns |-> n, key |-> k]]
<1>1. /\ l.sessions \in [Ns -> SessionType \cup {None}] /\ l.active \in Ns \cup {None}
      /\ s \in SessionType
  BY DEF LedgerType
<1>2. /\ t \in SessionType /\ t # None
      /\ \A j \in Orbit : t.bound[j] = IF j = k THEN h ELSE s.bound[j]
  BY <1>1, NoneAssumption DEF SessionType
<1>3. sessions \in [Ns -> SessionType \cup {None}]
  BY <1>1, <1>2
<1>4. x = [active |-> l.active, sessions |-> sessions]
  BY <1>1 DEF LedgerType
<1>5. x \in LedgerType /\ x # None
  BY <1>1, <1>3, <1>4, NoneAssumption DEF LedgerType
<1>6. Good(l, new) /\ l # None
  BY GoodGrows, NoneAssumption
<1>7. new[h] = [ns |-> n, key |-> k]
  OBVIOUS
<1>8. ASSUME NEW m \in Ns, NEW j \in Orbit, sessions[m] # None, sessions[m].bound[j] # None
      PROVE  new[sessions[m].bound[j]] = [ns |-> m, key |-> j]
  <2>1. CASE m = n /\ j = k
    BY <1>1, <1>2, <1>7, <2>1
  <2>2. CASE m = n /\ j # k
    <3>1. sessions[m].bound[j] = l.sessions[m].bound[j] /\ l.sessions[m] # None
      BY <1>1, <1>2, <2>2
    <3>2. l.sessions[m].bound[j] # None
      BY <1>8, <3>1
    <3> HIDE DEF new, sessions
    <3> QED BY <1>6, <3>1, <3>2 DEF Good
  <2>3. CASE m # n
    <3>1. sessions[m] = l.sessions[m]
      BY <1>1, <2>3
    <3>2. l.sessions[m] # None /\ l.sessions[m].bound[j] # None
      BY <1>8, <3>1
    <3> HIDE DEF new, sessions
    <3> QED BY <1>6, <3>1, <3>2 DEF Good
  <2> QED BY <2>1, <2>2, <2>3
<1>9. ASSUME NEW m \in Ns, l.sessions[m] # None PROVE sessions[m] # None
  BY <1>1, <1>2, <1>9
<1>10. x.active # None => x.sessions[x.active] # None
  BY <1>1, <1>4, <1>6, <1>9 DEF Good
<1>11. Good(x, new)
  <2> HIDE DEF new, sessions, x
  <2> QED BY <1>4, <1>8, <1>10 DEF Good
<1> QED BY <1>4, <1>5, <1>9, <1>11 DEF BoundTo, WithRow

-----------------------------------------------------------------------------
(* The invariant is inductive *)

LEMMA InitInv == Init => IInv
<1> SUFFICES ASSUME Init PROVE IInv
  OBVIOUS
<1>1. EmptyLedger \in LedgerType
  BY DEF EmptyLedger, LedgerType
<1>2. Good(EmptyLedger, hyp) /\ Good(None, hyp)
  BY DEF EmptyLedger, Good
<1>3. TypeOK
  BY <1>1, NoneAssumption DEF Init, TypeOK
<1>4. AllGood /\ Frames
  BY <1>2 DEF Init, AllGood, Frames
<1> QED BY <1>3, <1>4 DEF IInv

\* Steps that leave ledgers and rows alone and are about the caller only.
LEMMA LocalInv ==
  ASSUME NEW c \in Caller, IInv,
         \/ \E o \in Operation, n \in Ns : Call(c, o, n)
         \/ SetFlag(c) \/ Status(c) \/ Draft(c) \/ BeginBind(c) \/ Seal(c) \/ Reply(c)
         \/ \E k \in Orbit : Refresh(c, k)
         \/ EndBind(c)
  PROVE  IInv'
<1> USE NoneAssumption DEF IInv
<1>1. UNCHANGED <<mem, file, tmp, hyp, got>>
  BY DEF Call, SetFlag, Status, Draft, BeginBind, Seal, Reply, Refresh, Drafted, EndBind
<1>2. AllGood'
  BY <1>1 DEF AllGood, Good
<1>3. TypeOK' /\ Frames'
  <2> USE DEF TypeOK, Frames, Goto, Locked, Session
  <2>1. CASE \E o \in Operation, n \in Ns : Call(c, o, n)
    BY <2>1 DEF Call
  <2>2. CASE SetFlag(c)
    BY <2>2 DEF SetFlag
  <2>3. CASE Status(c)
    BY <2>3 DEF Status
  <2>4. CASE Draft(c)
    BY <2>4 DEF Draft, Drafts
  <2>5. CASE BeginBind(c)
    BY <2>5 DEF BeginBind
  <2>6. CASE Seal(c)
    <3>1. TypeOK'
      BY <2>6 DEF Seal
    <3>2. Frames'
      BY <2>6 DEF Seal
    <3> QED BY <3>1, <3>2
  <2>7. CASE Reply(c)
    BY <2>7 DEF Reply
  <2>8. CASE \E k \in Orbit : Refresh(c, k)
    BY <2>8 DEF Refresh, Drafted
  <2>9. CASE EndBind(c)
    <3>1. lock = c /\ \A d \in Caller \ {c} : pc[d] \notin {"rename", "binding"}
      BY <2>9 DEF EndBind
    <3>2. TypeOK'
      BY <2>9, <3>1 DEF EndBind
    <3>3. Frames'
      BY <2>9, <3>1 DEF EndBind
    <3> QED BY <3>2, <3>3
  <2> QED BY <2>1, <2>2, <2>3, <2>4, <2>5, <2>6, <2>7, <2>8, <2>9
<1> QED BY <1>2, <1>3

\* Ledgers move between memory, the files and the callers, none is made.
LEMMA MoveInv ==
  ASSUME NEW c \in Caller, IInv,
         Read(c) \/ Adopt(c) \/ Write(c) \/ Rename(c) \/ WriteFails(c)
  PROVE  IInv'
<1> USE NoneAssumption DEF IInv
<1>0. Good(None, hyp)
  BY DEF Good
<1>1. CASE Read(c)
  <2> USE <1>1 DEF Read, Goto
  <2>1. TypeOK' /\ Frames'
    BY DEF TypeOK, Frames, Session
  <2>2. AllGood'
    <3>1. \A d \in Caller : got'[d] = got[d] \/ got'[d] = file
      BY DEF TypeOK
    <3> QED BY <3>1 DEF AllGood, Good
  <2> QED BY <2>1, <2>2
<1>2. CASE Adopt(c)
  <2> USE <1>2 DEF Adopt, Goto, Locked
  <2>1. TypeOK' /\ Frames'
    BY DEF TypeOK, Frames, Session
  <2>2. \A d \in Caller : got'[d] = got[d] \/ got'[d] = None
    BY DEF TypeOK
  <2>3. AllGood'
    BY <1>0, <2>2 DEF AllGood, Good
  <2> QED BY <2>1, <2>3
<1>3. CASE Write(c)
  <2> USE <1>3 DEF Write, Goto, Locked
  <2>1. TypeOK' /\ Frames'
    BY DEF TypeOK, Frames, Session
  <2>2. AllGood'
    BY DEF AllGood, Good
  <2> QED BY <2>1, <2>2
<1>4. CASE Rename(c)
  <2> USE <1>4 DEF Rename, Continue, Goto
  <2>1. TypeOK' /\ Frames'
    BY DEF TypeOK, Frames, Session
  <2>2. AllGood'
    BY <1>0 DEF AllGood, Good
  <2> QED BY <2>1, <2>2
<1>5. CASE WriteFails(c)
  <2> USE <1>5 DEF WriteFails, Continue, Goto, Locked
  <2>1. TypeOK' /\ Frames'
    BY DEF TypeOK, Frames, Session
  <2>2. AllGood'
    BY <1>0 DEF AllGood, Good
  <2> QED BY <2>1, <2>2
<1> QED BY <1>1, <1>2, <1>3, <1>4, <1>5

\* A visit or an advance makes a new ledger under the mutex.
LEMMA OperationInv ==
  ASSUME NEW c \in Caller, IInv, Visit(c) \/ Advance(c)
  PROVE  IInv'
<1> USE NoneAssumption DEF IInv
<1>1. /\ pc[c] = "run" /\ lock = None /\ ns[c] \in Ns /\ mem \in LedgerType
      /\ Good(mem, hyp)
  BY DEF Visit, Advance, Locked, Frames, TypeOK, AllGood
<1>2. /\ then' = [then EXCEPT ![c] = "drafts"] /\ pc' = [pc EXCEPT ![c] = "persist"]
      /\ UNCHANGED <<loaded, lock, file, tmp, hyp, op, ns, got, drafts, stale>>
  BY DEF Visit, Advance, Goto
<1>3. mem' \in LedgerType /\ Good(mem', hyp)
  <2>1. CASE Visit(c)
    <3>1. PICK t \in Visited(mem.sessions[ns[c]]) :
            \E K \in Retained([mem.sessions EXCEPT ![ns[c]] = t], ns[c]) :
              mem' = Left([mem.sessions EXCEPT ![ns[c]] = t], ns[c], K)
      BY <2>1 DEF Visit, Left, Session
    <3>2. PICK K \in Retained([mem.sessions EXCEPT ![ns[c]] = t], ns[c]) :
            mem' = Left([mem.sessions EXCEPT ![ns[c]] = t], ns[c], K)
      BY <3>1
    <3> QED BY <1>1, <3>2, VisitFact
  <2>2. CASE Advance(c)
    <3> DEFINE s == IF mem.sessions[ns[c]] = None
                      THEN [epoch |-> 0, bound |-> Unbound] ELSE mem.sessions[ns[c]]
    <3>1. PICK t \in {s} \cup Bumped(s) :
            mem' = [active |-> ns[c], sessions |-> [mem.sessions EXCEPT ![ns[c]] = t]]
      BY <2>2 DEF Advance, Session
    <3> HIDE DEF s
    <3> QED BY <1>1, <3>1, AdvanceFact DEF s
  <2> QED BY <2>1, <2>2
<1>4. TypeOK'
  BY <1>1, <1>2, <1>3 DEF TypeOK
<1>5. AllGood'
  BY <1>2, <1>3 DEF AllGood, Good
<1>6. Frames'
  <2>1. \A d \in Caller : pc[d] \notin {"rename", "binding"}
    BY <1>1 DEF TypeOK
  <2> QED BY <1>1, <1>2, <2>1 DEF Frames, TypeOK, Session
<1> QED BY <1>4, <1>5, <1>6

\* A row is inserted, and bound or not.
LEMMA CreateInv ==
  ASSUME NEW c \in Caller, NEW k \in Orbit, NEW h \in Hyp, IInv,
         Bind(c, k, h) \/ Orphan(c, k, h)
  PROVE  IInv'
<1> USE NoneAssumption DEF IInv
<1> DEFINE new == WithRow(hyp, ns[c], k, h)
<1>1. /\ pc[c] = "binding" /\ lock = c /\ ns[c] \in Ns /\ Session(c) # None
      /\ mem \in LedgerType /\ Good(mem, hyp)
      /\ hyp \in [Hyp -> Subject \cup {None}] /\ hyp[h] = None
  BY DEF Bind, Orphan, Drafted, Created, Frames, TypeOK, AllGood
<1>2. /\ hyp' = new /\ drafts' = [drafts EXCEPT ![c] = @ \ {k}]
      /\ UNCHANGED <<loaded, lock, file, tmp, pc, op, ns, got, then, stale>>
  BY DEF Bind, Orphan, Drafted, Created, WithRow
<1>3. /\ mem' \in LedgerType /\ Good(mem', new)
      /\ \A m \in Ns : mem.sessions[m] # None => mem'.sessions[m] # None
  <2>1. CASE Bind(c, k, h)
    <3>1. mem' = BoundTo(mem, ns[c], k, h) /\ mem.sessions[ns[c]] # None
      BY <1>1, <2>1 DEF Bind, Session, BoundTo
    <3> QED BY <1>1, <3>1, BindFact
  <2>2. CASE Orphan(c, k, h)
    BY <1>1, <2>2, GoodGrows DEF Orphan, WithRow
  <2> QED BY <2>1, <2>2
<1>4. new \in [Hyp -> Subject \cup {None}]
  BY <1>1 DEF Subject, WithRow
<1>5. TypeOK'
  BY <1>2, <1>3, <1>4 DEF TypeOK
<1>6. ASSUME NEW l \in LedgerType \cup {None}, Good(l, hyp) PROVE Good(l, new)
  BY <1>1, <1>6, GoodGrows DEF WithRow
<1>7. AllGood'
  <2> HIDE DEF new
  <2>1. Good(file, new) /\ Good(tmp, new) /\ \A d \in Caller : Good(got[d], new)
    BY <1>6 DEF AllGood, TypeOK
  <2> QED BY <1>2, <1>3, <2>1 DEF AllGood
<1>8. Frames'
  <2>1. \A d \in Caller : pc[d] # "rename"
    BY <1>1 DEF TypeOK
  <2> QED BY <1>1, <1>2, <1>3, <2>1 DEF Frames, Session, TypeOK
<1> QED BY <1>5, <1>7, <1>8

LEMMA RestartInv == IInv /\ Restart => IInv'
<1> SUFFICES ASSUME IInv, Restart PROVE IInv'
  OBVIOUS
<1>1. EmptyLedger \in LedgerType /\ Good(EmptyLedger, hyp) /\ Good(None, hyp)
  BY DEF EmptyLedger, LedgerType, Good
<1>2. TypeOK' /\ Frames'
  <2>1. \A d \in Caller : pc'[d] = "idle"
    BY DEF Restart
  <2>2. \A d \in Caller : pc'[d] \in {"rename", "binding"} <=> lock' = d
    BY <2>1, NoneAssumption DEF Restart
  <2>3. {file', tmp'} \subseteq LedgerType \cup {None} /\ mem' \in LedgerType
    BY <1>1 DEF IInv, Restart, TypeOK
  <2>4. TypeOK'
    BY <2>2, <2>3 DEF IInv, Restart, TypeOK
  <2>5. Frames'
    BY <2>1 DEF Frames
  <2> QED BY <2>4, <2>5
<1>3. AllGood'
  BY <1>1 DEF IInv, Restart, AllGood, Good
<1> QED BY <1>2, <1>3 DEF IInv

LEMMA StepInv == IInv /\ [Next]_vars => IInv'
<1> SUFFICES ASSUME IInv, [Next]_vars PROVE IInv'
  OBVIOUS
<1>1. ASSUME NEW c \in Caller, Step(c) PROVE IInv'
  BY <1>1, LocalInv, MoveInv, OperationInv, CreateInv DEF Step
<1>2. CASE Restart
  BY <1>2, RestartInv
<1>3. CASE UNCHANGED vars
  BY <1>3 DEF vars, IInv, TypeOK, AllGood, Good, Frames, Session
<1> QED BY <1>1, <1>2, <1>3 DEF Next

-----------------------------------------------------------------------------
(* Theorems *)

\* The invariant: every ledger is sound, and callers know what they hold.
THEOREM Invariance == Spec => []IInv
<1> QED BY InitInv, StepInv, PTL DEF Spec

\* The state is well typed, and the mutex is held by who writes or binds
\* (ibc_ledger, crates/revx-daemon/src/lib.rs).
THEOREM TypeCorrect == Spec => []TypeOK
<1>1. IInv => TypeOK
  BY DEF IInv
<1> QED BY Invariance, <1>1, PTL

\* Eviction and interrupted loads never leave an active namespace without its
\* session (continuum_ledger_on_visit_with_observation).
THEOREM ActiveKept == Spec => []ActiveHasSession
<1>1. IInv => ActiveHasSession
  BY GoodMeans DEF IInv
<1> QED BY Invariance, <1>1, PTL

\* An orbit is bound to an existing hypothesis about it, in every copy of the
\* ledger (forge_and_bind_orbit_hypotheses).
THEOREM BindingsTrue == Spec => []BoundToItsOrbit
<1>1. IInv => BoundToItsOrbit
  BY GoodMeans DEF IInv
<1> QED BY Invariance, <1>1, PTL

\* A hypothesis is created only for an orbit that has none, whatever other
\* calls have bound since the drafts were made (forge_and_bind_orbit_hypotheses).
THEOREM BoundOnce == Spec => NoSecondHypothesis
<1> DEFINE Once(h) ==
      hyp[h] = None /\ hyp'[h] # None =>
        LET s == mem.sessions[hyp'[h].ns] IN s # None /\ s.bound[hyp'[h].key] = None
<1>1. ASSUME IInv, [Next]_vars, NEW h \in Hyp, hyp' # hyp PROVE Once(h)
  <2>1. PICK c \in Caller, k \in Orbit, g \in Hyp : Bind(c, k, g) \/ Orphan(c, k, g)
    BY <1>1 DEF Next, Step, Restart, Call, Read, Adopt, SetFlag, Status, Visit, Advance,
       Write, Rename, WriteFails, Draft, BeginBind, EndBind, Seal, Reply, Refresh, vars
  <2>2. /\ hyp' = [hyp EXCEPT ![g] = [ns |-> ns[c], key |-> k]]
        /\ Session(c).bound[k] = None /\ pc[c] = "binding"
    BY <2>1 DEF Bind, Orphan, Created, Drafted
  <2>3. Session(c) # None
    BY <1>1, <2>2 DEF IInv, Frames
  <2> QED BY <1>1, <2>2, <2>3 DEF IInv, TypeOK, Session
<1>2. IInv /\ [Next]_vars => [\A h \in Hyp : Once(h)]_vars
  BY <1>1
<1> QED BY Invariance, <1>2, PTL DEF Spec, NoSecondHypothesis

\* The file is replaced only by the ledger in memory at that moment
\* (persist_ibc_ledger, write_cache_json).
THEOREM FileIsCurrent == Spec => WritesCurrent
<1>1. IInv /\ [Next]_vars => [file' # file => file' = mem]_vars
  <2> SUFFICES ASSUME IInv, [Next]_vars, file' # file PROVE file' = mem
    OBVIOUS
  <2>1. PICK c \in Caller : Step(c)
    BY DEF Next, Restart, vars
  <2>2. Rename(c)
    BY <2>1 DEF Step, Call, Read, Adopt, SetFlag, Status, Visit, Advance, Write,
       WriteFails, Draft, BeginBind, EndBind, Seal, Reply, Refresh, Bind, Orphan, Drafted
  <2> QED BY <2>2 DEF Rename, IInv, Frames
<1> QED BY Invariance, <1>1, PTL DEF Spec, WritesCurrent

-----------------------------------------------------------------------------
(* The file keeps up with the ledger in memory *)

\* Some caller has got past loading.
Begun == loaded \/ \E c \in Caller : pc[c] = "flag"

Quiet == \A c \in Caller : pc[c] \notin {"persist", "rename", "binding"}

\* Before the first load the ledger is empty; after it, it is the one in the
\* file as long as nobody is on the way to write and nothing went wrong.
Saved ==
  /\ \A c \in Caller : pc[c] \notin {"idle", "read", "adopt", "flag"} => loaded
  /\ ~ Begun => mem = EmptyLedger
  /\ Begun /\ ~ stale /\ Quiet => mem = IF file = None THEN EmptyLedger ELSE file

LEMMA SavedInit == Init => Saved
  BY DEF Init, Saved, Begun

LEMMA SavedStep ==
  ASSUME NEW c \in Caller, IInv, Saved, Step(c)
  PROVE  Saved'
<1> USE DEF Saved, Begun, Quiet, Goto, Locked
<1>1. /\ pc \in [Caller -> {"idle", "read", "adopt", "flag", "run", "persist", "rename",
                            "drafts", "bind", "binding", "seal", "reply"}]
      /\ mem # None
      /\ pc[c] = "rename" => tmp = mem
      /\ pc[c] \in {"persist", "rename"} => then[c] \in {"drafts", "seal", "reply"}
  BY NoneAssumption DEF IInv, TypeOK, Frames
<1>2. CASE \E o \in Operation, n \in Ns : Call(c, o, n)
  BY <1>1, <1>2 DEF Call
<1>3. CASE Read(c)
  BY <1>1, <1>3 DEF Read
<1>4. CASE Adopt(c)
  BY <1>1, <1>4 DEF Adopt, IInv, Frames
<1>5. CASE SetFlag(c)
  BY <1>1, <1>5 DEF SetFlag
<1>6. CASE Status(c) \/ Draft(c) \/ BeginBind(c) \/ Reply(c) \/ Seal(c)
  BY <1>1, <1>6 DEF Status, Draft, BeginBind, Reply, Seal
<1>7. CASE Visit(c) \/ Advance(c) \/ EndBind(c)
  BY <1>1, <1>7 DEF Visit, Advance, EndBind
<1>8. CASE Write(c)
  BY <1>1, <1>8 DEF Write
<1>9. CASE Rename(c)
  BY <1>1, <1>9 DEF Rename, Continue
<1>10. CASE WriteFails(c)
  BY <1>1, <1>10 DEF WriteFails, Continue
<1>11. CASE \/ \E k \in Orbit : Refresh(c, k)
            \/ \E k \in Orbit, h \in Hyp : Bind(c, k, h) \/ Orphan(c, k, h)
  <2>1. pc[c] = "binding" /\ UNCHANGED <<pc, loaded>>
    BY <1>11 DEF Refresh, Bind, Orphan, Drafted
  <2> QED BY <2>1
<1> QED BY <1>2, <1>3, <1>4, <1>5, <1>6, <1>7, <1>8, <1>9, <1>10, <1>11 DEF Step

\* When nobody is on the way to write, the file has the ledger of a loaded
\* service, unless a write failed or a slow first call brought back an older
\* one (ensure_ibc_ledger_loaded, persist_ibc_ledger).
THEOREM FileKeepsUp == Spec => []WrittenBack
<1>1. IInv /\ Saved /\ [Next]_vars => Saved'
  <2> SUFFICES ASSUME IInv, Saved, [Next]_vars PROVE Saved'
    OBVIOUS
  <2>1. CASE Restart
    BY <2>1 DEF Restart, Saved, Begun
  <2>2. CASE UNCHANGED vars
    BY <2>2 DEF vars, Saved, Begun, Quiet
  <2> QED BY <2>1, <2>2, SavedStep DEF Next
<1>2. Saved => WrittenBack
  BY DEF Saved, Begun, Quiet, WrittenBack
<1> QED BY Invariance, SavedInit, <1>1, <1>2, PTL DEF Spec
=============================================================================
