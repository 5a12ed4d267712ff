------------------------------ MODULE IbcLedger ------------------------------
(***************************************************************************)
(* The continuum ledger of CapabilityService                               *)
(* (crates/revx-daemon/src/lib.rs, crates/revx-daemon/src/ibc.rs): sessions*)
(* by namespace behind a mutex, loaded lazily from                         *)
(* cache/ibc_continuum_ledger.json, changed by tool calls and written back *)
(* by each of them, and the hypotheses the orbits of a session are bound   *)
(* to.  Callers are the blocking tasks of one server process, which may    *)
(* die and start again.  The lattice, witnesses and texts are data: a      *)
(* session is its epoch and its bindings, and what the lattice decides     *)
(* (which branch a visit takes, which orbits are drafted) is left open.    *)
(***************************************************************************)
EXTENDS Naturals, FiniteSets

CONSTANTS
  Caller,         \* concurrent tool calls
  Ns,             \* continuum namespaces
  Orbit,          \* keys of the orbits of a lattice
  Hyp,            \* ids of hypotheses: fresh uuids, so none is used twice
  MaxSessions,    \* sessions a visit leaves in the ledger, 16 in the code
  MaxEpoch,       \* bound of the model on the epoch of a session
  WritesMayFail,  \* may writing the cache file fail?
  None

ASSUME BoundAssumption == MaxSessions \in Nat \ {0} /\ MaxEpoch \in Nat \ {0}

SessionType == [epoch : 0 .. MaxEpoch, bound : [Orbit -> Hyp \cup {None}]]

LedgerType == [active : Ns \cup {None}, sessions : [Ns -> SessionType \cup {None}]]

\* what a hypothesis is about
Subject == [ns : Ns, key : Orbit]

ASSUME NoneAssumption ==
  /\ None \notin Caller /\ None \notin Ns /\ None \notin Hyp
  /\ None \notin SessionType /\ None \notin LedgerType /\ None \notin Subject

VARIABLES
  mem,      \* ibc_ledger, what the mutex protects
  loaded,   \* ibc_ledger_loaded
  lock,     \* the caller that holds the mutex from one step to the next
  file,     \* the cache file, None if there is none
  tmp,      \* the ledger in the temporary file about to be renamed; what a failure
            \* or a crash leaves there is written anew before any rename
  hyp,      \* rows of the table hypotheses: what each is about
  pc,       \* where each caller is
  op,       \* its operation
  ns,       \* its namespace
  got,      \* the ledger it has read from the file
  drafts,   \* the orbits it is about to bind
  then,     \* where it goes once the ledger is written
  stale     \* has the last write failed or a load brought back an older file?

vars == <<mem, loaded, lock, file, tmp, hyp, pc, op, ns, got, drafts, then, stale>>

Unbound == [k \in Orbit |-> None]

EmptyLedger == [active |-> None, sessions |-> [n \in Ns |-> None]]

Init ==
  /\ mem = EmptyLedger
  /\ loaded = FALSE
  /\ lock = None
  /\ file = None
  /\ tmp = None
  /\ hyp = [h \in Hyp |-> None]
  /\ pc = [c \in Caller |-> "idle"]
  /\ op = [c \in Caller |-> None]
  /\ ns = [c \in Caller |-> None]
  /\ got = [c \in Caller |-> None]
  /\ drafts = [c \in Caller |-> {}]
  /\ then = [c \in Caller |-> None]
  /\ stale = FALSE

Goto(c, label) == pc' = [pc EXCEPT ![c] = label]

\* c is at the label and takes the mutex for one step
Locked(c, label) == pc[c] = label /\ lock = None

Session(c) == mem.sessions[ns[c]]

Present(sessions) == {n \in Ns : sessions[n] # None}

-----------------------------------------------------------------------------
(* ensure_ibc_ledger_loaded.  An operator whose name ends in _Slip is a    *)
(* plausible mistake in the definition after it, used by no specification. *)

\* a call begins and finds the ledger loaded, or has to load it
Call(c, o, n) ==
  /\ pc[c] = "idle"
  /\ op' = [op EXCEPT ![c] = o]
  /\ ns' = [ns EXCEPT ![c] = n]
  /\ Goto(c, IF loaded THEN "run" ELSE "read")
  /\ UNCHANGED <<mem, loaded, lock, file, tmp, hyp, got, drafts, then, stale>>

\* read_cache_json: no file, no ledger
Read(c) ==
  /\ pc[c] = "read"
  /\ got' = [got EXCEPT ![c] = file]
  /\ Goto(c, IF file = None THEN "flag" ELSE "adopt")
  /\ UNCHANGED <<mem, loaded, lock, file, tmp, hyp, op, ns, drafts, then, stale>>

\* the ledger read replaces the one in memory, whatever that is by now
Adopt(c) ==
  /\ Locked(c, "adopt")
  /\ mem' = got[c]
  /\ stale' = (got[c] # file)
  /\ got' = [got EXCEPT ![c] = None]
  /\ Goto(c, "flag")
  /\ UNCHANGED <<loaded, lock, file, tmp, hyp, op, ns, drafts, then>>

SetFlag(c) ==
  /\ pc[c] = "flag"
  /\ loaded' = TRUE
  /\ Goto(c, "run")
  /\ UNCHANGED <<mem, lock, file, tmp, hyp, op, ns, got, drafts, then, stale>>

-----------------------------------------------------------------------------
(* the operations *)

\* ibc_status only reads
Status(c) ==
  /\ Locked(c, "run")
  /\ op[c] = "status"
  /\ Goto(c, "reply")
  /\ UNCHANGED <<mem, loaded, lock, file, tmp, hyp, op, ns, got, drafts, then, stale>>

Bumped(s) == IF s.epoch < MaxEpoch THEN {[s EXCEPT !.epoch = @ + 1]} ELSE {}

\* continuum_on_visit_ns: a new session or a dispatcher begin at epoch 1 and
\* unbound; the same focus or a hit of the plan goes on; else nothing changes
Visited(s) ==
  LET new == [epoch |-> 1, bound |-> Unbound]
  IN IF s = None THEN {new} ELSE {s, new} \cup Bumped(s)

\* the oldest go, ties and all, whichever they are
Retained_Slip(sessions, active) ==
  LET present == Present(sessions)
  IN IF Cardinality(present) <= MaxSessions THEN {present}
     ELSE {K \in SUBSET present : Cardinality(K) = MaxSessions}

\* the namespaces that may be left after eviction.  Which of the others are
\* the oldest is open: stamps are milliseconds and tie, and ibc_advance sets none
Retained(sessions, active) ==
  LET present == Present(sessions)
  IN IF Cardinality(present) <= MaxSessions THEN {present}
     ELSE {K \in SUBSET present : active \in K /\ Cardinality(K) = MaxSessions}

\* continuum_ledger_on_visit_with_observation, under one lock
Visit(c) ==
  /\ Locked(c, "run")
  /\ op[c] = "visit"
  /\ \E s \in Visited(Session(c)) :
       LET sessions == [mem.sessions EXCEPT ![ns[c]] = s]
       IN \E K \in Retained(sessions, ns[c]) :
            mem' = [active |-> ns[c],
                    sessions |-> [n \in Ns |-> IF n \in K THEN sessions[n] ELSE None]]
  /\ then' = [then EXCEPT ![c] = "drafts"]
  /\ Goto(c, "persist")
  /\ UNCHANGED <<loaded, lock, file, tmp, hyp, op, ns, got, drafts, stale>>

\* the ledger is written only where orbits are bound
Advance_Slip(c) ==
  /\ Locked(c, "run")
  /\ op[c] = "advance"
  /\ LET s == IF Session(c) = None THEN [epoch |-> 0, bound |-> Unbound] ELSE Session(c)
     IN \E t \in {s} \cup Bumped(s) :
          mem' = [active |-> ns[c], sessions |-> [mem.sessions EXCEPT ![ns[c]] = t]]
  /\ Goto(c, "drafts")
  /\ UNCHANGED <<loaded, lock, file, tmp, hyp, op, ns, got, drafts, then, stale>>

\* run_ibc_advance: a missing session is inserted at epoch 0, none is evicted
Advance(c) ==
  /\ Locked(c, "run")
  /\ op[c] = "advance"
  /\ LET s == IF Session(c) = None THEN [epoch |-> 0, bound |-> Unbound] ELSE Session(c)
     IN \E t \in {s} \cup Bumped(s) :
          mem' = [active |-> ns[c], sessions |-> [mem.sessions EXCEPT ![ns[c]] = t]]
  /\ then' = [then EXCEPT ![c] = "drafts"]
  /\ Goto(c, "persist")
  /\ UNCHANGED <<loaded, lock, file, tmp, hyp, op, ns, got, drafts, stale>>

-----------------------------------------------------------------------------
(* persist_ibc_ledger: the mutex is held while the file is written *)

\* the guard is dropped once the ledger is serialised
Write_Slip(c) ==
  /\ Locked(c, "persist")
  /\ tmp' = mem
  /\ Goto(c, "rename")
  /\ UNCHANGED <<mem, loaded, lock, file, hyp, op, ns, got, drafts, then, stale>>

Write(c) ==
  /\ Locked(c, "persist")
  /\ lock' = c
  /\ tmp' = mem
  /\ Goto(c, "rename")
  /\ UNCHANGED <<mem, loaded, file, hyp, op, ns, got, drafts, then, stale>>

\* the mutex is free, and c goes on where it was going
Continue(c) ==
  /\ lock' = None
  /\ Goto(c, then[c])
  /\ then' = [then EXCEPT ![c] = None]

Rename(c) ==
  /\ pc[c] = "rename"
  /\ file' = tmp
  /\ tmp' = None
  /\ stale' = FALSE
  /\ Continue(c)
  /\ UNCHANGED <<mem, loaded, hyp, op, ns, got, drafts>>

\* `let _ =`: the call goes on as if the ledger were written
WriteFails(c) ==
  /\ WritesMayFail
  /\ Locked(c, "persist") \/ pc[c] = "rename"
  /\ tmp' = None
  /\ stale' = TRUE
  /\ Continue(c)
  /\ UNCHANGED <<mem, loaded, file, hyp, op, ns, got, drafts>>

-----------------------------------------------------------------------------
(* forge_and_bind_orbit_hypotheses and seal_orbit_hypotheses_from_collapses *)

\* forge_orbit_hypothesis_drafts: which orbits the lattice has is open
Drafts(s) == IF s = None THEN {{}} ELSE SUBSET Orbit

\* seal_plan_from_proof_chain: only links with a hypothesis can be sealed
Sealable(s) == s # None /\ s.bound # Unbound

Draft(c) ==
  /\ Locked(c, "drafts")
  /\ \E d \in Drafts(Session(c)) :
       /\ drafts' = [drafts EXCEPT ![c] = d]
       /\ Goto(c, IF d = {} THEN "seal" ELSE "bind")
  /\ UNCHANGED <<mem, loaded, lock, file, tmp, hyp, op, ns, got, then, stale>>

\* the mutex again, and the session may be another one by now, or gone
BeginBind(c) ==
  /\ Locked(c, "bind")
  /\ IF Session(c) = None
       THEN /\ drafts' = [drafts EXCEPT ![c] = {}]
            /\ Goto(c, "seal")
            /\ UNCHANGED lock
       ELSE /\ lock' = c
            /\ Goto(c, "binding")
            /\ UNCHANGED drafts
  /\ UNCHANGED <<mem, loaded, file, tmp, hyp, op, ns, got, then, stale>>

Drafted(c, k) ==
  /\ pc[c] = "binding"
  /\ k \in drafts[c]
  /\ drafts' = [drafts EXCEPT ![c] = @ \ {k}]
  /\ UNCHANGED <<loaded, lock, file, tmp, pc, op, ns, got, then, stale>>

\* update_hypothesis writes texts; create_hypothesis fails before its INSERT
Refresh(c, k) == Drafted(c, k) /\ UNCHANGED <<mem, hyp>>

\* an id taken from the draft, which another hypothesis may have
Created_Slip(c, k, h) == hyp' = [hyp EXCEPT ![h] = [ns |-> ns[c], key |-> k]]

Created(c, k, h) ==
  /\ hyp[h] = None
  /\ hyp' = [hyp EXCEPT ![h] = [ns |-> ns[c], key |-> k]]

\* every draft is created, bound or not
Bind_Slip(c, k, h) ==
  /\ Drafted(c, k)
  /\ Created(c, k, h)
  /\ mem' = [mem EXCEPT !.sessions[ns[c]].bound[k] = h]

Bind(c, k, h) ==
  /\ Drafted(c, k)
  /\ Session(c).bound[k] = None
  /\ Created(c, k, h)
  /\ mem' = [mem EXCEPT !.sessions[ns[c]].bound[k] = h]

\* create_hypothesis inserts the row, and fails to log it
Orphan(c, k, h) ==
  /\ Drafted(c, k)
  /\ Session(c).bound[k] = None
  /\ Created(c, k, h)
  /\ UNCHANGED mem

EndBind(c) ==
  /\ pc[c] = "binding"
  /\ drafts[c] = {}
  /\ lock' = None
  /\ then' = [then EXCEPT ![c] = "seal"]
  /\ Goto(c, "persist")
  /\ UNCHANGED <<mem, loaded, file, tmp, hyp, op, ns, got, drafts, stale>>

\* a plan that is not empty updates texts of bound hypotheses, and persists
Seal(c) ==
  /\ Locked(c, "seal")
  /\ \/ Goto(c, "reply") /\ UNCHANGED then
     \/ /\ Sealable(Session(c))
        /\ then' = [then EXCEPT ![c] = "reply"]
        /\ Goto(c, "persist")
  /\ UNCHANGED <<mem, loaded, lock, file, tmp, hyp, op, ns, got, drafts, stale>>

Reply(c) ==
  /\ pc[c] = "reply"
  /\ Goto(c, "idle")
  /\ op' = [op EXCEPT ![c] = None]
  /\ ns' = [ns EXCEPT ![c] = None]
  /\ UNCHANGED <<mem, loaded, lock, file, tmp, hyp, got, drafts, then, stale>>

-----------------------------------------------------------------------------
(* the process dies, and another one serves the same workspace *)

Restart ==
  /\ mem' = EmptyLedger
  /\ loaded' = FALSE
  /\ lock' = None
  /\ tmp' = None
  /\ pc' = [c \in Caller |-> "idle"]
  /\ op' = [c \in Caller |-> None]
  /\ ns' = [c \in Caller |-> None]
  /\ got' = [c \in Caller |-> None]
  /\ drafts' = [c \in Caller |-> {}]
  /\ then' = [c \in Caller |-> None]
  /\ stale' = FALSE
  /\ UNCHANGED <<file, hyp>>

Operation == {"status", "visit", "advance"}

Step(c) ==
  \/ \E o \in Operation, n \in Ns : Call(c, o, n)
  \/ Read(c) \/ Adopt(c) \/ SetFlag(c)
  \/ Status(c) \/ Visit(c) \/ Advance(c)
  \/ Write(c) \/ Rename(c) \/ WriteFails(c)
  \/ Draft(c) \/ BeginBind(c) \/ EndBind(c) \/ Seal(c) \/ Reply(c)
  \/ \E k \in Orbit : Refresh(c, k)
  \/ \E k \in Orbit, h \in Hyp : Bind(c, k, h) \/ Orphan(c, k, h)

Next == Restart \/ \E c \in Caller : Step(c)

Spec == Init /\ [][Next]_vars

-----------------------------------------------------------------------------
(* Properties *)

\* The state is well typed, and the mutex is held from one step to the next
\* exactly by the caller that writes the file or binds hypotheses.
TypeOK ==
  /\ mem \in LedgerType
  /\ {file, tmp} \subseteq LedgerType \cup {None}
  /\ got \in [Caller -> LedgerType \cup {None}]
  /\ hyp \in [Hyp -> Subject \cup {None}]
  /\ loaded \in BOOLEAN /\ stale \in BOOLEAN
  /\ pc \in [Caller -> {"idle", "read", "adopt", "flag", "run", "persist", "rename",
                        "drafts", "bind", "binding", "seal", "reply"}]
  /\ op \in [Caller -> Operation \cup {None}]
  /\ ns \in [Caller -> Ns \cup {None}]
  /\ drafts \in [Caller -> SUBSET Orbit]
  /\ then \in [Caller -> {"drafts", "seal", "reply", None}]
  /\ lock \in Caller \cup {None}
  /\ \A c \in Caller : pc[c] \in {"rename", "binding"} <=> lock = c

\* every ledger there is: in memory, on disk, read and not adopted yet
Ledgers == ({mem, file, tmp} \cup {got[c] : c \in Caller}) \ {None}

\* The active namespace of a ledger has a session, in memory, in the file and
\* in what a caller has read: eviction spares it, whatever advances inserted
\* since the last visit, and the namespace is set with its session.
ActiveHasSession ==
  \A l \in Ledgers : l.active # None => l.sessions[l.active] # None

\* A hypothesis an orbit is bound to exists and is about that orbit of that
\* namespace, also after a crash between its creation and the write of the
\* ledger, and after another call has replaced the session.
BoundToItsOrbit ==
  \A l \in Ledgers, n \in Ns, k \in Orbit :
    l.sessions[n] # None /\ l.sessions[n].bound[k] # None =>
      hyp[l.sessions[n].bound[k]] = [ns |-> n, key |-> k]

\* No second hypothesis is created for an orbit that has one: two calls that
\* draft the same orbit bind it once, since the second looks under the mutex.
NoSecondHypothesis ==
  [][\A h \in Hyp : hyp[h] = None /\ hyp'[h] # None =>
       LET s == mem.sessions[hyp'[h].ns] IN s # None /\ s.bound[hyp'[h].key] = None]_vars

\* What replaces the cache file is the ledger of that moment, whole: neither
\* another caller nor a crash gets between the serialisation and the rename.
WritesCurrent == [][file' # file => file' = mem]_vars

\* When no caller is on its way to write, a loaded ledger is the one in the
\* file, unless a write failed or a slow load brought back an older ledger.
WrittenBack ==
  loaded /\ ~stale /\ (\A c \in Caller : pc[c] \notin {"persist", "rename", "binding"})
    => mem = IF file = None THEN EmptyLedger ELSE file

\* "IBC continuum durable under ns=...": when a visit replies, the file has the
\* session it visited (crates/revx-daemon/src/lib.rs:501).
DurableAtReply ==
  [][\A c \in Caller : op[c] = "visit" /\ pc[c] = "reply" /\ Reply(c) =>
       file # None /\ file.sessions[ns[c]] # None]_vars
=============================================================================
