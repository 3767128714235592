--------------------------- MODULE Sandbox_proofs ---------------------------
(***************************************************************************)
(* The safety properties of Sandbox, proved for any number of audits,      *)
(* ports and threads, and any projects.  Whether two audits meet is a      *)
(* matter of whom they share their port with (Sharing), not of the order   *)
(* in which their applications come and go.                                *)
(***************************************************************************)
EXTENDS Sandbox, FiniteSetTheorems, TLAPS

\* An audit that still counts on its port.
Active(a) == InSession(a) \/ Running(a)

\* Nothing runs for an audit before Launch.
NotYetLaunched ==
    \A a \in Audits : pc[a] \in {"queued", "picked"} => app[a] = "none"

\* Active audits have chosen a port; those with the same port have collided.
Sharing ==
    /\ \A a \in Audits : Active(a) => port[a] \in Ports
    /\ \A a, b \in Audits :
          a # b /\ Active(a) /\ Active(b) /\ port[a] = port[b] => a \in collided

IInv == TypeOK /\ NotYetLaunched /\ Sharing /\ NoneLeftRunning /\ ForeignOnlyByCollision

-----------------------------------------------------------------------------
(* The pool: what a step does to the sessions under way *)

Sessions == {a \in Audits : InSession(a)}

\* A step that begins no session keeps within the pool.
LEMMA PoolShrinks ==
    ASSUME Cardinality(Sessions) <= Workers, Sessions' \subseteq Sessions
    PROVE  Cardinality(Sessions') <= Workers
<1>1. IsFiniteSet(Sessions)
    BY AuditsAssumption, FS_Subset DEF Sessions
<1>2. Cardinality(Sessions') <= Cardinality(Sessions)
    BY <1>1, FS_Subset
<1>3. Cardinality(Sessions) \in Nat /\ Cardinality(Sessions') \in Nat
    BY <1>1, FS_Subset, FS_CardinalityType
<1>4. QED
    BY <1>2, <1>3, PoolAssumption

\* A session begins only when a thread is free.
LEMMA PoolGrows ==
    ASSUME NEW a, Cardinality(Sessions) < Workers, Sessions' \subseteq Sessions \union {a}
    PROVE  Cardinality(Sessions') <= Workers
<1>1. IsFiniteSet(Sessions)
    BY AuditsAssumption, FS_Subset DEF Sessions
<1>2. /\ IsFiniteSet(Sessions \union {a})
      /\ Cardinality(Sessions \union {a}) <= Cardinality(Sessions) + 1
  <2>1. Cardinality(Sessions) \in Nat
      BY <1>1, FS_CardinalityType
  <2>2. /\ IsFiniteSet(Sessions \union {a})
        /\ Cardinality(Sessions \union {a}) =
              IF a \in Sessions THEN Cardinality(Sessions) ELSE Cardinality(Sessions) + 1
      BY <1>1, FS_AddElement
  <2>3. QED
      BY <2>1, <2>2
<1>3. Cardinality(Sessions') <= Cardinality(Sessions \union {a})
    BY <1>2, FS_Subset
<1>4. /\ Cardinality(Sessions) \in Nat /\ Cardinality(Sessions') \in Nat
      /\ Cardinality(Sessions \union {a}) \in Nat
    BY <1>1, <1>2, FS_Subset, FS_CardinalityType
<1>5. QED
    BY <1>2, <1>3, <1>4, PoolAssumption

LEMMA InitIInv == Init => IInv
<1> SUFFICES ASSUME Init PROVE IInv
    OBVIOUS
<1> USE DEF Init
<1>1. {a \in Audits : InSession(a)} = {}
    BY DEF InSession
<1>2. Cardinality({a \in Audits : InSession(a)}) <= Workers
    BY <1>1, FS_EmptySet, PoolAssumption
<1>3. TypeOK
    BY <1>2, NobodyAssumption DEF TypeOK, NoPort
<1>4. NotYetLaunched /\ Sharing /\ NoneLeftRunning /\ ForeignOnlyByCollision
    BY DEF NotYetLaunched, Sharing, Active, InSession, Running, NoneLeftRunning,
           ForeignOnlyByCollision
<1>5. QED
    BY <1>3, <1>4 DEF IInv

-----------------------------------------------------------------------------
(* The steps.  Those that begin no session keep TypeOK when they keep its parts. *)

LEMMA RefuseKeeps == ASSUME IInv, NEW a \in Audits, Refuse(a) PROVE IInv'
<1> USE DEF IInv, Refuse, Begin, Goto
<1>1. pc' = [pc EXCEPT ![a] = "over"] /\ app[a] = "none"
    BY DEF NotYetLaunched
<1>2. Sessions' \subseteq Sessions
    BY <1>1 DEF Sessions, InSession, TypeOK
<1>3. Cardinality(Sessions') <= Workers
    BY <1>2, PoolShrinks DEF TypeOK, Sessions
<1>4. TypeOK'
    BY <1>1, <1>3 DEF TypeOK, Sessions
<1>5. NotYetLaunched'
    BY <1>1 DEF NotYetLaunched, TypeOK
<1>6. Sharing'
    BY <1>1 DEF Sharing, Active, InSession, Running, TypeOK
<1>7. NoneLeftRunning' /\ ForeignOnlyByCollision'
    BY <1>1 DEF NoneLeftRunning, Running, ForeignOnlyByCollision, TypeOK
<1>8. QED
    BY <1>4, <1>5, <1>6, <1>7

LEMMA PickPortKeeps == ASSUME IInv, NEW a \in Audits, PickPort(a) PROVE IInv'
<1> USE DEF IInv, PickPort, Begin, Goto
<1>1. PICK p \in FreePorts :
          /\ port' = [port EXCEPT ![a] = p]
          /\ collided' = IF Expecting(p) \ {a} = {} THEN collided
                         ELSE collided \union Expecting(p) \union {a}
    OBVIOUS
<1>2. p \in Ports /\ bound[p] = Nobody
    BY DEF FreePorts
<1>3. /\ pc' = [pc EXCEPT ![a] = "picked"] /\ app[a] = "none"
      /\ UNCHANGED <<app, bound, heard>>
    BY DEF NotYetLaunched
<1>4. Sessions' \subseteq Sessions \union {a}
    BY <1>3 DEF Sessions, InSession, TypeOK
<1>5. Cardinality(Sessions') <= Workers
    BY <1>4, PoolGrows DEF Sessions
<1>6. collided \subseteq collided' /\ collided' \subseteq Audits
    BY <1>1 DEF Expecting, TypeOK
<1>7. TypeOK'
  <2>1. \A b \in Audits, q \in Ports :
            bound'[q] = b <=> app'[b] = "serving" /\ port'[b] = q
      BY <1>1, <1>2, <1>3 DEF TypeOK
  <2>2. QED
      BY <1>1, <1>2, <1>3, <1>5, <1>6, <2>1 DEF TypeOK, Sessions
<1>8. NotYetLaunched'
    BY <1>3 DEF NotYetLaunched, TypeOK
<1>9. Sharing'
  <2>1. \A b \in Audits : b # a => (Active(b)' <=> Active(b)) /\ port'[b] = port[b]
      BY <1>1, <1>3 DEF Active, InSession, Running, TypeOK
  <2>2. port'[a] = p
      BY <1>1 DEF TypeOK
  <2>3. \A b \in Audits : b # a /\ Active(b) /\ port[b] = p => b \in Expecting(p) \ {a}
      BY <1>2, NobodyAssumption DEF Expecting, Active
  <2>4. \A b \in Audits : b # a /\ Active(b) /\ port[b] = p =>
            a \in collided' /\ b \in collided'
      BY <1>1, <2>3
  <2>5. QED
      BY <1>2, <1>6, <2>1, <2>2, <2>4 DEF Sharing
<1>10. NoneLeftRunning' /\ ForeignOnlyByCollision'
    BY <1>3, <1>6 DEF NoneLeftRunning, Running, ForeignOnlyByCollision, TypeOK
<1>11. QED
    BY <1>7, <1>8, <1>9, <1>10

\* compose and its failure, and the failure of runserver: no process is begun.
LEMMA NothingLaunchedKeeps ==
    ASSUME IInv, NEW a \in Audits, ComposeUp(a) \/ ComposeFails(a) \/ LaunchFails(a)
    PROVE  IInv'
<1> USE DEF IInv
<1>1. PICK to \in {"waiting", "over", "raised"} : pc' = [pc EXCEPT ![a] = to]
    BY DEF ComposeUp, ComposeFails, LaunchFails, Goto
<1>2. /\ pc[a] = "picked" /\ containers' \subseteq Audits
      /\ UNCHANGED <<project, port, app, bound, heard, collided, crashed>>
    BY DEF ComposeUp, ComposeFails, LaunchFails, TypeOK
<1>3. Sessions' \subseteq Sessions
    BY <1>1, <1>2 DEF Sessions, InSession, TypeOK
<1>4. Cardinality(Sessions') <= Workers
    BY <1>3, PoolShrinks DEF TypeOK, Sessions
<1>5. TypeOK'
    BY <1>1, <1>2, <1>4 DEF TypeOK, Sessions
<1>6. NotYetLaunched'
    BY <1>1, <1>2 DEF NotYetLaunched, TypeOK
<1>7. Sharing'
    BY <1>1, <1>2 DEF Sharing, Active, InSession, Running, TypeOK
<1>8. NoneLeftRunning' /\ ForeignOnlyByCollision'
    BY <1>1, <1>2 DEF NoneLeftRunning, NotYetLaunched, Running, ForeignOnlyByCollision,
                      TypeOK
<1>9. QED
    BY <1>5, <1>6, <1>7, <1>8

LEMMA LaunchKeeps == ASSUME IInv, NEW a \in Audits, Launch(a) PROVE IInv'
<1> USE DEF IInv, Launch, Goto
<1>1. /\ pc[a] = "picked" /\ app[a] = "none"
      /\ pc' = [pc EXCEPT ![a] = "waiting"]
      /\ app' = [app EXCEPT ![a] = "booting"]
    BY DEF NotYetLaunched
<1>2. Sessions' \subseteq Sessions
    BY <1>1 DEF Sessions, InSession, TypeOK
<1>3. Cardinality(Sessions') <= Workers
    BY <1>2, PoolShrinks DEF TypeOK, Sessions
<1>4. TypeOK'
    BY <1>1, <1>3 DEF TypeOK, Sessions
<1>5. NotYetLaunched'
    BY <1>1 DEF NotYetLaunched, TypeOK
<1>6. Sharing'
  <2>1. \A b \in Audits : Active(b)' <=> Active(b)
      BY <1>1 DEF Active, InSession, Running, TypeOK
  <2>2. QED
      BY <2>1 DEF Sharing
<1>7. NoneLeftRunning' /\ ForeignOnlyByCollision'
    BY <1>1 DEF NoneLeftRunning, Running, ForeignOnlyByCollision, TypeOK
<1>8. QED
    BY <1>4, <1>5, <1>6, <1>7

\* Who has the port in use is active there, and so is who wants to bind it.
LEMMA BindKeeps == ASSUME IInv, NEW a \in Audits, Bind(a) PROVE IInv'
<1> USE DEF IInv, Bind
<1>1. app[a] = "booting" /\ UNCHANGED <<project, pc, port, containers, heard, collided, crashed>>
    OBVIOUS
<1>2. port[a] \in Ports
    BY <1>1 DEF Sharing, Active, Running
<1>3. /\ app' = [app EXCEPT ![a] = app'[a]] /\ app'[a] \in {"serving", "ended"}
      /\ \A b \in Audits : Running(b)' => Running(b)
    BY <1>1 DEF Running, TypeOK
<1>4. Cardinality(Sessions') <= Workers
  <2>1. Sessions' = Sessions
      BY <1>1 DEF Sessions, InSession
  <2>2. QED
      BY <2>1, PoolShrinks DEF TypeOK, Sessions
<1>5. TypeOK'
  <2>1. CASE bound[port[a]] = Nobody
    <3>1. bound' = [bound EXCEPT ![port[a]] = a] /\ app' = [app EXCEPT ![a] = "serving"]
        BY <2>1
    <3>2. \A b \in Audits, q \in Ports :
              bound'[q] = b <=> app'[b] = "serving" /\ port'[b] = q
        BY <1>1, <1>2, <2>1, <3>1, NobodyAssumption DEF TypeOK
    <3>3. QED
        BY <1>1, <1>2, <1>4, <3>1, <3>2 DEF TypeOK, Sessions
  <2>2. CASE bound[port[a]] # Nobody
      BY <1>1, <1>4, <2>2 DEF TypeOK, Sessions
  <2>3. QED
      BY <2>1, <2>2
<1>6. NotYetLaunched'
    BY <1>1 DEF NotYetLaunched, TypeOK
<1>7. Sharing'
    BY <1>1, <1>3 DEF Sharing, Active, InSession
<1>8. NoneLeftRunning' /\ ForeignOnlyByCollision'
    BY <1>1, <1>3 DEF NoneLeftRunning, ForeignOnlyByCollision
<1>9. QED
    BY <1>5, <1>6, <1>7, <1>8

\* The end of a process: its port is free, everything else as before.
LEMMA ProcessEnds ==
    ASSUME IInv, NEW a \in Audits,
           app' = [app EXCEPT ![a] = IF @ = "none" THEN "none" ELSE "ended"],
           bound' = Freed(a),
           pc' = pc \/ (pc[a] \in {"waiting", "probing"} /\ pc' = [pc EXCEPT ![a] = "over"]),
           UNCHANGED <<project, port, containers, heard, collided, crashed>>
    PROVE  IInv'
<1> USE DEF IInv
<1>1. \A b \in Audits : Running(b)' => Running(b) /\ b # a
    BY DEF Running, TypeOK
<1>2. \A b \in Audits : InSession(b)' => InSession(b)
    BY DEF InSession, TypeOK
<1>3. Cardinality(Sessions') <= Workers
  <2>1. Sessions' \subseteq Sessions
      BY <1>2 DEF Sessions
  <2>2. QED
      BY <2>1, PoolShrinks DEF TypeOK, Sessions
<1>4. TypeOK'
  <2>1. /\ bound' \in [Ports -> Audits \union {Nobody}]
        /\ \A b \in Audits, q \in Ports :
              bound'[q] = b <=> app'[b] = "serving" /\ port'[b] = q
      BY NobodyAssumption DEF TypeOK, Freed
  <2>2. QED
      BY <1>3, <2>1 DEF TypeOK, Sessions
<1>5. NotYetLaunched'
    BY DEF NotYetLaunched, TypeOK
<1>6. Sharing'
    BY <1>1, <1>2 DEF Sharing, Active
<1>7. NoneLeftRunning' /\ ForeignOnlyByCollision'
    BY <1>1 DEF NoneLeftRunning, ForeignOnlyByCollision, TypeOK
<1>8. QED
    BY <1>4, <1>5, <1>6, <1>7

LEMMA AppExitsKeeps == ASSUME IInv, NEW a \in Audits, AppExits(a) PROVE IInv'
<1>1. app' = [app EXCEPT ![a] = IF @ = "none" THEN "none" ELSE "ended"]
    BY DEF AppExits, Running, IInv, TypeOK
<1>2. QED
    BY <1>1, ProcessEnds DEF AppExits

LEMMA SessionEndsKeeps == ASSUME IInv, NEW a \in Audits, GiveUp(a) \/ Stop(a) PROVE IInv'
BY ProcessEnds DEF GiveUp, Stop, Terminate, Expired, Goto

\* The application answers, or an exception breaks the session off: the processes
\* are left as they are.
LEMMA AnsweredKeeps ==
    ASSUME IInv, NEW a \in Audits, Answered(a) \/ WaitRaises(a) \/ SaveRaises(a)
    PROVE  IInv'
<1> USE DEF IInv
<1>a. PICK to \in {"probing", "raised"} : pc' = [pc EXCEPT ![a] = to]
    BY DEF Answered, WaitRaises, SaveRaises, Goto
<1>b. /\ pc[a] \in {"waiting", "probing"}
      /\ UNCHANGED <<project, port, app, bound, containers, heard, collided, crashed>>
    BY DEF Answered, WaitRaises, SaveRaises
<1>1. Sessions' \subseteq Sessions
    BY <1>a, <1>b DEF Sessions, InSession, TypeOK
<1>2. Cardinality(Sessions') <= Workers
    BY <1>1, PoolShrinks DEF TypeOK, Sessions
<1>3. TypeOK'
    BY <1>a, <1>b, <1>2 DEF TypeOK, Sessions
<1>4. NotYetLaunched'
    BY <1>a, <1>b DEF NotYetLaunched, TypeOK
<1>5. Sharing'
    BY <1>a, <1>b DEF Sharing, Active, InSession, Running, TypeOK
<1>6. NoneLeftRunning' /\ ForeignOnlyByCollision'
    BY <1>a, <1>b DEF NoneLeftRunning, Running, ForeignOnlyByCollision, TypeOK
<1>7. QED
    BY <1>3, <1>4, <1>5, <1>6

\* A stranger that answers is active on the port of the session that asks.
LEMMA ProbeKeeps == ASSUME IInv, NEW a \in Audits, Probe(a) PROVE IInv'
<1> USE DEF IInv, Probe
<1>1. PICK b \in Audits : bound[port[a]] = b /\ port[a] \in Ports
    BY DEF Sharing, Active, InSession, TypeOK
<1>2. app[b] = "serving" /\ port[b] = port[a]
    BY <1>1 DEF TypeOK
<1>3. b # a => a \in collided
    BY <1>2 DEF Sharing, Active, InSession, Running
<1>4. heard' = [heard EXCEPT ![a] = @ \union {b}]
    BY <1>1
<1>5. Sessions' = Sessions
    BY DEF Sessions, InSession
<1>6. TypeOK'
  <2>1. heard' \in [Audits -> SUBSET Audits]
      BY <1>4 DEF TypeOK
  <2>2. Cardinality(Sessions') <= Workers
      BY <1>5 DEF TypeOK, Sessions
  <2>3. QED
      BY <2>1, <2>2 DEF TypeOK, Sessions
<1>7. NotYetLaunched' /\ Sharing' /\ NoneLeftRunning'
    BY DEF NotYetLaunched, Sharing, Active, InSession, Running, NoneLeftRunning
<1>8. ForeignOnlyByCollision'
    BY <1>3, <1>4 DEF ForeignOnlyByCollision, TypeOK
<1>9. QED
    BY <1>6, <1>7, <1>8

LEMMA CrashKeeps == ASSUME IInv, Crash PROVE IInv'
<1> USE DEF IInv, Crash
<1>1. Sessions' \subseteq Sessions
    BY DEF Sessions, InSession, TypeOK
<1>2. Cardinality(Sessions') <= Workers
    BY <1>1, PoolShrinks DEF TypeOK, Sessions
<1>3. TypeOK'
    BY <1>2 DEF TypeOK, Sessions
<1>4. \A a \in Audits : Active(a)' => Active(a)
    BY DEF Active, InSession, Running, TypeOK
<1>5. NotYetLaunched' /\ NoneLeftRunning' /\ ForeignOnlyByCollision'
    BY DEF NotYetLaunched, NoneLeftRunning, Running, ForeignOnlyByCollision, TypeOK
<1>6. Sharing'
    BY <1>4 DEF Sharing
<1>7. QED
    BY <1>3, <1>5, <1>6

LEMMA StutterKeeps == ASSUME IInv, UNCHANGED vars PROVE IInv'
BY DEF IInv, vars, TypeOK, NotYetLaunched, Sharing, Active, NoneLeftRunning,
       ForeignOnlyByCollision, InSession, Running

LEMMA NextIInv == IInv /\ [Next]_vars => IInv'
<1> SUFFICES ASSUME IInv, [Next]_vars PROVE IInv'
    OBVIOUS
<1>1. ASSUME NEW a \in Audits, Refuse(a) \/ PickPort(a) PROVE IInv'
    BY <1>1, RefuseKeeps, PickPortKeeps
<1>2. ASSUME NEW a \in Audits, Session(a) \/ SessionFails(a) PROVE IInv'
    BY <1>2, NothingLaunchedKeeps, LaunchKeeps, AnsweredKeeps, ProbeKeeps,
       SessionEndsKeeps DEF Session, SessionFails
<1>3. ASSUME NEW a \in Audits, Bind(a) \/ AppExits(a) PROVE IInv'
    BY <1>3, BindKeeps, AppExitsKeeps
<1>4. QED
    BY <1>1, <1>2, <1>3, CrashKeeps, StutterKeeps DEF Next

LEMMA Invariant == Spec => []IInv
BY InitIInv, NextIInv, PTL DEF Spec

-----------------------------------------------------------------------------
\* The ports, the processes and the pool hang together (sandbox.py, queue.py).
THEOREM TypeCorrect == Spec => []TypeOK
<1>1. IInv => TypeOK
    BY DEF IInv
<1>2. QED
    BY <1>1, Invariant, PTL

\* No session that comes to its end leaves its runserver behind
\* (start_application, stop_application).
THEOREM SessionsCleanUp == Spec => []NoneLeftRunning
<1>1. IInv => NoneLeftRunning
    BY DEF IInv
<1>2. QED
    BY <1>1, Invariant, PTL

\* An audit that has not shared its port has probed its own application only
\* (_free_port, _wait_http).
THEOREM UnsharedPortsAreOwn == Spec => []ForeignOnlyByCollision
<1>1. IInv => ForeignOnlyByCollision
    BY DEF IInv
<1>2. QED
    BY <1>1, Invariant, PTL
=============================================================================
