------------------------ MODULE SignalManagerProofs ------------------------
(***************************************************************************)
(* Theorems about SignalManager, for any number of callers, signals and    *)
(* registrations: the two tables agree, a stopped handler is not called,   *)
(* and a handled signal kills only through a client that has made no call  *)
(* since, or before the call that registers it has returned.               *)
(***************************************************************************)
EXTENDS SignalManager, TLAPS

-----------------------------------------------------------------------------
(* The inductive invariant. *)

\* The two tables: ids below m_nextId are in use, and TablesAgree.
Tables ==
  /\ nextId \in Nat \ {0}
  /\ registered \subseteq 1 .. nextId - 1
  /\ handlers \in [Ids -> SUBSET Sigs]
  /\ sigTo \in [Sigs -> SUBSET Ids]
  /\ TablesAgree

\* Who holds m_mutex across steps is in the join.
Callers ==
  /\ mutex \in Clients \cup {Nobody}
  /\ pc \in [Clients -> {"idle", "joining", "waiting"}]
  /\ then \in [Clients -> {"idle", "waiting", "destroyed"}]
  /\ ended = "no" => \A c \in Clients : pc[c] = "joining" => mutex = c

\* A caller in the join blocks the signals that the new thread, which inherits
\* its mask, will wait for; the thread blocks what it waits for, which is all that
\* is handled when no caller is inside; and so do the clients that made a call
\* since.
Masks ==
  /\ blocked \in [Clients \cup {Background} -> SUBSET (Sigs \cup {WakeupSig})]
  /\ aware \in [Sigs -> SUBSET Clients]
  /\ ended = "no" => \A c \in Clients :
       pc[c] = "joining" /\ then[c] # "destroyed" => ActiveSignals \subseteq blocked[c]
  /\ thread # "none" => waitSet \subseteq blocked[Background]
  /\ mutex = Nobody /\ thread # "none" => ActiveSignals \subseteq waitSet
  /\ \A s \in Sigs : \A c \in aware[s] : s \in blocked[c]

\* The thread has something to call only between the lookup and the last call.
Todo == (thread # "call" => todo = {}) /\ StoppedIsQuiet

\* What killed the process is one of the signals that clients can handle.
Killed == (ended = "killed" => killer \in Sigs) /\ HandledSignalDoesNotKill

SigInv == Tables /\ Callers /\ Masks /\ Todo /\ Killed

-----------------------------------------------------------------------------
(* What the parts of the operations keep. *)

\* notify and wait add a registration under an id that was not in use.
LEMMA RegisterKeeps ==
  ASSUME Tables, NEW S \in SigLists, Register(S)
  PROVE  Tables'
<1>0. S \in SUBSET Sigs /\ MaxId \in Nat
  BY SignalAssumption
<1>1. nextId \in Ids /\ nextId \notin registered
  BY <1>0 DEF Tables, Register, Ids
<1>2. /\ nextId' \in Nat \ {0} /\ registered' \subseteq 1 .. nextId' - 1
  BY <1>1 DEF Tables, Register, Ids
<1>3. handlers' \in [Ids -> SUBSET Sigs] /\ sigTo' \in [Sigs -> SUBSET Ids]
  BY <1>0, <1>1 DEF Tables, Register
<1>4. TablesAgree'
  <2>. SUFFICES ASSUME NEW s \in Sigs, NEW i \in Ids
                PROVE  i \in sigTo'[s] <=> i \in registered' /\ s \in handlers'[i]
    BY DEF TablesAgree
  <2>1. i \in sigTo[s] <=> i \in registered /\ s \in handlers[i]
    BY DEF Tables, TablesAgree
  <2>2. sigTo'[s] = IF s \in S THEN sigTo[s] \cup {nextId} ELSE sigTo[s]
    BY DEF Register
  <2>3. CASE i = nextId
    <3>1. handlers'[i] = S /\ i \in registered' /\ i \notin sigTo[s]
      BY <1>1, <2>1, <2>3 DEF Register, Tables
    <3>. QED
      BY <2>2, <2>3, <3>1
  <2>4. CASE i # nextId
    <3>1. handlers'[i] = handlers[i] /\ (i \in registered' <=> i \in registered)
      BY <2>4 DEF Register, Tables
    <3>. QED
      BY <2>1, <2>2, <2>4, <3>1
  <2>. QED
    BY <2>3, <2>4
<1>. QED
  BY <1>2, <1>3, <1>4 DEF Tables

\* stop removes one.
LEMMA UnregisterKeeps ==
  ASSUME Tables, NEW i, Unregister(i)
  PROVE  Tables'
<1>1. /\ nextId' \in Nat \ {0} /\ registered' \subseteq 1 .. nextId' - 1
      /\ handlers' \in [Ids -> SUBSET Sigs] /\ sigTo' \in [Sigs -> SUBSET Ids]
  BY DEF Tables, Unregister
<1>2. TablesAgree'
  <2>. SUFFICES ASSUME NEW s \in Sigs, NEW j \in Ids
                PROVE  j \in sigTo'[s] <=> j \in registered' /\ s \in handlers'[j]
    BY DEF TablesAgree
  <2>1. j \in sigTo[s] <=> j \in registered /\ s \in handlers[j]
    BY DEF Tables, TablesAgree
  <2>2. sigTo'[s] = sigTo[s] \ {i} /\ registered' = registered \ {i}
    BY DEF Unregister
  <2>3. j # i => handlers'[j] = handlers[j]
    BY DEF Unregister, Tables
  <2>. QED
    BY <2>1, <2>2, <2>3
<1>. QED
  BY <1>1, <1>2 DEF Tables

\* reset and ignore take one signal from every registration.
LEMMA ForgetKeeps ==
  ASSUME Tables, NEW s \in Sigs, Forget(s)
  PROVE  Tables' /\ sigTo'[s] = {}
<1>1. /\ nextId' \in Nat \ {0} /\ registered' \subseteq 1 .. nextId' - 1
      /\ handlers' \in [Ids -> SUBSET Sigs] /\ sigTo' \in [Sigs -> SUBSET Ids]
      /\ sigTo'[s] = {}
  BY DEF Tables, Forget
<1>2. TablesAgree'
  <2>. SUFFICES ASSUME NEW u \in Sigs, NEW i \in Ids
                PROVE  i \in sigTo'[u] <=> i \in registered' /\ u \in handlers'[i]
    BY DEF TablesAgree
  <2>1. i \in sigTo[u] <=> i \in registered /\ u \in handlers[i]
    BY DEF Tables, TablesAgree
  <2>2. handlers'[i] = handlers[i] \ {s} /\ registered' = registered
    BY DEF Forget
  <2>3. u # s => sigTo'[u] = sigTo[u]
    BY DEF Forget, Tables
  <2>. QED
    BY <1>1, <2>1, <2>2, <2>3
<1>. QED
  BY <1>1, <1>2 DEF Tables

\* stopAll and the destructor remove all.
LEMMA EmptyTables ==
  ASSUME Tables, registered' = {}, handlers' = [i \in Ids |-> {}],
         sigTo' = [s \in Sigs |-> {}], UNCHANGED nextId
  PROVE  Tables'
BY DEF Tables, TablesAgree

\* The restart that ends every change of the tables, with m_mutex free when
\* the call began: either the caller goes into the join with the mutex, or
\* there was no thread, and a new one inherits the signals to wait for.
LEMMA ReconfigureKeeps ==
  ASSUME Callers, Masks, Todo, ended = "no", mutex = Nobody,
         NEW c \in Clients, NEW unmasked, NEW next \in {"idle", "waiting"},
         Reconfigure(c, unmasked, next)
  PROVE  Callers' /\ Masks' /\ Todo' /\ (mutex' = Nobody \/ mutex' = c)
<1>. DEFINE active == ActiveSignals'
            mask == (blocked[c] \ unmasked) \cup active
<1>0. /\ pc \in [Clients -> {"idle", "joining", "waiting"}]
      /\ then \in [Clients -> {"idle", "waiting", "destroyed"}]
      /\ \A d \in Clients : pc[d] # "joining"
      /\ blocked \in [Clients \cup {Background} -> SUBSET (Sigs \cup {WakeupSig})]
      /\ Nobody \notin Clients /\ Background = Nobody
      /\ aware \in [Sigs -> SUBSET Clients]
      /\ \A s \in Sigs : \A d \in aware[s] : s \in blocked[d]
  BY SignalAssumption DEF Callers, Masks, Background
<1>1. mask \in SUBSET (Sigs \cup {WakeupSig}) /\ active \subseteq mask
  <2>1. active \subseteq Sigs \cup {WakeupSig}
    BY DEF ActiveSignals
  <2>2. blocked[c] \subseteq Sigs \cup {WakeupSig}
    BY <1>0
  <2>. HIDE DEF active
  <2>. QED
    BY <2>1, <2>2
<1>a. /\ aware' \in [Sigs -> SUBSET Clients]
      /\ \A s \in Sigs : \A d \in aware'[s] :
           (d = c \/ d \in aware[s]) /\ s \in active
  <2>1. aware' = [s \in Sigs |-> IF sigTo'[s] = {} THEN {} ELSE aware[s] \cup {c}]
    BY DEF Reconfigure, Aware
  <2>2. \A s \in Sigs : sigTo'[s] # {} => s \in active
    BY DEF ActiveSignals
  <2>. HIDE DEF active
  <2>. QED
    BY <1>0, <2>1, <2>2
<1>2. CASE thread # "none"
  <2>1. /\ mutex' = c /\ pc' = [pc EXCEPT ![c] = "joining"]
        /\ then' = [then EXCEPT ![c] = next]
        /\ blocked' = [blocked EXCEPT ![c] = mask]
        /\ UNCHANGED <<thread, todo, waitSet>>
    BY <1>2 DEF Reconfigure
  <2>. HIDE DEF mask, active
  <2>2. Callers'
    BY <1>0, <2>1 DEF Callers
  <2>3. Todo'
    BY <1>0, <2>1 DEF Todo, StoppedIsQuiet
  <2>4. Masks'
    <3>1. blocked' \in [Clients \cup {Background} -> SUBSET (Sigs \cup {WakeupSig})]
      BY <1>0, <1>1, <2>1
    <3>2. \A d \in Clients : pc'[d] = "joining" => d = c
      BY <1>0, <2>1
    <3>3. active \subseteq blocked'[c]
      BY <1>0, <1>1, <2>1
    <3>4. waitSet' \subseteq blocked'[Background]
      BY <1>0, <1>2, <2>1 DEF Masks
    <3>5. \A s \in Sigs : \A d \in aware'[s] : s \in blocked'[d]
      BY <1>0, <1>1, <1>a, <2>1
    <3>. QED
      BY <1>0, <1>a, <2>1, <3>1, <3>2, <3>3, <3>4, <3>5 DEF Masks, active
  <2>. QED
    BY <2>1, <2>2, <2>3, <2>4
<1>3. CASE thread = "none"
  <2>1. /\ pc' = [pc EXCEPT ![c] = next] /\ UNCHANGED <<mutex, then>>
        /\ todo' = {} /\ thread' \in {"none", "test"} /\ waitSet' = active
        /\ blocked' = [blocked EXCEPT ![c] = mask, ![Background] = mask]
    BY <1>3 DEF Reconfigure, StartThread
  <2>. HIDE DEF mask, active
  <2>2. Callers'
    BY <1>0, <2>1 DEF Callers
  <2>3. Todo'
    BY <2>1 DEF Todo, StoppedIsQuiet
  <2>4. Masks'
    <3>1. blocked' \in [Clients \cup {Background} -> SUBSET (Sigs \cup {WakeupSig})]
      BY <1>0, <1>1, <2>1
    <3>2. \A d \in Clients : pc'[d] # "joining"
      BY <1>0, <2>1
    <3>3. waitSet' = active /\ active \subseteq blocked'[Background]
      BY <1>0, <1>1, <2>1
    <3>4. \A s \in Sigs : \A d \in aware'[s] : s \in blocked'[d]
      BY <1>0, <1>1, <1>a, <2>1
    <3>. QED
      BY <1>a, <3>1, <3>2, <3>3, <3>4 DEF Masks, active
  <2>. QED
    BY <2>1, <2>2, <2>3, <2>4
<1>. QED
  BY <1>2, <1>3

-----------------------------------------------------------------------------
(* Every step keeps the invariant. *)

\* Every step keeps the invariant, action by action.
LEMMA SigInvStep == SigInv /\ [Next]_vars => SigInv'
<1>. SUFFICES ASSUME Tables, Callers, Masks, Todo, Killed, [Next]_vars PROVE SigInv'
  BY DEF SigInv
<1>a. ASSUME ended' # "killed" PROVE Killed'
  BY <1>a DEF Killed, HandledSignalDoesNotKill
<1>b. ASSUME NEW c \in Clients, NEW unmasked, NEW next \in {"idle", "waiting"},
             Reconfigure(c, unmasked, next), Tables', ended = "no", mutex = Nobody,
             ended' = ended
      PROVE  SigInv'
  BY <1>a, <1>b, ReconfigureKeeps DEF SigInv
<1>1. ASSUME NEW c \in Clients, NEW S \in SigLists, Notify(c, S) \/ Wait(c, S)
      PROVE  SigInv'
  <2>1. Tables' /\ ended = "no" /\ mutex = Nobody /\ ended' = ended
    BY <1>1, RegisterKeeps DEF Notify, Wait, Call
  <2>2. Reconfigure(c, {}, "idle") \/ Reconfigure(c, {}, "waiting")
    BY <1>1 DEF Notify, Wait
  <2>. QED
    BY <1>b, <2>1, <2>2
<1>2. ASSUME NEW c \in Clients, NEW i, Stop(c, i) PROVE SigInv'
  <2>1. Tables' /\ ended = "no" /\ mutex = Nobody /\ ended' = ended
    BY <1>2, UnregisterKeeps DEF Stop, Call
  <2>2. Reconfigure(c, {}, "idle")
    BY <1>2 DEF Stop
  <2>. QED
    BY <1>b, <2>1, <2>2
<1>3. ASSUME NEW c \in Clients, StopAll(c) PROVE SigInv'
  <2>1. Tables' /\ ended = "no" /\ mutex = Nobody /\ ended' = ended
    BY <1>3, EmptyTables DEF StopAll, Call
  <2>2. Reconfigure(c, {}, "idle")
    BY <1>3 DEF StopAll
  <2>. QED
    BY <1>b, <2>1, <2>2
<1>4. ASSUME NEW c \in Clients, NEW s \in Sigs, Reset(c, s) PROVE SigInv'
  <2>1. Tables' /\ sigTo'[s] = {} /\ ended = "no" /\ mutex = Nobody
    BY <1>4, ForgetKeeps DEF Reset, Call
  <2>2. Callers' /\ Masks' /\ Todo'
    <3>1. Reconfigure(c, {s}, "idle")
      BY <1>4 DEF Reset
    <3>. QED
      BY <2>1, <3>1, ReconfigureKeeps
  <2>3. Killed'
    <3>1. ended' = "killed" => killer' = s
      BY <1>4 DEF Reset
    <3>. QED
      BY <2>1, <3>1 DEF Killed, HandledSignalDoesNotKill
  <2>. QED
    BY <2>1, <2>2, <2>3 DEF SigInv
<1>5. ASSUME NEW c \in Clients, NEW s \in Sigs, Ignore(c, s) PROVE SigInv'
  <2>1. Tables' /\ ended = "no" /\ mutex = Nobody /\ ended' = ended
    BY <1>5, ForgetKeeps DEF Ignore, Call
  <2>2. Reconfigure(c, {s}, "idle")
    BY <1>5 DEF Ignore
  <2>. QED
    BY <1>b, <2>1, <2>2
<1>6. ASSUME NEW c \in Clients, Destroy(c) PROVE SigInv'
  <2>0. /\ ended = "no" /\ mutex = Nobody /\ \A d \in Clients : pc[d] = "idle"
        /\ Nobody \notin Clients
    BY <1>6, SignalAssumption DEF Destroy, Call
  <2>1. Tables'
    BY <1>6, EmptyTables DEF Destroy
  <2>2. /\ UNCHANGED <<thread, todo, blocked, waitSet>>
        /\ aware' = [s \in Sigs |-> {}]
    BY <1>6 DEF Destroy
  <2>3. CASE thread # "none"
    <3>1. /\ mutex' = c /\ pc' = [pc EXCEPT ![c] = "joining"]
          /\ then' = [then EXCEPT ![c] = "destroyed"] /\ ended' = ended
      BY <1>6, <2>3 DEF Destroy
    <3>2. Callers'
      BY <2>0, <3>1 DEF Callers
    <3>3. Masks'
      <4>1. \A d \in Clients : pc'[d] = "joining" => then'[d] = "destroyed"
        BY <2>0, <3>1 DEF Callers
      <4>. QED
        BY <2>0, <2>2, <3>1, <4>1 DEF Masks
    <3>4. Todo'
      BY <2>0, <2>2, <3>1 DEF Todo, StoppedIsQuiet
    <3>5. Killed'
      BY <1>a, <2>0, <3>1
    <3>. QED
      BY <2>1, <3>2, <3>3, <3>4, <3>5 DEF SigInv
  <2>4. CASE thread = "none"
    <3>1. ended' = "destroyed" /\ UNCHANGED <<mutex, pc, then>>
      BY <1>6, <2>4 DEF Destroy
    <3>2. Callers' /\ Masks'
      BY <2>2, <2>4, <3>1 DEF Callers, Masks
    <3>3. Todo'
      BY <2>2, <2>4 DEF Todo, StoppedIsQuiet
    <3>4. Killed'
      BY <1>a, <3>1
    <3>. QED
      BY <2>1, <3>2, <3>3, <3>4 DEF SigInv
  <2>. QED
    BY <2>3, <2>4
<1>7. ASSUME NEW c \in Clients, Join(c) PROVE SigInv'
  <2>0. /\ ended = "no" /\ pc[c] = "joining" /\ thread = "exit" /\ mutex' = Nobody
        /\ then' = [then EXCEPT ![c] = "idle"]
        /\ UNCHANGED <<registered, handlers, sigTo, nextId, aware>>
        /\ Nobody \notin Clients /\ Background = Nobody
    BY <1>7, SignalAssumption DEF Join, Background
  <2>1. Tables' /\ ActiveSignals' = ActiveSignals
    BY <2>0 DEF Tables, TablesAgree, ActiveSignals
  <2>2. \A d \in Clients : pc[d] = "joining" => d = c
    BY <2>0 DEF Callers
  <2>3. CASE then[c] = "destroyed"
    <3>1. thread' = "none" /\ ended' = "destroyed" /\ UNCHANGED <<todo, blocked, pc>>
      BY <1>7, <2>3 DEF Join
    <3>2. Callers' /\ Masks'
      BY <2>0, <3>1 DEF Callers, Masks
    <3>3. Todo'
      BY <2>0, <3>1 DEF Todo, StoppedIsQuiet
    <3>4. Killed'
      BY <1>a, <3>1
    <3>. QED
      BY <2>1, <3>2, <3>3, <3>4 DEF SigInv
  <2>4. CASE then[c] # "destroyed"
    <3>1. /\ thread' \in {"none", "test"} /\ todo' = {} /\ ended' = ended
          /\ waitSet' = ActiveSignals
          /\ blocked' = [blocked EXCEPT ![c] = blocked[c], ![Background] = blocked[c]]
          /\ pc' = [pc EXCEPT ![c] = then[c]]
      BY <1>7, <2>4 DEF Join, StartThread
    <3>2. then[c] \in {"idle", "waiting"}
      BY <2>4 DEF Callers
    <3>3. \A d \in Clients : pc'[d] # "joining"
      BY <2>2, <3>1, <3>2 DEF Callers
    <3>4. Callers'
      BY <2>0, <3>1, <3>2, <3>3 DEF Callers
    <3>5. Masks'
      <4>1. ActiveSignals \subseteq blocked[c]
        BY <2>0, <2>4 DEF Masks
      <4>2. /\ blocked' \in [Clients \cup {Background} -> SUBSET (Sigs \cup {WakeupSig})]
            /\ blocked'[Background] = blocked[c]
            /\ \A d \in Clients : blocked'[d] = blocked[d]
        BY <2>0, <3>1 DEF Masks
      <4>3. aware' \in [Sigs -> SUBSET Clients]
        BY <2>0 DEF Masks
      <4>4. \A s \in Sigs : \A d \in aware'[s] : s \in blocked'[d]
        BY <2>0, <4>2, <4>3 DEF Masks
      <4>. QED
        BY <2>1, <3>1, <3>3, <4>1, <4>2, <4>3, <4>4 DEF Masks
    <3>6. Todo'
      BY <3>1 DEF Todo, StoppedIsQuiet
    <3>7. Killed'
      BY <1>a, <2>0, <3>1
    <3>. QED
      BY <2>1, <3>4, <3>5, <3>6, <3>7 DEF SigInv
  <2>. QED
    BY <2>3, <2>4
<1>8. ASSUME NEW c \in Clients, WaitDone(c) PROVE SigInv'
  <2>0. ended = "no" /\ mutex = Nobody /\ ended' = ended
    BY <1>8 DEF WaitDone
  <2>1. CASE waitId[c] \in registered
    <3>1. Unregister(waitId[c]) /\ Reconfigure(c, {}, "idle")
      BY <1>8, <2>1 DEF WaitDone
    <3>2. Tables'
      BY <3>1, UnregisterKeeps
    <3>. QED
      BY <1>b, <2>0, <3>1, <3>2
  <2>2. CASE waitId[c] \notin registered
    <3>1. /\ pc' = [pc EXCEPT ![c] = "idle"]
          /\ UNCHANGED <<mutex, registered, handlers, sigTo, nextId, thread, todo, then,
                         blocked, waitSet, aware>>
      BY <1>8, <2>2 DEF WaitDone
    <3>2. Tables' /\ Todo' /\ ActiveSignals' = ActiveSignals
      BY <3>1 DEF Tables, TablesAgree, Todo, StoppedIsQuiet, ActiveSignals
    <3>3. \A d \in Clients : pc'[d] = "joining" => pc[d] = "joining"
      BY <3>1 DEF Callers
    <3>4. Callers' /\ Masks'
      BY <2>0, <3>1, <3>2, <3>3 DEF Callers, Masks
    <3>5. Killed'
      BY <1>a, <2>0
    <3>. QED
      BY <3>2, <3>4, <3>5 DEF SigInv
  <2>. QED
    BY <2>1, <2>2
<1>c. ASSUME UNCHANGED <<mutex, registered, handlers, sigTo, nextId, pc, then, blocked,
                         waitSet, aware>>,
             thread # "none" \/ thread' = thread, ended = "no"
      PROVE  Tables' /\ Callers' /\ Masks'
  <2>1. Tables' /\ ActiveSignals' = ActiveSignals
    BY <1>c DEF Tables, TablesAgree, ActiveSignals
  <2>. QED
    BY <1>c, <2>1 DEF Callers, Masks
<1>9. CASE ThreadStep
  <2>1. /\ UNCHANGED <<mutex, registered, handlers, sigTo, nextId, pc, then, blocked,
                         waitSet, aware>>
        /\ thread # "none" /\ ended = "no" /\ ended' # "killed"
    BY <1>9 DEF ThreadStep, ThreadTest, ThreadSigwait, ThreadLock, ThreadCall, clientVars
  <2>2. Tables' /\ Callers' /\ Masks' /\ Killed'
    BY <1>a, <1>c, <2>1
  <2>3. Todo'
    <3>1. CASE ThreadTest \/ ThreadSigwait
      BY <3>1 DEF ThreadTest, ThreadSigwait, Todo, StoppedIsQuiet, clientVars
    <3>2. CASE ThreadLock
      BY <2>1, <3>2 DEF ThreadLock, Todo, StoppedIsQuiet
    <3>3. CASE ThreadCall
      BY <2>1, <3>3 DEF ThreadCall, Todo, StoppedIsQuiet
    <3>. QED
      BY <1>9, <3>1, <3>2, <3>3 DEF ThreadStep
  <2>. QED
    BY <2>2, <2>3 DEF SigInv
<1>10. ASSUME NEW s \in Sigs, Raise(s) PROVE SigInv'
  <2>0. /\ ended = "no"
        /\ UNCHANGED <<mutex, registered, handlers, sigTo, nextId, pc, then, blocked,
                       waitSet, aware, thread, todo>>
    BY <1>10 DEF Raise
  <2>1. Tables' /\ Callers' /\ Masks'
    BY <1>c, <2>0
  <2>2. Todo'
    BY <2>0 DEF Todo, StoppedIsQuiet
  <2>3. Killed'
    <3>. SUFFICES ASSUME ended' = "killed"
                  PROVE  /\ killer' \in Sigs
                         /\ sigTo'[killer'] # {} =>
                              \/ \E c \in Clients : c \notin aware'[killer']
                              \/ mutex' # Nobody /\ killer' \notin waitSet'
      BY DEF Killed, HandledSignalDoesNotKill
    <3>1. killer' = s /\ \E t \in LiveThreads : s \notin blocked[t]
      BY <1>10, <2>0 DEF Raise
    <3>2. PICK t \in LiveThreads : s \notin blocked[t]
      BY <3>1
    <3>3. CASE t \in Clients
      BY <2>0, <3>1, <3>2, <3>3 DEF Masks
    <3>4. CASE t \notin Clients
      <4>1. t = Background /\ thread # "none"
        BY <3>4 DEF LiveThreads
      <4>2. s \notin waitSet /\ (mutex = Nobody => s \notin ActiveSignals)
        BY <3>2, <4>1 DEF Masks
      <4>. QED
        BY <2>0, <3>1, <4>2 DEF ActiveSignals
    <3>. QED
      BY <3>3, <3>4
  <2>. QED
    BY <2>1, <2>2, <2>3 DEF SigInv
<1>11. CASE UNCHANGED vars
  BY <1>11 DEF vars, SigInv, Tables, TablesAgree, Callers, Masks, Todo, Killed,
     StoppedIsQuiet, HandledSignalDoesNotKill, ActiveSignals
<1>. QED
  BY <1>1, <1>2, <1>3, <1>4, <1>5, <1>6, <1>7, <1>8, <1>9, <1>10, <1>11 DEF Next, Api

\* It holds before the first call.
LEMMA SigInvInit == Init => SigInv
BY DEF Init, SigInv, Tables, TablesAgree, Callers, Masks, Todo, Killed,
   StoppedIsQuiet, HandledSignalDoesNotKill, ActiveSignals

\* The invariant holds of every behaviour.
LEMMA SigInvariant == Spec => []SigInv
BY SigInvInit, SigInvStep, PTL DEF Spec

\* m_handlers and m_sigToHandlers stay two views of the same registrations, and
\* once stop has returned its handler is not called, for any number of callers,
\* signals and registrations.
THEOREM RegistrationsAlwaysHold == Spec => []RegistrationsHold
<1>1. SigInv => RegistrationsHold
  BY DEF SigInv, Tables, Todo, RegistrationsHold
<1>. QED
  BY <1>1, SigInvariant, PTL

\* A handled signal kills the process only through a client that has made no call
\* since the signal has its handler, or before the call that registers it has
\* returned: through every restart, the callers, the thread that is joined and
\* the one that is started block it.
THEOREM HandledSignalIsSafe == Spec => []HandledSignalDoesNotKill
<1>1. SigInv => HandledSignalDoesNotKill
  BY DEF SigInv, Killed
<1>. QED
  BY <1>1, SigInvariant, PTL

=============================================================================
