------------------------ MODULE CameraStreamsProofs ------------------------
(* Theorems about CameraStreams, for every value of its constants. *)
EXTENDS CameraStreams, TLAPS, SequenceTheorems, FiniteSetTheorems, Induction

\* The rest of a list, and a list without one place, are lists of the same kind.
LEMMA RestOfList ==
  ASSUME NEW S, NEW s \in Seq(S), s # <<>>
  PROVE  Head(s) \in S /\ Tail(s) \in Seq(S) /\ (Len(s) > 1 => Tail(s) # <<>>)
<1>1. Head(s) \in S /\ Tail(s) \in Seq(S) /\ Len(Tail(s)) = Len(s) - 1
  BY HeadTailProperties
<1> QED BY <1>1, EmptySeq

LEMMA ListWithoutPlace ==
  ASSUME NEW S, NEW s \in Seq(S), NEW i \in DOMAIN s
  PROVE  SubSeq(s, 1, i - 1) \o SubSeq(s, i + 1, Len(s)) \in Seq(S)
<1>1. SubSeq(s, 1, i - 1) \in Seq(S) /\ SubSeq(s, i + 1, Len(s)) \in Seq(S)
  OBVIOUS
<1> QED BY <1>1, ConcatProperties

USE CameraStreamsAssumption DEF CameraStreamsAssumption

\* Inside makeMonitor, with monitorMakeMutex held.
Making == {"try", "fail", "clear", "retry"}

\* Inside GetCaster, with casterMakeMutex held.
Casting == Making \cup {"lock", "cast", "return"}

\* A handler that has its stream.
AtStream == Casting \cup {"lockCaster", "attach", "watch"}

CameraPCs == {"check", "dial", "scan", "create", "ended"}
HandlerPCs == AtStream \cup {"idle", "scan", "create", "left"}
NodePCs == Making \cup {"none", "lock", "begin", "loop", "failed", "failedClose",
                        "awaitStop", "shut", "shutClose", "ended"}

\* Which goroutine can be where, and what it works on there.
Places ==
  /\ pc[Camera] \in CameraPCs
  /\ pc[Camera] = "dial" => Save # <<>>
  /\ pc[Camera] \in {"scan", "create"} => todo # <<>>
  /\ \A h \in Handlers : pc[h] \in HandlerPCs /\ (pc[h] \in AtStream => at[h] \in Nodes)
  /\ \A n \in Nodes : pc[n] \in NodePCs

\* Whoever is inside makeMonitor holds the stream's mutex and finds no monitor there.
MakerInv ==
  \A p \in Callers : pc[p] \in Making => maker[StreamOf(p)] = p /\ monitor[StreamOf(p)] # "open"

\* The types are kept together with the places and what is open.
MonitorInv == TypeOK /\ Places /\ MakerInv /\ NoMonitorIsForgotten

LEMMA InitMonitorInv == Init => MonitorInv
<1> SUFFICES ASSUME Init PROVE MonitorInv
  OBVIOUS
<1>1. TypeOK
  <2>1. pc \in [Procs -> PCs] /\ id \in [Handlers \cup Nodes -> IDs]
    BY DEF Init, Procs, PCs
  <2>2. /\ todo \in Seq(IDs) /\ clients \in Seq(Nodes) /\ stopping \subseteq Nodes
        /\ at \in [Handlers -> Nodes \cup {Nobody}] /\ got \in [Handlers -> Handlers \cup {Nobody}]
    BY DEF Init
  <2>3. /\ monitor \in [Nodes -> {"nil", "half", "open"}] /\ open \in [Nodes -> Nat]
        /\ maker \in [Nodes -> Procs \cup {Nobody}]
        /\ casterMaker \in [Nodes -> Handlers \cup {Nobody}]
    BY DEF Init
  <2>4. /\ caster \in [Nodes -> Handlers \cup {Nobody}] /\ live \in [Nodes -> SUBSET Handlers]
        /\ writer \subseteq Nodes /\ disabled \in BOOLEAN /\ ctxDone \in BOOLEAN
        /\ errors \in Nat /\ crashed \in BOOLEAN
    BY DEF Init
  <2> QED BY <2>1, <2>2, <2>3, <2>4 DEF TypeOK
<1>2. Places
  BY DEF Init, Places, Procs, CameraPCs, HandlerPCs, NodePCs, AtStream, Casting, Making
<1>3. MakerInv
  BY DEF Init, MakerInv, Procs, Callers, Making
<1>4. NoMonitorIsForgotten
  BY DEF Init, NoMonitorIsForgotten, Procs
<1> QED BY <1>1, <1>2, <1>3, <1>4 DEF MonitorInv

\* A function with one value changed is a function of the same kind.
LEMMA Updated ==
  ASSUME NEW S, NEW T, NEW f \in [S -> T], NEW x, NEW v \in T
  PROVE  [f EXCEPT ![x] = v] \in [S -> T]
  OBVIOUS

\* A step that leaves s.monitor and its mutex alone, and nobody enters makeMonitor or
\* begins or ends a ShutDown, keeps what is known of monitors.
LEMMA MonitorUntouched ==
  ASSUME MakerInv, NoMonitorIsForgotten, UNCHANGED monVars,
         \A p \in Callers : pc'[p] \in Making => pc[p] \in Making /\ StreamOf(p)' = StreamOf(p),
         \A n \in Nodes : pc'[n] \in {"failedClose", "shutClose"} <=> pc[n] \in {"failedClose", "shutClose"}
  PROVE  MakerInv' /\ NoMonitorIsForgotten'
<1>1. MakerInv'
  BY DEF MakerInv, monVars
<1>2. NoMonitorIsForgotten'
  BY DEF NoMonitorIsForgotten, monVars
<1> QED BY <1>1, <1>2

\* Where makeMonitor goes on after its loop's test.
AfterAttempt(p) == {"try", "fail", WithMonitor(p)}

LEMMA AttemptGoesOn ==
  ASSUME NEW p, Attempt(p) PROVE \E w \in AfterAttempt(p) : pc' = [pc EXCEPT ![p] = w]
  BY DEF Attempt, UnlockMonitor, AfterAttempt, Goto

\* Every step keeps the types and the places.
LEMMA TypesStep ==
  ASSUME TypeOK, Places, NoMonitorIsForgotten, [Next]_vars
  PROVE  TypeOK' /\ Places'
<1> USE DEF TypeOK, Places, CameraPCs, HandlerPCs, NodePCs, AtStream, Casting, Making, PCs,
            Procs, Callers, getVars, monVars, castVars, endVars, Goto
<1>1. ASSUME Check PROVE TypeOK' /\ Places'
  BY <1>1 DEF Check
<1>2. ASSUME Online PROVE TypeOK' /\ Places'
  BY <1>2 DEF Online
<1>3. ASSUME Offline PROVE TypeOK' /\ Places'
  BY <1>3 DEF Offline
<1>4. ASSUME CameraEnds PROVE TypeOK' /\ Places'
  BY <1>4 DEF CameraEnds
<1>5. ASSUME NEW p \in Handlers \cup {Camera}, FindStream(p) PROVE TypeOK' /\ Places'
  <2>1. PICK i \in DOMAIN clients : GotStream(p, clients[i]) /\ pc[p] = "scan" /\ Goto(p, WithStream(p))
                                  /\ UNCHANGED <<id, clients, stopping, monVars, castVars, writer, endVars>>
    BY <1>5 DEF FindStream, Existing
  <2>2. clients[i] \in Nodes
    OBVIOUS
  <2>3. CASE p = Camera
    <3>1. todo' = Tail(todo) /\ UNCHANGED at /\ todo # <<>>
      BY <2>1, <2>3 DEF GotStream
    <3>2. todo' \in Seq(IDs) /\ (Len(todo) > 1 => todo' # <<>>)
      BY <3>1, RestOfList
    <3> QED BY <2>1, <2>3, <3>1, <3>2 DEF WithStream
  <2>4. CASE p \in Handlers
    <3>1. at' = [at EXCEPT ![p] = clients[i]] /\ UNCHANGED todo /\ pc' = [pc EXCEPT ![p] = "lockCaster"]
      BY <2>1, <2>4 DEF GotStream, WithStream
    <3>2. at' \in [Handlers -> Nodes \cup {Nobody}] /\ at'[p] \in Nodes
      BY <2>2, <2>4, <3>1
    <3> QED BY <2>1, <2>4, <3>1, <3>2
  <2> QED BY <2>3, <2>4
<1>6. ASSUME NEW p \in Handlers \cup {Camera}, MissStream(p) PROVE TypeOK' /\ Places'
  BY <1>6 DEF MissStream
<1>7. ASSUME NEW p \in Handlers \cup {Camera}, CreateStream(p) PROVE TypeOK' /\ Places'
  <2>1. PICK n \in New :
          /\ pc' = [pc EXCEPT ![p] = WithStream(p), ![n] = "lock"]
          /\ id' = [id EXCEPT ![n] = Wanted(p)]
          /\ clients' = Append(clients, n) /\ stopping' = stopping \ {n}
          /\ GotStream(p, n)
    BY <1>7 DEF CreateStream
  <2>2. n \in Nodes
    BY DEF New
  <2>3. pc[p] = "create" /\ UNCHANGED <<monVars, castVars, writer, endVars>>
    BY <1>7 DEF CreateStream
  <2>4. clients' \in Seq(Nodes)
    BY <2>1, <2>2
  <2>5. CASE p = Camera
    <3>1. todo' = Tail(todo) /\ UNCHANGED at /\ todo # <<>>
      BY <2>1, <2>3, <2>5 DEF GotStream
    <3>2. todo' \in Seq(IDs) /\ (Len(todo) > 1 => todo' # <<>>) /\ Head(todo) \in IDs
      BY <3>1, RestOfList
    <3> QED BY <2>1, <2>2, <2>3, <2>4, <2>5, <3>1, <3>2 DEF WithStream, Wanted
  <2>6. CASE p \in Handlers
    <3>1. /\ at' = [at EXCEPT ![p] = n] /\ UNCHANGED todo
          /\ pc' = [pc EXCEPT ![p] = "lockCaster", ![n] = "lock"] /\ id' = [id EXCEPT ![n] = id[p]]
      BY <2>1, <2>6 DEF GotStream, WithStream, Wanted
    <3>2. at' \in [Handlers -> Nodes \cup {Nobody}] /\ at'[p] \in Nodes
      BY <2>2, <2>6, <3>1
    <3>3. id' \in [Handlers \cup Nodes -> IDs]
      <4>1. id[p] \in IDs
        BY <2>6
      <4>2. id \in [Handlers \cup Nodes -> IDs] /\ id' = [id EXCEPT ![n] = id[p]]
        BY <3>1
      <4> HIDE DEF TypeOK, Places
      <4> QED BY <4>1, <4>2, Updated
    <3>4. TypeOK'
      <4>1. pc' \in [Procs -> PCs]
        BY <3>1
      <4>2. stopping' \subseteq Nodes
        BY <2>1
      <4>3. todo' \in Seq(IDs)
        BY <3>1
      <4>4. UNCHANGED <<got, monitor, open, maker, casterMaker, caster, live, writer, disabled, ctxDone, errors, crashed>>
        BY <2>3
      <4> QED BY <2>4, <3>2, <3>3, <4>1, <4>2, <4>3, <4>4
    <3>5. /\ pc'[Camera] = pc[Camera] /\ UNCHANGED todo
          /\ \A h \in Handlers : pc'[h] = IF h = p THEN "lockCaster" ELSE pc[h]
          /\ \A m \in Nodes : pc'[m] = IF m = n THEN "lock" ELSE pc[m]
      BY <2>2, <2>6, <3>1
    <3>6. \A h \in Handlers : h # p => at'[h] = at[h]
      BY <3>1
    <3>7. Places'
      BY <2>6, <3>2, <3>5, <3>6
    <3> QED BY <3>4, <3>7
  <2> QED BY <2>5, <2>6
<1>8. ASSUME NEW p \in Callers, LockMonitor(p) PROVE TypeOK' /\ Places'
  <2>1. PICK w \in AfterAttempt(p) : pc' = [pc EXCEPT ![p] = w]
    BY <1>8, AttemptGoesOn DEF LockMonitor, UnlockMonitor, AfterAttempt
  <2>2. maker' \in [Nodes -> Procs \cup {Nobody}]
    <3>1. \/ UNCHANGED maker
          \/ maker' = [maker EXCEPT ![StreamOf(p)] = Nobody]
          \/ maker' = [maker EXCEPT ![StreamOf(p)] = p]
      BY <1>8 DEF LockMonitor, Attempt, UnlockMonitor
    <3>2. p \in Procs \cup {Nobody}
      OBVIOUS
    <3>3. maker \in [Nodes -> Procs \cup {Nobody}]
      OBVIOUS
    <3> HIDE DEF Procs, TypeOK
    <3>4. CASE UNCHANGED maker
      BY <3>3, <3>4
    <3>5. CASE maker' = [maker EXCEPT ![StreamOf(p)] = Nobody]
      BY <3>3, <3>5, Updated
    <3>6. CASE maker' = [maker EXCEPT ![StreamOf(p)] = p]
      BY <3>2, <3>3, <3>6, Updated
    <3> QED BY <3>1, <3>4, <3>5, <3>6
  <2>3. /\ UNCHANGED <<getVars, stopping, monitor, open, castVars, writer, endVars>>
        /\ pc[p] \in Making \cup {"lock"}
    BY <1>8 DEF LockMonitor
  <2> QED BY <2>1, <2>2, <2>3 DEF AfterAttempt, WithMonitor
<1>9. ASSUME NEW p \in Callers, TrySucceeds(p) PROVE TypeOK' /\ Places'
  BY <1>9 DEF TrySucceeds, StreamOf, WithMonitor, UnlockMonitor
<1>10. ASSUME NEW p \in Callers, TryFails(p) PROVE TypeOK' /\ Places'
  BY <1>10 DEF TryFails, StreamOf
<1>11. ASSUME NEW p \in Callers, ClearMonitor(p) PROVE TypeOK' /\ Places'
  BY <1>11 DEF ClearMonitor, StreamOf
<1>12. ASSUME NEW p \in Callers, Retry(p) PROVE TypeOK' /\ Places'
  <2>1. PICK w \in AfterAttempt(p) : pc' = [pc EXCEPT ![p] = w]
    BY <1>12, AttemptGoesOn DEF Retry, UnlockMonitor, AfterAttempt
  <2>2. maker' \in [Nodes -> Procs \cup {Nobody}]
    <3>1. \/ UNCHANGED maker
          \/ maker' = [maker EXCEPT ![StreamOf(p)] = Nobody]
          \/ maker' = [maker EXCEPT ![StreamOf(p)] = p]
      BY <1>12 DEF Retry, Attempt, UnlockMonitor
    <3>2. p \in Procs \cup {Nobody}
      OBVIOUS
    <3>3. maker \in [Nodes -> Procs \cup {Nobody}]
      OBVIOUS
    <3> HIDE DEF Procs, TypeOK
    <3>4. CASE UNCHANGED maker
      BY <3>3, <3>4
    <3>5. CASE maker' = [maker EXCEPT ![StreamOf(p)] = Nobody]
      BY <3>3, <3>5, Updated
    <3>6. CASE maker' = [maker EXCEPT ![StreamOf(p)] = p]
      BY <3>2, <3>3, <3>6, Updated
    <3> QED BY <3>1, <3>4, <3>5, <3>6
  <2>3. /\ UNCHANGED <<getVars, stopping, monitor, open, castVars, writer, endVars>>
        /\ pc[p] \in Making \cup {"lock"}
    BY <1>12 DEF Retry
  <2> QED BY <2>1, <2>2, <2>3 DEF AfterAttempt, WithMonitor
<1>13. ASSUME NEW n \in Nodes, Begin(n) PROVE TypeOK' /\ Places'
  BY <1>13 DEF Begin
<1>14. ASSUME NEW n \in Nodes, GetFrameFails(n) PROVE TypeOK' /\ Places'
  BY <1>14 DEF GetFrameFails
<1>15. ASSUME NEW n \in Nodes, UsesNilMonitor(n) PROVE TypeOK' /\ Places'
  BY <1>15 DEF UsesNilMonitor
<1>16. ASSUME NEW n \in Nodes, ClearForStop(n) PROVE TypeOK' /\ Places'
  BY <1>16 DEF ClearForStop
<1>17. ASSUME NEW n \in Nodes, NoMonitorToStop(n) PROVE TypeOK' /\ Places'
  BY <1>17 DEF NoMonitorToStop, WithoutMonitor
<1>18. ASSUME NEW n \in Nodes, ShutDown(n) PROVE TypeOK' /\ Places'
  <2>1. open[n] \in Nat \ {0} /\ open' = [open EXCEPT ![n] = @ - 1]
    BY <1>18 DEF ShutDown, NoMonitorIsForgotten
  <2>2. open' \in [Nodes -> Nat]
    BY <2>1
  <2>3. UNCHANGED <<getVars, stopping, monitor, maker, castVars, writer, endVars>>
    BY <1>18 DEF ShutDown
  <2>4. pc' = [pc EXCEPT ![n] = WithoutMonitor(n)] /\ WithoutMonitor(n) \in {"awaitStop", "ended"}
    BY <1>18 DEF ShutDown, WithoutMonitor
  <2> QED BY <2>2, <2>3, <2>4
<1>19. ASSUME NEW n \in Nodes, TakeStop(n) PROVE TypeOK' /\ Places'
  BY <1>19 DEF TakeStop
<1>20. ASSUME NEW h \in Handlers, Request(h) PROVE TypeOK' /\ Places'
  BY <1>20 DEF Request
<1>21. ASSUME NEW h \in Handlers, LockCaster(h) PROVE TypeOK' /\ Places'
  BY <1>21 DEF LockCaster
<1>22. ASSUME NEW h \in Handlers, MakeCaster(h) PROVE TypeOK' /\ Places'
  BY <1>22 DEF MakeCaster
<1>23. ASSUME NEW h \in Handlers, NoMonitorForCaster(h) PROVE TypeOK' /\ Places'
  BY <1>23 DEF NoMonitorForCaster
<1>24. ASSUME NEW h \in Handlers, ReturnCaster(h) PROVE TypeOK' /\ Places'
  <2>1. pc[h] = "return" /\ at[h] \in Nodes
    BY <1>24 DEF ReturnCaster
  <2>2. UNCHANGED <<id, todo, clients, stopping, monVars, caster, live, writer, endVars>>
    BY <1>24 DEF ReturnCaster
  <2>3. casterMaker' = [casterMaker EXCEPT ![at[h]] = Nobody]
    BY <1>24 DEF ReturnCaster
  <2>4. CASE Goto(h, "left") /\ at' = [at EXCEPT ![h] = Nobody] /\ UNCHANGED got
    BY <2>1, <2>2, <2>3, <2>4
  <2>5. CASE Goto(h, "attach") /\ got' = [got EXCEPT ![h] = caster[at[h]]] /\ UNCHANGED at
    <3>1. caster[at[h]] \in Handlers \cup {Nobody}
      BY <2>1
    <3>2. CASE caster[at[h]] \in Handlers
      BY <2>1, <2>2, <2>3, <2>5, <3>2
    <3>3. CASE caster[at[h]] = Nobody
      BY <1>24, <2>5, <3>3 DEF ReturnCaster
    <3> QED BY <3>1, <3>2, <3>3
  <2> QED BY <1>24, <2>4, <2>5 DEF ReturnCaster
<1>25. ASSUME NEW h \in Handlers, Attach(h) PROVE TypeOK' /\ Places'
  BY <1>25 DEF Attach
<1>26. ASSUME NEW h \in Handlers, Leave(h) PROVE TypeOK' /\ Places'
  BY <1>26 DEF Leave
<1>27. ASSUME NEW n \in Nodes, AskStop(n) PROVE TypeOK' /\ Places'
  BY <1>27 DEF AskStop
<1>28. ASSUME NEW n \in Nodes, StopClients(n) PROVE TypeOK' /\ Places'
  BY <1>28 DEF StopClients, Watchers
<1>29. ASSUME NEW n \in Nodes, Detach(n) PROVE TypeOK' /\ Places'
  <2>1. PICK i \in DOMAIN clients :
          clients' = SubSeq(clients, 1, i - 1) \o SubSeq(clients, i + 1, Len(clients))
    BY <1>29 DEF Detach
  <2>2. clients' \in Seq(Nodes)
    BY <2>1, ListWithoutPlace
  <2> QED BY <1>29, <2>2 DEF Detach
<1>30. ASSUME Interrupt PROVE TypeOK' /\ Places'
  BY <1>30 DEF Interrupt
<1>31. CASE UNCHANGED vars
  BY <1>31 DEF vars
<1> QED BY <1>1, <1>2, <1>3, <1>4, <1>5, <1>6, <1>7, <1>8, <1>9, <1>10, <1>11, <1>12, <1>13, <1>14,
       <1>15, <1>16, <1>17, <1>18, <1>19, <1>20, <1>21, <1>22, <1>23, <1>24, <1>25, <1>26, <1>27,
       <1>28, <1>29, <1>30, <1>31
  DEF Next, CameraTask, StreamTask, Handler, NodeStops, makeMonitor

\* The end of makeMonitor's loop and its next round keep what is known of monitors.
LEMMA MakerGoesOn ==
  ASSUME MonitorInv, NEW p \in Callers, pc[p] \in {"lock", "retry"},
         UNCHANGED <<at, monitor, open>>, maker[StreamOf(p)] \in {Nobody, p},
         Attempt(p) \/ UnlockMonitor(p)
  PROVE  MakerInv' /\ NoMonitorIsForgotten'
<1> DEFINE s == StreamOf(p)
<1> USE DEF MonitorInv
<1>1. s \in Nodes /\ p \in Procs /\ Nobody \notin Callers
  BY DEF Places, AtStream, Casting, Making, Callers, Procs, StreamOf, HandlerPCs
<1>2. \/ UnlockMonitor(p)
      \/ /\ monitor[s] = "nil" /\ maker' = [maker EXCEPT ![s] = p]
         /\ \E w \in {"try", "fail"} : pc' = [pc EXCEPT ![p] = w]
  BY DEF Attempt, Goto
<1>3. /\ \A q \in Procs \ {p} : pc'[q] = pc[q]
      /\ pc'[p] \in {"begin", "cast", "try", "fail"}
      /\ pc'[p] \in Making => monitor[s] = "nil" /\ maker'[s] = p
      /\ \A n \in Nodes \ {s} : maker'[n] = maker[n]
  <2>1. pc \in [Procs -> PCs] /\ maker \in [Nodes -> Procs \cup {Nobody}]
    BY DEF TypeOK
  <2>2. CASE UnlockMonitor(p)
    BY <1>1, <2>1, <2>2 DEF UnlockMonitor, Goto, WithMonitor, Making
  <2>3. CASE /\ monitor[s] = "nil" /\ maker' = [maker EXCEPT ![s] = p]
             /\ \E w \in {"try", "fail"} : pc' = [pc EXCEPT ![p] = w]
    BY <1>1, <2>1, <2>3
  <2> QED BY <1>2, <2>2, <2>3
<1>4. NoMonitorIsForgotten'
  BY <1>3 DEF NoMonitorIsForgotten, Procs
<1>5. ASSUME NEW q \in Callers, pc'[q] \in Making
      PROVE  maker'[StreamOf(q)'] = q /\ monitor'[StreamOf(q)'] # "open"
  <2>1. StreamOf(q)' = StreamOf(q) /\ q \in Procs
    BY DEF StreamOf, Callers, Procs
  <2>2. CASE q = p
    BY <1>3, <1>5, <2>1, <2>2
  <2>3. CASE q # p
    <3>1. pc[q] \in Making
      BY <1>3, <1>5, <2>1, <2>3
    <3>2. maker[StreamOf(q)] = q /\ monitor[StreamOf(q)] # "open"
      BY <3>1 DEF MakerInv
    <3>3. StreamOf(q) \in Nodes \ {s}
      BY <1>1, <2>3, <3>1, <3>2 DEF Places, AtStream, Casting, StreamOf, Callers
    <3> QED BY <1>3, <2>1, <3>2, <3>3
  <2> QED BY <2>2, <2>3
<1>6. MakerInv'
  BY <1>5 DEF MakerInv
<1> QED BY <1>4, <1>6

\* Every step keeps what is known of monitors.
LEMMA MonitorStep ==
  ASSUME MonitorInv, [Next]_vars
  PROVE  MakerInv' /\ NoMonitorIsForgotten'
<1> USE DEF MonitorInv, TypeOK, Places, CameraPCs, HandlerPCs, NodePCs, AtStream, Casting, Making,
            Procs, Callers, getVars, monVars, castVars, endVars, Goto, StreamOf
<1>1. ASSUME Check PROVE MakerInv' /\ NoMonitorIsForgotten'
  BY <1>1, MonitorUntouched DEF Check
<1>2. ASSUME Online PROVE MakerInv' /\ NoMonitorIsForgotten'
  BY <1>2, MonitorUntouched DEF Online
<1>3. ASSUME Offline PROVE MakerInv' /\ NoMonitorIsForgotten'
  BY <1>3, MonitorUntouched DEF Offline
<1>4. ASSUME CameraEnds PROVE MakerInv' /\ NoMonitorIsForgotten'
  BY <1>4, MonitorUntouched DEF CameraEnds
<1>5. ASSUME NEW p \in Handlers \cup {Camera}, FindStream(p) PROVE MakerInv' /\ NoMonitorIsForgotten'
  BY <1>5, MonitorUntouched DEF FindStream, GotStream, WithStream
<1>6. ASSUME NEW p \in Handlers \cup {Camera}, MissStream(p) PROVE MakerInv' /\ NoMonitorIsForgotten'
  BY <1>6, MonitorUntouched DEF MissStream
<1>7. ASSUME NEW p \in Handlers \cup {Camera}, CreateStream(p) PROVE MakerInv' /\ NoMonitorIsForgotten'
  <2>1. PICK n \in New : pc' = [pc EXCEPT ![p] = WithStream(p), ![n] = "lock"] /\ GotStream(p, n)
    BY <1>7 DEF CreateStream
  <2>2. n \in Nodes /\ pc[n] \in {"none", "ended"} /\ UNCHANGED monVars
    BY <1>7 DEF CreateStream, New
  <2>3. /\ pc[p] = "create" /\ p \in Procs \ Nodes
        /\ WithStream(p) \in {"lockCaster", "scan", "check"}
    BY <1>7 DEF CreateStream, WithStream
  <2>4. \A h \in Handlers \ {p} : at'[h] = at[h]
    BY <2>1 DEF GotStream
  <2>5. \A q \in Procs : q # p /\ q # n => pc'[q] = pc[q]
    BY <2>1
  <2>6. pc'[p] \notin Making /\ pc'[n] = "lock"
    BY <2>1, <2>2, <2>3
  <2>7. \A q \in Callers : pc'[q] \in Making => pc[q] \in Making /\ StreamOf(q)' = StreamOf(q)
    BY <2>4, <2>5, <2>6
  <2>8. \A m \in Nodes : pc'[m] \in {"failedClose", "shutClose"} <=> pc[m] \in {"failedClose", "shutClose"}
    BY <2>2, <2>3, <2>5, <2>6
  <2> QED BY <2>2, <2>7, <2>8, MonitorUntouched
<1>8. ASSUME NEW p \in Callers, LockMonitor(p) PROVE MakerInv' /\ NoMonitorIsForgotten'
  <2>1. /\ pc[p] = "lock" /\ maker[StreamOf(p)] = Nobody /\ Attempt(p)
        /\ UNCHANGED <<at, monitor, open>>
    BY <1>8 DEF LockMonitor
  <2> QED BY <2>1, MakerGoesOn
<1>9. ASSUME NEW p \in Callers, TrySucceeds(p) PROVE MakerInv' /\ NoMonitorIsForgotten'
  <2> DEFINE s == StreamOf(p)
  <2>1. /\ pc[p] = "try" /\ maker[s] = p /\ monitor[s] # "open" /\ s \in Nodes /\ p \in Procs
        /\ UNCHANGED at
    BY <1>9 DEF TrySucceeds, MakerInv
  <2>2. /\ monitor' = [monitor EXCEPT ![s] = "open"] /\ open' = [open EXCEPT ![s] = @ + 1]
        /\ maker' = [maker EXCEPT ![s] = Nobody] /\ pc' = [pc EXCEPT ![p] = WithMonitor(p)]
        /\ WithMonitor(p) \in {"begin", "cast"}
    BY <1>9 DEF TrySucceeds, UnlockMonitor, WithMonitor
  <2>3. NoMonitorIsForgotten'
    BY <2>1, <2>2 DEF NoMonitorIsForgotten
  <2>4. ASSUME NEW q \in Callers, pc'[q] \in Making
        PROVE  maker'[StreamOf(q)'] = q /\ monitor'[StreamOf(q)'] # "open"
    <3>1. q # p /\ pc[q] \in Making /\ StreamOf(q)' = StreamOf(q)
      BY <2>1, <2>2, <2>4
    <3>2. maker[StreamOf(q)] = q /\ monitor[StreamOf(q)] # "open" /\ StreamOf(q) # s
      BY <2>1, <3>1 DEF MakerInv
    <3> QED BY <2>2, <3>1, <3>2
  <2>5. MakerInv'
    BY <2>4 DEF MakerInv
  <2> QED BY <2>3, <2>5
<1>10. ASSUME NEW p \in Callers, TryFails(p) PROVE MakerInv' /\ NoMonitorIsForgotten'
  BY <1>10 DEF TryFails, MakerInv, NoMonitorIsForgotten
<1>11. ASSUME NEW p \in Callers, ClearMonitor(p) PROVE MakerInv' /\ NoMonitorIsForgotten'
  BY <1>11 DEF ClearMonitor, MakerInv, NoMonitorIsForgotten
<1>12. ASSUME NEW p \in Callers, Retry(p) PROVE MakerInv' /\ NoMonitorIsForgotten'
  <2>1. /\ pc[p] = "retry" /\ (Attempt(p) \/ UnlockMonitor(p))
        /\ UNCHANGED <<at, monitor, open>>
    BY <1>12 DEF Retry
  <2>2. maker[StreamOf(p)] = p
    BY <2>1 DEF MakerInv
  <2> QED BY <2>1, <2>2, MakerGoesOn
<1>13. ASSUME NEW n \in Nodes, Begin(n) PROVE MakerInv' /\ NoMonitorIsForgotten'
  BY <1>13, MonitorUntouched DEF Begin
<1>14. ASSUME NEW n \in Nodes, GetFrameFails(n) PROVE MakerInv' /\ NoMonitorIsForgotten'
  BY <1>14, MonitorUntouched DEF GetFrameFails
<1>15. ASSUME NEW n \in Nodes, UsesNilMonitor(n) PROVE MakerInv' /\ NoMonitorIsForgotten'
  BY <1>15, MonitorUntouched DEF UsesNilMonitor
<1>16. ASSUME NEW n \in Nodes, ClearForStop(n) PROVE MakerInv' /\ NoMonitorIsForgotten'
  BY <1>16 DEF ClearForStop, MakerInv, NoMonitorIsForgotten
<1>17. ASSUME NEW n \in Nodes, NoMonitorToStop(n) PROVE MakerInv' /\ NoMonitorIsForgotten'
  BY <1>17, MonitorUntouched DEF NoMonitorToStop, WithoutMonitor
<1>18. ASSUME NEW n \in Nodes, ShutDown(n) PROVE MakerInv' /\ NoMonitorIsForgotten'
  BY <1>18 DEF ShutDown, WithoutMonitor, MakerInv, NoMonitorIsForgotten
<1>19. ASSUME NEW n \in Nodes, TakeStop(n) PROVE MakerInv' /\ NoMonitorIsForgotten'
  BY <1>19, MonitorUntouched DEF TakeStop
<1>20. ASSUME NEW h \in Handlers, Request(h) PROVE MakerInv' /\ NoMonitorIsForgotten'
  BY <1>20, MonitorUntouched DEF Request
<1>21. ASSUME NEW h \in Handlers, LockCaster(h) PROVE MakerInv' /\ NoMonitorIsForgotten'
  BY <1>21, MonitorUntouched DEF LockCaster
<1>22. ASSUME NEW h \in Handlers, MakeCaster(h) PROVE MakerInv' /\ NoMonitorIsForgotten'
  BY <1>22, MonitorUntouched DEF MakeCaster
<1>23. ASSUME NEW h \in Handlers, NoMonitorForCaster(h) PROVE MakerInv' /\ NoMonitorIsForgotten'
  BY <1>23, MonitorUntouched DEF NoMonitorForCaster
<1>24. ASSUME NEW h \in Handlers, ReturnCaster(h) PROVE MakerInv' /\ NoMonitorIsForgotten'
  BY <1>24, MonitorUntouched DEF ReturnCaster
<1>25. ASSUME NEW h \in Handlers, Attach(h) PROVE MakerInv' /\ NoMonitorIsForgotten'
  BY <1>25, MonitorUntouched DEF Attach
<1>26. ASSUME NEW h \in Handlers, Leave(h) PROVE MakerInv' /\ NoMonitorIsForgotten'
  BY <1>26, MonitorUntouched DEF Leave
<1>27. ASSUME NEW n \in Nodes, AskStop(n) PROVE MakerInv' /\ NoMonitorIsForgotten'
  BY <1>27, MonitorUntouched DEF AskStop
<1>28. ASSUME NEW n \in Nodes, StopClients(n) PROVE MakerInv' /\ NoMonitorIsForgotten'
  BY <1>28, MonitorUntouched DEF StopClients, Watchers
<1>29. ASSUME NEW n \in Nodes, Detach(n) PROVE MakerInv' /\ NoMonitorIsForgotten'
  BY <1>29, MonitorUntouched DEF Detach
<1>30. ASSUME Interrupt PROVE MakerInv' /\ NoMonitorIsForgotten'
  BY <1>30, MonitorUntouched DEF Interrupt
<1>31. CASE UNCHANGED vars
  BY <1>31, MonitorUntouched DEF vars
<1> QED BY <1>1, <1>2, <1>3, <1>4, <1>5, <1>6, <1>7, <1>8, <1>9, <1>10, <1>11, <1>12, <1>13, <1>14,
       <1>15, <1>16, <1>17, <1>18, <1>19, <1>20, <1>21, <1>22, <1>23, <1>24, <1>25, <1>26, <1>27,
       <1>28, <1>29, <1>30, <1>31
  DEF Next, CameraTask, StreamTask, Handler, NodeStops, makeMonitor

\* The invariant that monitors need is kept.
LEMMA MonitorInvariant == Spec => []MonitorInv
<1>1. MonitorInv /\ [Next]_vars => MonitorInv'
  BY TypesStep, MonitorStep DEF MonitorInv
<1> QED BY InitMonitorInv, <1>1, PTL DEF Spec

\* The variables of a camera and its streams keep their types, and no monitor is shut
\* down more often than it was connected (stopMonitor).
THEOREM TypeCorrect == Spec => []TypeOK
<1>1. MonitorInv => TypeOK
  BY DEF MonitorInv
<1> QED BY MonitorInvariant, <1>1, PTL

\* makeMonitor never overwrites a connected monitor, and stopMonitor shuts down the one
\* it takes: each connected monitor is s.monitor or is being shut down, for any number
\* of streams and requests.
THEOREM MonitorsAreKept == Spec => []NoMonitorIsForgotten
<1>1. MonitorInv => NoMonitorIsForgotten
  BY DEF MonitorInv
<1> QED BY MonitorInvariant, <1>1, PTL

\* Whoever is inside GetCaster holds the stream's mutex, and finds no caster there
\* until it makes one.
CasterInv ==
  \A h \in Handlers : pc[h] \in Casting =>
    casterMaker[at[h]] = h /\ (pc[h] # "return" => caster[at[h]] = Nobody)

\* Every step keeps what is known of casters.
LEMMA CasterStep ==
  ASSUME TypeOK, Places, CasterInv, OneCasterPerStream, [Next]_vars
  PROVE  CasterInv' /\ OneCasterPerStream'
<1> USE DEF TypeOK, Places, CameraPCs, HandlerPCs, NodePCs, AtStream, Casting, Making,
            Procs, Callers, getVars, monVars, castVars, endVars, Goto
<1>1. ASSUME Check PROVE CasterInv' /\ OneCasterPerStream'
  BY <1>1 DEF Check, CasterInv, OneCasterPerStream
<1>2. ASSUME Online PROVE CasterInv' /\ OneCasterPerStream'
  BY <1>2 DEF Online, CasterInv, OneCasterPerStream
<1>3. ASSUME Offline PROVE CasterInv' /\ OneCasterPerStream'
  BY <1>3 DEF Offline, CasterInv, OneCasterPerStream
<1>4. ASSUME CameraEnds PROVE CasterInv' /\ OneCasterPerStream'
  BY <1>4 DEF CameraEnds, CasterInv, OneCasterPerStream
<1>5. ASSUME NEW p \in Handlers \cup {Camera}, FindStream(p) PROVE CasterInv' /\ OneCasterPerStream'
  BY <1>5 DEF FindStream, GotStream, WithStream, CasterInv, OneCasterPerStream
<1>6. ASSUME NEW p \in Handlers \cup {Camera}, MissStream(p) PROVE CasterInv' /\ OneCasterPerStream'
  BY <1>6 DEF MissStream, CasterInv, OneCasterPerStream
<1>7. ASSUME NEW p \in Handlers \cup {Camera}, CreateStream(p) PROVE CasterInv' /\ OneCasterPerStream'
  <2>1. PICK n \in New : pc' = [pc EXCEPT ![p] = WithStream(p), ![n] = "lock"] /\ GotStream(p, n)
    BY <1>7 DEF CreateStream
  <2>2. n \in Nodes /\ UNCHANGED castVars
    BY <1>7 DEF CreateStream, New
  <2>3. WithStream(p) \in {"lockCaster", "scan", "check"}
    BY DEF WithStream
  <2>4. \A h \in Handlers : h # p => at'[h] = at[h] /\ pc'[h] = pc[h]
    BY <2>1, <2>2 DEF GotStream
  <2>5. \A h \in Handlers : h = p => pc'[h] \notin Casting
    BY <2>1, <2>2, <2>3
  <2>6. ASSUME NEW h \in Handlers, pc'[h] \in Casting
        PROVE  casterMaker'[at'[h]] = h /\ (pc'[h] # "return" => caster'[at'[h]] = Nobody)
    <3>1. pc[h] \in Casting /\ at'[h] = at[h] /\ pc'[h] = pc[h]
      BY <2>4, <2>5, <2>6
    <3> QED BY <2>2, <3>1 DEF CasterInv
  <2>7. CasterInv'
    BY <2>6 DEF CasterInv
  <2> QED BY <2>2, <2>7 DEF OneCasterPerStream
<1>8. ASSUME NEW p \in Callers, LockMonitor(p) PROVE CasterInv' /\ OneCasterPerStream'
  BY <1>8 DEF LockMonitor, Attempt, WithMonitor, UnlockMonitor, CasterInv, OneCasterPerStream
<1>9. ASSUME NEW p \in Callers, TrySucceeds(p) PROVE CasterInv' /\ OneCasterPerStream'
  BY <1>9 DEF TrySucceeds, WithMonitor, UnlockMonitor, CasterInv, OneCasterPerStream
<1>10. ASSUME NEW p \in Callers, TryFails(p) PROVE CasterInv' /\ OneCasterPerStream'
  BY <1>10 DEF TryFails, CasterInv, OneCasterPerStream
<1>11. ASSUME NEW p \in Callers, ClearMonitor(p) PROVE CasterInv' /\ OneCasterPerStream'
  BY <1>11 DEF ClearMonitor, CasterInv, OneCasterPerStream
<1>12. ASSUME NEW p \in Callers, Retry(p) PROVE CasterInv' /\ OneCasterPerStream'
  BY <1>12 DEF Retry, Attempt, WithMonitor, UnlockMonitor, CasterInv, OneCasterPerStream
<1>13. ASSUME NEW n \in Nodes, Begin(n) PROVE CasterInv' /\ OneCasterPerStream'
  BY <1>13 DEF Begin, CasterInv, OneCasterPerStream
<1>14. ASSUME NEW n \in Nodes, GetFrameFails(n) PROVE CasterInv' /\ OneCasterPerStream'
  BY <1>14 DEF GetFrameFails, CasterInv, OneCasterPerStream
<1>15. ASSUME NEW n \in Nodes, UsesNilMonitor(n) PROVE CasterInv' /\ OneCasterPerStream'
  BY <1>15 DEF UsesNilMonitor, CasterInv, OneCasterPerStream
<1>16. ASSUME NEW n \in Nodes, ClearForStop(n) PROVE CasterInv' /\ OneCasterPerStream'
  BY <1>16 DEF ClearForStop, CasterInv, OneCasterPerStream
<1>17. ASSUME NEW n \in Nodes, NoMonitorToStop(n) PROVE CasterInv' /\ OneCasterPerStream'
  BY <1>17 DEF NoMonitorToStop, WithoutMonitor, CasterInv, OneCasterPerStream
<1>18. ASSUME NEW n \in Nodes, ShutDown(n) PROVE CasterInv' /\ OneCasterPerStream'
  BY <1>18 DEF ShutDown, WithoutMonitor, CasterInv, OneCasterPerStream
<1>19. ASSUME NEW n \in Nodes, TakeStop(n) PROVE CasterInv' /\ OneCasterPerStream'
  BY <1>19 DEF TakeStop, CasterInv, OneCasterPerStream
<1>20. ASSUME NEW h \in Handlers, Request(h) PROVE CasterInv' /\ OneCasterPerStream'
  BY <1>20 DEF Request, CasterInv, OneCasterPerStream
<1>21. ASSUME NEW h \in Handlers, LockCaster(h) PROVE CasterInv' /\ OneCasterPerStream'
  BY <1>21 DEF LockCaster, CasterInv, OneCasterPerStream
<1>22. ASSUME NEW h \in Handlers, MakeCaster(h) PROVE CasterInv' /\ OneCasterPerStream'
  BY <1>22 DEF MakeCaster, CasterInv, OneCasterPerStream
<1>23. ASSUME NEW h \in Handlers, NoMonitorForCaster(h) PROVE CasterInv' /\ OneCasterPerStream'
  BY <1>23 DEF NoMonitorForCaster, CasterInv, OneCasterPerStream
<1>24. ASSUME NEW h \in Handlers, ReturnCaster(h) PROVE CasterInv' /\ OneCasterPerStream'
  <2>1. /\ pc[h] = "return" /\ at[h] \in Nodes /\ casterMaker[at[h]] = h
        /\ casterMaker' = [casterMaker EXCEPT ![at[h]] = Nobody] /\ UNCHANGED <<caster, live>>
    BY <1>24 DEF ReturnCaster, CasterInv
  <2>2. /\ pc'[h] \in {"left", "attach"}
        /\ \A g \in Handlers : g # h => pc'[g] = pc[g] /\ at'[g] = at[g]
    BY <1>24 DEF ReturnCaster
  <2>3. ASSUME NEW g \in Handlers, pc'[g] \in Casting
        PROVE  casterMaker'[at'[g]] = g /\ (pc'[g] # "return" => caster'[at'[g]] = Nobody)
    <3>1. g # h /\ pc[g] \in Casting /\ at'[g] = at[g] /\ pc'[g] = pc[g]
      BY <2>2, <2>3
    <3>2. casterMaker[at[g]] = g /\ (pc[g] # "return" => caster[at[g]] = Nobody)
      BY <3>1 DEF CasterInv
    <3>3. at[g] # at[h]
      BY <2>1, <3>1, <3>2
    <3>4. casterMaker'[at[g]] = casterMaker[at[g]]
      BY <2>1, <3>1, <3>3
    <3> QED BY <2>1, <3>1, <3>2, <3>4
  <2>4. CasterInv'
    BY <2>3 DEF CasterInv
  <2> QED BY <2>1, <2>4 DEF OneCasterPerStream
<1>25. ASSUME NEW h \in Handlers, Attach(h) PROVE CasterInv' /\ OneCasterPerStream'
  BY <1>25 DEF Attach, CasterInv, OneCasterPerStream
<1>26. ASSUME NEW h \in Handlers, Leave(h) PROVE CasterInv' /\ OneCasterPerStream'
  BY <1>26 DEF Leave, CasterInv, OneCasterPerStream
<1>27. ASSUME NEW n \in Nodes, AskStop(n) PROVE CasterInv' /\ OneCasterPerStream'
  BY <1>27 DEF AskStop, CasterInv, OneCasterPerStream
<1>28. ASSUME NEW n \in Nodes, StopClients(n) PROVE CasterInv' /\ OneCasterPerStream'
  BY <1>28 DEF StopClients, Watchers, CasterInv, OneCasterPerStream
<1>29. ASSUME NEW n \in Nodes, Detach(n) PROVE CasterInv' /\ OneCasterPerStream'
  BY <1>29 DEF Detach, CasterInv, OneCasterPerStream
<1>30. ASSUME Interrupt PROVE CasterInv' /\ OneCasterPerStream'
  BY <1>30 DEF Interrupt, CasterInv, OneCasterPerStream
<1>31. CASE UNCHANGED vars
  BY <1>31 DEF vars, CasterInv, OneCasterPerStream
<1> QED BY <1>1, <1>2, <1>3, <1>4, <1>5, <1>6, <1>7, <1>8, <1>9, <1>10, <1>11, <1>12, <1>13, <1>14,
       <1>15, <1>16, <1>17, <1>18, <1>19, <1>20, <1>21, <1>22, <1>23, <1>24, <1>25, <1>26, <1>27,
       <1>28, <1>29, <1>30, <1>31
  DEF Next, CameraTask, StreamTask, Handler, NodeStops, makeMonitor

\* GetCaster's mutex and the caster's stop event agree: a caster that is not stopped is
\* s.caster, so a stream never has two, for any number of requests.
THEOREM StreamsHaveOneCaster == Spec => []OneCasterPerStream
<1>1. Init => CasterInv /\ OneCasterPerStream
  BY DEF Init, CasterInv, OneCasterPerStream, Casting, Making, Procs
<1>2. MonitorInv /\ CasterInv /\ OneCasterPerStream /\ [Next]_vars
        => (CasterInv /\ OneCasterPerStream)'
  BY CasterStep DEF MonitorInv
<1> QED BY MonitorInvariant, <1>1, <1>2, PTL DEF Spec

----------------------------------------------------------------------------
\* What a part of a list has.
LEMMA MembersOfPart ==
  ASSUME NEW S, NEW s \in Seq(S), NEW m \in Nat \ {0}, NEW n \in Nat, n <= Len(s)
  PROVE  SubSeq(s, m, n) \in Seq(S) /\ Members(SubSeq(s, m, n)) = {s[k] : k \in m .. n}
<1>1. \A k \in m .. n : s[k] \in S
  OBVIOUS
<1>2. PICK p : p = SubSeq(s, m, n)
  OBVIOUS
<1>3. /\ p \in Seq(S) /\ Len(p) = IF m <= n THEN (n - m) + 1 ELSE 0
      /\ \A k \in 1 .. (n - m) + 1 : p[k] = s[m + (k - 1)]
  BY <1>1, <1>2, SubSeqProperties
<1>4. DOMAIN p = 1 .. (n - m) + 1
  <2>1. CASE m <= n
    BY <1>3, <2>1
  <2>2. CASE n < m
    BY <1>3, <2>2
  <2> QED BY <2>1, <2>2
<1>5. ASSUME NEW k \in DOMAIN p PROVE p[k] \in {s[j] : j \in m .. n}
  <2>1. m + (k - 1) \in m .. n
    BY <1>4
  <2> QED BY <1>3, <1>4, <2>1
<1>6. ASSUME NEW j \in m .. n PROVE s[j] \in Members(p)
  <2>1. j - m \in Nat /\ (j - m) + 1 \in 1 .. (n - m) + 1 /\ m + (((j - m) + 1) - 1) = j
    OBVIOUS
  <2> QED BY <1>3, <1>4, <2>1 DEF Members
<1>7. Members(p) = {s[j] : j \in m .. n}
  BY <1>5, <1>6 DEF Members
<1> QED BY <1>2, <1>3, <1>7

\* What two lists have together.
LEMMA MembersOfBoth ==
  ASSUME NEW S, NEW a \in Seq(S), NEW b \in Seq(S)
  PROVE  Members(a \o b) = Members(a) \cup Members(b)
<1>1. /\ a \o b \in Seq(S) /\ Len(a \o b) = Len(a) + Len(b)
      /\ \A k \in 1 .. Len(a) + Len(b) : (a \o b)[k] = IF k <= Len(a) THEN a[k] ELSE b[k - Len(a)]
  BY ConcatProperties
<1>2. /\ Len(a) \in Nat /\ Len(b) \in Nat /\ DOMAIN a = 1 .. Len(a) /\ DOMAIN b = 1 .. Len(b)
      /\ DOMAIN (a \o b) = 1 .. Len(a) + Len(b)
  BY <1>1
<1>3. ASSUME NEW k \in DOMAIN (a \o b) PROVE (a \o b)[k] \in Members(a) \cup Members(b)
  <2>1. CASE k <= Len(a)
    BY <1>1, <1>2, <2>1 DEF Members
  <2>2. CASE k > Len(a)
    <3>1. (a \o b)[k] = b[k - Len(a)] /\ k - Len(a) \in DOMAIN b
      BY <1>1, <1>2, <2>2
    <3> QED BY <3>1 DEF Members
  <2> QED BY <1>2, <2>1, <2>2
<1>4. ASSUME NEW k \in DOMAIN a PROVE a[k] \in Members(a \o b)
  <2>1. k \in DOMAIN (a \o b) /\ (a \o b)[k] = a[k]
    BY <1>1, <1>2
  <2> QED BY <2>1 DEF Members
<1>5. ASSUME NEW k \in DOMAIN b PROVE b[k] \in Members(a \o b)
  <2>1. /\ Len(a) + k \in DOMAIN (a \o b) /\ ~(Len(a) + k <= Len(a)) /\ (Len(a) + k) - Len(a) = k
    BY <1>2
  <2>2. (a \o b)[Len(a) + k] = b[k]
    BY <1>1, <1>2, <2>1
  <2> QED BY <2>1, <2>2 DEF Members
<1> QED BY <1>3, <1>4, <1>5 DEF Members

\* What a list has without one place: all but the element there, at most.
LEMMA MembersWithoutPlace ==
  ASSUME NEW S, NEW s \in Seq(S), NEW i \in DOMAIN s, NEW r,
         r = SubSeq(s, 1, i - 1) \o SubSeq(s, i + 1, Len(s))
  PROVE  Members(r) \subseteq Members(s) /\ Members(s) \subseteq Members(r) \cup {s[i]}
<1>1. /\ Len(s) \in Nat /\ i \in 1 .. Len(s) /\ DOMAIN s = 1 .. Len(s)
      /\ i - 1 \in Nat /\ i - 1 <= Len(s) /\ i + 1 \in Nat \ {0}
  OBVIOUS
<1>2. PICK a : a = SubSeq(s, 1, i - 1)
  OBVIOUS
<1>3. PICK b : b = SubSeq(s, i + 1, Len(s))
  OBVIOUS
<1>4. a \in Seq(S) /\ Members(a) = {s[k] : k \in 1 .. i - 1}
  <2>1. PICK j \in Nat : j = i - 1 /\ j <= Len(s)
    BY <1>1
  <2> QED BY <1>2, <2>1, MembersOfPart
<1>5. b \in Seq(S) /\ Members(b) = {s[k] : k \in i + 1 .. Len(s)}
  <2>1. PICK j \in Nat \ {0} : j = i + 1
    BY <1>1
  <2>2. PICK l \in Nat : l = Len(s)
    BY <1>1
  <2>3. l <= Len(s)
    BY <2>2
  <2>4. j \in Nat \ {0} /\ l \in Nat /\ s \in Seq(S)
    OBVIOUS
  <2>5. SubSeq(s, j, l) \in Seq(S) /\ Members(SubSeq(s, j, l)) = {s[k] : k \in j .. l}
    BY <2>3, <2>4, MembersOfPart, SMT
  <2> QED BY <1>3, <2>1, <2>2, <2>5
<1>6. Members(r) = Members(a) \cup Members(b)
  <2>1. r = a \o b
    BY <1>2, <1>3
  <2>2. Members(a \o b) = Members(a) \cup Members(b)
    BY <1>4, <1>5, MembersOfBoth
  <2> QED BY <2>1, <2>2
<1>7. DOMAIN s = 1 .. i - 1 \cup {i} \cup i + 1 .. Len(s)
  BY <1>1
<1> QED BY <1>4, <1>5, <1>6, <1>7 DEF Members

\* What an element appended adds.
LEMMA MembersAppended ==
  ASSUME NEW S, NEW s \in Seq(S), NEW e \in S
  PROVE  Members(Append(s, e)) = Members(s) \cup {e}
<1>1. PICK l \in Nat : l = Len(s)
  OBVIOUS
<1>2. PICK r : r = Append(s, e)
  OBVIOUS
<1>3. /\ DOMAIN s = 1 .. l /\ DOMAIN r = 1 .. l + 1 /\ r[l + 1] = e
      /\ \A k \in 1 .. l : r[k] = s[k]
  BY <1>1, <1>2, AppendProperties
<1>4. l + 1 \in 1 .. l + 1 /\ 1 .. l + 1 = 1 .. l \cup {l + 1}
  BY <1>1
<1> QED BY <1>2, <1>3, <1>4 DEF Members

----------------------------------------------------------------------------
\* The streams that viewers may make as well as the camera's task.
Viewed == IF Handlers = {} THEN {} ELSE WebCast

\* A node that has a connected monitor or may still connect one: it tries once, when
\* its task begins, and no try begins after the camera was told to stop.
Active(n) ==
  \/ open[n] > 0 \/ pc[n] = "try"
  \/ pc[n] \in {"lock", "fail", "clear", "retry"} /\ ~CameraStopping

\* Requests are for streams that are webcast.
ViewersInv ==
  \A h \in Handlers :
    /\ pc[h] \notin {"idle", "left"} => id[h] \in Viewed
    /\ at[h] # Nobody => id[at[h]] \in Viewed

\* A node that was not made yet is nobody's stream and has no monitor.
MadeInv ==
  /\ \A n \in Members(clients) : pc[n] # "none"
  /\ \A h \in Handlers : at[h] # Nobody => pc[at[h]] # "none"
  /\ \A n \in Nodes : pc[n] = "none" => monitor[n] = "nil"

\* Of a stream that no viewer makes, one node at most is active; until the camera
\* stops GetStream finds it, so that the camera's task does not make another.
OneActive ==
  \A n, m \in Nodes : Active(n) /\ Active(m) /\ id[n] = id[m] /\ id[n] \notin Viewed => n = m

ActiveIsFound ==
  \A n \in Nodes : Active(n) /\ ~CameraStopping /\ id[n] \notin Viewed =>
    n \in Members(clients) \ stopping

CameraMissedIt ==
  pc[Camera] = "create" /\ ~CameraStopping /\ Head(todo) \notin Viewed =>
    \A n \in Nodes : Active(n) => id[n] # Head(todo)

\* Its task shuts the monitor down once, and makes no other.
Over == {"failedClose", "shutClose", "awaitStop", "ended"}

MonitorIsOver == \A n \in Nodes : id[n] \notin Viewed /\ pc[n] \in Over => monitor[n] # "open"

RecordedInv == OneActive /\ ActiveIsFound /\ CameraMissedIt /\ MonitorIsOver

\* Who makes a stream makes one it asks for, so nobody else's.
LEMMA ViewersStep ==
  ASSUME TypeOK, Places, ViewersInv, MadeInv, [Next]_vars
  PROVE  ViewersInv' /\ MadeInv'
<1> USE DEF TypeOK, Places, CameraPCs, HandlerPCs, NodePCs, AtStream, Casting, Making,
            Procs, Callers, getVars, monVars, castVars, endVars, Goto
<1>0. ASSUME UNCHANGED <<id, at, clients>>,
             \A h \in Handlers : pc'[h] \notin {"idle", "left"} => pc[h] \notin {"idle", "left"},
             \A n \in Nodes : pc'[n] = "none" => pc[n] = "none" /\ monitor'[n] = monitor[n]
      PROVE  ViewersInv' /\ MadeInv'
  <2>1. ViewersInv'
    BY <1>0 DEF ViewersInv
  <2>2. Members(clients) \subseteq Nodes
    BY DEF Members
  <2>3. MadeInv'
    BY <1>0, <2>2 DEF MadeInv
  <2> QED BY <2>1, <2>3
<1>1. ASSUME Check \/ Online \/ Offline \/ CameraEnds PROVE ViewersInv' /\ MadeInv'
  BY <1>1, <1>0 DEF Check, Online, Offline, CameraEnds
<1>5. ASSUME NEW p \in Handlers \cup {Camera}, FindStream(p) PROVE ViewersInv' /\ MadeInv'
  <2>1. PICK i \in DOMAIN clients : i \in Existing(p) /\ GotStream(p, clients[i])
    BY <1>5 DEF FindStream, Existing
  <2>2. /\ pc[p] = "scan" /\ pc' = [pc EXCEPT ![p] = WithStream(p)]
        /\ UNCHANGED <<id, clients, monitor>>
        /\ clients[i] \in Nodes /\ id[clients[i]] = Wanted(p)
    BY <1>5, <2>1 DEF FindStream, Existing
  <2>3. CASE p = Camera
    BY <2>1, <2>2, <2>3, <1>0 DEF GotStream
  <2>4. CASE p \in Handlers
    <3>1. at' = [at EXCEPT ![p] = clients[i]] /\ id[p] \in Viewed /\ id[clients[i]] = id[p]
      BY <2>1, <2>2, <2>4 DEF GotStream, Wanted, ViewersInv
    <3>2. pc[clients[i]] # "none" /\ \A n \in Nodes : pc'[n] = pc[n]
      BY <2>2, <2>4 DEF MadeInv, Members
    <3>3. ViewersInv'
      BY <2>2, <2>4, <3>1 DEF ViewersInv
    <3>4. MadeInv'
      BY <2>2, <2>4, <3>1, <3>2 DEF MadeInv, Members
    <3> QED BY <3>3, <3>4
  <2> QED BY <2>3, <2>4
<1>6. ASSUME NEW p \in Handlers \cup {Camera}, MissStream(p) PROVE ViewersInv' /\ MadeInv'
  BY <1>6, <1>0 DEF MissStream
<1>7. ASSUME NEW p \in Handlers \cup {Camera}, CreateStream(p) PROVE ViewersInv' /\ MadeInv'
  <2>1. PICK n \in New : /\ pc' = [pc EXCEPT ![p] = WithStream(p), ![n] = "lock"]
                         /\ id' = [id EXCEPT ![n] = Wanted(p)] /\ GotStream(p, n)
                         /\ clients' = Append(clients, n)
    BY <1>7 DEF CreateStream
  <2>2. n \in Nodes /\ pc[p] = "create" /\ monitor' = monitor
    BY <1>7 DEF CreateStream, New
  <2>3. \A h \in Handlers : at[h] # n
    BY <2>1, <2>2 DEF New, MadeInv
  <2>4. /\ pc'[n] = "lock" /\ \A m \in Nodes : m # n => pc'[m] = pc[m]
        /\ \A h \in Handlers : h # p => pc'[h] = pc[h] /\ at'[h] = at[h]
    BY <2>1, <2>2 DEF GotStream
  <2>5. id' = [id EXCEPT ![n] = Wanted(p)] /\ \A x \in Handlers : id'[x] = id[x]
    BY <2>1, <2>2
  <2>6. \A m \in Members(clients') : pc'[m] # "none"
    <3>1. clients \in Seq(Nodes) /\ Members(clients) \subseteq Nodes
      BY DEF Members
    <3>2. PICK r : r = clients'
      OBVIOUS
    <3>3. Members(r) = Members(clients) \cup {n}
      <4> HIDE DEF TypeOK, Places
      <4> QED BY <2>1, <2>2, <3>1, <3>2, MembersAppended
    <3>4. ASSUME NEW m \in Members(r) PROVE pc'[m] # "none"
      <4>1. m = n \/ (m \in Nodes /\ pc[m] # "none")
        BY <3>1, <3>3 DEF MadeInv
      <4> QED BY <2>4, <4>1
    <3> QED BY <3>2, <3>4
  <2>7. CASE p = Camera
    <3>1. at' = at
      BY <2>1, <2>7 DEF GotStream
    <3>2. ViewersInv'
      BY <2>2, <2>3, <2>4, <2>5, <2>7, <3>1 DEF ViewersInv
    <3>3. MadeInv'
      BY <2>2, <2>4, <2>6, <3>1 DEF MadeInv
    <3> QED BY <3>2, <3>3
  <2>8. CASE p \in Handlers
    <3>1. at' = [at EXCEPT ![p] = n] /\ id[p] \in Viewed /\ id'[n] = id[p]
      BY <2>1, <2>2, <2>8 DEF GotStream, Wanted, ViewersInv
    <3>2. \A h \in Handlers : at'[h] # Nobody => at'[h] = n \/ (at'[h] = at[h] /\ h # p)
      BY <2>8, <3>1
    <3>3. ViewersInv'
      BY <2>2, <2>3, <2>4, <2>5, <2>8, <3>1, <3>2 DEF ViewersInv
    <3>4. ASSUME NEW h \in Handlers, at'[h] # Nobody PROVE pc'[at'[h]] # "none"
      BY <2>1, <2>2, <2>4, <3>2, <3>4 DEF MadeInv
    <3>5. MadeInv'
      BY <2>2, <2>4, <2>6, <3>4 DEF MadeInv
    <3> QED BY <3>3, <3>5
  <2> QED BY <2>7, <2>8
<1>8. ASSUME NEW p \in Callers, makeMonitor(p) PROVE ViewersInv' /\ MadeInv'
  <2>1. /\ UNCHANGED getVars /\ pc[p] \in {"lock", "try", "fail", "clear", "retry"}
        /\ \E w \in {"try", "fail", "clear", "retry", "begin", "cast"} : pc' = [pc EXCEPT ![p] = w]
    BY <1>8 DEF makeMonitor, LockMonitor, TrySucceeds, TryFails, ClearMonitor, Retry, Attempt,
         UnlockMonitor, WithMonitor
  <2>2. monitor' = monitor \/ \E v : monitor' = [monitor EXCEPT ![StreamOf(p)] = v]
    BY <1>8 DEF makeMonitor, LockMonitor, TrySucceeds, TryFails, ClearMonitor, Retry
  <2>3. pc[StreamOf(p)] # "none"
    <3>1. CASE p \in Nodes
      BY <2>1, <3>1 DEF StreamOf
    <3>2. CASE p \in Handlers
      BY <2>1, <3>2 DEF StreamOf, MadeInv
    <3> QED BY <3>1, <3>2
  <2> QED BY <2>1, <2>2, <2>3, <1>0
<1>13. ASSUME NEW n \in Nodes, Begin(n) \/ GetFrameFails(n) \/ UsesNilMonitor(n) \/ ClearForStop(n)
                              \/ NoMonitorToStop(n) \/ ShutDown(n) \/ TakeStop(n)
       PROVE  ViewersInv' /\ MadeInv'
  BY <1>13, <1>0 DEF Begin, GetFrameFails, UsesNilMonitor, ClearForStop, NoMonitorToStop, ShutDown,
    TakeStop, WithoutMonitor
<1>20. ASSUME NEW h \in Handlers, Request(h) PROVE ViewersInv' /\ MadeInv'
  <2>1. PICK i \in WebCast : id' = [id EXCEPT ![h] = i]
    BY <1>20 DEF Request
  <2>2. i \in Viewed /\ pc' = [pc EXCEPT ![h] = "scan"] /\ UNCHANGED <<at, clients, monitor>>
    BY <1>20 DEF Request, Viewed
  <2>3. ViewersInv'
    BY <2>1, <2>2 DEF ViewersInv
  <2>4. MadeInv'
    BY <2>2 DEF MadeInv
  <2> QED BY <2>3, <2>4
<1>21. ASSUME NEW h \in Handlers, LockCaster(h) \/ MakeCaster(h) \/ NoMonitorForCaster(h) \/ Attach(h)
       PROVE  ViewersInv' /\ MadeInv'
  BY <1>21, <1>0 DEF LockCaster, MakeCaster, NoMonitorForCaster, Attach
<1>24. ASSUME NEW h \in Handlers, ReturnCaster(h) \/ Leave(h) PROVE ViewersInv' /\ MadeInv'
  <2>1. /\ UNCHANGED <<id, clients, monitor>> /\ pc[h] \notin {"idle", "left"}
        /\ at' = at \/ at' = [at EXCEPT ![h] = Nobody]
        /\ \E w \in {"left", "attach"} : pc' = [pc EXCEPT ![h] = w]
    BY <1>24 DEF ReturnCaster, Leave
  <2>2. ViewersInv'
    BY <2>1 DEF ViewersInv
  <2>3. /\ \A m \in Nodes : pc'[m] = pc[m]
        /\ \A g \in Handlers : at'[g] # Nobody => at'[g] = at[g]
    BY <2>1
  <2>4. Members(clients) \subseteq Nodes
    BY DEF Members
  <2>5. MadeInv'
    BY <2>1, <2>3, <2>4 DEF MadeInv
  <2> QED BY <2>2, <2>5
<1>27. ASSUME NEW n \in Nodes, AskStop(n) PROVE ViewersInv' /\ MadeInv'
  BY <1>27, <1>0 DEF AskStop
<1>28. ASSUME NEW n \in Nodes, StopClients(n) PROVE ViewersInv' /\ MadeInv'
  <2>1. /\ UNCHANGED <<id, clients, monitor>>
        /\ \A m \in Nodes : pc'[m] = pc[m]
        /\ \A h \in Handlers : \/ pc'[h] = "left" /\ at'[h] = Nobody
                               \/ pc'[h] = pc[h] /\ at'[h] = at[h]
    BY <1>28 DEF StopClients, Watchers
  <2>2. ViewersInv'
    BY <2>1 DEF ViewersInv
  <2>3. \A m \in Members(clients) : m \in Nodes
    BY DEF Members
  <2>4. \A m \in Members(clients') : pc'[m] # "none"
    BY <2>1, <2>3 DEF MadeInv
  <2>5. ASSUME NEW h \in Handlers, at'[h] # Nobody PROVE pc'[at'[h]] # "none"
    <3>1. at[h] = at'[h] /\ at[h] \in Nodes
      BY <2>1, <2>5
    <3> QED BY <2>1, <2>5, <3>1 DEF MadeInv
  <2>6. \A m \in Nodes : pc'[m] = "none" => monitor'[m] = "nil"
    BY <2>1 DEF MadeInv
  <2>7. MadeInv'
    BY <2>4, <2>5, <2>6 DEF MadeInv
  <2> QED BY <2>2, <2>7
<1>29. ASSUME NEW n \in Nodes, Detach(n) PROVE ViewersInv' /\ MadeInv'
  <2>1. PICK i \in DOMAIN clients :
          clients' = SubSeq(clients, 1, i - 1) \o SubSeq(clients, i + 1, Len(clients))
    BY <1>29 DEF Detach
  <2>2. Members(clients') \subseteq Members(clients)
    <3>1. clients \in Seq(Nodes)
      OBVIOUS
    <3> HIDE DEF TypeOK, Places
    <3> QED BY <2>1, <3>1, MembersWithoutPlace
  <2>3. UNCHANGED <<pc, id, at, monitor>>
    BY <1>29 DEF Detach
  <2>4. ViewersInv'
    BY <2>3 DEF ViewersInv
  <2>5. MadeInv'
    BY <2>2, <2>3 DEF MadeInv
  <2> QED BY <2>4, <2>5
<1>30. ASSUME Interrupt PROVE ViewersInv' /\ MadeInv'
  BY <1>30, <1>0 DEF Interrupt
<1>31. CASE UNCHANGED vars
  BY <1>31, <1>0 DEF vars
<1> QED BY <1>1, <1>5, <1>6, <1>7, <1>8, <1>13, <1>20, <1>21, <1>24, <1>27, <1>28, <1>29, <1>30, <1>31
  DEF Next, CameraTask, StreamTask, Handler, NodeStops

\* How many monitors of a node are connected while its task does not shut one down.
LEMMA OpenMonitors ==
  ASSUME NoMonitorIsForgotten, NEW n \in Nodes, pc[n] \notin {"failedClose", "shutClose"}
  PROVE  open[n] = IF monitor[n] = "open" THEN 1 ELSE 0
<1>1. CASE monitor[n] = "open"
  <2>1. open[n] = 1 + 0
    BY <1>1, Zenon DEF NoMonitorIsForgotten
  <2> QED BY <1>1, <2>1
<1>2. CASE monitor[n] # "open"
  <2>1. open[n] = 0 + 0
    BY <1>2, Zenon DEF NoMonitorIsForgotten
  <2> QED BY <1>2, <2>1
<1> QED BY <1>1, <1>2

\* The camera's task makes a stream that GetStream did not find, and a stream that
\* may connect a monitor is found; so it makes no second one.
LEMMA RecordedStep ==
  ASSUME MonitorInv, ViewersInv, MadeInv, RecordedInv, [Next]_vars
  PROVE  RecordedInv'
<1> USE DEF MonitorInv, TypeOK, Places, CameraPCs, HandlerPCs, NodePCs, AtStream, Casting, Making,
            Procs, Callers, getVars, monVars, castVars, endVars, Goto, CameraStopping
<1>0. ASSUME \A n \in Nodes : id'[n] = id[n],
             CameraStopping => CameraStopping',
             \A n \in Nodes : id[n] \notin Viewed /\ Active(n)' => Active(n),
             \A n \in Nodes : /\ id[n] \notin Viewed /\ Active(n)' /\ ~CameraStopping'
                              /\ n \in Members(clients) \ stopping
                              => n \in Members(clients') \ stopping',
             pc'[Camera] = "create" => pc[Camera] = "create" /\ todo' = todo,
             \A n \in Nodes : id[n] \notin Viewed /\ pc'[n] \in Over /\ monitor'[n] = "open"
                              => pc[n] \in Over /\ monitor[n] = "open"
      PROVE  RecordedInv'
  <2> HIDE DEF MonitorInv, TypeOK, Places, CameraStopping, Active
  <2>1. OneActive'
    BY <1>0 DEF RecordedInv, OneActive
  <2>2. ActiveIsFound'
    BY <1>0 DEF RecordedInv, ActiveIsFound
  <2>3. CameraMissedIt'
    BY <1>0 DEF RecordedInv, CameraMissedIt
  <2>4. MonitorIsOver'
    BY <1>0 DEF RecordedInv, MonitorIsOver
  <2> QED BY <2>1, <2>2, <2>3, <2>4 DEF RecordedInv
\* A step that leaves the nodes alone.
<1>1. ASSUME UNCHANGED <<clients, stopping, monitor, open, disabled, ctxDone>>,
             \A n \in Nodes : id'[n] = id[n] /\ pc'[n] = pc[n],
             pc'[Camera] = "create" => pc[Camera] = "create" /\ todo' = todo
      PROVE  RecordedInv'
  BY <1>0, <1>1 DEF Active
<1>2. ASSUME Check \/ Online \/ Offline \/ CameraEnds PROVE RecordedInv'
  BY <1>1, <1>2 DEF Check, Online, Offline, CameraEnds
<1>3. ASSUME NEW p \in Handlers \cup {Camera}, FindStream(p) PROVE RecordedInv'
  <2>1. /\ UNCHANGED <<id, clients, stopping, monitor, open, disabled, ctxDone>>
        /\ pc' = [pc EXCEPT ![p] = WithStream(p)] /\ (p # Camera => todo' = todo)
    BY <1>3 DEF FindStream, GotStream
  <2>2. p = Camera => pc'[Camera] # "create"
    BY <2>1 DEF WithStream
  <2> QED BY <1>1, <2>1, <2>2
<1>4. ASSUME MissStream(Camera) PROVE RecordedInv'
  <2>1. /\ UNCHANGED <<id, todo, clients, stopping, monitor, open, disabled, ctxDone>>
        /\ \A n \in Nodes : pc'[n] = pc[n] /\ Active(n)' = Active(n)
    BY <1>4 DEF MissStream, Active
  <2>2. ASSUME ~CameraStopping, Head(todo) \notin Viewed, NEW n \in Nodes, Active(n), id[n] = Head(todo)
        PROVE  FALSE
    <3>1. n \in Members(clients) \ stopping
      BY <2>2 DEF RecordedInv, ActiveIsFound
    <3>2. PICK i \in DOMAIN clients : clients[i] = n
      BY <3>1 DEF Members
    <3>3. i \in Existing(Camera)
      BY <2>2, <3>1, <3>2 DEF Existing, Wanted
    <3> QED BY <1>4, <3>3 DEF MissStream
  <2>3. OneActive' /\ ActiveIsFound'
    BY <2>1 DEF RecordedInv, OneActive, ActiveIsFound
  <2>4. CameraMissedIt'
    BY <2>1, <2>2 DEF CameraMissedIt
  <2>5. MonitorIsOver'
    BY <2>1 DEF RecordedInv, MonitorIsOver
  <2> QED BY <2>3, <2>4, <2>5 DEF RecordedInv
<1>5. ASSUME NEW h \in Handlers, MissStream(h) \/ Request(h) \/ LockCaster(h) \/ MakeCaster(h)
                                 \/ NoMonitorForCaster(h) \/ ReturnCaster(h) \/ Attach(h)
      PROVE  RecordedInv'
  BY <1>1, <1>5 DEF MissStream, Request, LockCaster, MakeCaster, NoMonitorForCaster, ReturnCaster, Attach
<1>6. ASSUME NEW p \in Handlers \cup {Camera}, CreateStream(p) PROVE RecordedInv'
  <2>1. PICK n \in New : /\ pc' = [pc EXCEPT ![p] = WithStream(p), ![n] = "lock"]
                         /\ id' = [id EXCEPT ![n] = Wanted(p)] /\ GotStream(p, n)
                         /\ clients' = Append(clients, n) /\ stopping' = stopping \ {n}
    BY <1>6 DEF CreateStream
  <2>2. n \in Nodes /\ pc[p] = "create" /\ UNCHANGED <<monitor, open, disabled, ctxDone>>
    BY <1>6 DEF CreateStream, New
  <2>3. ~Active(n) /\ open[n] = 0
    <3>1. pc[n] \in {"none", "ended"} /\ monitor[n] = "nil"
      BY <2>2 DEF New, MadeInv
    <3>2. open[n] = 0
      BY <2>2, <3>1, OpenMonitors
    <3> QED BY <3>1, <3>2 DEF Active
  <2>4. /\ pc'[n] = "lock" /\ id'[n] = Wanted(p)
        /\ \A m \in Nodes \ {n} : pc'[m] = pc[m] /\ id'[m] = id[m]
    BY <2>1, <2>2
  <2>5. \A m \in Nodes \ {n} : Active(m)' = Active(m)
    BY <2>2, <2>4 DEF Active
  <2>6. n \in Members(clients') \ stopping' /\ \A m \in Members(clients) \ stopping : m \in Members(clients') \ stopping'
    <3>1. clients \in Seq(Nodes)
      OBVIOUS
    <3>2. PICK r : r = clients'
      OBVIOUS
    <3>3. Members(r) = Members(clients) \cup {n}
      <4> HIDE DEF TypeOK, Places
      <4> QED BY <2>1, <2>2, <3>1, <3>2, MembersAppended
    <3> QED BY <2>1, <3>2, <3>3
  <2>7. MonitorIsOver'
    BY <2>2, <2>4 DEF RecordedInv, MonitorIsOver, Over
  <2>8. CASE p \in Handlers
    <3>1. id'[n] \in Viewed /\ pc'[Camera] = pc[Camera] /\ todo' = todo
      BY <2>1, <2>2, <2>4, <2>8 DEF ViewersInv, Wanted, GotStream
    <3> HIDE DEF MonitorInv, TypeOK, Places
    <3>2. OneActive'
      BY <2>4, <2>5, <3>1 DEF RecordedInv, OneActive
    <3>3. ActiveIsFound'
      BY <2>2, <2>4, <2>5, <2>6, <3>1 DEF RecordedInv, ActiveIsFound
    <3>4. CameraMissedIt'
      BY <2>2, <2>4, <2>5, <3>1 DEF RecordedInv, CameraMissedIt
    <3> QED BY <2>7, <3>2, <3>3, <3>4 DEF RecordedInv
  <2>9. CASE p = Camera
    <3>1. id'[n] = Head(todo) /\ pc'[Camera] # "create"
      BY <2>1, <2>2, <2>4, <2>9 DEF Wanted, WithStream
    <3>2. ~CameraStopping' /\ Head(todo) \notin Viewed => \A m \in Nodes \ {n} : Active(m)' => id'[m] # Head(todo)
      BY <2>2, <2>4, <2>5, <2>9 DEF RecordedInv, CameraMissedIt
    <3>3. Active(n)' => ~CameraStopping'
      BY <2>2, <2>3, <2>4 DEF Active
    <3> HIDE DEF MonitorInv, TypeOK, Places
    <3>4. OneActive'
      BY <2>4, <2>5, <3>1, <3>2, <3>3 DEF RecordedInv, OneActive
    <3>5. ActiveIsFound'
      BY <2>2, <2>4, <2>5, <2>6 DEF RecordedInv, ActiveIsFound
    <3>6. CameraMissedIt'
      BY <3>1 DEF CameraMissedIt
    <3> QED BY <2>7, <3>4, <3>5, <3>6 DEF RecordedInv
  <2> QED BY <2>8, <2>9
<1>7. ASSUME NEW p \in Callers, makeMonitor(p) PROVE RecordedInv'
  <2>1. /\ UNCHANGED <<id, todo, clients, stopping, ctxDone>> /\ p # Camera /\ (disabled => disabled')
        /\ \E w \in {"try", "fail", "clear", "retry", "begin", "cast"} : pc' = [pc EXCEPT ![p] = w]
    BY <1>7 DEF makeMonitor, LockMonitor, TrySucceeds, TryFails, ClearMonitor, Retry, Attempt,
         UnlockMonitor, WithMonitor
  <2>2. \A n \in Nodes : n # StreamOf(p) => monitor'[n] = monitor[n] /\ open'[n] = open[n]
    BY <1>7 DEF makeMonitor, LockMonitor, TrySucceeds, TryFails, ClearMonitor, Retry
  <2>3. CASE p \in Handlers
    <3>1. StreamOf(p) = at[p] /\ id[at[p]] \in Viewed
      <4>1. pc[p] \in Making \cup {"lock"}
        BY <1>7 DEF makeMonitor, LockMonitor, TrySucceeds, TryFails, ClearMonitor, Retry
      <4> QED BY <2>3, <4>1 DEF StreamOf, ViewersInv
    <3>2. \A n \in Nodes : pc'[n] = pc[n]
      BY <2>1, <2>3
    <3>3. \A n \in Nodes : id[n] \notin Viewed => monitor'[n] = monitor[n] /\ open'[n] = open[n]
      BY <2>2, <3>1
    <3> QED BY <1>0, <2>1, <3>2, <3>3 DEF Active
  <2>4. CASE p \in Nodes
    <3>1. StreamOf(p) = p /\ pc'[p] \notin Over /\ pc'[Camera] = pc[Camera]
          /\ \A n \in Nodes \ {p} : pc'[n] = pc[n]
      BY <2>1, <2>4 DEF StreamOf, Over
    <3>2. Active(p)' => Active(p)
      <4>1. CASE LockMonitor(p) \/ Retry(p)
        <5>1. /\ pc[p] \in {"lock", "retry"} /\ UNCHANGED <<open, disabled, ctxDone>>
              /\ pc'[p] = "try" => ~CameraStopping
              /\ pc'[p] = "fail" => CameraStopping
              /\ pc'[p] \in {"try", "fail", "begin"}
          BY <2>4, <4>1 DEF LockMonitor, Retry, Attempt, UnlockMonitor, WithMonitor
        <5> QED BY <5>1 DEF Active
      <4>2. CASE TrySucceeds(p)
        BY <4>2 DEF TrySucceeds, Active
      <4>3. CASE TryFails(p)
        BY <2>4, <4>3 DEF TryFails, Active
      <4>4. CASE ClearMonitor(p)
        BY <2>4, <4>4 DEF ClearMonitor, Active
      <4> QED BY <1>7, <4>1, <4>2, <4>3, <4>4 DEF makeMonitor
    <3>3. \A n \in Nodes \ {p} : Active(n)' => Active(n)
      BY <2>1, <2>2, <3>1 DEF Active
    <3> QED BY <1>0, <2>1, <2>2, <3>1, <3>2, <3>3
  <2> QED BY <2>3, <2>4
<1>8. ASSUME NEW n \in Nodes, Begin(n) \/ GetFrameFails(n) \/ UsesNilMonitor(n) \/ ClearForStop(n)
                              \/ NoMonitorToStop(n) \/ ShutDown(n) \/ TakeStop(n)
      PROVE  RecordedInv'
  <2>1. /\ UNCHANGED <<id, todo, clients, stopping, disabled, ctxDone>>
        /\ \E w \in NodePCs \ {"lock", "try", "fail", "clear", "retry"} : pc' = [pc EXCEPT ![n] = w]
    BY <1>8 DEF Begin, GetFrameFails, UsesNilMonitor, ClearForStop, NoMonitorToStop, ShutDown,
         TakeStop, WithoutMonitor
  <2>2. \A m \in Nodes : open'[m] > 0 => open[m] > 0
    <3>1. open' = open \/ open' = [open EXCEPT ![n] = @ - 1]
      BY <1>8 DEF Begin, GetFrameFails, UsesNilMonitor, ClearForStop, NoMonitorToStop, ShutDown, TakeStop
    <3>2. open \in [Nodes -> Nat]
      OBVIOUS
    <3>3. ASSUME NEW m \in Nodes, open' = [open EXCEPT ![n] = @ - 1], open'[m] > 0 PROVE open[m] > 0
      <4> HIDE DEF MonitorInv, TypeOK, Places
      <4>1. CASE m = n
        BY <3>2, <3>3, <4>1
      <4>2. CASE m # n
        BY <3>2, <3>3, <4>2
      <4> QED BY <4>1, <4>2
    <3> QED BY <3>1, <3>3
  <2>3. \A m \in Nodes : pc'[m] \in Over /\ monitor'[m] = "open" => pc[m] \in Over /\ monitor[m] = "open"
    BY <1>8 DEF Begin, GetFrameFails, UsesNilMonitor, ClearForStop, NoMonitorToStop, ShutDown,
         TakeStop, WithoutMonitor, Over
  <2>4. \A m \in Nodes : Active(m)' => Active(m)
    BY <2>1, <2>2 DEF Active
  <2> QED BY <1>0, <2>1, <2>3, <2>4
<1>9. ASSUME NEW h \in Handlers, Leave(h) PROVE RecordedInv'
  <2>1. at[h] \in Nodes /\ id[at[h]] \in Viewed
    BY <1>9 DEF Leave, ViewersInv
  <2>2. /\ UNCHANGED <<id, todo, clients, monitor, open, disabled, ctxDone>>
        /\ pc' = [pc EXCEPT ![h] = "left"] /\ stopping' \subseteq stopping \cup {at[h]}
    BY <1>9 DEF Leave
  <2> QED BY <1>0, <2>1, <2>2 DEF Active
<1>10. ASSUME NEW n \in Nodes, AskStop(n) PROVE RecordedInv'
  <2>1. /\ UNCHANGED <<pc, id, todo, clients, monitor, open, disabled, ctxDone>>
        /\ stopping' = stopping \cup {n}
    BY <1>10 DEF AskStop
  <2>2. id[n] \notin Viewed /\ ~CameraStopping => ~Active(n)
    <3>1. pc[n] = "awaitStop" \/ CameraStopping
      BY <1>10 DEF AskStop
    <3>2. pc[n] = "awaitStop" /\ id[n] \notin Viewed => open[n] = 0
      <4>1. pc[n] = "awaitStop" /\ id[n] \notin Viewed => monitor[n] # "open"
        BY DEF RecordedInv, MonitorIsOver, Over
      <4> QED BY <4>1, OpenMonitors
    <3> QED BY <3>1, <3>2 DEF Active
  <2>3. \A m \in Nodes : Active(m)' = Active(m)
    BY <2>1 DEF Active
  <2> QED BY <1>0, <2>1, <2>2, <2>3
<1>11. ASSUME NEW n \in Nodes, StopClients(n) PROVE RecordedInv'
  <2>1. /\ UNCHANGED <<id, todo, clients, stopping, monitor, open, disabled, ctxDone>>
        /\ pc'[Camera] = pc[Camera] /\ \A m \in Nodes : pc'[m] = pc[m]
    BY <1>11 DEF StopClients, Watchers
  <2> QED BY <1>1, <2>1
<1>12. ASSUME NEW n \in Nodes, Detach(n) PROVE RecordedInv'
  <2>1. PICK i \in DOMAIN clients :
          /\ clients[i] = n
          /\ clients' = SubSeq(clients, 1, i - 1) \o SubSeq(clients, i + 1, Len(clients))
    BY <1>12 DEF Detach
  <2>2. Members(clients) \subseteq Members(clients') \cup {n}
    <3>1. clients \in Seq(Nodes)
      OBVIOUS
    <3>2. PICK r : r = clients'
      OBVIOUS
    <3>3. Members(clients) \subseteq Members(r) \cup {clients[i]}
      <4> HIDE DEF TypeOK, Places
      <4>1. r = SubSeq(clients, 1, i - 1) \o SubSeq(clients, i + 1, Len(clients))
        BY <2>1, <3>2
      <4> QED BY <3>1, <4>1, MembersWithoutPlace
    <3> QED BY <2>1, <3>2, <3>3
  <2>3. n \in stopping /\ UNCHANGED <<pc, id, todo, stopping, monitor, open, disabled, ctxDone>>
    BY <1>12 DEF Detach
  <2>4. \A m \in Nodes : Active(m)' = Active(m)
    BY <2>3 DEF Active
  <2>5. \A m \in Members(clients) \ stopping : m \in Members(clients') \ stopping'
    BY <2>2, <2>3
  <2> QED BY <1>0, <2>3, <2>4, <2>5
<1>13. ASSUME Interrupt PROVE RecordedInv'
  BY <1>0, <1>13 DEF Interrupt, Active
<1>14. CASE UNCHANGED vars
  BY <1>1, <1>14 DEF vars
<1> QED BY <1>2, <1>3, <1>4, <1>5, <1>6, <1>7, <1>8, <1>9, <1>10, <1>11, <1>12, <1>13, <1>14
  DEF Next, CameraTask, StreamTask, Handler, NodeStops

\* Of a stream that no viewer makes, at most one node has a monitor, and one monitor:
\* the camera's task never makes a second node while the first may still connect.
LEMMA RecordedStreams ==
  Spec => [](\A i \in IDs \ Viewed :
               Cardinality(MonitorsOf(i)) <= 1 /\ \A n \in MonitorsOf(i) : open[n] = 1)
<1> DEFINE One == \A i \in IDs \ Viewed :
                    Cardinality(MonitorsOf(i)) <= 1 /\ \A n \in MonitorsOf(i) : open[n] = 1
<1>1. Init => ViewersInv /\ MadeInv /\ RecordedInv
  <2> SUFFICES ASSUME Init PROVE ViewersInv /\ MadeInv /\ RecordedInv
    OBVIOUS
  <2>1. ViewersInv
    BY DEF Init, ViewersInv, Procs
  <2>2. MadeInv
    BY DEF Init, MadeInv, Procs, Members
  <2>3. \A n \in Nodes : ~Active(n) /\ pc[n] = "none"
    BY DEF Init, Active, Procs
  <2>4. pc[Camera] # "create"
    BY DEF Init, Procs
  <2>5. RecordedInv
    BY <2>3, <2>4 DEF RecordedInv, OneActive, ActiveIsFound, CameraMissedIt, MonitorIsOver, Over
  <2> QED BY <2>1, <2>2, <2>5
<1>2. MonitorInv /\ ViewersInv /\ MadeInv /\ RecordedInv /\ [Next]_vars
        => (ViewersInv /\ MadeInv /\ RecordedInv)'
  BY ViewersStep, RecordedStep DEF MonitorInv
<1>3. MonitorInv /\ RecordedInv => One
  <2> SUFFICES ASSUME MonitorInv, RecordedInv, NEW i \in IDs \ Viewed
               PROVE  Cardinality(MonitorsOf(i)) <= 1 /\ \A n \in MonitorsOf(i) : open[n] = 1
    OBVIOUS
  <2>1. \A n \in MonitorsOf(i) : n \in Nodes /\ Active(n) /\ id[n] = i
    BY DEF MonitorsOf, Active
  <2>2. \A n, m \in MonitorsOf(i) : n = m
    BY <2>1 DEF RecordedInv, OneActive
  <2>3. Cardinality(MonitorsOf(i)) <= 1
    <3>1. CASE MonitorsOf(i) = {}
      BY <3>1, FS_EmptySet
    <3>2. CASE MonitorsOf(i) # {}
      <4>1. PICK n \in MonitorsOf(i) : TRUE
        BY <3>2
      <4>2. MonitorsOf(i) \subseteq {n}
        BY <2>2
      <4>3. MonitorsOf(i) = {n}
        BY <4>1, <4>2
      <4>4. Cardinality({n}) = 1
        BY FS_Singleton
      <4> QED BY <4>3, <4>4
    <3> QED BY <3>1, <3>2
  <2>4. ASSUME NEW n \in MonitorsOf(i) PROVE open[n] = 1
    <3>1. pc[n] \in Over => monitor[n] # "open"
      BY <2>1 DEF RecordedInv, MonitorIsOver
    <3> QED BY <2>1, <3>1 DEF MonitorInv, NoMonitorIsForgotten, MonitorsOf, Over, TypeOK
  <2> QED BY <2>3, <2>4
<1> QED BY MonitorInvariant, <1>1, <1>2, <1>3, PTL DEF Spec

\* "At any time, there will be no more than 1 DVRIP (or RTSP) monitor (per stream)"
\* (stream.go): so it is where streams are made by the camera's task alone, because
\* nothing is webcast or nobody asks.
THEOREM StreamsHaveOneMonitor ==
  ASSUME Handlers = {} \/ WebCast = {} PROVE Spec => []OneMonitorPerStream
<1>1. Viewed = {}
  BY DEF Viewed
<1>2. (\A i \in IDs \ Viewed : Cardinality(MonitorsOf(i)) <= 1 /\ \A n \in MonitorsOf(i) : open[n] = 1)
        => OneMonitorPerStream
  BY <1>1 DEF OneMonitorPerStream
<1> QED BY RecordedStreams, <1>2, PTL

----------------------------------------------------------------------------
\* What is left of a list with one element.
LEMMA OneElement ==
  ASSUME NEW S, NEW s \in Seq(S), Len(s) = 1 PROVE s # <<>> /\ Tail(s) = <<>>
<1>1. s # <<>>
  OBVIOUS
<1>2. Tail(s) \in Seq(S) /\ Len(Tail(s)) = Len(s) - 1
  BY <1>1, HeadTailProperties
<1>3. Len(Tail(s)) = 0
  BY <1>2
<1> QED BY <1>1, <1>2, <1>3, EmptySeq

\* NotSaving with one stream to save is a walk over the clients: it leaves nothing as
\* soon as one of them is for that stream (by induction over the clients).
LEMMA WhatIsLeft ==
  ASSUME clients \in Seq(Nodes), id \in [Handlers \cup Nodes -> IDs], Len(Save) = 1, NEW i \in IDs, i = Save[1]
  PROVE  NotSaving = <<>> \/ \A n \in Members(clients) : id[n] # i
<1> DEFINE Is(f) == f = [k \in 0 .. Len(clients) |->
                          IF k = 0 THEN Save ELSE Strike(f[k - 1], id[clients[k]])]
           rest == CHOOSE f : Is(f)
<1>1. Len(clients) \in Nat /\ \A k \in 1 .. Len(clients) : clients[k] \in Nodes /\ id[clients[k]] \in IDs
  OBVIOUS
<1>2. \A s \in {Save, <<>>}, j \in IDs : Strike(s, j) = IF s = Save /\ i = j THEN <<>> ELSE s
  <2>1. Save # <<>> /\ Save[1] = i /\ Tail(Save) = <<>>
    BY OneElement, CameraStreamsAssumption
  <2> QED BY <2>1 DEF Strike
<1>3. \E f : Is(f)
  <2>1. PICK N \in Nat : N = Len(clients)
    BY <1>1
  <2>2. PICK S : S = {Save, <<>>}
    OBVIOUS
  <2>3. PICK step : step = [k \in 1 .. N |-> [s \in S |-> Strike(s, id[clients[k]])]]
    OBVIOUS
  <2>4. step \in [1 .. N -> [S -> S]]
    <3>1. ASSUME NEW k \in 1 .. N, NEW s \in S PROVE Strike(s, id[clients[k]]) \in S
      BY <1>1, <1>2, <2>1, <2>2
    <3> QED BY <2>3, <3>1
  <2>5. PICK f \in [0 .. N -> S] : f[0] = Save /\ \A k \in 1 .. N : f[k] = step[k][f[k - 1]]
    <3>1. Save \in S
      BY <2>2
    <3>2. Recursion(N, S, Save, step)
      BY <2>4, <3>1, FunctionFromZero
    <3> QED BY <3>2 DEF Recursion
  <2>6. ASSUME NEW k \in 1 .. N PROVE f[k] = Strike(f[k - 1], id[clients[k]])
    <3>1. f[k - 1] \in S
      BY <2>1
    <3> QED BY <2>3, <2>5, <3>1
  <2>7. \A k \in 0 .. N : f[k] = IF k = 0 THEN Save ELSE Strike(f[k - 1], id[clients[k]])
    BY <2>5, <2>6
  <2> QED BY <2>1, <2>5, <2>7
<1>4. Is(rest)
  BY <1>3
<1>5. NotSaving = rest[Len(clients)]
  BY DEF NotSaving
<1> HIDE DEF rest
<1>6. rest[0] = Save /\ \A k \in 1 .. Len(clients) : rest[k] = Strike(rest[k - 1], id[clients[k]])
  BY <1>1, <1>4
<1> DEFINE T == {n \in Nat : n <= Len(clients) =>
                   rest[n] = <<>> \/ (rest[n] = Save /\ \A k \in 1 .. n : id[clients[k]] # i)}
<1>7. 0 \in T
  BY <1>6
<1>8. ASSUME NEW n \in Nat, n \in T PROVE n + 1 \in T
  <2> SUFFICES ASSUME n + 1 <= Len(clients)
               PROVE  \/ rest[n + 1] = <<>>
                      \/ rest[n + 1] = Save /\ \A k \in 1 .. n + 1 : id[clients[k]] # i
    OBVIOUS
  <2>1. rest[n + 1] = Strike(rest[n], id[clients[n + 1]])
    BY <1>1, <1>6
  <2>2. rest[n] = <<>> \/ (rest[n] = Save /\ \A k \in 1 .. n : id[clients[k]] # i)
    BY <1>1, <1>8
  <2>3. id[clients[n + 1]] \in IDs
    BY <1>1
  <2> QED BY <1>2, <2>1, <2>2, <2>3
<1> HIDE DEF T
<1>9. Len(clients) \in T
  BY <1>1, <1>7, <1>8, NumbersFromZero
<1> QED BY <1>1, <1>5, <1>9 DEF T, Members

\* "Nothing needs to be done. Stand by." (camera.go): the task of a camera with one
\* stream to save dials only when no client is for that stream.
THEOREM CameraThatSavesStandsBy == Spec => CameraStandsBy
<1>1. MonitorInv /\ Check /\ Len(Save) = 1 => \E i \in Saved : \A n \in Members(clients) : id[n] # i
  <2> SUFFICES ASSUME MonitorInv, Check, Len(Save) = 1
               PROVE  \E i \in Saved : \A n \in Members(clients) : id[n] # i
    OBVIOUS
  <2>1. PICK i \in IDs : i = Save[1]
    OBVIOUS
  <2>2. i \in Saved
    BY <2>1 DEF Saved, Members
  <2>3. NotSaving # <<>>
    BY DEF Check, isSavingAllThatItShould
  <2>4. clients \in Seq(Nodes) /\ id \in [Handlers \cup Nodes -> IDs]
    BY DEF MonitorInv, TypeOK
  <2> QED BY <2>1, <2>2, <2>3, <2>4, WhatIsLeft
<1>2. MonitorInv /\ [Next]_vars
        => [Check /\ Len(Save) = 1 => \E i \in Saved : \A n \in Members(clients) : id[n] # i]_vars
  BY <1>1
<1> QED BY MonitorInvariant, <1>2, PTL DEF Spec, CameraStandsBy
=============================================================================
