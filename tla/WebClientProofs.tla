-------------------------- MODULE WebClientProofs --------------------------
(***************************************************************************)
(* Proofs about WebClient: the write mutex protects c.ws.  The invariant   *)
(* says where a goroutine must be to hold the mutex and which program      *)
(* points need it; the clearing of c.ws needs the mutex as well, so no     *)
(* writer is then between the nil check of writeToWS and the write.        *)
(***************************************************************************)
EXTENDS WebClient, TLAPS

\* The program points at which a goroutine may hold the mutex.
Holding == {"write", "send", "callStop", "stop"}

\* The receiver does not run before the task has set c.ws, and only the handler
\* and the receiver write.
PlacesOK ==
  /\ pc \in [Procs -> PCs]
  /\ pc["task"] = "begin" => pc["receiver"] = "idle"
  /\ \A p \in Procs \ Writers : pc[p] \notin {"write", "send"}
  /\ pc["handler"] \notin {"seeWs", "lockClose", "callStop", "stop"}

MutexInv == PlacesOK /\ MutexIsHeldByItsUser /\ SenderHasConnection

\* The names of the goroutines differ.
LEMMA ProcNames ==
  /\ "handler" \in Procs /\ "task" \in Procs /\ "receiver" \in Procs /\ "parent" \in Procs
  /\ Writers \subseteq Procs /\ Stoppers \subseteq Procs /\ Nobody \notin Procs
  /\ \A s \in Stoppers : s \notin Writers /\ s # "task" /\ s # "parent"
  BY WebClientAssumption DEF Procs, Writers

LEMMA MutexInit == Init => MutexInv
<1> SUFFICES ASSUME Init PROVE MutexInv
  OBVIOUS
<1>1. \A p \in Procs : pc[p] \in {"begin", "idle"} /\ mutex # p
  BY ProcNames DEF Init
<1>2. pc \in [Procs -> PCs] /\ pc["task"] = "begin" /\ pc["receiver"] = "idle"
  BY ProcNames DEF Init, PCs
<1> QED BY <1>1, <1>2, ProcNames DEF MutexInv, PlacesOK, MutexIsHeldByItsUser, SenderHasConnection, Writers

LEMMA MutexStep == MutexInv /\ [Next]_vars => MutexInv'
<1> SUFFICES ASSUME MutexInv, [Next]_vars PROVE MutexInv'
  OBVIOUS
<1> USE ProcNames DEF MutexInv, PlacesOK, MutexIsHeldByItsUser, SenderHasConnection, Writers, Goto, PCs
<1>1. CASE TakeChunk
  BY <1>1 DEF TakeChunk
<1>2. CASE Route
  BY <1>2 DEF Route
<1>3. CASE LockForInit
  BY <1>3 DEF LockForInit
<1>4. CASE CheckStarted
  BY <1>4 DEF CheckStarted
<1>5. CASE LockForFragment
  BY <1>5 DEF LockForFragment
<1>6. ASSUME NEW w \in Writers, WriteStep(w) PROVE MutexInv'
  <2>1. AfterWrite(w) \in {"seeWs", "receive", "check", "idle"}
        /\ (w = "handler" => AfterWrite(w) \in {"check", "idle"})
    BY DEF AfterWrite
  <2>2. CASE WriteFindsNoWs(w)
    BY <2>1, <2>2 DEF WriteFindsNoWs
  <2>3. CASE WriteFindsWs(w)
    BY <2>3 DEF WriteFindsWs
  <2>4. CASE SendSucceeds(w)
    BY <2>1, <2>4 DEF SendSucceeds
  <2>5. CASE SendFails(w)
    <3>1. CASE \E s \in Stoppers :
                 pc[s] = "idle" /\ pc' = [pc EXCEPT ![w] = AfterWrite(w), ![s] = "seeWs"]
      BY <2>1, <2>5, <3>1 DEF SendFails
    <3>2. CASE Goto(w, AfterWrite(w))
      BY <2>1, <2>5, <3>2 DEF SendFails
    <3> QED BY <2>5, <3>1, <3>2 DEF SendFails
  <2> QED BY <1>6, <2>2, <2>3, <2>4, <2>5 DEF WriteStep
<1>7. CASE ReceiveReset
  BY <1>7 DEF ReceiveReset
<1>8. CASE ReceiveError
  BY <1>8 DEF ReceiveError
<1>9. CASE LockForReset
  BY <1>9 DEF LockForReset
<1>10. CASE Begin
  BY <1>10 DEF Begin
<1>11. CASE Ready
  BY <1>11 DEF Ready
<1>12. CASE SelectCtxDone
  BY <1>12 DEF SelectCtxDone
<1>13. CASE CloseConn
  BY <1>13 DEF CloseConn
<1>14. ASSUME NEW p \in Procs \ {"handler"}, StopStep(p) PROVE MutexInv'
  <2>1. Finished(p) \in {"idle", "done"}
    BY DEF Finished
  <2>2. CASE SeeWs(p)
    BY <2>2 DEF SeeWs
  <2>3. CASE LockAndClose(p)
    BY <2>3 DEF LockAndClose
  <2>4. CASE StopAlreadyCalled(p)
    BY <2>1, <2>4 DEF StopAlreadyCalled, Unlock
  <2>5. CASE CallStop(p)
    BY <2>5 DEF CallStop
  <2>6. CASE StopTaken(p)
    <3>1. p # "task" /\ mutex # "task"
      BY <2>6 DEF StopTaken
    <3> QED BY <2>1, <2>6, <3>1 DEF StopTaken, Unlock
  <2> QED BY <1>14, <2>2, <2>3, <2>4, <2>5, <2>6 DEF StopStep
<1>15. CASE BrowserLeaves
  BY <1>15 DEF BrowserLeaves
<1>16. CASE ContextEnds
  BY <1>16 DEF ContextEnds
<1>17. CASE ParentStops
  BY <1>17 DEF ParentStops
<1>18. CASE UNCHANGED vars
  BY <1>18 DEF vars, nodeVars
<1> QED
  BY <1>1, <1>2, <1>3, <1>4, <1>5, <1>6, <1>7, <1>8, <1>9, <1>10, <1>11, <1>12, <1>13, <1>14,
     <1>15, <1>16, <1>17, <1>18 DEF Next, Handler, Receiver, Task

\* Whoever is inside writeToWS holds the mutex, only goroutines inside writeToWS
\* or stopAndClose hold it (webcast/client.go lines 90 and 147), and the connection
\* that writeToWS found set is set when it is written to, whatever goroutines close
\* it meanwhile.
THEOREM MutexProtects == Spec => []MutexProtectsConnection
<1>1. MutexInv => MutexProtectsConnection
  BY DEF MutexInv, MutexProtectsConnection
<1> QED BY <1>1, MutexInit, MutexStep, PTL DEF Spec

\* wsHandler's deferred stopAndClose finds c.ws cleared or clears it, and nothing
\* sets it again.
ClosedInv == pc["task"] \in {"callStop", "stop", "done"} => ~ws

LEMMA ClosedStep == MutexInv /\ ClosedInv /\ [Next]_vars => ClosedInv'
<1> SUFFICES ASSUME MutexInv, ClosedInv, [Next]_vars PROVE ClosedInv'
  OBVIOUS
<1> USE ProcNames DEF ClosedInv, Goto
<1>0. pc \in [Procs -> PCs]
  BY DEF MutexInv, PlacesOK
<1>1. CASE Handler \/ Receiver \/ TakeChunk \/ ReceiveReset
  <2>1. ws' = ws /\ pc'["task"] = pc["task"]
    BY <1>0, <1>1 DEF Handler, Receiver, WriteStep, TakeChunk, ReceiveReset, Route, LockForInit,
         CheckStarted, LockForFragment, ReceiveError, LockForReset, WriteFindsNoWs, WriteFindsWs,
         SendSucceeds, SendFails, Writers
  <2> QED BY <2>1
<1>2. CASE Task
  BY <1>0, <1>2 DEF Task, Begin, Ready, SelectCtxDone
<1>3. ASSUME NEW p \in Procs \ {"handler"}, StopStep(p) PROVE ClosedInv'
  BY <1>0, <1>3 DEF StopStep, SeeWs, LockAndClose, StopAlreadyCalled, CallStop, StopTaken, Finished
<1>4. CASE CloseConn \/ BrowserLeaves \/ ContextEnds \/ ParentStops \/ UNCHANGED vars
  BY <1>0, <1>4 DEF CloseConn, BrowserLeaves, ContextEnds, ParentStops, vars, nodeVars
<1> QED BY <1>1, <1>2, <1>3, <1>4 DEF Next

\* Once the task has returned no goroutine writes to the browser: a writer past
\* the nil check would have c.ws set.
THEOREM NothingIsSentAfterTheEnd == Spec => EndedClientIsSilent
<1>1. Init => ClosedInv
  BY DEF Init, ClosedInv, Procs
<1>2. MutexInv /\ ClosedInv /\ [Next]_vars => [pc["task"] = "done" => wire' = wire]_vars
  <2> SUFFICES ASSUME MutexInv, ClosedInv, Next, pc["task"] = "done" PROVE wire' = wire
    BY DEF vars
  <2>1. \A w \in Writers : ~SendSucceeds(w)
    BY DEF ClosedInv, MutexInv, SenderHasConnection, SendSucceeds
  <2> QED
    BY <2>1 DEF Next, Handler, Receiver, Task, StopStep, WriteStep, TakeChunk, ReceiveReset, Route,
         LockForInit, CheckStarted, LockForFragment, ReceiveError, LockForReset, WriteFindsNoWs,
         WriteFindsWs, SendFails, Begin, Ready, SelectCtxDone, SeeWs, LockAndClose,
         StopAlreadyCalled, CallStop, StopTaken, CloseConn, BrowserLeaves, ContextEnds,
         ParentStops, nodeVars, Writers
<1> QED
  BY <1>1, <1>2, MutexInit, MutexStep, ClosedStep, PTL DEF Spec, EndedClientIsSilent

----------------------------------------------------------------------------
(* What the browser is sent *)

Messages == [kind : {"init", "frag", "cut"}, gen : Nat, index : Nat]

\* What a muxer sends last when it has got to m.
Payload(m) == IF m.index = 0 THEN InitPayload(m.gen) ELSE Fragment(m)

\* m's last payload is the last thing the browser was sent, cut-off bytes aside.
Latest(m) ==
  \E j \in 1 .. Len(wire) :
    wire[j] = Payload(m) /\ \A k \in j + 1 .. Len(wire) : wire[k].kind = "cut"

\* The handler is inside writeToWS with a message of this kind.
Writing(kind) == pc["handler"] \in {"write", "send"} /\ msg["handler"].kind = kind

HandlerPlaces == {"idle", "awaitReady", "route", "lockInit", "check", "lockFrag", "write", "send"}

\* The handler writes what its muxer has got to, and a client is not started while
\* the receiver writes the cut-off bytes of a reset.
HandInv ==
  /\ wire \in Seq(Messages) /\ muxer \in [gen : Nat, index : Nat]
  /\ started \in BOOLEAN /\ wsReady \in BOOLEAN /\ failures \in Nat
  /\ msg \in [Writers -> Messages] /\ msg["receiver"] = Cut
  /\ pc["handler"] \in HandlerPlaces
  /\ pc["handler"] \in {"write", "send"} => msg["handler"] = Payload(muxer)
  /\ pc["handler"] = "lockInit" => muxer.index = 0
  /\ started \/ pc["handler"] \in {"lockInit", "lockFrag", "write", "send"} => muxer.gen > 0
  /\ wsReady \/ pc["handler"] \notin {"idle", "awaitReady"} => pc["task"] # "begin"
  /\ pc["receiver"] \in {"write", "send"} => ~started

\* Something may still be sent: once this is false it stays so.
Live == conn = "open" /\ (ws \/ pc["task"] = "begin")

\* The browser has what the muxer has got to, unless it is about to be sent.
SendInv ==
  /\ pc["handler"] \notin {"lockInit", "write", "send"} /\ muxer.gen > 0 => Latest(muxer)
  /\ Writing("frag") => Latest([muxer EXCEPT !.index = @ - 1])

\* While no init payload follows a cut-off byte the client is not started, but for
\* the init payload in the handler's hands, and a fragment that slipped through is
\* not followed by another.
StaleInv ==
  \A i \in 1 .. Len(wire) :
    wire[i].kind = "cut" /\ (\A n \in i + 1 .. Len(wire) : wire[n].kind # "init") =>
      /\ started => Writing("init")
      /\ \A j \in i + 1 .. Len(wire) :
           wire[j].kind = "frag" => pc["handler"] # "lockFrag" /\ ~Writing("frag")

WireInv ==
  failures = 0 => FragmentsFollowTheirInit /\ (Live => SendInv /\ StaleInv)

\* What is sent goes to the end of what the browser got.
LEMMA AppendedMessage ==
  ASSUME NEW w \in Seq(Messages), NEW m \in Messages, NEW v, v = Append(w, m)
  PROVE  /\ v \in Seq(Messages) /\ Len(w) \in Nat /\ Len(v) = Len(w) + 1
         /\ DOMAIN v = 1 .. Len(w) + 1 /\ DOMAIN w = 1 .. Len(w)
         /\ v[Len(w) + 1] = m
         /\ \A i \in 1 .. Len(w) : v[i] = w[i]
  OBVIOUS

LEMMA MessageTypes ==
  /\ Cut \in Messages /\ Cut.kind = "cut"
  /\ \A m \in [gen : Nat, index : Nat] :
       /\ Payload(m) \in Messages /\ Payload(m).gen = m.gen /\ Payload(m).index = m.index
       /\ Payload(m).kind = IF m.index = 0 THEN "init" ELSE "frag"
  BY DEF Cut, Messages, Payload, InitPayload, Fragment

LEMMA HandInit == Init => HandInv
<1> SUFFICES ASSUME Init PROVE HandInv
  OBVIOUS
<1>1. pc["handler"] = "idle" /\ pc["receiver"] = "idle"
  BY ProcNames DEF Init
<1>2. msg \in [Writers -> Messages] /\ msg["receiver"] = Cut
  BY MessageTypes DEF Init, Writers
<1>3. muxer \in [gen : Nat, index : Nat]
  BY DEF Init
<1>4. wire = <<>> /\ <<>> \in Seq(Messages)
  <2>1. <<>> \in Seq(Messages)
    OBVIOUS
  <2> QED BY <2>1 DEF Init
<1> QED BY <1>1, <1>2, <1>3, <1>4 DEF Init, HandInv, HandlerPlaces

LEMMA HandStep == MutexInv /\ HandInv /\ [Next]_vars => HandInv'
<1> SUFFICES ASSUME MutexInv, HandInv, [Next]_vars PROVE HandInv'
  OBVIOUS
<1> USE ProcNames, MessageTypes DEF HandInv, HandlerPlaces, Writers, Goto, nodeVars
<1>0. pc \in [Procs -> PCs] /\ "handler" \in Writers /\ "receiver" \in Writers
  BY DEF MutexInv, PlacesOK
<1>1. CASE TakeChunk
  BY <1>0, <1>1 DEF TakeChunk
<1>2. CASE Route
  BY <1>0, <1>2 DEF Route
<1>3. CASE LockForInit
  <2>1. pc["receiver"] \notin {"write", "send"}
    BY <1>3 DEF LockForInit, MutexInv, MutexIsHeldByItsUser
  <2>2. InitPayload(muxer.gen) = Payload(muxer)
    BY <1>3 DEF LockForInit, Payload
  <2> QED BY <1>0, <1>3, <2>1, <2>2 DEF LockForInit
<1>4. CASE CheckStarted
  BY <1>0, <1>4 DEF CheckStarted
<1>5. CASE LockForFragment
  <2>1. muxer' \in [gen : Nat, index : Nat] /\ muxer'.gen = muxer.gen /\ muxer'.index # 0
    BY <1>5 DEF LockForFragment
  <2>2. Fragment(muxer') = Payload(muxer')
    BY <2>1 DEF Payload
  <2> HIDE DEF Payload
  <2> QED BY <1>0, <1>5, <2>1, <2>2 DEF LockForFragment
<1>6. ASSUME NEW w \in Writers, WriteStep(w) PROVE HandInv'
  <2>1. AfterWrite(w) \in {"seeWs", "receive", "check", "idle"}
        /\ (w = "handler" => AfterWrite(w) \in {"check", "idle"})
    BY DEF AfterWrite
  <2>2. CASE WriteFindsNoWs(w)
    BY <1>0, <2>1, <2>2 DEF WriteFindsNoWs
  <2>3. CASE WriteFindsWs(w)
    BY <1>0, <2>3 DEF WriteFindsWs
  <2>4. CASE SendSucceeds(w)
    <3>1. wire' \in Seq(Messages)
      BY <1>0, <2>4, AppendedMessage DEF SendSucceeds
    <3> QED BY <1>0, <2>1, <2>4, <3>1 DEF SendSucceeds
  <2>5. CASE SendFails(w)
    <3>1. failures' \in Nat
      BY <2>5 DEF SendFails
    <3>2. CASE \E s \in Stoppers :
                 pc[s] = "idle" /\ pc' = [pc EXCEPT ![w] = AfterWrite(w), ![s] = "seeWs"]
      BY <1>0, <2>1, <2>5, <3>1, <3>2 DEF SendFails
    <3>3. CASE Goto(w, AfterWrite(w))
      BY <1>0, <2>1, <2>5, <3>1, <3>3 DEF SendFails
    <3> QED BY <2>5, <3>2, <3>3 DEF SendFails
  <2> QED BY <1>6, <2>2, <2>3, <2>4, <2>5 DEF WriteStep
<1>7. CASE ReceiveReset
  BY <1>0, <1>7 DEF ReceiveReset
<1>8. CASE ReceiveError
  BY <1>0, <1>8 DEF ReceiveError
<1>9. CASE LockForReset
  BY <1>0, <1>9 DEF LockForReset
<1>10. CASE Task
  <2>1. CASE Begin
    BY <1>0, <2>1 DEF Begin
  <2>2. CASE Ready
    BY <1>0, <2>2 DEF Ready
  <2>3. CASE SelectCtxDone
    BY <1>0, <2>3 DEF SelectCtxDone
  <2> QED BY <1>10, <2>1, <2>2, <2>3 DEF Task
<1>11. ASSUME NEW p \in Procs \ {"handler"}, StopStep(p) PROVE HandInv'
  <2>1. Finished(p) \in {"idle", "done"}
    BY DEF Finished
  <2>2. UNCHANGED <<wire, muxer, started, wsReady, failures, msg>>
    BY <1>11 DEF StopStep, SeeWs, LockAndClose, StopAlreadyCalled, CallStop, StopTaken
  <2>3. /\ pc'["handler"] = pc["handler"]
        /\ pc'["task"] = "begin" => pc["task"] = "begin"
        /\ pc'["receiver"] \in {"write", "send"} => pc["receiver"] \in {"write", "send"}
    BY <1>0, <1>11, <2>1 DEF StopStep, SeeWs, LockAndClose, StopAlreadyCalled, CallStop, StopTaken
  <2> QED BY <2>2, <2>3
<1>12. CASE CloseConn \/ BrowserLeaves \/ ContextEnds \/ ParentStops \/ UNCHANGED vars
  BY <1>0, <1>12 DEF CloseConn, BrowserLeaves, ContextEnds, ParentStops, vars, nodeVars
<1> QED
  BY <1>1, <1>2, <1>3, <1>4, <1>5, <1>6, <1>7, <1>8, <1>9, <1>10, <1>11, <1>12
  DEF Next, Handler, Receiver

LEMMA LiveOnce == MutexInv /\ HandInv /\ [Next]_vars => (Live' => Live)
<1> SUFFICES ASSUME MutexInv, HandInv, [Next]_vars, Live' PROVE Live
  OBVIOUS
<1> USE ProcNames DEF Live, Goto, nodeVars
<1>0. pc \in [Procs -> PCs]
  BY DEF MutexInv, PlacesOK
<1>1. CASE Handler \/ Receiver \/ TakeChunk \/ ReceiveReset
  <2>1. UNCHANGED <<ws, conn>> /\ pc'["task"] = pc["task"]
    BY <1>0, <1>1 DEF Handler, Receiver, WriteStep, TakeChunk, ReceiveReset, Route, LockForInit,
         CheckStarted, LockForFragment, ReceiveError, LockForReset, WriteFindsNoWs, WriteFindsWs,
         SendSucceeds, SendFails, Writers
  <2> QED BY <2>1
<1>2. CASE Task
  BY <1>0, <1>2 DEF Task, Begin, Ready, SelectCtxDone
<1>3. ASSUME NEW p \in Procs \ {"handler"}, StopStep(p) PROVE Live
  <2>1. conn' = conn /\ (ws' => ws)
    BY <1>3 DEF StopStep, SeeWs, LockAndClose, StopAlreadyCalled, CallStop, StopTaken
  <2>2. pc'["task"] = "begin" => pc["task"] = "begin"
    BY <1>0, <1>3 DEF StopStep, SeeWs, LockAndClose, StopAlreadyCalled, CallStop, StopTaken, Finished
  <2> QED BY <2>1, <2>2
<1>4. CASE CloseConn \/ BrowserLeaves \/ ContextEnds \/ ParentStops \/ UNCHANGED vars
  BY <1>0, <1>4 DEF CloseConn, BrowserLeaves, ContextEnds, ParentStops, vars
<1> QED BY <1>1, <1>2, <1>3, <1>4 DEF Next

\* A fragment may be sent after the payload it follows, when no fragment has slipped
\* through since the last cut-off byte.
Follows(m) ==
  m.kind = "frag" =>
    /\ m.index # 0 /\ Latest([gen |-> m.gen, index |-> m.index - 1])
    /\ \A i \in 1 .. Len(wire) : wire[i].kind = "cut" =>
         \A j \in i + 1 .. Len(wire) : wire[j].kind = "frag" =>
           \E n \in i + 1 .. Len(wire) : wire[n].kind = "init"

\* The i-th message follows the one that its muxer sent before it.
Preceded(w, i) ==
  \E j \in 1 .. i - 1 :
    /\ w[j].gen = w[i].gen
    /\ w[j].kind = IF w[i].index = 1 THEN "init" ELSE "frag"
    /\ w[i].index # 1 => w[j].index = w[i].index - 1
    /\ \A k \in j + 1 .. i - 1 : w[k].kind = "cut"

LEMMA OrderGrows ==
  ASSUME wire \in Seq(Messages), NEW m \in Messages, wire' = Append(wire, m), Follows(m),
         failures = 0, FragmentsFollowTheirInit
  PROVE  FragmentsFollowTheirInit'
<1>1. /\ Len(wire) \in Nat /\ Len(wire') = Len(wire) + 1
      /\ DOMAIN wire' = 1 .. Len(wire) + 1 /\ DOMAIN wire = 1 .. Len(wire)
      /\ wire'[Len(wire) + 1] = m
      /\ \A i \in 1 .. Len(wire) : wire'[i] = wire[i]
  BY AppendedMessage
<1>a. \A i \in DOMAIN wire : wire[i].kind = "frag" => Preceded(wire, i)
  BY DEF FragmentsFollowTheirInit, FragmentsAreInOrder, Preceded
<1>2. FragmentsAreInOrder'
  <2> SUFFICES ASSUME NEW i \in DOMAIN wire', wire'[i].kind = "frag"
      PROVE  Preceded(wire', i)
    BY DEF FragmentsAreInOrder, Preceded
  <2>1. CASE i \in 1 .. Len(wire)
    <3>1. Preceded(wire, i)
      BY <1>1, <1>a, <2>1
    <3>2. \A k \in 1 .. i : wire'[k] = wire[k]
      BY <1>1, <2>1
    <3> QED BY <2>1, <3>1, <3>2 DEF Preceded
  <2>2. CASE i = Len(wire) + 1
    <3>1. wire'[i] = m /\ m.kind = "frag" /\ m.gen \in Nat /\ m.index \in Nat
      BY <1>1, <2>2 DEF Messages
    <3>2. m.index # 0 /\ Latest([gen |-> m.gen, index |-> m.index - 1])
      BY <3>1 DEF Follows
    <3>3. PICK j \in 1 .. Len(wire) :
            /\ wire[j] = Payload([gen |-> m.gen, index |-> m.index - 1])
            /\ \A k \in j + 1 .. Len(wire) : wire[k].kind = "cut"
      BY <3>2 DEF Latest
    <3>4. [gen |-> m.gen, index |-> m.index - 1] \in [gen : Nat, index : Nat]
      BY <3>1, <3>2
    <3>5. /\ wire[j].gen = m.gen /\ wire[j].index = m.index - 1
          /\ wire[j].kind = IF m.index = 1 THEN "init" ELSE "frag"
      BY <3>1, <3>3, <3>4, MessageTypes
    <3> QED BY <1>1, <2>2, <3>1, <3>3, <3>5 DEF Preceded
  <2> QED BY <1>1, <2>1, <2>2
<1>3. AtMostOneStaleFragment'
  <2> SUFFICES ASSUME NEW i \in DOMAIN wire', wire'[i].kind = "cut",
                      NEW j \in i + 1 .. Len(wire'), NEW k \in i + 1 .. Len(wire'),
                      j < k, wire'[j].kind = "frag", wire'[k].kind = "frag"
      PROVE  \E n \in i + 1 .. k - 1 : wire'[n].kind = "init"
    BY DEF AtMostOneStaleFragment
  <2>0. i \in 1 .. Len(wire) /\ j \in i + 1 .. Len(wire) /\ wire[i].kind = "cut" /\ wire[j].kind = "frag"
    BY <1>1
  <2>1. CASE k \in 1 .. Len(wire)
    <3>1. PICK n \in i + 1 .. k - 1 : wire[n].kind = "init"
      BY <1>1, <2>0, <2>1 DEF FragmentsFollowTheirInit, AtMostOneStaleFragment
    <3> QED BY <1>1, <2>0, <2>1, <3>1
  <2>2. CASE k = Len(wire) + 1
    <3>1. PICK n \in i + 1 .. Len(wire) : wire[n].kind = "init"
      BY <1>1, <2>0, <2>2 DEF Follows
    <3> QED BY <1>1, <2>0, <2>2, <3>1
  <2> QED BY <1>1, <2>0, <2>1, <2>2
<1> QED BY <1>2, <1>3 DEF FragmentsFollowTheirInit

\* A step that sends nothing, leaves the muxer and does not take up a message.
Quiet ==
  /\ UNCHANGED <<wire, muxer>> /\ (started' => started)
  /\ \/ /\ msg'["handler"] = msg["handler"]
        /\ pc'["handler"] = pc["handler"] \/ {pc["handler"], pc'["handler"]} \subseteq {"write", "send"}
     \/ {pc["handler"], pc'["handler"]} \subseteq {"idle", "awaitReady", "route", "check"}

LEMMA QuietStep == SendInv /\ StaleInv /\ Quiet => SendInv' /\ StaleInv'
<1> SUFFICES ASSUME SendInv, StaleInv, Quiet PROVE SendInv' /\ StaleInv'
  OBVIOUS
<1>1. /\ wire' = wire /\ muxer' = muxer
      /\ (Writing("frag"))' = Writing("frag") /\ (Writing("init"))' = Writing("init")
      /\ pc'["handler"] = "lockFrag" => pc["handler"] = "lockFrag"
      /\ pc'["handler"] \notin {"lockInit", "write", "send"}
           => pc["handler"] \notin {"lockInit", "write", "send"}
  BY DEF Quiet, Writing
<1>2. \A m : Latest(m)' = Latest(m)
  BY <1>1 DEF Latest
<1>3. SendInv'
  BY <1>1, <1>2 DEF SendInv
<1>4. StaleInv'
  BY <1>1 DEF StaleInv, Quiet
<1> QED BY <1>3, <1>4

\* Every step that sends nothing keeps the handler and the muxer together.
LEMMA SilentStep ==
  ASSUME MutexInv, HandInv, HandInv', [Next]_vars, Live, Live', failures = 0, failures' = 0,
         \A w \in Writers : ~SendSucceeds(w), SendInv, StaleInv
  PROVE  UNCHANGED wire /\ SendInv' /\ StaleInv'
<1>0. pc \in [Procs -> PCs] /\ msg \in [Writers -> Messages]
  BY DEF MutexInv, PlacesOK, HandInv
<1>q. ASSUME Quiet PROVE UNCHANGED wire /\ SendInv' /\ StaleInv'
  BY <1>q, QuietStep DEF Quiet
<1> USE ProcNames DEF Goto, Writers, nodeVars
<1>1. CASE TakeChunk
  <2>1. Quiet
    BY <1>0, <1>1 DEF TakeChunk, Quiet
  <2> QED BY <2>1, <1>q
<1>2. CASE Route
  <2>1. CASE chunk /\ ~started
    <3>1. wire' = wire /\ ~started' /\ pc'["handler"] = "lockInit"
      BY <1>0, <1>2, <2>1 DEF Route
    <3> QED BY <3>1 DEF SendInv, StaleInv, Writing
  <2>2. CASE ~(chunk /\ ~started)
    <3>1. Quiet
      BY <1>0, <1>2, <2>2 DEF Route, Quiet
    <3> QED BY <3>1, <1>q
  <2> QED BY <2>1, <2>2
<1>3. CASE LockForInit
  <2>1. wire' = wire /\ pc'["handler"] = "write" /\ msg'["handler"].kind = "init"
    BY <1>0, <1>3 DEF LockForInit, InitPayload
  <2> QED BY <2>1 DEF SendInv, StaleInv, Writing
<1>4. CASE CheckStarted
  <2>1. CASE started
    <3>1. /\ UNCHANGED <<wire, started, muxer>> /\ pc["handler"] = "check"
          /\ pc'["handler"] = "lockFrag"
      BY <1>0, <1>4, <2>1 DEF CheckStarted
    <3>2. SendInv'
      BY <3>1 DEF SendInv, Writing, Latest
    <3> QED BY <2>1, <3>1, <3>2 DEF StaleInv, Writing
  <2>2. CASE ~started
    <3>1. Quiet
      BY <1>0, <1>4, <2>2 DEF CheckStarted, Quiet
    <3> QED BY <3>1, <1>q
  <2> QED BY <2>1, <2>2
<1>5. CASE LockForFragment
  <2>1. /\ UNCHANGED <<wire, started>> /\ pc["handler"] = "lockFrag" /\ pc'["handler"] = "write"
        /\ muxer' = [muxer EXCEPT !.index = @ + 1] /\ msg'["handler"].kind = "frag"
    BY <1>0, <1>5 DEF LockForFragment, Fragment
  <2>2. [muxer' EXCEPT !.index = @ - 1] = muxer
    <3>1. muxer \in [gen : Nat, index : Nat]
      BY DEF HandInv
    <3>2. muxer' = [gen |-> muxer.gen, index |-> muxer.index + 1]
      BY <2>1, <3>1
    <3>3. [muxer' EXCEPT !.index = @ - 1] = [gen |-> muxer.gen, index |-> (muxer.index + 1) - 1]
      <4> DEFINE g == muxer.gen
                 n == muxer.index + 1
      <4>1. muxer' = [gen |-> g, index |-> n]
        BY <3>2
      <4> HIDE DEF g, n
      <4>2. [muxer' EXCEPT !.index = @ - 1] = [gen |-> g, index |-> n - 1]
        BY <4>1
      <4> QED BY <4>2 DEF g, n
    <3>4. (muxer.index + 1) - 1 = muxer.index
      BY <3>1
    <3> QED BY <3>1, <3>3, <3>4
  <2>3. Latest(muxer)
    BY <2>1 DEF SendInv, HandInv
  <2>4. SendInv'
    BY <2>1, <2>2, <2>3 DEF SendInv, Latest
  <2> QED BY <2>1, <2>4 DEF StaleInv, Writing
<1>6. ASSUME NEW w \in Writers, WriteStep(w) PROVE UNCHANGED wire /\ SendInv' /\ StaleInv'
  <2>1. CASE WriteFindsWs(w)
    <3>1. Quiet
      BY <1>0, <2>1 DEF WriteFindsWs, Quiet
    <3> QED BY <3>1, <1>q
  <2>2. CASE w = "handler" /\ (WriteFindsNoWs(w) \/ SendFails(w))
    BY <2>2 DEF WriteFindsNoWs, SendFails, Live, HandInv
  <2>3. CASE w = "receiver" /\ (WriteFindsNoWs(w) \/ SendFails(w))
    <3>1. UNCHANGED <<wire, muxer, started, msg>> /\ pc'["handler"] = pc["handler"]
      BY <1>0, <2>3 DEF WriteFindsNoWs, SendFails
    <3>2. Quiet
      BY <3>1 DEF Quiet
    <3> QED BY <3>2, <1>q
  <2> QED BY <1>6, <2>1, <2>2, <2>3 DEF WriteStep
<1>7. CASE ReceiveReset \/ ReceiveError \/ LockForReset
  <2>1. UNCHANGED <<wire, muxer>> /\ pc'["handler"] = pc["handler"]
    BY <1>0, <1>7 DEF ReceiveReset, ReceiveError, LockForReset
  <2>2. (started' => started) /\ msg'["handler"] = msg["handler"]
    BY <1>0, <1>7 DEF ReceiveReset, ReceiveError, LockForReset
  <2>3. Quiet
    BY <2>1, <2>2 DEF Quiet
  <2> QED BY <2>3, <1>q
<1>8. CASE Task
  <2>1. UNCHANGED <<wire, muxer, started, msg>>
    BY <1>8 DEF Task, Begin, Ready, SelectCtxDone
  <2>2. \/ pc'["handler"] = pc["handler"]
        \/ pc["handler"] = "awaitReady" /\ pc'["handler"] = "route"
    BY <1>0, <1>8 DEF Task, Begin, Ready, SelectCtxDone
  <2>3. Quiet
    BY <2>1, <2>2 DEF Quiet
  <2> QED BY <2>3, <1>q
<1>9. ASSUME NEW p \in Procs \ {"handler"}, StopStep(p) PROVE UNCHANGED wire /\ SendInv' /\ StaleInv'
  <2>1. UNCHANGED <<wire, muxer, started, msg>>
    BY <1>9 DEF StopStep, SeeWs, LockAndClose, StopAlreadyCalled, CallStop, StopTaken
  <2>2. pc'["handler"] = pc["handler"]
    BY <1>0, <1>9 DEF StopStep, SeeWs, LockAndClose, StopAlreadyCalled, CallStop, StopTaken
  <2>3. Quiet
    BY <2>1, <2>2 DEF Quiet
  <2> QED BY <2>3, <1>q
<1>10. CASE CloseConn \/ BrowserLeaves \/ ContextEnds \/ ParentStops \/ UNCHANGED vars
  <2>1. UNCHANGED <<wire, muxer, started, msg>> /\ pc'["handler"] = pc["handler"]
    BY <1>0, <1>10 DEF CloseConn, BrowserLeaves, ContextEnds, ParentStops, vars
  <2>2. Quiet
    BY <2>1 DEF Quiet
  <2> QED BY <2>2, <1>q
<1> QED
  BY <1>1, <1>2, <1>3, <1>4, <1>5, <1>6, <1>7, <1>8, <1>9, <1>10 DEF Next, Handler, Receiver

\* What is sent follows what was sent before.
LEMMA SendStep ==
  ASSUME MutexInv, HandInv, NEW w \in Writers, SendSucceeds(w), failures = 0,
         FragmentsFollowTheirInit, SendInv, StaleInv
  PROVE  FragmentsFollowTheirInit' /\ SendInv' /\ StaleInv'
<1>0. /\ pc \in [Procs -> PCs] /\ wire' = Append(wire, msg[w]) /\ UNCHANGED <<muxer, started, msg>>
      /\ pc["handler"] \in HandlerPlaces /\ msg \in [Writers -> Messages] /\ wire \in Seq(Messages)
  BY DEF SendSucceeds, MutexInv, PlacesOK, HandInv, nodeVars
<1>1. /\ Len(wire) \in Nat /\ Len(wire') = Len(wire) + 1 /\ wire'[Len(wire) + 1] = msg[w]
      /\ \A i \in 1 .. Len(wire) : wire'[i] = wire[i]
  BY <1>0, AppendedMessage
<1>2. CASE w = "receiver"
  <2>1. msg[w] = Cut /\ pc'["handler"] = pc["handler"] /\ ~started
    BY <1>0, <1>2, ProcNames DEF SendSucceeds, HandInv, Goto
  <2>2. FragmentsFollowTheirInit'
    BY <1>0, <2>1, MessageTypes, OrderGrows DEF Follows
  <2>3. ASSUME NEW m, Latest(m) PROVE Latest(m)'
    BY <1>1, <2>1, <2>3, MessageTypes DEF Latest
  <2>4. SendInv'
    BY <1>0, <2>1, <2>3 DEF SendInv, Writing
  <2>5. StaleInv'
    <3> SUFFICES ASSUME NEW i \in 1 .. Len(wire'), wire'[i].kind = "cut",
                        \A n \in i + 1 .. Len(wire') : wire'[n].kind # "init",
                        NEW j \in i + 1 .. Len(wire'), wire'[j].kind = "frag"
        PROVE  pc["handler"] # "lockFrag" /\ ~Writing("frag")
      <4>1. started' = started /\ pc'["handler"] = pc["handler"] /\ msg' = msg
        BY <1>0, <2>1
      <4>2. (Writing("frag"))' = Writing("frag")
        BY <4>1 DEF Writing
      <4> QED BY <2>1, <4>1, <4>2 DEF StaleInv
    <3>0. wire'[Len(wire) + 1].kind # "frag"
      BY <1>1, <2>1, MessageTypes
    <3>1. i \in 1 .. Len(wire) /\ j \in i + 1 .. Len(wire) /\ wire[i].kind = "cut" /\ wire[j].kind = "frag"
      BY <1>1, <3>0
    <3>2. \A n \in i + 1 .. Len(wire) : wire[n].kind # "init"
      BY <1>1, <3>1
    <3> QED BY <3>1, <3>2 DEF StaleInv
  <2> QED BY <2>2, <2>4, <2>5
<1>3. CASE w = "handler"
  <2>1. /\ pc["handler"] = "send" /\ msg[w] = Payload(muxer) /\ muxer \in [gen : Nat, index : Nat]
        /\ pc'["handler"] \in {"check", "idle"}
    BY <1>0, <1>3, ProcNames DEF SendSucceeds, HandInv, Goto, AfterWrite
  <2>2. Latest(muxer)'
    BY <1>0, <1>1, <2>1 DEF Latest
  <2>3. SendInv'
    BY <1>0, <2>1, <2>2 DEF SendInv, Writing
  <2>4. CASE muxer.index = 0
    <3>1. msg[w].kind = "init"
      BY <2>1, <2>4, MessageTypes
    <3>2. FragmentsFollowTheirInit'
      BY <1>0, <3>1, OrderGrows DEF Follows
    <3>3. StaleInv'
      BY <1>1, <3>1 DEF StaleInv
    <3> QED BY <2>3, <3>2, <3>3
  <2>5. CASE muxer.index # 0
    <3>1. msg[w].kind = "frag" /\ msg[w].gen = muxer.gen /\ msg[w].index = muxer.index
      BY <2>1, <2>5, MessageTypes
    <3>2. Writing("frag") /\ ~Writing("init")
      BY <1>3, <2>1, <3>1 DEF Writing
    <3>3. [muxer EXCEPT !.index = @ - 1] = [gen |-> muxer.gen, index |-> muxer.index - 1]
      BY <2>1
    <3>4. Follows(msg[w])
      BY <2>5, <3>1, <3>2, <3>3 DEF SendInv, StaleInv, Follows
    <3>5. FragmentsFollowTheirInit'
      BY <1>0, <3>4, OrderGrows
    <3>6. StaleInv'
      <4> SUFFICES ASSUME NEW i \in 1 .. Len(wire'), wire'[i].kind = "cut",
                          \A n \in i + 1 .. Len(wire') : wire'[n].kind # "init"
          PROVE  ~started
        BY <1>0, <2>1 DEF StaleInv, Writing
      <4>1. i \in 1 .. Len(wire) /\ wire[i].kind = "cut"
        BY <1>1, <3>1
      <4>2. \A n \in i + 1 .. Len(wire) : wire[n].kind # "init"
        BY <1>1, <4>1
      <4> QED BY <3>2, <4>1, <4>2 DEF StaleInv
    <3> QED BY <2>3, <3>5, <3>6
  <2> QED BY <2>4, <2>5
<1> QED BY <1>2, <1>3 DEF Writers

LEMMA WireStep == MutexInv /\ HandInv /\ HandInv' /\ WireInv /\ [Next]_vars => WireInv'
<1> SUFFICES ASSUME MutexInv, HandInv, HandInv', WireInv, [Next]_vars, failures' = 0
    PROVE  FragmentsFollowTheirInit' /\ (Live' => SendInv' /\ StaleInv')
  BY DEF WireInv
<1>1. failures = 0
  <2>1. failures' = failures \/ \E w \in Writers : SendFails(w)
    BY DEF Next, Handler, Receiver, Task, StopStep, WriteStep, TakeChunk, ReceiveReset, Route,
      LockForInit, CheckStarted, LockForFragment, ReceiveError, LockForReset, WriteFindsNoWs,
      WriteFindsWs, SendSucceeds, Begin, Ready, SelectCtxDone, SeeWs, LockAndClose,
      StopAlreadyCalled, CallStop, StopTaken, CloseConn, BrowserLeaves, ContextEnds, ParentStops,
      vars, Writers
  <2> QED BY <2>1 DEF SendFails, HandInv
<1>2. Live' => Live
  BY LiveOnce
<1>3. FragmentsFollowTheirInit /\ (Live => SendInv /\ StaleInv)
  BY <1>1 DEF WireInv
<1>4. CASE \E w \in Writers : SendSucceeds(w)
  <2>1. Live
    BY <1>4 DEF Live, SendSucceeds, MutexInv, SenderHasConnection
  <2> QED BY <1>1, <1>3, <1>4, <2>1, SendStep
<1>5. CASE ~\E w \in Writers : SendSucceeds(w)
  <2>1. wire' = wire
    BY <1>5 DEF Next, Handler, Receiver, Task, StopStep, WriteStep, TakeChunk, ReceiveReset, Route,
      LockForInit, CheckStarted, LockForFragment, ReceiveError, LockForReset, WriteFindsNoWs,
      WriteFindsWs, SendFails, Begin, Ready, SelectCtxDone, SeeWs, LockAndClose,
      StopAlreadyCalled, CallStop, StopTaken, CloseConn, BrowserLeaves, ContextEnds, ParentStops,
      vars, Writers
  <2>2. FragmentsFollowTheirInit'
    BY <1>1, <1>3, <2>1
    DEF FragmentsFollowTheirInit, FragmentsAreInOrder, AtMostOneStaleFragment
  <2> QED BY <1>1, <1>2, <1>3, <1>5, <2>2, SilentStep
<1> QED BY <1>4, <1>5

\* The browser gets, from each muxer, the init payload and then its fragments one by
\* one, and after the cut-off byte of a reset at most the one fragment whose
\* c.started had been read (webcast/client.go lines 80 and 81), as long as no write on
\* a live connection misses its deadline: however the handler, the receiver and the
\* goroutines that stop the client are interleaved, and for any number of chunks and
\* resets.
THEOREM BrowserGetsWholeStreams == Spec => []FragmentsFollowTheirInit
<1>1. Init => WireInv
  <2> SUFFICES ASSUME Init PROVE WireInv
    OBVIOUS
  <2>1. wire = <<>> /\ DOMAIN wire = {} /\ Len(wire) = 0
    <3>1. wire = <<>>
      BY DEF Init
    <3> QED BY <3>1
  <2>2. pc["handler"] = "idle" /\ muxer.gen = 0
    BY ProcNames DEF Init
  <2> QED
    BY <2>1, <2>2
    DEF WireInv, FragmentsFollowTheirInit, FragmentsAreInOrder, AtMostOneStaleFragment, SendInv,
      StaleInv, Writing
<1>2. WireInv => FragmentsFollowTheirInit
  BY DEF WireInv, FragmentsFollowTheirInit, FragmentsAreInOrder, AtMostOneStaleFragment
<1> QED BY <1>1, <1>2, MutexInit, MutexStep, HandInit, HandStep, WireStep, PTL DEF Spec
============================================================================
