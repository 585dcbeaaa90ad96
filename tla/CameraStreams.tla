--------------------------- MODULE CameraStreams ---------------------------
(***************************************************************************)
(* One camera and its streams: camera/camera.go, camera/stream.go and the  *)
(* way the HTTP server gets a caster (cctv.go, webcast/server.go).  The    *)
(* goroutines are                                                          *)
(*   the camera's task, which makes the streams that are to be saved;      *)
(*   a task per Stream node, which makes the monitor and reads frames;     *)
(*   a handler per HTTP request, which looks up or makes the stream, its   *)
(*   monitor and its caster, and stays while its browser watches.          *)
(* A Stream node has two mutexes; s.monitor and s.caster are also touched  *)
(* without them.  Stop of a node, the removal of its clients and of the    *)
(* node from its server belong to server_client_hierarchy and are modelled *)
(* as they are used: AddClient starts the node, a Stream stops when its    *)
(* last client is removed, and a stop is handed to the task.               *)
(***************************************************************************)
EXTENDS Integers, Sequences, FiniteSets

CONSTANTS
  Nodes,       \* the Stream nodes that can exist at a time (a bound)
  Handlers,    \* HTTP requests, one stream each
  Camera,      \* the camera's task
  Nobody,      \* no owner of a mutex, no caster
  IDs,         \* StreamMain and StreamExtra
  Save,        \* c.Save
  WebCast,     \* c.WebCast
  MaxErrors,   \* bound: GetFrame fails so often before the context is done
  Ends         \* what may end the camera: "credentials", "context"

\* A camera has a main and an extra stream, so at most two are saved.
ASSUME CameraStreamsAssumption ==
  /\ Nodes \cap Handlers = {} /\ {Camera, Nobody} \cap (Nodes \cup Handlers) = {} /\ Camera # Nobody
  /\ Save \in Seq(IDs) /\ Len(Save) <= 2 /\ WebCast \subseteq IDs /\ MaxErrors \in Nat
  /\ Ends \subseteq {"credentials", "context"}

VARIABLES
  pc,          \* where each goroutine is; "none" for a node not made yet
  id,          \* the stream a node is for, or a handler asks for
  todo,        \* what is left of the camera's loop over c.Save
  at,          \* per handler, its stream
  got,         \* per handler, the caster it got
  clients,     \* c.Clients
  stopping,    \* the nodes with IsStopping
  monitor,     \* s.monitor: nil, half (an interface holding a nil pointer), open
  open,        \* per node, its monitors that are connected
  maker,       \* who holds monitorMakeMutex
  casterMaker, \* who holds casterMakeMutex
  caster,      \* s.caster: the handler that made it
  live,        \* per node, its casters that are not stopped
  writer,      \* the nodes with an MKVWriter
  disabled, ctxDone, errors,
  crashed      \* a nil pointer was used

getVars == <<id, todo, at, clients>>
monVars == <<monitor, open, maker>>
castVars == <<got, casterMaker, caster, live>>
endVars == <<disabled, ctxDone, errors, crashed>>
vars == <<pc, getVars, stopping, monVars, castVars, writer, endVars>>

Procs == {Camera} \cup Handlers \cup Nodes
Members(s) == {s[i] : i \in DOMAIN s}
Saved == Members(Save)

Goto(p, where) == pc' = [pc EXCEPT ![p] = where]

Init ==
  /\ pc = [p \in Procs |-> IF p = Camera THEN "check" ELSE IF p \in Nodes THEN "none" ELSE "idle"]
  /\ id \in [Handlers \cup Nodes -> IDs] /\ \A p \in Handlers \cup Nodes : id[p] = CHOOSE i \in IDs : TRUE
  /\ todo = <<>> /\ at = [h \in Handlers |-> Nobody] /\ got = [h \in Handlers |-> Nobody]
  /\ clients = <<>> /\ stopping = {}
  /\ monitor = [n \in Nodes |-> "nil"] /\ open = [n \in Nodes |-> 0]
  /\ maker = [n \in Nodes |-> Nobody] /\ casterMaker = [n \in Nodes |-> Nobody]
  /\ caster = [n \in Nodes |-> Nobody] /\ live = [n \in Nodes |-> {}] /\ writer = {}
  /\ disabled = FALSE /\ ctxDone = FALSE /\ errors = 0 /\ crashed = FALSE

----------------------------------------------------------------------------
(* The camera's task *)

\* slices.Delete(s, i, 1) deletes the elements from i to 1: the first one for
\* i = 0, none for i = 1.
Strike(rest, i) == IF rest # <<>> /\ rest[1] = i THEN Tail(rest) ELSE rest

\* Mutant: the loop ends at the first client.
NotSavingFirst == IF clients = <<>> THEN Save ELSE Strike(Save, id[clients[1]])

\* What the clients from the k-th on leave of the list.
NotSaving ==
  LET rest[k \in 0 .. Len(clients)] == IF k = 0 THEN Save ELSE Strike(rest[k - 1], id[clients[k]])
  IN  rest[Len(clients)]

isSavingAllThatItShould == NotSaving = <<>>

CameraStopping == disabled \/ ctxDone

\* A camera that saves all it should stands by and looks again.
Check ==
  /\ pc[Camera] = "check" /\ ~ctxDone /\ Save # <<>> /\ ~isSavingAllThatItShould
  /\ Goto(Camera, "dial")
  /\ UNCHANGED <<getVars, stopping, monVars, castVars, writer, endVars>>

Online ==
  /\ pc[Camera] = "dial" /\ ~ctxDone
  /\ Goto(Camera, "scan") /\ todo' = Save
  /\ UNCHANGED <<id, at, clients, stopping, monVars, castVars, writer, endVars>>

Offline ==
  /\ pc[Camera] = "dial"
  /\ Goto(Camera, "check")
  /\ UNCHANGED <<getVars, stopping, monVars, castVars, writer, endVars>>

CameraEnds ==
  /\ pc[Camera] = "check" /\ CameraStopping
  /\ Goto(Camera, "ended")
  /\ UNCHANGED <<getVars, stopping, monVars, castVars, writer, endVars>>

----------------------------------------------------------------------------
(* GetStream, called by the camera's task and by handlers: the look-up and *)
(* the addition are two steps.                                             *)

Wanted(p) == IF p = Camera THEN Head(todo) ELSE id[p]

\* Where GetStream finds the stream in c.Clients; it returns the first.
Existing(p) == {i \in DOMAIN clients : id[clients[i]] = Wanted(p) /\ clients[i] \notin stopping}

\* GetStream returns n to p.
GotStream(p, n) ==
  IF p = Camera THEN todo' = Tail(todo) /\ UNCHANGED at
                ELSE at' = [at EXCEPT ![p] = n] /\ UNCHANGED todo
WithStream(p) == IF p # Camera THEN "lockCaster" ELSE IF Len(todo) > 1 THEN "scan" ELSE "check"

FindStream(p) ==
  /\ pc[p] = "scan"
  /\ \E i \in Existing(p) : (\A j \in Existing(p) : i <= j) /\ GotStream(p, clients[i])
  /\ Goto(p, WithStream(p))
  /\ UNCHANGED <<id, clients, stopping, monVars, castVars, writer, endVars>>

MissStream(p) ==
  /\ pc[p] = "scan" /\ Existing(p) = {}
  /\ Goto(p, "create")
  /\ UNCHANGED <<getVars, stopping, monVars, castVars, writer, endVars>>

\* A node that nothing refers to any more is as good as a new one.
New ==
  {n \in Nodes :
     \/ pc[n] = "none"
     \/ /\ pc[n] = "ended" /\ monitor[n] = "nil" /\ n \notin Members(clients) \cup writer
        /\ live[n] = {} /\ \A h \in Handlers : at[h] # n}

CreateStream(p) ==
  /\ pc[p] = "create"
  /\ \E n \in New :
       /\ n = CHOOSE m \in New : TRUE
       /\ pc' = [pc EXCEPT ![p] = WithStream(p), ![n] = "lock"]
       /\ id' = [id EXCEPT ![n] = Wanted(p)]
       /\ clients' = Append(clients, n) /\ stopping' = stopping \ {n}
       /\ GotStream(p, n)
  /\ UNCHANGED <<monVars, castVars, writer, endVars>>

----------------------------------------------------------------------------
(* makeMonitor, called by the task of the stream and by handlers           *)

StreamOf(p) == IF p \in Nodes THEN p ELSE at[p]
WithMonitor(p) == IF p \in Nodes THEN "begin" ELSE "cast"

UnlockMonitor(p) == maker' = [maker EXCEPT ![StreamOf(p)] = Nobody] /\ Goto(p, WithMonitor(p))

\* A caller that has the mutex goes on: an attempt is made if there is no monitor,
\* and an attempt begun after the end of the context fails.
Attempt(p) ==
  LET n == StreamOf(p)
  IN  IF monitor[n] # "nil" \/ disabled
      THEN UnlockMonitor(p)
      ELSE Goto(p, IF ctxDone THEN "fail" ELSE "try") /\ maker' = [maker EXCEPT ![n] = p]

\* Mutant: the mutex is not taken.
LockMonitorWithoutMutex(p) ==
  /\ pc[p] = "lock"
  /\ Attempt(p)
  /\ UNCHANGED <<getVars, stopping, monitor, open, castVars, writer, endVars>>

\* Mutant: the mutex is kept when there is a monitor already.
LockMonitorKeepsMutex(p) ==
  LET n == StreamOf(p)
  IN  /\ pc[p] = "lock" /\ maker[n] = Nobody
      /\ IF monitor[n] # "nil"
         THEN maker' = [maker EXCEPT ![n] = p] /\ Goto(p, WithMonitor(p))
         ELSE Attempt(p)
      /\ UNCHANGED <<getVars, stopping, monitor, open, castVars, writer, endVars>>

LockMonitor(p) ==
  /\ pc[p] = "lock" /\ maker[StreamOf(p)] = Nobody
  /\ Attempt(p)
  /\ UNCHANGED <<getVars, stopping, monitor, open, castVars, writer, endVars>>

TrySucceeds(p) ==
  LET n == StreamOf(p)
  IN  /\ pc[p] = "try"
      /\ monitor' = [monitor EXCEPT ![n] = "open"] /\ open' = [open EXCEPT ![n] = @ + 1]
      /\ UnlockMonitor(p)
      /\ UNCHANGED <<getVars, stopping, castVars, writer, endVars>>

\* NewMonitor returns a nil pointer, which makes s.monitor different from nil ...
TryFails(p) ==
  /\ pc[p] \in {"try", "fail"}
  /\ monitor' = [monitor EXCEPT ![StreamOf(p)] = "half"] /\ Goto(p, "clear")
  /\ UNCHANGED <<getVars, stopping, open, maker, castVars, writer, endVars>>

\* ... until it is cleared.  With wrong credentials the camera is disabled.
ClearMonitor(p) ==
  /\ pc[p] = "clear"
  /\ monitor' = [monitor EXCEPT ![StreamOf(p)] = "nil"] /\ Goto(p, "retry")
  /\ disabled' \in {disabled, disabled \/ "credentials" \in Ends}
  /\ UNCHANGED <<getVars, stopping, open, maker, castVars, writer, ctxDone, errors, crashed>>

\* Mutant: the result of the pause is not looked at.
RetryAnyway(p) ==
  /\ pc[p] = "retry"
  /\ Attempt(p)
  /\ UNCHANGED <<getVars, stopping, monitor, open, castVars, writer, endVars>>

\* The pause between attempts ends early, and for good, when the context is done.
Retry(p) ==
  /\ pc[p] = "retry"
  /\ IF ctxDone THEN UnlockMonitor(p) ELSE Attempt(p)
  /\ UNCHANGED <<getVars, stopping, monitor, open, castVars, writer, endVars>>

makeMonitor(p) ==
  LockMonitor(p) \/ TrySucceeds(p) \/ TryFails(p) \/ ClearMonitor(p) \/ Retry(p)

----------------------------------------------------------------------------
(* The task of a stream                                                    *)

Begin(n) ==
  /\ pc[n] = "begin"
  /\ writer' = IF monitor[n] # "nil" /\ id[n] \in Saved THEN writer \cup {n} ELSE writer
  /\ Goto(n, "loop")
  /\ UNCHANGED <<getVars, stopping, monVars, castVars, endVars>>

\* Mutant: the stream is stopped before its monitor.
GetFrameFailsStopsFirst(n) ==
  /\ pc[n] = "loop" /\ monitor[n] = "open" /\ errors < MaxErrors
  /\ errors' = errors + 1 /\ stopping' = stopping \cup {n}
  /\ Goto(n, "failed")
  /\ UNCHANGED <<getVars, monVars, castVars, writer, disabled, ctxDone, crashed>>

GetFrameFails(n) ==
  /\ pc[n] = "loop" /\ monitor[n] = "open"
  /\ \/ errors < MaxErrors /\ errors' = errors + 1
     \/ ctxDone /\ UNCHANGED errors
  /\ Goto(n, "failed")
  /\ UNCHANGED <<getVars, stopping, monVars, castVars, writer, disabled, ctxDone, crashed>>

\* GetFrame or ShutDown of a nil pointer.
UsesNilMonitor(n) ==
  /\ pc[n] \in {"loop", "failed", "shut"} /\ monitor[n] = "half"
  /\ crashed' = TRUE
  /\ UNCHANGED <<pc, getVars, stopping, monVars, castVars, writer, disabled, ctxDone, errors>>

WithoutMonitor(n) == IF pc[n] \in {"failed", "failedClose"} THEN "awaitStop" ELSE "ended"

\* Mutant: s.monitor is not cleared.
ClearForStopNot(n) ==
  /\ pc[n] \in {"failed", "shut"} /\ monitor[n] = "open"
  /\ Goto(n, IF pc[n] = "failed" THEN "failedClose" ELSE "shutClose")
  /\ UNCHANGED <<getVars, stopping, monVars, castVars, writer, endVars>>

\* stopMonitor clears s.monitor, without the mutex, and shuts it down.
ClearForStop(n) ==
  /\ pc[n] \in {"failed", "shut"} /\ monitor[n] = "open"
  /\ monitor' = [monitor EXCEPT ![n] = "nil"]
  /\ Goto(n, IF pc[n] = "failed" THEN "failedClose" ELSE "shutClose")
  /\ UNCHANGED <<getVars, stopping, open, maker, castVars, writer, endVars>>

NoMonitorToStop(n) ==
  /\ pc[n] \in {"failed", "shut"} /\ monitor[n] = "nil"
  /\ Goto(n, WithoutMonitor(n))
  /\ UNCHANGED <<getVars, stopping, monVars, castVars, writer, endVars>>

ShutDown(n) ==
  /\ pc[n] \in {"failedClose", "shutClose"}
  /\ open' = [open EXCEPT ![n] = @ - 1] /\ Goto(n, WithoutMonitor(n))
  /\ UNCHANGED <<getVars, stopping, monitor, maker, castVars, writer, endVars>>

TakeStop(n) ==
  /\ pc[n] \in {"loop", "awaitStop"} /\ n \in stopping
  /\ Goto(n, "shut")
  /\ UNCHANGED <<getVars, stopping, monVars, castVars, writer, endVars>>

StreamTask(n) ==
  \/ makeMonitor(n) \/ Begin(n) \/ UsesNilMonitor(n) \/ ClearForStop(n)
  \/ NoMonitorToStop(n) \/ ShutDown(n) \/ TakeStop(n)

----------------------------------------------------------------------------
(* A request: GetStream, then GetCaster, then the client stays             *)

Request(h) ==
  /\ pc[h] = "idle"
  /\ \E i \in WebCast : id' = [id EXCEPT ![h] = i]
  /\ Goto(h, "scan")
  /\ UNCHANGED <<todo, at, clients, stopping, monVars, castVars, writer, endVars>>

\* Mutant: the mutex is not taken.
LockCasterWithoutMutex(h) ==
  /\ pc[h] = "lockCaster"
  /\ casterMaker' = [casterMaker EXCEPT ![at[h]] = h]
  /\ Goto(h, IF caster[at[h]] = Nobody THEN "lock" ELSE "return")
  /\ UNCHANGED <<getVars, stopping, monVars, got, caster, live, writer, endVars>>

LockCaster(h) ==
  /\ pc[h] = "lockCaster" /\ casterMaker[at[h]] = Nobody
  /\ casterMaker' = [casterMaker EXCEPT ![at[h]] = h]
  /\ Goto(h, IF caster[at[h]] = Nobody THEN "lock" ELSE "return")
  /\ UNCHANGED <<getVars, stopping, monVars, got, caster, live, writer, endVars>>

MakeCaster(h) ==
  /\ pc[h] = "cast" /\ monitor[at[h]] # "nil"
  /\ caster' = [caster EXCEPT ![at[h]] = h] /\ live' = [live EXCEPT ![at[h]] = @ \cup {h}]
  /\ Goto(h, "return")
  /\ UNCHANGED <<getVars, stopping, monVars, got, casterMaker, writer, endVars>>

NoMonitorForCaster(h) ==
  /\ pc[h] = "cast" /\ monitor[at[h]] = "nil"
  /\ Goto(h, "return")
  /\ UNCHANGED <<getVars, stopping, monVars, castVars, writer, endVars>>

\* s.caster is read again for the result.
ReturnCaster(h) ==
  /\ pc[h] = "return"
  /\ casterMaker' = [casterMaker EXCEPT ![at[h]] = Nobody]
  /\ IF caster[at[h]] = Nobody
     THEN Goto(h, "left") /\ at' = [at EXCEPT ![h] = Nobody] /\ UNCHANGED got
     ELSE Goto(h, "attach") /\ got' = [got EXCEPT ![h] = caster[at[h]]] /\ UNCHANGED at
  /\ UNCHANGED <<id, todo, clients, stopping, monVars, caster, live, writer, endVars>>

Attach(h) ==
  /\ pc[h] = "attach"
  /\ Goto(h, "watch")
  /\ UNCHANGED <<getVars, stopping, monVars, castVars, writer, endVars>>

Watchers(n, k) == {h \in Handlers : pc[h] = "watch" /\ at[h] = n /\ got[h] = k}

\* A browser leaves.  A caster without clients stops, which clears s.caster, and
\* so does a stream without clients.
Leave(h) ==
  LET n == at[h]  k == got[h]
      last == Watchers(n, k) = {h} /\ k \in live[n]
  IN  /\ pc[h] = "watch" /\ Goto(h, "left")
      /\ at' = [at EXCEPT ![h] = Nobody] /\ got' = [got EXCEPT ![h] = Nobody]
      /\ live' = IF last THEN [live EXCEPT ![n] = @ \ {k}] ELSE live
      /\ caster' = IF last THEN [caster EXCEPT ![n] = Nobody] ELSE caster
      /\ stopping' = IF last /\ live[n] = {k} /\ n \notin writer THEN stopping \cup {n} ELSE stopping
      /\ UNCHANGED <<id, todo, clients, monVars, casterMaker, writer, endVars>>

Handler(h) ==
  \/ FindStream(h) \/ MissStream(h) \/ CreateStream(h) \/ makeMonitor(h) \/ LockCaster(h)
  \/ MakeCaster(h) \/ NoMonitorForCaster(h) \/ ReturnCaster(h) \/ Attach(h)

----------------------------------------------------------------------------
(* The nodes                                                               *)

\* Mutant: a stream whose monitor failed is not stopped.
AskStopByCamera(n) ==
  /\ pc[n] # "none" /\ n \notin stopping
  /\ CameraStopping /\ n \in Members(clients)
  /\ stopping' = stopping \cup {n}
  /\ UNCHANGED <<pc, getVars, monVars, castVars, writer, endVars>>

\* Stop comes from the stream's task after a failure, or from the camera, which
\* stops when it is disabled and when the context is done.
AskStop(n) ==
  /\ pc[n] # "none" /\ n \notin stopping
  /\ pc[n] = "awaitStop" \/ (CameraStopping /\ n \in Members(clients))
  /\ stopping' = stopping \cup {n}
  /\ UNCHANGED <<pc, getVars, monVars, castVars, writer, endVars>>

StopClients(n) ==
  /\ n \in stopping /\ (n \in writer \/ live[n] # {})
  /\ writer' = writer \ {n}
  /\ live' = [live EXCEPT ![n] = {}] /\ caster' = [caster EXCEPT ![n] = Nobody]
  /\ LET cut == UNION {Watchers(n, k) : k \in live[n]}
     IN  /\ pc' = [p \in Procs |-> IF p \in cut THEN "left" ELSE pc[p]]
         /\ at' = [h \in Handlers |-> IF h \in cut THEN Nobody ELSE at[h]]
         /\ got' = [h \in Handlers |-> IF h \in cut THEN Nobody ELSE got[h]]
  /\ UNCHANGED <<id, todo, clients, stopping, monVars, casterMaker, endVars>>

Detach(n) ==
  /\ n \in stopping
  /\ \E i \in DOMAIN clients :
       clients[i] = n /\ clients' = SubSeq(clients, 1, i - 1) \o SubSeq(clients, i + 1, Len(clients))
  /\ UNCHANGED <<pc, id, todo, at, stopping, monVars, castVars, writer, endVars>>

Interrupt ==
  /\ ~ctxDone /\ "context" \in Ends /\ ctxDone' = TRUE
  /\ UNCHANGED <<pc, getVars, stopping, monVars, castVars, writer, disabled, errors, crashed>>

CameraTask ==
  Check \/ Online \/ Offline \/ CameraEnds \/ FindStream(Camera) \/ MissStream(Camera) \/ CreateStream(Camera)

NodeStops(n) == AskStop(n) \/ StopClients(n) \/ Detach(n)

Next ==
  /\ ~crashed
  /\ \/ CameraTask \/ Interrupt
     \/ \E n \in Nodes : StreamTask(n) \/ GetFrameFails(n) \/ NodeStops(n)
     \/ \E h \in Handlers : Request(h) \/ Handler(h) \/ Leave(h)

Spec == Init /\ [][Next]_vars

Goroutine(p) == IF p \in Nodes THEN StreamTask(p) ELSE Handler(p)
Callers == Handlers \cup Nodes

\* Goroutines that can run do, waiting for a mutex included, stops are carried
\* out, and a camera that is tried again and again answers at last.  Requests,
\* browsers that leave, failures and the end of the context are free.  (Fairness
\* of a disjunction follows from that of its parts.)
FairSpec ==
  /\ Spec
  /\ SF_vars(~crashed /\ CameraTask) /\ SF_vars(~crashed /\ Online)
  /\ SF_vars(~crashed /\ \E p \in Callers : Goroutine(p))
  /\ SF_vars(~crashed /\ \E p \in Callers : TrySucceeds(p))
  /\ WF_vars(~crashed /\ \E n \in Nodes : NodeStops(n))

----------------------------------------------------------------------------
(* Properties                                                              *)

PCs == {"none", "check", "dial", "scan", "create", "ended",
        "lock", "try", "fail", "clear", "retry", "begin", "loop", "failed", "failedClose",
        "awaitStop", "shut", "shutClose",
        "idle", "lockCaster", "cast", "return", "attach", "watch", "left"}

\* Types, and no monitor is shut down twice.
TypeOK ==
  /\ pc \in [Procs -> PCs] /\ id \in [Handlers \cup Nodes -> IDs]
  /\ todo \in Seq(IDs) /\ clients \in Seq(Nodes) /\ stopping \subseteq Nodes
  /\ at \in [Handlers -> Nodes \cup {Nobody}] /\ got \in [Handlers -> Handlers \cup {Nobody}]
  /\ monitor \in [Nodes -> {"nil", "half", "open"}] /\ open \in [Nodes -> Nat]
  /\ maker \in [Nodes -> Procs \cup {Nobody}] /\ casterMaker \in [Nodes -> Handlers \cup {Nobody}]
  /\ caster \in [Nodes -> Handlers \cup {Nobody}] /\ live \in [Nodes -> SUBSET Handlers]
  /\ writer \subseteq Nodes /\ disabled \in BOOLEAN /\ ctxDone \in BOOLEAN
  /\ errors \in Nat /\ crashed \in BOOLEAN

\* A connected monitor is the one in s.monitor or is being shut down: however many
\* callers want one, monitorMakeMutex lets none be overwritten and forgotten
\* ("multiple callers may call makeMonitor() almost simultaneously").
NoMonitorIsForgotten ==
  \A n \in Nodes :
    open[n] = (IF monitor[n] = "open" THEN 1 ELSE 0)
              + (IF pc[n] \in {"failedClose", "shutClose"} THEN 1 ELSE 0)

\* casterMakeMutex: all casters of a stream that are not stopped are s.caster.
OneCasterPerStream == \A n \in Nodes : live[n] \subseteq {caster[n]}

MonitorsOf(i) == {n \in Nodes : open[n] > 0 /\ id[n] = i}

\* "At any time, there will be no more than 1 DVRIP (or RTSP) monitor (per
\* stream)".
OneMonitorPerStream ==
  \A i \in IDs : Cardinality(MonitorsOf(i)) <= 1 /\ \A n \in MonitorsOf(i) : open[n] = 1

\* "Nothing needs to be done. Stand by.": a camera with one stream to save is not
\* dialled while that stream is among the clients, whatever streams viewers have
\* asked for before it.  (With two it may be: Strike removes nothing for i = 1.)
CameraStandsBy ==
  [][Check /\ Len(Save) = 1 => \E i \in Saved : \A n \in Members(clients) : id[n] # i]_vars

\* A stream that is to be saved is being recorded again and again, whatever fails,
\* until the camera is disabled or the program ends.
SavedStreamsComeBack ==
  \A i \in Saved : []<>(CameraStopping \/ crashed \/ \E n \in writer : id[n] = i /\ pc[n] = "loop")

\* A request gets its caster or an end: no handler waits for ever for a stream,
\* a monitor or a mutex.
RequestsAreAnswered ==
  \A h \in Handlers : pc[h] = "scan" ~> pc[h] \in {"watch", "left"} \/ crashed

\* The end of the context ends the camera's task and the streams', also those that
\* are trying to connect.
InterruptEndsCamera ==
  ctxDone ~> crashed \/ (pc[Camera] = "ended" /\ \A n \in Nodes : pc[n] \in {"none", "ended"})
============================================================================
