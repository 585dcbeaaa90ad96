----------------------------- MODULE WebClient -----------------------------
(***************************************************************************)
(* One browser connection: the Client node of webcast/client.go.  The      *)
(* goroutines that share it are                                            *)
(*   handler   videoChunkHandler, called by the node for each chunk;       *)
(*   task      wsHandler, the node's task;                                 *)
(*   receiver  the loop that wsHandler starts to read from the browser;    *)
(*   stoppers  the stopAndClose goroutines that failing writes start;      *)
(*   parent    the caster or the server, which may Stop the node.          *)
(* They share c.ws, c.started, the mutex wsWriteMutex and two unbuffered   *)
(* channels.  Node.Stop comes from server_client_hierarchy; it is modelled *)
(* as it is used: the first call hands the stop command to the task and    *)
(* waits until the task takes it, a later one returns at once, and with    *)
(* AllowAbruptStop it does not wait for the chunk handler.                 *)
(***************************************************************************)
EXTENDS Naturals, Sequences

CONSTANTS
  Stoppers,      \* the goroutines available to failing writes (a bound)
  Nobody,        \* the owner of a free mutex
  MaxChunks,     \* bound: chunks that reach the handler
  MaxResets,     \* bound: reset messages of the browser
  MaxFailures    \* bound: writes that miss their deadline on a live connection

ASSUME WebClientAssumption ==
  /\ Stoppers # {} /\ Stoppers \cap {"handler", "task", "receiver", "parent"} = {}
  /\ Nobody \notin Stoppers \cup {"handler", "task", "receiver", "parent"}
  /\ MaxChunks \in Nat /\ MaxResets \in Nat /\ MaxFailures \in Nat

VARIABLES
  pc,         \* where each goroutine is
  mutex,      \* who holds wsWriteMutex
  ws,         \* is c.ws set
  conn,       \* the connection: open, gone (browser left), closed (by us)
  closing,    \* is a ws.Close goroutine under way
  ctxDone, stopping,
  started, wsReady,
  chunk,      \* is the chunk in hand a key frame
  muxer,      \* c.muxer: its generation and the index of its last fragment
  msg,        \* per writer, the message it is writing
  message, err,   \* locals of the receiver
  wire,       \* history: what the browser was sent
  chunks, resets, failures

nodeVars == <<ctxDone, stopping, started, wsReady, chunk, muxer>>
vars == <<pc, mutex, ws, conn, closing, nodeVars, msg, message, err, wire,
          chunks, resets, failures>>

Procs == {"handler", "task", "receiver", "parent"} \cup Stoppers
Writers == {"handler", "receiver"}

PCs == {"idle", "awaitReady", "route", "lockInit", "check", "lockFrag",     \* handler
        "write", "send",                                                    \* writeToWS
        "begin", "select", "awaitStop",                                     \* task
        "receive", "lockReset",                                             \* receiver
        "seeWs", "lockClose", "callStop", "stop", "done"}                   \* stopAndClose

Cut == [kind |-> "cut", gen |-> 0, index |-> 0]
InitPayload(g) == [kind |-> "init", gen |-> g, index |-> 0]
Fragment(m) == [kind |-> "frag", gen |-> m.gen, index |-> m.index]

Goto(p, where) == pc' = [pc EXCEPT ![p] = where]

Init ==
  /\ pc = [p \in Procs |-> IF p = "task" THEN "begin" ELSE "idle"]
  /\ mutex = Nobody /\ ws = FALSE /\ conn = "open" /\ closing = FALSE
  /\ ctxDone = FALSE /\ stopping = FALSE /\ started = FALSE /\ wsReady = FALSE
  /\ chunk = FALSE /\ muxer = [gen |-> 0, index |-> 0]
  /\ msg = [w \in Writers |-> Cut] /\ message = "" /\ err = FALSE
  /\ wire = <<>> /\ chunks = 0 /\ resets = 0 /\ failures = 0

----------------------------------------------------------------------------
(* videoChunkHandler *)

\* The node hands the next chunk to the handler, until the client has ended.
TakeChunk ==
  /\ pc["handler"] = "idle" /\ pc["task"] # "done"
  /\ chunks < MaxChunks /\ chunks' = chunks + 1
  /\ chunk' \in BOOLEAN
  /\ Goto("handler", IF wsReady THEN "route" ELSE "awaitReady")
  /\ UNCHANGED <<mutex, ws, conn, closing, ctxDone, stopping, started, wsReady, muxer, msg,
                 message, err, wire, resets, failures>>

\* wsHandler's send on wsReadyChannel meets the handler's receive.
Ready ==
  /\ pc["task"] = "select" /\ pc["handler"] = "awaitReady"
  /\ wsReady' = TRUE
  /\ pc' = [pc EXCEPT !["task"] = "awaitStop", !["handler"] = "route"]
  /\ UNCHANGED <<mutex, ws, conn, closing, ctxDone, stopping, started, chunk, muxer, msg,
                 message, err, wire, chunks, resets, failures>>

\* A key frame on a client that is not started gets a new muxer.
Route ==
  /\ pc["handler"] = "route"
  /\ IF chunk /\ ~started
     THEN muxer' = [gen |-> muxer.gen + 1, index |-> 0] /\ Goto("handler", "lockInit")
     ELSE UNCHANGED muxer /\ Goto("handler", "check")
  /\ UNCHANGED <<mutex, ws, conn, closing, ctxDone, stopping, started, wsReady, chunk, msg,
                 message, err, wire, chunks, resets, failures>>

LockForInit ==
  /\ pc["handler"] = "lockInit" /\ mutex = Nobody
  /\ mutex' = "handler" /\ started' = TRUE
  /\ msg' = [msg EXCEPT !["handler"] = InitPayload(muxer.gen)]
  /\ Goto("handler", "write")
  /\ UNCHANGED <<ws, conn, closing, ctxDone, stopping, wsReady, chunk, muxer,
                 message, err, wire, chunks, resets, failures>>

\* Line 80 reads c.started before the lock of line 81 is taken.
CheckStarted ==
  /\ pc["handler"] = "check"
  /\ Goto("handler", IF started THEN "lockFrag" ELSE "idle")
  /\ UNCHANGED <<mutex, ws, conn, closing, nodeVars, msg, message, err, wire,
                 chunks, resets, failures>>

LockForFragment ==
  /\ pc["handler"] = "lockFrag" /\ mutex = Nobody
  /\ mutex' = "handler"
  /\ muxer' = [muxer EXCEPT !.index = @ + 1]
  /\ msg' = [msg EXCEPT !["handler"] = Fragment(muxer')]
  /\ Goto("handler", "write")
  /\ UNCHANGED <<ws, conn, closing, ctxDone, stopping, started, wsReady, chunk,
                 message, err, wire, chunks, resets, failures>>

----------------------------------------------------------------------------
(* writeToWS, called with the mutex held; it unlocks when it returns. *)

\* Where the caller goes on.
AfterWrite(w) ==
  IF w = "receiver" THEN (IF err THEN "seeWs" ELSE "receive")
  ELSE IF msg[w].kind = "init" THEN "check" ELSE "idle"

WriteFindsNoWs(w) ==
  /\ pc[w] = "write" /\ ~ws
  /\ mutex' = Nobody
  /\ Goto(w, AfterWrite(w))
  /\ UNCHANGED <<ws, conn, closing, nodeVars, msg, message, err, wire,
                 chunks, resets, failures>>

WriteFindsWs(w) ==
  /\ pc[w] = "write" /\ ws
  /\ Goto(w, "send")
  /\ UNCHANGED <<mutex, ws, conn, closing, nodeVars, msg, message, err, wire,
                 chunks, resets, failures>>

SendSucceeds(w) ==
  /\ pc[w] = "send" /\ conn = "open"
  /\ wire' = Append(wire, msg[w])
  /\ mutex' = Nobody
  /\ Goto(w, AfterWrite(w))
  /\ UNCHANGED <<ws, conn, closing, nodeVars, msg, message, err, chunks, resets, failures>>

\* The write misses its deadline or the connection is dead: a goroutine is
\* started to stop the client.  When all the stoppers of the model are busy one
\* more is left out: it would find c.ws cleared and Stop called.
SendFails(w) ==
  /\ pc[w] = "send"
  /\ \/ conn # "open" /\ UNCHANGED failures
     \/ conn = "open" /\ failures < MaxFailures /\ failures' = failures + 1
  /\ \/ \E s \in Stoppers :
            /\ pc[s] = "idle"
            /\ pc' = [pc EXCEPT ![w] = AfterWrite(w), ![s] = "seeWs"]
     \/ /\ \A s \in Stoppers : pc[s] # "idle"
        /\ Goto(w, AfterWrite(w))
  /\ mutex' = Nobody
  /\ UNCHANGED <<ws, conn, closing, nodeVars, msg, message, err, wire, chunks, resets>>

----------------------------------------------------------------------------
(* The receiver loop of wsHandler.  A failing Receive leaves message as it *)
(* was, so after a reset it is taken for one more.                         *)

ReceiveReset ==
  /\ pc["receiver"] = "receive" /\ conn = "open"
  /\ resets < MaxResets /\ resets' = resets + 1
  /\ message' = "reset"
  /\ Goto("receiver", "lockReset")
  /\ UNCHANGED <<mutex, ws, conn, closing, nodeVars, msg, err, wire, chunks, failures>>

ReceiveError ==
  /\ pc["receiver"] = "receive" /\ conn # "open"
  /\ err' = TRUE
  /\ Goto("receiver", IF message = "reset" THEN "lockReset" ELSE "seeWs")
  /\ UNCHANGED <<mutex, ws, conn, closing, nodeVars, msg, message, wire,
                 chunks, resets, failures>>

\* Mutant: the reset leaves c.started as it is.
LockForResetKeepsStarted ==
  /\ pc["receiver"] = "lockReset" /\ mutex = Nobody
  /\ mutex' = "receiver"
  /\ msg' = [msg EXCEPT !["receiver"] = Cut]
  /\ Goto("receiver", "write")
  /\ UNCHANGED <<ws, conn, closing, nodeVars, message, err, wire, chunks, resets, failures>>

LockForReset ==
  /\ pc["receiver"] = "lockReset" /\ mutex = Nobody
  /\ mutex' = "receiver" /\ started' = FALSE
  /\ msg' = [msg EXCEPT !["receiver"] = Cut]
  /\ Goto("receiver", "write")
  /\ UNCHANGED <<ws, conn, closing, ctxDone, stopping, wsReady, chunk, muxer,
                 message, err, wire, chunks, resets, failures>>

----------------------------------------------------------------------------
(* wsHandler *)

Begin ==
  /\ pc["task"] = "begin"
  /\ ws' = TRUE
  /\ pc' = [pc EXCEPT !["task"] = "select", !["receiver"] = "receive"]
  /\ UNCHANGED <<mutex, conn, closing, nodeVars, msg, message, err, wire,
                 chunks, resets, failures>>

SelectCtxDone ==
  /\ pc["task"] = "select" /\ ctxDone
  /\ Goto("task", "awaitStop")
  /\ UNCHANGED <<mutex, ws, conn, closing, nodeVars, msg, message, err, wire,
                 chunks, resets, failures>>

----------------------------------------------------------------------------
(* stopAndClose, run by the receiver, by a stopper and, deferred, by the   *)
(* task; the parent calls Stop directly.                                   *)

Finished(p) == IF p \in Stoppers THEN "idle" ELSE "done"

\* The read of c.ws outside the mutex.
SeeWs(p) ==
  /\ pc[p] = "seeWs"
  /\ Goto(p, IF ws THEN "lockClose" ELSE "callStop")
  /\ UNCHANGED <<mutex, ws, conn, closing, nodeVars, msg, message, err, wire,
                 chunks, resets, failures>>

\* Mutant: c.ws is cleared without taking the mutex.
CloseWithoutLock(p) ==
  /\ pc[p] = "lockClose"
  /\ ws' = FALSE /\ closing' = (closing \/ ws)
  /\ Goto(p, "callStop")
  /\ UNCHANGED <<mutex, conn, nodeVars, msg, message, err, wire, chunks, resets, failures>>

LockAndClose(p) ==
  /\ pc[p] = "lockClose" /\ mutex = Nobody
  /\ mutex' = p
  /\ ws' = FALSE /\ closing' = (closing \/ ws)
  /\ Goto(p, "callStop")
  /\ UNCHANGED <<conn, nodeVars, msg, message, err, wire, chunks, resets, failures>>

\* The deferred unlock runs when stopAndClose returns, after Stop.
Unlock(p) == mutex' = IF mutex = p THEN Nobody ELSE mutex

StopAlreadyCalled(p) ==
  /\ pc[p] = "callStop" /\ stopping
  /\ Unlock(p)
  /\ Goto(p, Finished(p))
  /\ UNCHANGED <<ws, conn, closing, nodeVars, msg, message, err, wire,
                 chunks, resets, failures>>

CallStop(p) ==
  /\ pc[p] = "callStop" /\ ~stopping
  /\ stopping' = TRUE
  /\ Goto(p, "stop")
  /\ UNCHANGED <<mutex, ws, conn, closing, ctxDone, started, wsReady, chunk, muxer, msg,
                 message, err, wire, chunks, resets, failures>>

\* Mutant: Stop flushes the chunk queue before it returns (no AllowAbruptStop).
StopTakenAfterFlush(p) ==
  /\ pc[p] = "stop" /\ pc["task"] \in {"select", "awaitStop"} /\ pc["handler"] = "idle"
  /\ Unlock(p)
  /\ pc' = [pc EXCEPT ![p] = Finished(p), !["task"] = "seeWs"]
  /\ UNCHANGED <<ws, conn, closing, nodeVars, msg, message, err, wire,
                 chunks, resets, failures>>

\* Mutant: wsHandler does not defer stopAndClose.
StopTakenTaskReturns(p) ==
  /\ pc[p] = "stop" /\ pc["task"] \in {"select", "awaitStop"}
  /\ Unlock(p)
  /\ pc' = [pc EXCEPT ![p] = Finished(p), !["task"] = "done"]
  /\ UNCHANGED <<ws, conn, closing, nodeVars, msg, message, err, wire,
                 chunks, resets, failures>>

\* The stop command reaches the task, which returns from wsHandler.
StopTaken(p) ==
  /\ pc[p] = "stop" /\ pc["task"] \in {"select", "awaitStop"}
  /\ Unlock(p)
  /\ pc' = [pc EXCEPT ![p] = Finished(p), !["task"] = "seeWs"]
  /\ UNCHANGED <<ws, conn, closing, nodeVars, msg, message, err, wire,
                 chunks, resets, failures>>

\* The goroutine of ws.Close.
CloseConn ==
  /\ closing
  /\ closing' = FALSE /\ conn' = "closed"
  /\ UNCHANGED <<pc, mutex, ws, nodeVars, msg, message, err, wire, chunks, resets, failures>>

----------------------------------------------------------------------------
(* The surroundings *)

BrowserLeaves ==
  /\ conn = "open" /\ conn' = "gone"
  /\ UNCHANGED <<pc, mutex, ws, closing, nodeVars, msg, message, err, wire,
                 chunks, resets, failures>>

ContextEnds ==
  /\ ~ctxDone /\ ctxDone' = TRUE
  /\ UNCHANGED <<pc, mutex, ws, conn, closing, stopping, started, wsReady, chunk, muxer, msg,
                 message, err, wire, chunks, resets, failures>>

ParentStops ==
  /\ pc["parent"] = "idle"
  /\ Goto("parent", "callStop")
  /\ UNCHANGED <<mutex, ws, conn, closing, nodeVars, msg, message, err, wire,
                 chunks, resets, failures>>

WriteStep(w) ==
  WriteFindsNoWs(w) \/ WriteFindsWs(w) \/ SendSucceeds(w) \/ SendFails(w)

Handler == Route \/ LockForInit \/ CheckStarted \/ LockForFragment \/ WriteStep("handler")

Receiver == ReceiveError \/ LockForReset \/ WriteStep("receiver")

Task == Begin \/ Ready \/ SelectCtxDone

StopStep(p) ==
  SeeWs(p) \/ LockAndClose(p) \/ StopAlreadyCalled(p) \/ CallStop(p) \/ StopTaken(p)

Next ==
  \/ TakeChunk \/ Handler \/ ReceiveReset \/ Receiver \/ Task \/ CloseConn
  \/ \E p \in Procs \ {"handler"} : StopStep(p)
  \/ BrowserLeaves \/ ContextEnds \/ ParentStops

Spec == Init /\ [][Next]_vars

\* Each goroutine that can run does; one that waits for the mutex, which others
\* take and release meanwhile, gets it in the end (Go's mutex does not starve):
\* that is why its fairness is strong.  Nothing makes the browser send or leave,
\* the caster send chunks or anyone stop the client.
Fairness ==
  /\ SF_vars(Handler) /\ SF_vars(Receiver) /\ WF_vars(Task) /\ WF_vars(CloseConn)
  /\ \A p \in Procs \ {"handler"} : SF_vars(StopStep(p))

FairSpec == Spec /\ Fairness

----------------------------------------------------------------------------
(* Properties *)

FragmentsAreInOrder ==
  failures = 0 =>
    \A i \in DOMAIN wire : wire[i].kind = "frag" =>
      \E j \in 1 .. i - 1 :
        /\ wire[j].gen = wire[i].gen
        /\ wire[j].kind = IF wire[i].index = 1 THEN "init" ELSE "frag"
        /\ wire[i].index # 1 => wire[j].index = wire[i].index - 1
        /\ \A k \in j + 1 .. i - 1 : wire[k].kind = "cut"

AtMostOneStaleFragment ==
  failures = 0 => \A i \in DOMAIN wire : wire[i].kind = "cut" =>
    \A j, k \in i + 1 .. Len(wire) :
      j < k /\ wire[j].kind = "frag" /\ wire[k].kind = "frag" =>
        \E n \in i + 1 .. k - 1 : wire[n].kind = "init"

\* What the browser gets from one muxer is its init payload and then its
\* fragments, numbered from 1 without a gap (cut-off bytes aside), as long as no
\* write missed its deadline.  Between a cut-off byte and the next init payload
\* at most one fragment slips through: the one whose c.started was read before
\* the reset took the mutex.
FragmentsFollowTheirInit == FragmentsAreInOrder /\ AtMostOneStaleFragment

SenderHasConnection == \A w \in Writers : pc[w] = "send" => ws

MutexIsHeldByItsUser ==
  \A p \in Procs :
    (pc[p] \in {"write", "send"} => mutex = p) /\
    (mutex = p => pc[p] \in {"write", "send", "callStop", "stop"})

\* wsWriteMutex does what it is for: only goroutines inside writeToWS or
\* stopAndClose hold it, writers do, and c.ws is not cleared under a writer that
\* has tested it.
MutexProtectsConnection == MutexIsHeldByItsUser /\ SenderHasConnection

\* A client whose task has returned sends nothing more.
EndedClientIsSilent == [][pc["task"] = "done" => wire' = wire]_vars

StopReturns ==
  (\E p \in Procs : pc[p] = "stop") /\ pc["task"] # "begin"
    ~> \A p \in Procs : pc[p] # "stop"

DisconnectEndsClient == conn = "gone" ~> pc["task"] = "done"

\* Every call of Stop on a running client returns, although stopAndClose makes
\* it with wsWriteMutex held and the handler may be waiting for that mutex; and a
\* browser that leaves ends the client.
EveryStopReturns == StopReturns /\ DisconnectEndsClient

============================================================================
