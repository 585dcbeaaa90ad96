---------------------------- MODULE DvripMonitor ----------------------------
(***************************************************************************)
(* The monitor of a DVRIP camera: dvr/client.go, dvr/monitor.go, dvr/packet *)
(* and dvr/frame.  One goroutine, the stream's task, makes the monitor     *)
(* (dial and log in), calls GetFrame until it fails or the stream stops,   *)
(* and shuts the monitor down.  The camera and the clock are its           *)
(* environment.                                                            *)
(*                                                                         *)
(* The camera cuts a frame into packets and sends its replies to commands  *)
(* on the same connection, also between the packets of a frame.  The first *)
(* cell of a frame is its header, which begins with 00 00 01; no other     *)
(* cell does, and no octet within a packet looks like the flag a packet    *)
(* begins with.  The unit of time is the second, the unit of lastKeepAlive.*)
(***************************************************************************)
EXTENDS Integers, Sequences, SequencesExt

CONSTANTS
  FullSize,    \* 16384: the size of a packet that is not a frame's last
  OtherSize,   \* 8192: the other such size
  Benign,      \* 168: a frame may be so much longer than its header says
  Shapes,      \* the frames a camera may send: [kind, rate, sizes, says]
  MaxFrames,   \* bound: frames sent
  Intervals,   \* the AliveIntervals a camera may ask for
  ByteValues,  \* 256: what an uint8 wraps at
  MaxSilence   \* bound: seconds without a ping

KnownKinds == {"I", "P", "Audio", "Picture", "Info"}

\* A packet that is not the last one of its frame has one of the two sizes;
\* a frame has a header and something in it.
ASSUME DvripAssumption ==
  /\ FullSize \in Nat /\ OtherSize \in 1 .. FullSize - 1 /\ Benign \in Nat \ {0} /\ MaxFrames \in Nat
  /\ \A s \in Shapes :
       /\ s.sizes \in Seq(1 .. FullSize) /\ s.sizes # <<>> /\ s.says \in Nat
       /\ \A i \in 1 .. Len(s.sizes) - 1 : s.sizes[i] \in {OtherSize, FullSize}
  /\ Shapes # {} /\ ByteValues \in Nat /\ Intervals \subseteq 1 .. ByteValues - 1
  /\ MaxSilence \in Nat /\ MaxSilence > ByteValues

VARIABLES
  pc,          \* where the task is
  wants,       \* what it reads a packet for: login, claim or frame
  head,        \* the packet whose header has been read
  message,     \* the packets of the message so far
  aligned,     \* the next octet to be read begins a packet
  err,         \* how the last call ended: none, credentials, error
  conn,        \* the connection: none, open, lost, closed
  claimDone,
  pts,         \* me.pts: nil or the frame rate and the place in its cycle
  interval,    \* client.keepAliveInterval
  elapsed,     \* seconds since lastKeepAlivePing
  silent,      \* seconds since the camera was last sent anything
  ticked,      \* the clock has advanced since this packet was asked for
  wire,        \* the packet that has arrived
  owes,        \* camera: the replies it has yet to send
  frames,      \* camera: the shapes of the frames it has begun
  sending,     \* camera: the packets left of the last of them
  cut,         \* history: the frames with a reply between their packets
  delivered    \* history: the frames GetFrame returned

readVars == <<wants, head, message, aligned>>
camVars == <<wire, owes, frames, sending, cut>>
clockVars == <<interval, elapsed, silent, ticked>>
dvripVars == <<pc, readVars, err, conn, claimDone, pts, clockVars, camVars, delivered>>

DvripInit ==
  /\ pc = "new" /\ wants = "login" /\ head = <<>> /\ message = <<>> /\ aligned = TRUE
  /\ err = "none" /\ conn = "none" /\ claimDone = FALSE /\ pts = <<>>
  /\ interval = 0 /\ elapsed = 0 /\ silent = 0 /\ ticked = FALSE
  /\ wire = <<>> /\ owes = <<>> /\ frames = <<>> /\ sending = <<>> /\ cut = {} /\ delivered = <<>>

----------------------------------------------------------------------------
(* Packets and messages *)

Control(code, total, cur, ret) == [code |-> code, total |-> total, cur |-> cur, ret |-> ret, data |-> <<>>]
Media(cells, end) == [code |-> "MONITOR_DATA", total |-> 0, cur |-> end, ret |-> "", data |-> cells]

IsMedia(p) == p.code = "MONITOR_DATA"
IsSingle(p) == IF IsMedia(p) THEN Len(p.data) < FullSize /\ Len(p.data) # OtherSize ELSE p.total < 2
IsLast(p) == IsSingle(p) \/ (IF IsMedia(p) THEN p.cur = 1 ELSE p.total = p.cur + 1)

\* How many cells there are up to the end of each packet.
Ends(sizes) ==
  LET ends[i \in 0 .. Len(sizes)] == IF i = 0 THEN 0 ELSE ends[i - 1] + sizes[i]
  IN  ends

\* The packets of frame number n: its cells <<n, 0>>, <<n, 1>>, ... in order.
PacketsOf(n, sizes) ==
  [i \in DOMAIN sizes |-> Media([j \in 1 .. sizes[i] |-> <<n, Ends(sizes)[i - 1] + j - 1>>],
                                IF i = Len(sizes) THEN 1 ELSE 0)]

\* The data of the message: that of its media packets, in order; of a message
\* that began as a control message, of all packets.
DataOf(packets) == FlattenSeq([i \in DOMAIN packets |-> packets[i].data])

\* GetMessage ends a media message with the last packet or with one that is
\* not media, a control message after as many packets as the first one says.
MessageEnds(packets) ==
  LET last == packets[Len(packets)]  first == packets[1]
  IN  \/ IsSingle(first)
      \/ IsMedia(first) /\ (IsLast(last) \/ ~IsMedia(last))
      \/ ~IsMedia(first) /\ Len(packets) = first.total

WrongOrdinal(packets) ==
  /\ Len(packets) > 1 /\ ~IsMedia(packets[1])
  /\ packets[Len(packets)].cur # Len(packets) - 1

----------------------------------------------------------------------------
(* Durations: whole milliseconds, the longer ones first in each cycle.     *)

Gcd(a, b) == Max({n \in 1 .. b : a % n = 0 /\ b % n = 0})

\* spf = 1000 / fps = loSpf + numerator / denominator, in lowest terms; all
\* of them are stored in an uint8.
NewPTS(fps) ==
  LET g == Gcd(1000 % fps, fps)
  IN  [FPS |-> fps, loSpf |-> (1000 \div fps) % 256, currentIndex |-> 1,
       numerator |-> ((1000 % fps) \div g) % 256, denominator |-> (fps \div g) % 256]

\* A round spf has numerator 0 and denominator 1.
NextDuration(p) == IF p.currentIndex <= p.numerator THEN p.loSpf + 1 ELSE p.loSpf

\* Mutant: the cycle is one frame too long.
AdvanceLate(p) ==
  [p EXCEPT !.currentIndex = IF @ > p.denominator THEN 1 ELSE @ + 1]

Advance(p) ==
  [p EXCEPT !.currentIndex = IF @ = p.denominator THEN 1 ELSE @ + 1]

----------------------------------------------------------------------------
(* NewMonitor: dial and log in *)

Sent(reply) == /\ owes' = Append(owes, reply) /\ silent' = 0

Expect(what) == /\ pc' = "header" /\ wants' = what /\ message' = <<>> /\ ticked' = FALSE

Fail(e) == /\ pc' = "failed" /\ err' = e

\* The connection is refused or times out; NewMonitor fails.
DialFails ==
  /\ pc = "new" /\ pc' = "ended" /\ err' = "error"
  /\ UNCHANGED <<readVars, conn, claimDone, pts, clockVars, camVars, delivered>>

\* send(LOGIN_REQ)
Dial ==
  /\ pc = "new" /\ conn' = "open" /\ Expect("login") /\ Sent("LOGIN_RSP")
  /\ UNCHANGED <<head, aligned, err, claimDone, pts, interval, elapsed, wire, frames, sending, cut, delivered>>

\* NewClient returns the error of Login and forgets the connection, which
\* stays open.
LoginFails(e) ==
  /\ pc' = "ended" /\ err' = e
  /\ UNCHANGED <<interval, message, wants>>

\* Login takes one packet, whatever its total.
LoginAnswered(p) ==
  \/ (p.code # "LOGIN_RSP" \/ p.ret \in {"", "refused"}) /\ LoginFails("error")
  \/ p.code = "LOGIN_RSP" /\ p.ret = "password" /\ LoginFails("credentials")
  \/ /\ p.code = "LOGIN_RSP" /\ p.ret = "ok"
     /\ interval' \in Intervals /\ pc' = "idle" /\ UNCHANGED <<err, message, wants>>

----------------------------------------------------------------------------
(* GetFrame *)

\* Monitor claims the stream first; a command that cannot be sent fails it.
Claim ==
  /\ pc = "idle" /\ ~claimDone
  /\ \/ conn = "open" /\ Expect("claim") /\ Sent("CLAIM_RSP") /\ UNCHANGED err
     \/ conn = "lost" /\ Fail("error") /\ UNCHANGED <<wants, message, owes, silent, ticked>>
  /\ UNCHANGED <<head, aligned, conn, claimDone, pts, interval, elapsed, wire, frames, sending, cut, delivered>>

\* Any message is taken for the answer to the claim, and the start command is
\* sent; the camera answers that one with frames.
Claimed ==
  \/ /\ conn = "open" /\ claimDone' = TRUE /\ silent' = 0 /\ pc' = "raw" /\ UNCHANGED err
  \/ /\ conn = "lost" /\ Fail("error") /\ UNCHANGED <<claimDone, silent>>

NextFrame ==
  /\ pc = "idle" /\ claimDone
  /\ pc' = "raw" /\ ticked' = FALSE
  /\ UNCHANGED <<readVars, err, conn, claimDone, pts, interval, elapsed, silent, camVars, delivered>>

\* Mutant: the ping comes after twice the interval.
PingIsDueLate == elapsed % ByteValues > 2 * interval + 1

\* uint8(now - lastKeepAlivePing) > keepAliveInterval
PingIsDue == elapsed % ByteValues > interval

\* getRawFrame pings first; a ping that cannot be sent is tried again before
\* the next message.
GetRawFrame ==
  /\ pc = "raw"
  /\ IF PingIsDue /\ conn = "open" THEN Sent("KEEPALIVE_RSP") /\ elapsed' = 0
                                   ELSE UNCHANGED <<owes, silent, elapsed>>
  /\ Expect("frame")
  /\ UNCHANGED <<head, aligned, err, conn, claimDone, pts, interval, wire, frames, sending, cut, delivered>>

\* What the frame's header says, and the shape of the frame it heads.
Heads(data) == data # <<>> /\ data[1][2] = 0
ShapeOf(data) == frames[data[1][1]]

\* Mutant: the length is not looked at.
LengthFitsAnyway(data) == TRUE

\* The length must be the header's, or longer by Benign.
LengthFits(data) == Len(data) - 1 - ShapeOf(data).says \in {0, Benign}

Return(data, p) ==
  /\ delivered' = Append(delivered, data) /\ pts' = p /\ pc' = "idle" /\ UNCHANGED err

Refuse == Fail("error") /\ UNCHANGED <<delivered, pts>>

Panic == pc' = "crashed" /\ UNCHANGED <<err, delivered, pts>>

\* What GetFrame makes of a whole frame.  An I frame (re)starts the clock when
\* its rate is new; P frames and sound need one.  GetMeta knows the sample rate
\* of sound for one code only, and GetFrame divides by it.
MakeFrame(data) ==
  LET s == ShapeOf(data)
      clock == IF pts = <<>> \/ pts.FPS # s.rate THEN NewPTS(s.rate) ELSE pts
  IN  \/ s.kind = "I" /\ Return(data, Advance(clock))
      \/ s.kind = "P" /\ pts = <<>> /\ Refuse
      \/ s.kind = "P" /\ pts # <<>> /\ Return(data, Advance(pts))
      \/ s.kind = "Audio" /\ pts = <<>> /\ Refuse
      \/ s.kind = "Audio" /\ pts # <<>> /\ s.rate = 0 /\ Panic
      \/ s.kind = "Audio" /\ pts # <<>> /\ s.rate # 0 /\ Return(data, pts)
      \/ s.kind \in {"Picture", "Info"} /\ Return(data, pts)

\* getRawFrame reads on after a reply to a ping and after data that does not
\* begin a frame; a type that TMap does not know is a nil function.
TakeMessage(code, data) ==
  \/ /\ code = "KEEPALIVE_RSP" \/ (code = "MONITOR_DATA" /\ data # <<>> /\ ~Heads(data))
     /\ pc' = "raw" /\ UNCHANGED <<err, delivered, pts>>
  \/ code \notin {"KEEPALIVE_RSP", "MONITOR_DATA"} /\ Refuse
  \/ code = "MONITOR_DATA" /\ data = <<>> /\ Refuse
  \/ /\ code = "MONITOR_DATA" /\ Heads(data)
     /\ \/ ShapeOf(data).kind \notin KnownKinds /\ Panic
        \/ ShapeOf(data).kind \in KnownKinds /\ ~LengthFits(data) /\ Refuse
        \/ ShapeOf(data).kind \in KnownKinds /\ LengthFits(data) /\ MakeFrame(data)

----------------------------------------------------------------------------
(* getPacket *)

\* Octets that do not begin a packet have another HeadFlag.
HeadFlagIsWrong ==
  /\ pc = "header" /\ ~aligned
  /\ IF wants = "login" THEN pc' = "ended" /\ err' = "error" ELSE Fail("error")
  /\ UNCHANGED <<readVars, conn, claimDone, pts, clockVars, camVars, delivered>>

ReadHeader ==
  /\ pc = "header" /\ aligned /\ wire # <<>>
  /\ head' = wire[1] /\ wire' = <<>> /\ pc' = "data"
  /\ UNCHANGED <<wants, message, aligned, err, conn, claimDone, pts, interval, elapsed, silent, ticked,
                 owes, frames, sending, cut, delivered>>

\* One Read may give the beginning of the header only; the rest of the buffer
\* is zero: no data, and no code either unless the code had come.
ShortHeader ==
  /\ pc = "header" /\ aligned /\ wire # <<>>
  /\ head' \in {Control("ZERO", 0, 0, ""), [wire[1] EXCEPT !.data = <<>>, !.ret = ""]}
  /\ aligned' = FALSE /\ wire' = <<>> /\ pc' = "data"
  /\ UNCHANGED <<wants, message, err, conn, claimDone, pts, interval, elapsed, silent, ticked,
                 owes, frames, sending, cut, delivered>>

\* The data is read in full.  What follows depends on what the packet is for.
ReadData ==
  /\ pc = "data" /\ head' = <<>> /\ ticked' = FALSE
  /\ LET packets == Append(message, head)
     IN  \/ /\ wants = "login" /\ LoginAnswered(head)
            /\ UNCHANGED <<claimDone, pts, delivered, silent>>
         \/ /\ wants # "login" /\ WrongOrdinal(packets)
            /\ Fail("error") /\ UNCHANGED <<claimDone, pts, delivered, silent, interval, message, wants>>
         \/ /\ wants # "login" /\ ~WrongOrdinal(packets) /\ ~MessageEnds(packets)
            /\ message' = packets /\ pc' = "header"
            /\ UNCHANGED <<err, claimDone, pts, delivered, silent, interval, wants>>
         \/ /\ wants = "claim" /\ ~WrongOrdinal(packets) /\ MessageEnds(packets) /\ Claimed
            /\ message' = <<>> /\ UNCHANGED <<pts, delivered, interval, wants>>
         \/ /\ wants = "frame" /\ ~WrongOrdinal(packets) /\ MessageEnds(packets)
            /\ TakeMessage(head.code, DataOf(packets))
            /\ message' = <<>> /\ UNCHANGED <<claimDone, silent, interval, wants>>
  /\ UNCHANGED <<aligned, conn, elapsed, camVars>>

\* Mutant: no deadline is set for the header.
TimeoutForData ==
  /\ pc = "data" /\ (head.data # <<>> \/ head.ret # "")
  /\ IF wants = "login" THEN pc' = "ended" /\ err' = "error" ELSE Fail("error")
  /\ UNCHANGED <<readVars, conn, claimDone, pts, clockVars, camVars, delivered>>

\* Nothing, or not all of the data, comes within ReadTimeout.
Timeout ==
  /\ \/ pc = "header" /\ aligned /\ wire = <<>>
     \/ pc = "data" /\ (head.data # <<>> \/ head.ret # "")
  /\ IF wants = "login" THEN pc' = "ended" /\ err' = "error" ELSE Fail("error")
  /\ UNCHANGED <<readVars, conn, claimDone, pts, clockVars, camVars, delivered>>

\* After a failure, or when it is told to stop between two frames, the
\* stream's task shuts the monitor down.
ShutDown ==
  /\ pc \in {"failed", "idle"}
  /\ pc' = "ended" /\ conn' = "closed"
  /\ UNCHANGED <<readVars, err, claimDone, pts, clockVars, camVars, delivered>>

----------------------------------------------------------------------------
(* The camera, the network and the clock *)

Streaming == claimDone /\ conn = "open"

\* A new frame, or the next packet of the one being sent.
CameraSends ==
  /\ Streaming /\ wire = <<>>
  /\ \/ /\ sending = <<>> /\ Len(frames) < MaxFrames
        /\ \E s \in Shapes : LET p == PacketsOf(Len(frames) + 1, s.sizes)
                             IN  /\ frames' = Append(frames, s)
                                 /\ wire' = <<Head(p)>> /\ sending' = Tail(p)
     \/ /\ sending # <<>>
        /\ wire' = <<Head(sending)>> /\ sending' = Tail(sending) /\ UNCHANGED frames
  /\ UNCHANGED <<pc, readVars, err, conn, claimDone, pts, clockVars, owes, cut, delivered>>

\* The reply to the claim may come in two packets.
ReplyPackets(r) ==
  IF r = "LOGIN_RSP" THEN {<<Control(r, 0, 0, ret)>> : ret \in {"ok", "password", "refused"}}
  ELSE IF r = "CLAIM_RSP" THEN {<<Control(r, 1, 0, "ok")>>, <<Control(r, 2, 0, "ok"), Control(r, 2, 1, "ok")>>}
  ELSE {<<Control(r, 0, 0, "ok")>>}

CameraReplies ==
  /\ conn = "open" /\ wire = <<>> /\ owes # <<>>
  /\ \E p \in ReplyPackets(owes[1]) : wire' = <<p[1]>> /\ sending' = Tail(p) \o sending
  /\ owes' = Tail(owes)
  /\ cut' = IF sending = <<>> THEN cut ELSE cut \cup {Len(frames)}
  /\ UNCHANGED <<pc, readVars, err, conn, claimDone, pts, clockVars, frames, delivered>>

\* The rest of a reply follows when no frame is sent yet.
ReplyGoesOn ==
  /\ conn = "open" /\ ~claimDone /\ wire = <<>> /\ sending # <<>>
  /\ wire' = <<sending[1]>> /\ sending' = Tail(sending)
  /\ UNCHANGED <<pc, readVars, err, conn, claimDone, pts, clockVars, owes, frames, cut, delivered>>

ConnectionLost ==
  /\ conn = "open" /\ conn' = "lost" /\ wire' = <<>>
  /\ UNCHANGED <<pc, readVars, err, claimDone, pts, clockVars, owes, frames, sending, cut, delivered>>

\* The two waits for a packet take half a second each, so the clock advances
\* at most once; and at most once, too, between two calls of GetFrame.
Tick ==
  /\ pc \in {"header", "data", "idle"} /\ ~ticked /\ elapsed < MaxSilence
  /\ ticked' = TRUE /\ elapsed' = elapsed + 1 /\ silent' = silent + 1
  /\ UNCHANGED <<pc, readVars, err, conn, claimDone, pts, interval, camVars, delivered>>

DvripTask ==
  \/ DialFails \/ Dial \/ Claim \/ NextFrame \/ GetRawFrame
  \/ HeadFlagIsWrong \/ ReadHeader \/ ShortHeader \/ ReadData \/ Timeout \/ ShutDown

DvripNext == DvripTask \/ CameraSends \/ CameraReplies \/ ReplyGoesOn \/ ConnectionLost \/ Tick
=============================================================================
