------------------------------- MODULE Pomelo -------------------------------
(***************************************************************************)
(* A WebSocket step that speaks the Pomelo protocol: executePomeloWS and   *)
(* pomelo.Client.  Three goroutines share one connection: the step itself, *)
(* the heartbeat loop that Dial starts, and the watcher that closes the    *)
(* connection when the context is done.  The server is the environment: it *)
(* answers, pushes, batches packets into a frame, kicks, hangs up or says  *)
(* nothing.                                                                *)
(*                                                                         *)
(* A body is "ok" or "off": whether it satisfies the expectation and the   *)
(* assertions of a round (or, in a handshake, whether the code is 200).    *)
(* "empty" is a data packet without a body.                                *)
(***************************************************************************)
EXTENDS Integers, Sequences

CONSTANTS
    Configs,      \* the cfg.Messages a step may have: sequences of rounds
    Window,       \* frames the connection holds in each direction
    MaxTicks,     \* bound on the ticks of the heartbeat's ticker
    MaxExtras     \* bound on what the server sends unasked

(* Whether a round sends, and as a request; whether it has expectations,   *)
(* captures and assertions.                                                *)
RoundType == [send : BOOLEAN, request : BOOLEAN, expect : BOOLEAN,
              captures : BOOLEAN, asserts : BOOLEAN]

(* A round that neither sends nor asks for anything is skipped; any other  *)
(* waits for a message.                                                    *)
Waits(r) == r.send \/ r.expect \/ r.captures \/ r.asserts

ASSUME ConfigAssumption == Configs \subseteq Seq(RoundType) /\ Configs # {}
ASSUME BoundAssumption  ==
    /\ Window \in Nat \ {0}
    /\ MaxTicks \in Nat
    /\ MaxExtras \in Nat

VARIABLES
    cfg,      \* the rounds of this step
    pc,       \* where the step's goroutine is
    round,    \* index of the current round
    reqID,    \* id returned by the round's Send
    nextID,   \* Client.nextID
    frame,    \* packets of the frame Recv is going through
    msg,      \* the message Recv returned
    got,      \* the messages the rounds were satisfied with
    verdict,  \* StepResult.Status, with what decided it
    ctx,      \* the step's context: live, deadline or cancelled
    open,     \* the connection has not been closed on this side
    beat,     \* the heartbeat goroutine
    watcher,  \* the goroutine that waits for ctx.Done
    hbDone,   \* Client.cancel has been called
    mu,       \* holder of writeMu
    wpc,      \* each writer's place in writeRaw
    out,      \* the packet each writer wants to send
    werr,     \* the error of each writer's last write
    up, down, \* frames on their way to and from the server
    hungUp,   \* the server has closed the connection
    ticks,    \* ticks so far
    extras    \* unasked packets so far

step   == <<cfg, pc, round, reqID, nextID, frame, msg, got, verdict>>
helper == <<beat, watcher, hbDone>>
writer == <<mu, wpc, out, werr>>
server == <<down, hungUp, extras>>
vars   == <<cfg, pc, round, reqID, nextID, frame, msg, got, verdict, ctx, open,
            beat, watcher, hbDone, mu, wpc, out, werr, up, down, hungUp, ticks,
            extras>>

(* The two goroutines that write.                                          *)
Step    == "step"
Beat    == "beat"
Writers == {Step, Beat}
Nobody  == "nobody"

Kinds  == {"handshake", "ack", "heartbeat", "data", "kick"}
Types  == {"none", "request", "notify", "response", "push"}
Bodies == {"ok", "off", "empty"}
(* "about" is the round a data packet belongs to; no byte of the protocol. *)
Packets == [kind : Kinds, type : Types, id : Nat, body : Bodies, about : Nat]
Packet(kind, body) ==
    [kind |-> kind, type |-> "none", id |-> 0, body |-> body, about |-> 0]
Data(type, id, body, about) ==
    [kind |-> "data", type |-> type, id |-> id, body |-> body, about |-> about]
Nothing == Packet("heartbeat", "ok")

PCs == {"dial", "handshake", "acked", "round", "sent", "recv",
        "scan", "echoed", "match", "closing", "cancelling", "returned"}
Verdicts == [status : {"success", "failed", "timeout", "panic"},
             cause  : {"none", "dial", "send", "recv", "kick", "assert", "decode"}]

Round   == cfg[round]
HasRecv == Waits(Round)
Asked   == Round.request /\ Round.send
Done    == ctx # "live"

Init ==
    /\ cfg \in Configs
    /\ pc = "dial" /\ round = 1 /\ reqID = 0 /\ nextID = 0
    /\ frame = <<>> /\ msg = Nothing /\ got = <<>>
    /\ verdict = [status |-> "success", cause |-> "none"]
    /\ ctx = "live" /\ open = FALSE
    /\ beat = "off" /\ watcher = "off" /\ hbDone = FALSE
    /\ mu = Nobody
    /\ wpc  = [w \in Writers |-> "idle"]
    /\ out  = [w \in Writers |-> Nothing]
    /\ werr = [w \in Writers |-> FALSE]
    /\ up = <<>> /\ down = <<>> /\ hungUp = FALSE
    /\ ticks = 0 /\ extras = 0

(***************************************************************************)
(* writeRaw, for the two writers: take writeMu, write, give it back.  A    *)
(* write blocks while the connection is full and fails once it is closed   *)
(* on either side.                                                         *)
(***************************************************************************)
(* w asks for a write.                                                     *)
BeginWrite(w, packet) ==
    /\ wpc' = [wpc EXCEPT ![w] = "want"]
    /\ out' = [out EXCEPT ![w] = packet]
    /\ UNCHANGED <<mu, werr>>

(* Seeded fault: writeRaw does not lock.                                   *)
LockWriteNot(w) ==
    /\ wpc[w] = "want"
    /\ mu' = w
    /\ wpc' = [wpc EXCEPT ![w] = "in"]
    /\ UNCHANGED <<step, ctx, open, helper, out, werr, up, server, ticks>>

LockWrite(w) ==
    /\ wpc[w] = "want"
    /\ mu = Nobody
    /\ mu' = w
    /\ wpc' = [wpc EXCEPT ![w] = "in"]
    /\ UNCHANGED <<step, ctx, open, helper, out, werr, up, server, ticks>>

EndWrite(w, failed) ==
    /\ wpc' = [wpc EXCEPT ![w] = "idle"]
    /\ werr' = [werr EXCEPT ![w] = failed]
    /\ mu' = Nobody
    /\ UNCHANGED <<step, ctx, open, helper, out, server, ticks>>

Write(w) ==
    /\ wpc[w] = "in"
    /\ open
    /\ Len(up) < Window
    /\ up' = Append(up, out[w])
    /\ EndWrite(w, FALSE)

WriteFails(w) ==
    /\ wpc[w] = "in"
    /\ ~open \/ hungUp
    /\ UNCHANGED up
    /\ EndWrite(w, TRUE)

Written(w) == wpc[w] = "idle"

(***************************************************************************)
(* Dial: connect, then the handshake.  Connecting honours the context; the *)
(* handshake's write and read do not.                                      *)
(***************************************************************************)
(* The step has its verdict; the deferred calls are left.                  *)
Ends(status, cause) == verdict' = [status |-> status, cause |-> cause]

TimeoutOr(status) == IF ctx = "deadline" THEN "timeout" ELSE status

DialFails ==
    /\ pc = "dial"
    /\ pc' = "cancelling"
    /\ Ends(TimeoutOr("failed"), "dial")
    /\ UNCHANGED <<cfg, round, reqID, nextID, frame, msg, got, ctx, open,
                   helper, writer, up, server, ticks>>

Connect ==
    /\ pc = "dial"
    /\ ~Done
    /\ open' = TRUE
    /\ BeginWrite(Step, Packet("handshake", "ok"))
    /\ pc' = "handshake"
    /\ UNCHANGED <<cfg, round, reqID, nextID, frame, msg, got, verdict, ctx,
                   helper, up, server, ticks>>

(* A read gets the next frame.  Frames already received can be read from   *)
(* the buffer even after a Close.                                          *)
Readable == down # <<>>
ReadError == ~open \/ (hungUp /\ down = <<>>)

(* The answer to the handshake: only its first packet is looked at.        *)
Welcome == /\ Readable
           /\ down[1] # <<>>
           /\ down[1][1].kind = "handshake"
           /\ down[1][1].body = "ok"

HandshakeRead ==
    /\ pc = "handshake"
    /\ Written(Step) /\ ~werr[Step]
    /\ Welcome
    /\ down' = Tail(down)
    /\ BeginWrite(Step, Packet("ack", "ok"))
    /\ pc' = "acked"
    /\ UNCHANGED <<cfg, round, reqID, nextID, frame, msg, got, verdict, ctx,
                   open, helper, up, hungUp, ticks, extras>>

HandshakeFails ==
    /\ \/ pc = "handshake" /\ Written(Step) /\ werr[Step]
       \/ pc = "handshake" /\ Written(Step) /\ (ReadError \/ (Readable /\ ~Welcome))
       \/ pc = "acked" /\ Written(Step) /\ werr[Step]
    /\ open' = FALSE
    /\ Ends(TimeoutOr("failed"), "dial")
    /\ pc' = "cancelling"
    /\ UNCHANGED <<cfg, round, reqID, nextID, frame, msg, got, ctx, helper,
                   writer, up, server, ticks>>

(* Dial returns the client: its heartbeat loop and the watcher start.      *)
Connected ==
    /\ pc = "acked"
    /\ Written(Step) /\ ~werr[Step]
    /\ beat' = "loop"
    /\ watcher' = "waiting"
    /\ pc' = "round"
    /\ UNCHANGED <<cfg, round, reqID, nextID, frame, msg, got, verdict, ctx,
                   open, hbDone, writer, up, server, ticks>>

(***************************************************************************)
(* The loop over the rounds.                                               *)
(***************************************************************************)
SkipRound ==
    /\ pc = "round"
    /\ round <= Len(cfg) /\ ~HasRecv
    /\ round' = round + 1
    /\ UNCHANGED <<cfg, pc, reqID, nextID, frame, msg, got, verdict, ctx, open,
                   helper, writer, up, server, ticks>>

(* Client.Send: every message takes an id, only a request carries it.      *)
SendRound ==
    /\ pc = "round"
    /\ round <= Len(cfg) /\ Round.send
    /\ nextID' = nextID + 1
    /\ reqID' = nextID'
    /\ BeginWrite(Step, IF Round.request
                        THEN Data("request", nextID', "ok", round)
                        ELSE Data("notify", 0, "ok", round))
    /\ pc' = "sent"
    /\ UNCHANGED <<cfg, round, frame, msg, got, verdict, ctx, open, helper, up,
                   server, ticks>>

ListenRound ==
    /\ pc = "round"
    /\ round <= Len(cfg) /\ HasRecv /\ ~Round.send
    /\ reqID' = 0
    /\ pc' = "recv"
    /\ UNCHANGED <<cfg, round, nextID, frame, msg, got, verdict, ctx, open,
                   helper, writer, up, server, ticks>>

Sent ==
    /\ pc = "sent"
    /\ Written(Step) /\ ~werr[Step]
    /\ pc' = "recv"
    /\ UNCHANGED <<cfg, round, reqID, nextID, frame, msg, got, verdict, ctx,
                   open, helper, writer, up, server, ticks>>

SendFails ==
    /\ pc = "sent"
    /\ Written(Step) /\ werr[Step]
    /\ Ends("failed", "send")
    /\ pc' = "closing"
    /\ UNCHANGED <<cfg, round, reqID, nextID, frame, msg, got, ctx, open,
                   helper, writer, up, server, ticks>>

(***************************************************************************)
(* Client.Recv: read a frame, go through its packets, return at the first  *)
(* data packet.  What follows it in the frame is gone.                     *)
(***************************************************************************)
ReadFrame ==
    /\ pc = "recv"
    /\ Readable
    /\ frame' = down[1]
    /\ down' = Tail(down)
    /\ pc' = "scan"
    /\ UNCHANGED <<cfg, round, reqID, nextID, msg, got, verdict, ctx, open,
                   helper, writer, up, hungUp, ticks, extras>>

(* Seeded fault: the context is not asked why the read failed.             *)
RecvFailsUnasked ==
    /\ pc = "recv"
    /\ ReadError
    /\ Ends("failed", "recv")
    /\ pc' = "closing"
    /\ UNCHANGED <<cfg, round, reqID, nextID, frame, msg, got, ctx, open,
                   helper, writer, up, server, ticks>>

RecvFails ==
    /\ pc = "recv"
    /\ ReadError
    /\ Ends(TimeoutOr("failed"), "recv")
    /\ pc' = "closing"
    /\ UNCHANGED <<cfg, round, reqID, nextID, frame, msg, got, ctx, open,
                   helper, writer, up, server, ticks>>

Head1 == frame[1]

(* No packet left, or one that Recv does not know: go on.                  *)
NextPacket ==
    /\ pc = "scan"
    /\ \/ frame = <<>> /\ pc' = "recv" /\ UNCHANGED frame
       \/ /\ frame # <<>> /\ Head1.kind \in {"handshake", "ack"}
          /\ frame' = Tail(frame)
          /\ UNCHANGED pc
    /\ UNCHANGED <<cfg, round, reqID, nextID, msg, got, verdict, ctx, open,
                   helper, writer, up, server, ticks>>

(* A heartbeat is echoed; the write's error is ignored.                    *)
EchoHeartbeat ==
    /\ pc = "scan"
    /\ frame # <<>> /\ Head1.kind = "heartbeat"
    /\ frame' = Tail(frame)
    /\ BeginWrite(Step, Packet("heartbeat", "ok"))
    /\ pc' = "echoed"
    /\ UNCHANGED <<cfg, round, reqID, nextID, msg, got, verdict, ctx, open,
                   helper, up, server, ticks>>

Echoed ==
    /\ pc = "echoed"
    /\ Written(Step)
    /\ pc' = "scan"
    /\ UNCHANGED <<cfg, round, reqID, nextID, frame, msg, got, verdict, ctx,
                   open, helper, writer, up, server, ticks>>

Kicked ==
    /\ pc = "scan"
    /\ frame # <<>> /\ Head1.kind = "kick"
    /\ Ends(TimeoutOr("failed"), "kick")
    /\ pc' = "closing"
    /\ UNCHANGED <<cfg, round, reqID, nextID, frame, msg, got, ctx, open,
                   helper, writer, up, server, ticks>>

(* DecodeMessage indexes the first byte of a body that has none.           *)
DecodePanics ==
    /\ pc = "scan"
    /\ frame # <<>> /\ Head1.kind = "data" /\ Head1.body = "empty"
    /\ Ends("panic", "decode")
    /\ pc' = "closing"
    /\ UNCHANGED <<cfg, round, reqID, nextID, frame, msg, got, ctx, open,
                   helper, writer, up, server, ticks>>

RecvReturns ==
    /\ pc = "scan"
    /\ frame # <<>> /\ Head1.kind = "data" /\ Head1.body # "empty"
    /\ msg' = Head1
    /\ frame' = <<>>
    /\ pc' = "match"
    /\ UNCHANGED <<cfg, round, reqID, nextID, got, verdict, ctx, open, helper,
                   writer, up, server, ticks>>

(***************************************************************************)
(* What the round makes of a message.                                      *)
(***************************************************************************)
(* Seeded fault: a request takes whatever comes first.                     *)
AnswersAnything == ~(Round.expect /\ msg.body # "ok")

(* A request takes only the response to it; expect must match.             *)
Answers ==
    /\ Asked => /\ msg.type \notin {"push", "notify"}
                /\ ~(msg.type = "response" /\ msg.id # reqID)
    /\ ~(Round.expect /\ msg.body # "ok")

Ignore ==
    /\ pc = "match"
    /\ ~Answers
    /\ pc' = "recv"
    /\ UNCHANGED <<cfg, round, reqID, nextID, frame, msg, got, verdict, ctx,
                   open, helper, writer, up, server, ticks>>

RoundDone ==
    /\ pc = "match"
    /\ Answers
    /\ Round.asserts => msg.body = "ok"
    /\ got' = Append(got, [round |-> round, msg |-> msg])
    /\ round' = round + 1
    /\ pc' = "round"
    /\ UNCHANGED <<cfg, reqID, nextID, frame, msg, verdict, ctx, open, helper,
                   writer, up, server, ticks>>

AssertionFails ==
    /\ pc = "match"
    /\ Answers
    /\ Round.asserts /\ msg.body # "ok"
    /\ Ends("failed", "assert")
    /\ pc' = "closing"
    /\ UNCHANGED <<cfg, round, reqID, nextID, frame, msg, got, ctx, open,
                   helper, writer, up, server, ticks>>

AllRoundsDone ==
    /\ pc = "round"
    /\ round > Len(cfg)
    /\ pc' = "closing"
    /\ UNCHANGED <<cfg, round, reqID, nextID, frame, msg, got, verdict, ctx,
                   open, helper, writer, up, server, ticks>>

(***************************************************************************)
(* The deferred calls: client.Close, then the cancel of the step's         *)
(* timeout.                                                                *)
(***************************************************************************)
(* Close cancels the heartbeat's context and closes the connection, once.  *)
Close ==
    /\ hbDone' = TRUE
    /\ open' = FALSE

DeferredClose ==
    /\ pc = "closing"
    /\ Close
    /\ pc' = "cancelling"
    /\ UNCHANGED <<cfg, round, reqID, nextID, frame, msg, got, verdict, ctx,
                   beat, watcher, writer, up, server, ticks>>

Return ==
    /\ pc = "cancelling"
    /\ ctx' = IF Done THEN ctx ELSE "cancelled"
    /\ pc' = "returned"
    /\ UNCHANGED <<cfg, round, reqID, nextID, frame, msg, got, verdict, open,
                   helper, writer, up, server, ticks>>

(***************************************************************************)
(* The other two goroutines.                                               *)
(***************************************************************************)
Tick ==
    /\ beat = "loop" /\ Written(Beat)
    /\ ticks < MaxTicks
    /\ ticks' = ticks + 1
    /\ BeginWrite(Beat, Packet("heartbeat", "ok"))
    /\ UNCHANGED <<step, ctx, open, helper, up, server>>

(* Seeded fault: the loop does not select on ctx.Done.                     *)
BeatEndsNever == FALSE /\ UNCHANGED vars

BeatEnds ==
    /\ beat = "loop" /\ Written(Beat)
    /\ Done \/ hbDone
    /\ beat' = "done"
    /\ UNCHANGED <<step, ctx, open, watcher, hbDone, writer, up, server, ticks>>

(* Seeded fault: the watcher ends without closing.                         *)
WatchIdly ==
    /\ watcher = "waiting"
    /\ Done
    /\ watcher' = "done"
    /\ UNCHANGED <<step, ctx, open, beat, hbDone, writer, up, server, ticks>>

Watch ==
    /\ watcher = "waiting"
    /\ Done
    /\ Close
    /\ watcher' = "done"
    /\ UNCHANGED <<step, ctx, beat, writer, up, server, ticks>>

(* The step's or the plan's timeout passes, or the caller's request ends.  *)
ContextEnds ==
    /\ ~Done
    /\ ctx' \in {"deadline", "cancelled"}
    /\ UNCHANGED <<step, open, helper, writer, up, server, ticks>>

(***************************************************************************)
(* The server.                                                             *)
(***************************************************************************)
(* What it may answer to a packet: a sequence of packets.                  *)
Replies(p) ==
    CASE p.kind = "handshake" -> {<<Packet("handshake", b)>> : b \in {"ok", "off"}}
      [] p.kind = "ack"       -> {<<>>}
      [] p.kind = "heartbeat" -> {<<Packet("heartbeat", "ok")>>}
      [] p.type = "request"   ->
            {<<Data("response", p.id, b, p.about)>> : b \in {"ok", "off"}}
      [] p.type = "notify"    ->
            {<<>>} \union {<<Data("push", 0, b, p.about)>> : b \in {"ok", "off"}}

(* What it may send of its own accord.                                     *)
Unasked == {Packet("kick", "ok"), Packet("heartbeat", "ok"),
            Data("push", 0, "empty", 0)} \union
           {Data("push", 0, b, 0) : b \in {"ok", "off"}}

(* An answer, alone in its frame or batched with something unasked.        *)
ServerAnswers ==
    /\ up # <<>> /\ open /\ ~hungUp
    /\ Len(down) < Window
    /\ up' = Tail(up)
    /\ \E r \in Replies(up[1]) :
          \/ /\ down' = IF r = <<>> THEN down ELSE Append(down, r)
             /\ UNCHANGED extras
          \/ /\ extras < MaxExtras
             /\ extras' = extras + 1
             /\ \E p \in Unasked : down' \in {Append(down, <<p>> \o r),
                                              Append(down, r \o <<p>>)}
    /\ UNCHANGED <<step, ctx, open, helper, writer, hungUp, ticks>>

ServerSends ==
    /\ open /\ ~hungUp
    /\ Len(down) < Window
    /\ extras < MaxExtras
    /\ extras' = extras + 1
    /\ \E p \in Unasked : down' = Append(down, <<p>>)
    /\ UNCHANGED <<step, ctx, open, helper, writer, up, hungUp, ticks>>

ServerHangsUp ==
    /\ ~hungUp
    /\ hungUp' = TRUE
    /\ UNCHANGED <<step, ctx, open, helper, writer, up, down, ticks, extras>>

ServerNext == ServerAnswers \/ ServerSends \/ ServerHangsUp

(* Everything has ended.                                                   *)
Terminated ==
    /\ pc = "returned" /\ beat # "loop" /\ watcher # "waiting" /\ hungUp
    /\ UNCHANGED vars

StepNext ==
    \/ DialFails \/ Connect \/ HandshakeRead \/ HandshakeFails \/ Connected
    \/ SkipRound \/ SendRound \/ ListenRound \/ Sent \/ SendFails
    \/ ReadFrame \/ RecvFails \/ NextPacket \/ EchoHeartbeat \/ Echoed
    \/ Kicked \/ DecodePanics \/ RecvReturns
    \/ Ignore \/ RoundDone \/ AssertionFails \/ AllRoundsDone
    \/ DeferredClose \/ Return

Next ==
    \/ StepNext
    \/ \E w \in Writers : LockWrite(w) \/ Write(w) \/ WriteFails(w)
    \/ Tick \/ BeatEnds \/ Watch \/ ContextEnds
    \/ ServerNext
    \/ Terminated

Spec == Init /\ [][Next]_vars

(* The goroutines are scheduled and a mutex is handed to whoever waits for *)
(* it long enough.  Nothing is assumed of the server, nor of the context.  *)
Fairness ==
    /\ WF_vars(StepNext)
    /\ \A w \in Writers : /\ SF_vars(LockWrite(w))
                          /\ WF_vars(Write(w) \/ WriteFails(w))
    /\ SF_vars(BeatEnds)
    /\ WF_vars(Watch)

FairSpec == Spec /\ Fairness

-----------------------------------------------------------------------------
(* Every variable stays in its type.                                       *)
TypeOK ==
    /\ cfg \in Seq(RoundType)
    /\ pc \in PCs
    /\ round \in 1..(Len(cfg) + 1)
    /\ reqID \in Nat /\ nextID \in Nat
    /\ frame \in Seq(Packets)
    /\ msg \in Packets
    /\ got \in Seq([round : Nat, msg : Packets])
    /\ verdict \in Verdicts
    /\ ctx \in {"live", "deadline", "cancelled"}
    /\ open \in BOOLEAN /\ hbDone \in BOOLEAN /\ hungUp \in BOOLEAN
    /\ beat \in {"off", "loop", "done"}
    /\ watcher \in {"off", "waiting", "done"}
    /\ mu \in Writers \union {Nobody}
    /\ wpc \in [Writers -> {"idle", "want", "in"}]
    /\ out \in [Writers -> Packets]
    /\ werr \in [Writers -> BOOLEAN]
    /\ up \in Seq(Packets) /\ Len(up) <= Window
    /\ down \in Seq(Seq(Packets)) /\ Len(down) <= Window
    /\ ticks \in 0..MaxTicks /\ extras \in 0..MaxExtras

(* The heartbeat loop and the step, which also echoes heartbeats from      *)
(* inside Recv, are never both in conn.WriteMessage: the library panics    *)
(* when they are.                                                          *)
OneWriter == \A v, w \in Writers : wpc[v] = "in" /\ wpc[w] = "in" => v = w

(* A request round is satisfied by the server's answer to that request,    *)
(* whatever was pushed, batched or left over on the connection (the case   *)
(* of TestExecuteWS_Pomelo_PushBeforeResponse).                            *)
RequestGetsItsAnswer ==
    \A i \in DOMAIN got :
        LET r == cfg[got[i].round] IN
        r.send /\ r.request =>
            got[i].msg.type = "response" /\ got[i].msg.about = got[i].round

Satisfied(r, m) == (r.expect \/ r.asserts) => m.body = "ok"

(* What the StepResult says is what happened: success means every round    *)
(* that sends or waits was satisfied, in order; timeout means the deadline *)
(* passed; and a receive that the deadline interrupted is a timeout, never *)
(* a failure, although what Recv sees is only a closed connection.         *)
VerdictTrue ==
    pc \in {"closing", "cancelling", "returned"} =>
        /\ verdict.status = "success" =>
              /\ \A i \in DOMAIN got : Satisfied(cfg[got[i].round], got[i].msg)
              /\ \A i \in DOMAIN cfg :
                    Waits(cfg[i]) <=> \E j \in DOMAIN got : got[j].round = i
              /\ \A i, j \in DOMAIN got : i < j => got[i].round < got[j].round
        /\ verdict.status = "timeout" => ctx = "deadline"
        /\ verdict = [status |-> "failed", cause |-> "recv"] =>
              hungUp \/ ctx = "cancelled"

(* Once Dial has returned, a step whose context is done ends: closing the  *)
(* connection frees it from a read, from a write the server does not take, *)
(* and from a mutex the heartbeat holds while it is blocked in one.        *)
ConnectedStepEnds == (watcher # "off" /\ Done) ~> (pc = "returned")

(* A step that has returned leaves no goroutine and no connection behind.  *)
NothingLeftBehind ==
    (pc = "returned") ~> (/\ beat # "loop" /\ watcher # "waiting" /\ ~open
                          /\ \A w \in Writers : wpc[w] = "idle")

(* README.md:109 calls the timeout "the maximum time the whole plan may    *)
(* run"; the same context carries the step's own timeout.  Does a step     *)
(* whose deadline has passed end?  Not while it waits for the handshake.   *)
TimedStepEnds == (ctx = "deadline") ~> (pc = "returned")
=============================================================================
