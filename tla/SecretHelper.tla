---------------------------- MODULE SecretHelper ----------------------------
(***************************************************************************)
(* One session between SendEnvelope of the supervisor and the helper in a  *)
(* container, in time: the keys in order, then heartbeats; the helper      *)
(* starts its child once every key is there and kills it when the          *)
(* heartbeats stop.  The stream is a reliable FIFO with a bounded delay.   *)
(* Time advances only when neither side has anything due (urgency).        *)
(***************************************************************************)
EXTENDS Integers, Sequences

CONSTANTS Keys,              \* how many keys the service declares
          HeartbeatInterval, HeartbeatSafetyFactor,
          MaxHeartbeatTimeout,
          MaxDelay,          \* the longest a frame stays in the stream
          MaxClock           \* the clock stops here

ASSUME HelperAssumption ==
    /\ Keys \in Nat /\ HeartbeatInterval \in Nat \ {0} /\ HeartbeatSafetyFactor \in Nat
    /\ MaxHeartbeatTimeout \in Nat
    /\ MaxDelay \in Nat /\ MaxClock \in Nat
    \* The stream delivers a frame before the next timeout could pass over it.
    /\ HeartbeatInterval * HeartbeatSafetyFactor >= HeartbeatInterval + MaxDelay

VARIABLES clock,
          expires,   \* the end of the helper's manifest
          timeout,   \* the heartbeat timeout the manifest declares
          sender,    \* [pc, mine, sent, beat]: its state, whether its manifest is the
                     \* helper's, frames sealed, next heartbeat due
          wire,      \* frames in the stream
          helper     \* [pc, got, received, last, tick, why]

helperVars == <<clock, expires, timeout, sender, wire, helper>>

\* Faulty variant: the timeout is not compared with the interval.
validHealth_anyTimeout(t) == t > 0 /\ t <= MaxHeartbeatTimeout

\* validHealth: the timeout leaves room for several intervals.
validHealth(t) ==
    /\ t > 0 /\ t <= MaxHeartbeatTimeout
    /\ t >= HeartbeatInterval * HeartbeatSafetyFactor

\* The monitor looks at the heartbeats every quarter of the timeout.
TickEvery == IF timeout \div 4 < 1 THEN 1 ELSE timeout \div 4

\* NewHelperAt and the handshake are done: both sides hold the session key.
HelperInit ==
    /\ clock = 0 /\ wire = <<>>
    /\ expires \in {HeartbeatInterval, MaxClock + 1}
    /\ timeout \in {t \in 1 .. MaxHeartbeatTimeout : validHealth(t)}
    /\ sender \in [pc : {"keys"}, mine : BOOLEAN, sent : {0}, beat : {0}]
    /\ helper = [pc |-> "collect", got |-> 0, received |-> 0, last |-> 0, tick |-> 0, why |-> "none"]

\* Session.seal: every frame carries the next sequence number.
Seal(kind) == [kind |-> kind, seq |-> sender.sent + 1, at |-> clock]

\* Session.Open: only the frame that is next, sealed under this manifest's
\* authority, opens.
Opens(frame) == sender.mine /\ frame.seq = helper.received + 1

-----------------------------------------------------------------------------
(* The supervisor's end.                                                   *)

SendKey ==
    /\ sender.pc = "keys" /\ sender.sent < Keys
    /\ wire' = Append(wire, Seal("key"))
    /\ sender' = [sender EXCEPT !.sent = @ + 1]
    /\ UNCHANGED <<clock, expires, timeout, helper>>

\* The first heartbeat follows the last key; then one every interval.
SendHeartbeat ==
    /\ \/ sender.pc = "keys" /\ sender.sent = Keys
       \/ sender.pc = "beats" /\ sender.beat <= clock
    /\ wire' = Append(wire, Seal("heartbeat"))
    /\ sender' = [sender EXCEPT !.pc = "beats", !.sent = @ + 1, !.beat = clock + HeartbeatInterval]
    /\ UNCHANGED <<clock, expires, timeout, helper>>

\* The heartbeats of SendEnvelope end: its process is frozen and the stream
\* stays open, or the context ends or a write fails and the stream is closed.
Hang ==
    /\ sender.pc \in {"keys", "beats"}
    /\ \E pc \in {"hung", "closed"} : sender' = [sender EXCEPT !.pc = pc]
    /\ UNCHANGED <<clock, expires, timeout, wire, helper>>

-----------------------------------------------------------------------------
(* The helper.                                                             *)

Exit(why) == helper' = [helper EXCEPT !.pc = "exited", !.why = why]

\* Run before the child: a key is stored, a heartbeat counts, anything else ends it.
Collect ==
    /\ helper.pc = "collect" /\ helper.got < Keys
    /\ \/ /\ wire # <<>>
          /\ wire' = Tail(wire)
          /\ \/ /\ Opens(Head(wire)) /\ Head(wire).kind = "heartbeat"
                /\ helper' = [helper EXCEPT !.received = @ + 1, !.last = clock]
             \/ /\ Opens(Head(wire)) /\ Head(wire).kind = "key"
                /\ helper' = [helper EXCEPT !.received = @ + 1, !.got = @ + 1]
             \/ ~ Opens(Head(wire)) /\ Exit("frame")
       \/ wire = <<>> /\ sender.pc = "closed" /\ Exit("frame") /\ UNCHANGED wire
    /\ UNCHANGED <<clock, expires, timeout, sender>>

\* The window is checked again, then the child starts and monitor takes over.
StartChild ==
    /\ helper.pc = "collect" /\ helper.got = Keys
    /\ IF clock < expires
       THEN helper' = [helper EXCEPT !.pc = "monitor", !.tick = clock + TickEvery]
       ELSE Exit("expired")
    /\ UNCHANGED <<clock, expires, timeout, sender, wire>>

\* A frame during monitor: only a heartbeat keeps the child.
Receive ==
    /\ helper.pc = "monitor" /\ wire # <<>>
    /\ IF Opens(Head(wire)) /\ Head(wire).kind = "heartbeat"
       THEN helper' = [helper EXCEPT !.received = @ + 1, !.last = clock]
       ELSE Exit("frame")
    /\ wire' = Tail(wire)
    /\ UNCHANGED <<clock, expires, timeout, sender>>

EndOfStream ==
    /\ helper.pc = "monitor" /\ wire = <<>> /\ sender.pc = "closed"
    /\ Exit("stream")
    /\ UNCHANGED <<clock, expires, timeout, sender, wire>>

\* Faulty variant: the tick takes itself for a sign of life.
MonitorTick_alive ==
    /\ helper.pc = "monitor" /\ helper.tick <= clock
    /\ IF clock - helper.last > timeout
       THEN Exit("heartbeat")
       ELSE helper' = [helper EXCEPT !.tick = clock + TickEvery, !.last = clock]
    /\ UNCHANGED <<clock, expires, timeout, sender, wire>>

\* The ticker: too long since the last heartbeat kills the child.
MonitorTick ==
    /\ helper.pc = "monitor" /\ helper.tick <= clock
    /\ IF clock - helper.last > timeout
       THEN Exit("heartbeat")
       ELSE helper' = [helper EXCEPT !.tick = clock + TickEvery]
    /\ UNCHANGED <<clock, expires, timeout, sender, wire>>

\* The child exits by itself; or a signal cannot be passed on, or the helper is
\* cancelled, and the child is killed and reaped.
ChildEnds ==
    /\ helper.pc = "monitor"
    /\ \E why \in {"child", "cancelled"} : Exit(why)
    /\ UNCHANGED <<clock, expires, timeout, sender, wire>>

\* Nothing is due at this instant.
Quiet ==
    /\ sender.pc # "keys"
    /\ sender.pc = "beats" => sender.beat > clock
    /\ wire # <<>> /\ helper.pc # "exited" => clock - Head(wire).at < MaxDelay
    /\ helper.pc = "collect" => helper.got < Keys
    /\ helper.pc = "monitor" => helper.tick > clock
    /\ ~ (helper.pc = "monitor" /\ wire = <<>> /\ sender.pc = "closed")

ClockTick ==
    /\ clock < MaxClock /\ Quiet
    /\ clock' = clock + 1
    /\ UNCHANGED <<expires, timeout, sender, wire, helper>>

HelperNext ==
    \/ SendKey \/ SendHeartbeat \/ Hang
    \/ Collect \/ StartChild \/ Receive \/ EndOfStream \/ MonitorTick \/ ChildEnds
    \/ ClockTick

-----------------------------------------------------------------------------
\* A child outlives its supervisor by at most the heartbeat timeout and one
\* tick of the monitor, even when the stream stays open (the supervisor
\* hangs): monitor's ticker and lastHeartbeat.
ChildIsHeartbeaten ==
    helper.pc = "monitor" => clock - sender.beat <= timeout + TickEvery + MaxDelay

\* A supervisor that keeps its interval never loses a child to the timeout,
\* even though a heartbeat may sit in the stream while the ticker fires:
\* validHealth demands a timeout of HeartbeatSafetyFactor intervals.
NoFalseKill ==
    helper.why = "heartbeat" => sender.pc \in {"hung", "closed"}

\* The heartbeat decides rightly: a child whose supervisor is gone ends in
\* time, and one whose supervisor is there is not killed for its silence.
HeartbeatDecides == ChildIsHeartbeaten /\ NoFalseKill
=============================================================================
