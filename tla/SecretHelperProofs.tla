------------------------- MODULE SecretHelperProofs -------------------------
(***************************************************************************)
(* The heartbeat decides rightly, for any number of keys, any interval,    *)
(* timeout and delay of the stream: SecretHelper's HeartbeatDecides.       *)
(***************************************************************************)
EXTENDS SecretHelper, TLAPS

HelperSpec == HelperInit /\ [][HelperNext]_helperVars

Frame == [kind : {"key", "heartbeat"}, seq : Int, at : Nat]

Mine == BOOLEAN

HelperTypes ==
    /\ clock \in Nat /\ wire \in Seq(Frame)
    /\ timeout \in Nat /\ timeout > 0 /\ timeout >= HeartbeatInterval + MaxDelay
    /\ sender \in [pc : {"keys", "beats", "hung", "closed"}, mine : Mine, sent : Nat, beat : Nat]
    /\ helper \in [pc : {"collect", "monitor", "exited"}, got : Nat, received : Nat, last : Nat,
                   tick : Nat, why : {"none", "frame", "expired", "stream", "heartbeat", "child", "cancelled"}]

(* The frames in the stream: in the order of the clock, none further from  *)
(* its predecessor than an interval, and none kept beyond the delay.       *)
StreamInv ==
    /\ \A i \in 1 .. Len(wire) :
         /\ wire[i].at <= clock /\ wire[i].at <= sender.beat
         /\ wire[i].kind = "key" => wire[i].at = 0
    /\ \A i \in 1 .. Len(wire) - 1 :
         wire[i].at <= wire[i + 1].at /\ wire[i + 1].at <= wire[i].at + HeartbeatInterval
    /\ Len(wire) > 0 /\ helper.pc # "exited" =>
         wire[1].at <= helper.last + HeartbeatInterval /\ clock <= wire[1].at + MaxDelay

(* A supervisor at work is never late with its next heartbeat.             *)
SenderInv ==
    /\ sender.pc = "keys" => clock = 0 /\ sender.beat = 0
    /\ sender.pc = "beats" =>
         /\ clock <= sender.beat
         /\ Len(wire) = 0 /\ helper.pc # "exited" => sender.beat <= helper.last + HeartbeatInterval
         /\ Len(wire) > 0 => sender.beat <= wire[Len(wire)].at + HeartbeatInterval

(* The helper's last sign of life and its next tick, against the clock and *)
(* the heartbeat the supervisor owes.                                      *)
MonitorInv ==
    /\ helper.last <= sender.beat + MaxDelay
    /\ helper.pc = "collect" /\ helper.got = Keys => clock <= MaxDelay
    /\ helper.pc = "monitor" =>
         clock <= helper.tick /\ helper.tick <= sender.beat + MaxDelay + timeout + TickEvery
    /\ helper.why = "heartbeat" => sender.pc \in {"hung", "closed"}

SessionInv == HelperTypes /\ StreamInv /\ SenderInv /\ MonitorInv

-----------------------------------------------------------------------------

\* The assumption on the constants without its product, for the arithmetic leaves.
LEMMA Linear == HeartbeatInterval \in Nat /\ HeartbeatInterval > 0 /\ MaxDelay \in Nat /\ Keys \in Nat
  BY HelperAssumption

\* The order of the clock's times, apart from the records that hold them.
LEMMA Order ==
  /\ \A a, b, c \in Nat : a <= b /\ b <= c => a <= c
  /\ \A a, b, c, d \in Nat : a <= b + d /\ b <= c => a <= c + d
  /\ \A a, b, c, d, e, f \in Nat : a <= b + d + e + f /\ b <= c => a <= c + d + e + f
  /\ \A a, b, c, d, e, f \in Nat : a <= b + d /\ b <= c + e /\ f >= e + d => ~(a - c > f)
  OBVIOUS

\* The ticker never has a period of zero.
LEMMA TickIsPositive == HelperTypes => TickEvery \in Nat /\ TickEvery > 0
<1> SUFFICES ASSUME HelperTypes PROVE TickEvery \in Nat /\ TickEvery > 0
  OBVIOUS
<1>1. timeout \div 4 \in Int
  BY DEF HelperTypes
<1> QED BY <1>1 DEF TickEvery

(* What is left of the stream once its first frame is taken.               *)
LEMMA RestOfStream ==
  ASSUME wire \in Seq(Frame), wire # <<>>
  PROVE  /\ Tail(wire) \in Seq(Frame) /\ Len(wire) \in Nat /\ Len(wire) > 0
         /\ Len(Tail(wire)) = Len(wire) - 1
         /\ \A i \in 1 .. Len(Tail(wire)) : Tail(wire)[i] = wire[i + 1]
         /\ Head(wire) = wire[1] /\ wire[1] \in Frame
  OBVIOUS

\* A frame put on the stream leaves the earlier frames where they are.
LEMMA LongerStream ==
  ASSUME wire \in Seq(Frame), NEW f \in Frame
  PROVE  /\ Append(wire, f) \in Seq(Frame) /\ Len(wire) \in Nat
         /\ Len(Append(wire, f)) = Len(wire) + 1
         /\ \A i \in 1 .. Len(wire) : Append(wire, f)[i] = wire[i]
         /\ Append(wire, f)[Len(wire) + 1] = f
  OBVIOUS

\* A session starts in the invariant.
LEMMA InitEstablishes == HelperInit => SessionInv
<1> SUFFICES ASSUME HelperInit PROVE SessionInv
  OBVIOUS
<1>1. timeout \in Nat /\ timeout > 0 /\ timeout >= HeartbeatInterval + MaxDelay
  BY HelperAssumption DEF HelperInit, validHealth
<1>2. HelperTypes
  BY <1>1 DEF HelperInit, HelperTypes, Mine
<1>3. Len(wire) = 0
  BY DEF HelperInit
<1> QED
  BY <1>2, <1>3, Linear DEF HelperInit, SessionInv, StreamInv, SenderInv, MonitorInv

(* The numbers of a state, apart from the records that hold them.          *)
LEMMA Numbers ==
  ASSUME HelperTypes
  PROVE  /\ clock \in Nat /\ timeout \in Nat /\ sender.beat \in Nat /\ sender.sent \in Nat
         /\ helper.last \in Nat /\ helper.tick \in Nat /\ helper.got \in Nat /\ helper.received \in Nat
         /\ Len(wire) \in Nat
         /\ \A i \in 1 .. Len(wire) : wire[i] \in Frame /\ wire[i].at \in Nat
<1>1. Len(wire) \in Nat /\ \A i \in 1 .. Len(wire) : wire[i] \in Frame
  BY DEF HelperTypes
<1>2. \A f \in Frame : f.at \in Nat
  BY DEF Frame
<1> QED BY <1>1, <1>2 DEF HelperTypes

(* What sending a frame does to the supervisor's end.                      *)
LEMMA Sent ==
  ASSUME SessionInv, SendKey \/ SendHeartbeat
  PROVE  /\ \E f \in Frame : wire' = Append(wire, f) /\ f.at = clock /\ (f.kind = "key" => clock = 0)
         /\ sender' \in [pc : {"keys", "beats", "hung", "closed"}, mine : Mine, sent : Nat, beat : Nat]
         /\ sender.pc \in {"keys", "beats"} /\ sender'.pc \in {"keys", "beats"}
         /\ sender'.beat \in Nat /\ sender'.beat >= sender.beat /\ sender'.beat >= clock
         /\ sender.pc = "beats" => sender.beat = clock
         /\ sender'.pc = "keys" => clock = 0 /\ sender'.beat = 0
         /\ sender'.pc = "beats" => sender'.beat = clock + HeartbeatInterval
<1> USE Linear
<1>1. HelperTypes /\ SenderInv
  BY DEF SessionInv
<1>2. /\ clock \in Nat /\ sender.beat \in Nat /\ sender.sent \in Nat
      /\ sender \in [pc : {"keys", "beats", "hung", "closed"}, mine : Mine, sent : Nat, beat : Nat]
  BY <1>1 DEF HelperTypes
<1>3. \A kind \in {"key", "heartbeat"} :
        Seal(kind) \in Frame /\ Seal(kind).at = clock /\ Seal(kind).kind = kind
  BY <1>2 DEF Seal, Frame
<1>4. CASE SendKey
  <2>1. wire' = Append(wire, Seal("key")) /\ sender' = [sender EXCEPT !.sent = sender.sent + 1]
        /\ sender.pc = "keys"
    BY <1>4 DEF SendKey
  <2>2. clock = 0 /\ sender.beat = 0
    BY <1>1, <2>1 DEF SenderInv
  <2> QED BY <1>2, <1>3, <1>4, <2>1, <2>2
<1>5. CASE SendHeartbeat
  <2>1. /\ wire' = Append(wire, Seal("heartbeat"))
        /\ sender' = [sender EXCEPT !.pc = "beats", !.sent = sender.sent + 1, !.beat = clock + HeartbeatInterval]
    BY <1>5 DEF SendHeartbeat
  <2>2. \/ sender.pc = "keys" /\ clock = 0 /\ sender.beat = 0
        \/ sender.pc = "beats" /\ sender.beat = clock
    BY <1>1, <1>2, <1>5 DEF SendHeartbeat, SenderInv
  <2>3. sender'.beat = clock + HeartbeatInterval /\ sender'.pc = "beats"
    BY <2>1, <1>2
  <2>4. Seal("heartbeat").kind # "key"
    BY <1>3
  <2>5. sender' \in [pc : {"keys", "beats", "hung", "closed"}, mine : Mine, sent : Nat, beat : Nat]
    <3>1. sender.sent + 1 \in Nat /\ clock + HeartbeatInterval \in Nat
      BY <1>2
    <3> QED BY <2>1, <3>1, <1>2
  <2>7. \E f \in Frame : wire' = Append(wire, f) /\ f.at = clock /\ (f.kind = "key" => clock = 0)
    BY <2>1, <2>4, <1>3
  <2> QED BY <2>2, <2>3, <2>5, <2>7, <1>2
<1> QED BY <1>4, <1>5

(* A frame of the supervisor: at the end of the stream, on time.           *)
LEMMA SendPreserves ==
  ASSUME SessionInv, SendKey \/ SendHeartbeat
  PROVE  SessionInv'
<1> USE Linear
<1>1. PICK f \in Frame : wire' = Append(wire, f) /\ f.at = clock /\ (f.kind = "key" => clock = 0)
  BY Sent
<1>2. /\ wire' \in Seq(Frame) /\ Len(wire) \in Nat /\ Len(wire') = Len(wire) + 1
      /\ \A i \in 1 .. Len(wire) : wire'[i] = wire[i]
      /\ wire'[Len(wire) + 1] = f
  BY <1>1, LongerStream DEF SessionInv, HelperTypes
<1>3. UNCHANGED <<clock, timeout, helper>> /\ TickEvery' = TickEvery
  BY DEF SendKey, SendHeartbeat, TickEvery
<1>4. HelperTypes'
  BY <1>2, <1>3, Sent DEF SessionInv, HelperTypes
<1>5. /\ clock \in Nat /\ sender.beat \in Nat /\ helper.last \in Nat /\ helper.tick \in Nat
      /\ timeout \in Nat /\ \A i \in 1 .. Len(wire) : wire[i].at \in Nat
  BY Numbers DEF SessionInv
<1>6. StreamInv /\ SenderInv /\ MonitorInv
  BY DEF SessionInv
<1>7. StreamInv'
  <2>1. ASSUME NEW i \in 1 .. Len(wire')
        PROVE  /\ wire'[i].at <= clock' /\ wire'[i].at <= sender'.beat
               /\ wire'[i].kind = "key" => wire'[i].at = 0
    <3>1. CASE i \in 1 .. Len(wire)
      <4>1. /\ wire'[i] = wire[i] /\ wire[i].at \in Nat
            /\ wire[i].at <= clock /\ wire[i].at <= sender.beat
            /\ wire[i].kind = "key" => wire[i].at = 0
        BY <3>1, <1>2, <1>5, <1>6 DEF StreamInv
      <4>2. sender.beat \in Nat /\ sender'.beat \in Nat /\ sender.beat <= sender'.beat
        BY <1>5, Sent
      <4>3. wire[i].at <= sender'.beat
        BY ONLY <4>1, <4>2, Order
      <4> QED BY <4>1, <4>3, <1>3
    <3>2. CASE i = Len(wire) + 1
      BY <3>2, <1>1, <1>2, <1>3, <1>5, Sent
    <3> QED BY <3>1, <3>2, <1>2
  <2>2. ASSUME Len(wire) > 0
        PROVE  f.at <= wire[Len(wire)].at + HeartbeatInterval /\ wire[Len(wire)].at <= f.at
    BY <2>2, <1>1, <1>2, <1>5, <1>6, Sent DEF StreamInv, SenderInv
  <2>3. \A i \in 1 .. Len(wire') - 1 :
         wire'[i].at <= wire'[i + 1].at /\ wire'[i + 1].at <= wire'[i].at + HeartbeatInterval
    BY <2>2, <1>2, <1>6 DEF StreamInv
  <2>4. helper'.pc # "exited" => wire'[1].at <= helper'.last + HeartbeatInterval
    BY <1>1, <1>2, <1>3, <1>5, <1>6, Sent DEF StreamInv, SenderInv
  <2>5. helper'.pc # "exited" => clock' <= wire'[1].at + MaxDelay
    BY <1>1, <1>2, <1>3, <1>5, <1>6 DEF StreamInv
  <2> QED BY <2>1, <2>3, <2>4, <2>5 DEF StreamInv
<1>8. SenderInv'
  BY <1>1, <1>2, <1>3, <1>5, Sent DEF SenderInv
<1>9. MonitorInv'
  <2>1. TickEvery \in Nat
    BY TickIsPositive DEF SessionInv
  <2>2. sender'.pc \in {"hung", "closed"} <=> sender.pc \in {"hung", "closed"}
    BY Sent
  <2>3. helper'.last <= sender'.beat + MaxDelay
    BY <1>3, <1>5, <1>6, Sent DEF MonitorInv
  <2>4. helper'.pc = "collect" /\ helper'.got = Keys => clock' <= MaxDelay
    BY <1>3, <1>6 DEF MonitorInv
  <2>5. helper'.pc = "monitor" =>
          clock' <= helper'.tick /\ helper'.tick <= sender'.beat + MaxDelay + timeout' + TickEvery'
    <3> SUFFICES ASSUME helper.pc = "monitor"
                 PROVE  clock <= helper.tick /\ helper.tick <= sender'.beat + MaxDelay + timeout + TickEvery
      BY <1>3
    <3>1. clock <= helper.tick /\ helper.tick <= sender.beat + MaxDelay + timeout + TickEvery
      BY <1>6 DEF MonitorInv
    <3>2. sender.beat \in Nat /\ sender'.beat \in Nat /\ sender.beat <= sender'.beat
      BY <1>5, Sent
    <3>3. helper.tick \in Nat /\ MaxDelay \in Nat /\ timeout \in Nat /\ TickEvery \in Nat
      BY <2>1, <1>5
    <3> QED BY ONLY <3>1, <3>2, <3>3, Order
  <2>6. helper'.why = "heartbeat" => sender'.pc \in {"hung", "closed"}
    BY <2>2, <1>3, <1>6 DEF MonitorInv
  <2> QED BY <2>3, <2>4, <2>5, <2>6 DEF MonitorInv
<1> QED BY <1>4, <1>7, <1>8, <1>9 DEF SessionInv

(* A frame is taken: a heartbeat is a sign of life at this moment, a key   *)
(* was sent at the very beginning, and anything else ends the helper.      *)
LEMMA TakeKeepsStream ==
  ASSUME SessionInv, wire # <<>>, wire' = Tail(wire), UNCHANGED <<clock, timeout, sender>>,
         helper.pc # "exited", HelperTypes',
         helper'.pc # "exited" =>
           helper'.last = clock \/ (helper'.last = helper.last /\ wire[1].kind = "key")
  PROVE  StreamInv' /\ SenderInv'
<1> USE Linear
<1>1. /\ Len(wire) \in Nat /\ Len(wire) > 0 /\ Len(wire') = Len(wire) - 1
      /\ \A i \in 1 .. Len(wire') : wire'[i] = wire[i + 1]
  BY RestOfStream DEF SessionInv, HelperTypes
<1>2. /\ clock \in Nat /\ sender.beat \in Nat /\ helper.last \in Nat
      /\ \A i \in 1 .. Len(wire) : wire[i].at \in Nat
  BY Numbers DEF SessionInv
<1>3. helper'.last \in Nat
  BY DEF HelperTypes
<1>4. StreamInv /\ SenderInv
  BY DEF SessionInv
<1>5. wire[1].at <= clock /\ wire[1].at \in Nat /\ (helper'.pc # "exited" => wire[1].at <= helper'.last)
  BY <1>1, <1>2, <1>3, <1>4 DEF StreamInv
<1>6. \A i \in 1 .. Len(wire') : i + 1 \in 1 .. Len(wire)
  BY <1>1
<1>7. StreamInv'
  <2>1. \A i \in 1 .. Len(wire') :
         /\ wire'[i].at <= clock' /\ wire'[i].at <= sender'.beat
         /\ wire'[i].kind = "key" => wire'[i].at = 0
    BY <1>1, <1>4, <1>6 DEF StreamInv
  <2>2. ASSUME NEW i \in 1 .. Len(wire') - 1
        PROVE  wire'[i].at <= wire'[i + 1].at /\ wire'[i + 1].at <= wire'[i].at + HeartbeatInterval
    <3>1. i + 1 \in 1 .. Len(wire) - 1 /\ i \in 1 .. Len(wire') /\ i + 1 \in 1 .. Len(wire')
      BY <1>1
    <3>2. wire'[i] = wire[i + 1] /\ wire'[i + 1] = wire[(i + 1) + 1]
      BY <3>1, <1>1
    <3> QED BY <3>1, <3>2, <1>4 DEF StreamInv
  <2>3. ASSUME Len(wire') > 0, helper'.pc # "exited"
        PROVE  wire'[1].at <= helper'.last + HeartbeatInterval /\ clock' <= wire'[1].at + MaxDelay
    <3>1. wire'[1] = wire[2] /\ 1 \in 1 .. Len(wire) - 1 /\ wire[2].at \in Nat
      BY <2>3, <1>1, <1>2
    <3>2. wire[1].at <= wire[2].at /\ wire[2].at <= wire[1].at + HeartbeatInterval
      BY <3>1, <1>4 DEF StreamInv
    <3>3. clock <= wire[1].at + MaxDelay
      BY <1>1, <1>4 DEF StreamInv
    <3>4. wire[2].at <= helper'.last + HeartbeatInterval
      BY <2>3, <3>1, <3>2, <1>3, <1>5
    <3>5. clock <= wire[2].at + MaxDelay
      <4>1. clock \in Nat /\ wire[1].at \in Nat /\ wire[2].at \in Nat /\ MaxDelay \in Nat
        BY <3>1, <1>2, <1>5
      <4> QED BY ONLY <4>1, <3>2, <3>3, Order
    <3> QED BY <3>1, <3>4, <3>5
  <2> QED BY <2>1, <2>2, <2>3 DEF StreamInv
<1>8. SenderInv'
  <2>1. CASE Len(wire) = 1
    <3>1. Len(wire') = 0
      BY <2>1, <1>1
    <3>2. sender.pc = "beats" => clock <= sender.beat /\ sender.beat <= wire[1].at + HeartbeatInterval
      BY <2>1, <1>4 DEF SenderInv
    <3>3. sender.pc = "beats" /\ helper'.pc # "exited" => sender.beat <= helper'.last + HeartbeatInterval
      BY <3>2, <1>2, <1>3, <1>5
    <3> QED BY <3>1, <3>2, <3>3, <1>4 DEF SenderInv
  <2>2. CASE Len(wire) > 1
    <3>1. Len(wire') > 0 /\ wire'[Len(wire')] = wire[Len(wire)]
      BY <2>2, <1>1
    <3> QED BY <3>1, <1>1, <1>4 DEF SenderInv
  <2> QED BY <2>1, <2>2, <1>1
<1> QED BY <1>7, <1>8

(* The helper's steps that take a frame.                                   *)
LEMMA TakePreserves ==
  ASSUME SessionInv, wire # <<>>, Collect \/ Receive
  PROVE  SessionInv'
<1> USE Linear
<1>1. HelperTypes /\ StreamInv /\ MonitorInv
  BY DEF SessionInv
<1>2. Tail(wire) \in Seq(Frame) /\ Head(wire) = wire[1] /\ wire[1].kind \in {"key", "heartbeat"}
  BY <1>1, RestOfStream DEF HelperTypes, Frame
<1>3. /\ wire' = Tail(wire) /\ UNCHANGED <<clock, timeout, sender>> /\ helper.pc # "exited"
      /\ \/ helper' = [helper EXCEPT !.received = helper.received + 1, !.last = clock]
         \/ /\ wire[1].kind = "key" /\ helper.pc = "collect"
            /\ helper' = [helper EXCEPT !.received = helper.received + 1, !.got = helper.got + 1]
         \/ helper' = [helper EXCEPT !.pc = "exited", !.why = "frame"]
  BY <1>2 DEF Collect, Receive, Exit
<1>4. /\ clock \in Nat /\ timeout \in Nat /\ sender.beat \in Nat /\ helper.last \in Nat /\ helper.tick \in Nat
      /\ helper.received + 1 \in Nat /\ helper.got + 1 \in Nat
  BY <1>1, Numbers
<1>5. wire[1].at \in Nat /\ clock <= wire[1].at + MaxDelay /\ wire[1].at <= sender.beat
      /\ (wire[1].kind = "key" => wire[1].at = 0)
  <2>1. wire[1].at \in Nat /\ 1 \in 1 .. Len(wire) /\ Len(wire) > 0
    BY <1>1, Numbers, RestOfStream DEF HelperTypes
  <2>2. wire[1].at <= sender.beat /\ (wire[1].kind = "key" => wire[1].at = 0)
    BY <1>1, <2>1 DEF StreamInv
  <2>3. clock <= wire[1].at + MaxDelay
    BY <1>1, <1>3, <2>1 DEF StreamInv
  <2> QED BY <2>1, <2>2, <2>3
<1>6. helper' \in [pc : {"collect", "monitor", "exited"}, got : Nat, received : Nat, last : Nat,
                   tick : Nat, why : {"none", "frame", "expired", "stream", "heartbeat", "child", "cancelled"}]
  BY <1>1, <1>3, <1>4 DEF HelperTypes
<1>7. HelperTypes'
  BY <1>1, <1>2, <1>3, <1>6 DEF HelperTypes
<1>8. StreamInv' /\ SenderInv'
  <2>1. helper'.pc # "exited" => helper'.last = clock \/ (helper'.last = helper.last /\ wire[1].kind = "key")
    BY <1>1, <1>3 DEF HelperTypes
  <2> QED BY <2>1, <1>3, <1>7, TakeKeepsStream
<1>9. MonitorInv'
  <2>1. helper'.last <= sender'.beat + MaxDelay
    <3>1. helper'.last \in {clock, helper.last}
      BY <1>1, <1>3 DEF HelperTypes
    <3>2. clock <= sender.beat + MaxDelay
      BY <1>4, <1>5
    <3>3. helper.last <= sender.beat + MaxDelay
      BY <1>1 DEF MonitorInv
    <3> QED BY <3>1, <3>2, <3>3, <1>3
  <2>2. helper'.pc = "collect" /\ helper'.got = Keys => clock' <= MaxDelay
    <3>1. CASE wire[1].kind = "key"
      BY <3>1, <1>3, <1>4, <1>5
    <3>2. CASE wire[1].kind # "key"
      BY <3>2, <1>1, <1>3 DEF HelperTypes, MonitorInv
    <3> QED BY <3>1, <3>2
  <2>3. TickEvery' = TickEvery
    BY <1>3 DEF TickEvery
  <2>4. helper'.pc = "monitor" => helper.pc = "monitor" /\ helper'.tick = helper.tick
    BY <1>1, <1>3 DEF HelperTypes
  <2>5. helper'.pc = "monitor" =>
          clock' <= helper'.tick /\ helper'.tick <= sender'.beat + MaxDelay + timeout' + TickEvery'
    BY <2>3, <2>4, <1>1, <1>3 DEF MonitorInv
  <2>6. helper'.why \in {helper.why, "frame"}
    BY <1>1, <1>3 DEF HelperTypes
  <2>7. helper'.why = "heartbeat" => sender'.pc \in {"hung", "closed"}
    BY <2>6, <1>1, <1>3 DEF MonitorInv
  <2> QED BY <2>1, <2>2, <2>5, <2>7 DEF MonitorInv
<1> QED BY <1>7, <1>8, <1>9 DEF SessionInv

(* The helper's other steps, and the supervisor's end: the stream stays.   *)
LEMMA RestPreserves ==
  ASSUME SessionInv, \/ Hang \/ StartChild \/ EndOfStream \/ MonitorTick \/ ChildEnds
                     \/ wire = <<>> /\ Collect
  PROVE  SessionInv'
<1> USE Linear
<1>1. HelperTypes /\ StreamInv /\ SenderInv /\ MonitorInv
  BY DEF SessionInv
<1>2. /\ clock \in Nat /\ timeout \in Nat /\ sender.beat \in Nat /\ helper.last \in Nat /\ helper.tick \in Nat
      /\ TickEvery \in Nat /\ clock + TickEvery \in Nat
  BY <1>1, Numbers, TickIsPositive
<1>3. UNCHANGED <<clock, timeout, wire>> /\ TickEvery' = TickEvery
  BY DEF Hang, StartChild, EndOfStream, MonitorTick, ChildEnds, Collect, TickEvery
<1>4. CASE Hang
  <2>1. PICK pc \in {"hung", "closed"} : sender' = [sender EXCEPT !.pc = pc]
    BY <1>4 DEF Hang
  <2>2. sender'.pc = pc /\ sender'.beat = sender.beat /\ helper' = helper
    BY <1>1, <1>4, <2>1 DEF Hang, HelperTypes
  <2>3. HelperTypes'
    BY <1>1, <1>3, <2>1, <2>2 DEF HelperTypes
  <2> QED
    BY <1>1, <1>3, <2>2, <2>3 DEF SessionInv, StreamInv, SenderInv, MonitorInv
<1>5. CASE \E why \in {"frame", "expired", "stream", "child", "cancelled"} : Exit(why) /\ sender' = sender
  <2>1. PICK why \in {"frame", "expired", "stream", "child", "cancelled"} :
          helper' = [helper EXCEPT !.pc = "exited", !.why = why] /\ sender' = sender
    BY <1>5 DEF Exit
  <2>2. helper'.pc = "exited" /\ helper'.why = why /\ helper'.last = helper.last
    BY <1>1, <2>1 DEF HelperTypes
  <2>3. HelperTypes'
    BY <1>1, <1>3, <2>1 DEF HelperTypes
  <2> QED
    BY <1>1, <1>3, <2>1, <2>2, <2>3 DEF SessionInv, StreamInv, SenderInv, MonitorInv
<1>6. CASE MonitorTick /\ clock - helper.last > timeout
  <2>1. sender' = sender /\ helper' = [helper EXCEPT !.pc = "exited", !.why = "heartbeat"]
    BY <1>6 DEF MonitorTick, Exit
  <2>2. helper'.pc = "exited" /\ helper'.why = "heartbeat" /\ helper'.last = helper.last
    BY <1>1, <2>1 DEF HelperTypes
  <2>3. HelperTypes'
    BY <1>1, <1>3, <2>1 DEF HelperTypes
  <2>4. helper.pc = "monitor" /\ timeout > 0 /\ timeout >= HeartbeatInterval + MaxDelay
    BY <1>1, <1>6 DEF MonitorTick, HelperTypes
  <2>5. sender.pc # "keys"
    BY <1>1, <1>2, <1>6, <2>4 DEF SenderInv
  <2>6. sender.pc # "beats"
    <3>1. CASE Len(wire) = 0
      <4> SUFFICES ASSUME sender.pc = "beats" PROVE FALSE
        OBVIOUS
      <4>1. clock <= sender.beat /\ sender.beat <= helper.last + HeartbeatInterval
        BY <3>1, <1>1, <2>4 DEF SenderInv
      <4>2. /\ clock \in Nat /\ sender.beat \in Nat /\ helper.last \in Nat /\ timeout \in Nat
            /\ HeartbeatInterval \in Nat /\ MaxDelay \in Nat
        BY <1>1, Numbers, Linear
      <4>3. ~(clock - helper.last > timeout)
        <5>1. clock <= sender.beat + MaxDelay
          BY ONLY <4>1, <4>2
        <5> QED BY ONLY <5>1, <4>1, <4>2, <2>4, Order
      <4> QED BY <4>3, <1>6
    <3>2. CASE Len(wire) > 0
      <4>1. clock <= wire[1].at + MaxDelay /\ wire[1].at <= helper.last + HeartbeatInterval /\ wire[1].at \in Nat
        BY <3>2, <1>1, <2>4, Numbers DEF StreamInv
      <4>2. /\ clock \in Nat /\ helper.last \in Nat /\ timeout \in Nat
            /\ HeartbeatInterval \in Nat /\ MaxDelay \in Nat
        BY <1>1, Numbers, Linear
      <4>3. ~(clock - helper.last > timeout)
        BY ONLY <4>1, <4>2, <2>4, Order
      <4> QED BY <4>3, <1>6
    <3> QED BY <3>1, <3>2, <1>1, Numbers
  <2>7. sender.pc \in {"hung", "closed"}
    BY <2>5, <2>6, <1>1 DEF HelperTypes
  <2> QED
    BY <1>1, <1>3, <2>1, <2>2, <2>3, <2>7 DEF SessionInv, StreamInv, SenderInv, MonitorInv
<1>7. CASE (MonitorTick /\ ~(clock - helper.last > timeout)) \/ (StartChild /\ clock < expires)
  <2>1. /\ sender' = sender /\ helper.pc # "exited"
        /\ helper' = [helper EXCEPT !.pc = "monitor", !.tick = clock + TickEvery]
    BY <1>1, <1>7 DEF MonitorTick, StartChild, HelperTypes
  <2>2. helper'.pc = "monitor" /\ helper'.last = helper.last /\ helper'.tick = clock + TickEvery
        /\ helper'.why = helper.why
    BY <1>1, <2>1 DEF HelperTypes
  <2>3. HelperTypes'
    BY <1>1, <1>2, <1>3, <2>1 DEF HelperTypes
  <2>4. clock <= sender.beat + MaxDelay + timeout
    <3>1. CASE MonitorTick /\ ~(clock - helper.last > timeout)
      BY <3>1, <1>1, <1>2 DEF MonitorInv
    <3>2. CASE StartChild
      BY <3>2, <1>1, <1>2 DEF StartChild, MonitorInv
    <3> QED BY <3>1, <3>2, <1>7
  <2>5. clock <= clock + TickEvery /\ clock + TickEvery <= sender.beat + MaxDelay + timeout + TickEvery
    BY <2>4, <1>2
  <2> QED
    BY <1>1, <1>3, <2>1, <2>2, <2>3, <2>5 DEF SessionInv, StreamInv, SenderInv, MonitorInv
<1> QED
  BY <1>4, <1>5, <1>6, <1>7 DEF StartChild, EndOfStream, MonitorTick, ChildEnds, Collect

(* Time passes only when nothing is due.                                   *)
LEMMA ClockPreserves ==
  ASSUME SessionInv, ClockTick
  PROVE  SessionInv'
<1> USE Linear
<1>1. HelperTypes /\ StreamInv /\ SenderInv /\ MonitorInv
  BY DEF SessionInv
<1>2. /\ clock \in Nat /\ sender.beat \in Nat /\ helper.tick \in Nat /\ helper.last \in Nat
      /\ Len(wire) \in Nat /\ \A i \in 1 .. Len(wire) : wire[i].at \in Nat
  BY <1>1, Numbers
<1>3. clock' = clock + 1 /\ UNCHANGED <<timeout, sender, wire, helper>> /\ TickEvery' = TickEvery /\ Quiet
  BY DEF ClockTick, TickEvery
<1>4. Len(wire) > 0 => wire # <<>> /\ Head(wire) = wire[1]
  BY <1>1, RestOfStream DEF HelperTypes
<1>5. HelperTypes'
  BY <1>1, <1>2, <1>3 DEF HelperTypes
<1>6. StreamInv'
  <2>1. \A i \in 1 .. Len(wire) : wire[i].at <= clock + 1
    BY <1>1, <1>2 DEF StreamInv
  <2>2. Len(wire) > 0 /\ helper.pc # "exited" => clock + 1 <= wire[1].at + MaxDelay
    BY <1>2, <1>3, <1>4 DEF Quiet
  <2> QED BY <2>1, <2>2, <1>1, <1>3 DEF StreamInv
<1>7. SenderInv'
  BY <1>1, <1>2, <1>3 DEF SenderInv, Quiet
<1>8. MonitorInv'
  BY <1>1, <1>2, <1>3 DEF MonitorInv, Quiet
<1> QED BY <1>5, <1>6, <1>7, <1>8 DEF SessionInv

(* SessionInv is inductive.                                                *)
THEOREM SessionInvariance == HelperSpec => []SessionInv
<1>1. SessionInv /\ [HelperNext]_helperVars => SessionInv'
  <2> SUFFICES ASSUME SessionInv, [HelperNext]_helperVars
               PROVE  SessionInv'
    OBVIOUS
  <2>1. CASE UNCHANGED helperVars
    BY <2>1 DEF helperVars, SessionInv, HelperTypes, StreamInv, SenderInv, MonitorInv, TickEvery
  <2>2. CASE SendKey \/ SendHeartbeat
    BY <2>2, SendPreserves
  <2>3. CASE wire # <<>> /\ (Collect \/ Receive)
    BY <2>3, TakePreserves
  <2>4. CASE ClockTick
    BY <2>4, ClockPreserves
  <2>5. CASE \/ Hang \/ StartChild \/ EndOfStream \/ MonitorTick \/ ChildEnds
             \/ wire = <<>> /\ Collect
    BY <2>5, RestPreserves
  <2>6. Receive => wire # <<>>
    BY DEF Receive
  <2> QED BY <2>1, <2>2, <2>3, <2>4, <2>5, <2>6 DEF HelperNext
<1> QED
  BY <1>1, InitEstablishes, PTL DEF HelperSpec

(* Whatever the number of keys, the timeout the manifest declares and the  *)
(* delay of the stream, a child whose supervisor is silent ends in time,   *)
(* and none is killed while its supervisor keeps the interval.             *)
THEOREM HeartbeatIsRight == HelperSpec => []HeartbeatDecides
<1>1. SessionInv => HeartbeatDecides
  <2> SUFFICES ASSUME SessionInv PROVE HeartbeatDecides
    OBVIOUS
  <2>1. HelperTypes /\ MonitorInv
    BY DEF SessionInv
  <2>2. /\ clock \in Nat /\ timeout \in Nat /\ sender.beat \in Nat /\ helper.tick \in Nat
        /\ TickEvery \in Nat /\ MaxDelay \in Nat
    BY <2>1, Numbers, TickIsPositive, Linear
  <2>3. ChildIsHeartbeaten
    BY <2>1, <2>2 DEF MonitorInv, ChildIsHeartbeaten
  <2>4. NoFalseKill
    BY <2>1 DEF MonitorInv, NoFalseKill
  <2> QED BY <2>3, <2>4 DEF HeartbeatDecides
<1> QED
  BY <1>1, SessionInvariance, PTL
=============================================================================
