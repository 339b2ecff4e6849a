------------------------------ MODULE UartLink ------------------------------
(***************************************************************************)
(* The UART between the Arty PS and the robot: the frames of               *)
(* common/src/UartFrame.cpp, written by PosixUartPort::write, and the      *)
(* receiver node uart_safety_receiver.py, which finds frames in whatever   *)
(* bytes have arrived and publishes their state on the safety topic.       *)
(*                                                                         *)
(* A byte on the wire also carries the number of its frame, as history.    *)
(* The line may lose or damage one byte of a frame, and a write may fail   *)
(* after a part of it.                                                     *)
(***************************************************************************)
EXTENDS SafetyState, Integers, Sequences

CONSTANTS
    MaxFrames,      \* bound: frames sent
    MaxFaults,      \* bound: frames that are lost or damaged in part
    Noise           \* values a damaged byte may have

Byte == 0 .. 255

ASSUME LinkAssumption ==
    MaxFrames \in Nat /\ MaxFaults \in Nat /\ Noise \subseteq Byte

VARIABLES
    wire,           \* bytes sent that the receiver has not read
    buffer,         \* _buffer
    topic,          \* what was published, each with the frame its magic is of
    (* history *)
    sent,           \* the states of the frames, in order
    clean,          \* the frames that went out whole
    faults

linkVars == <<wire, buffer, topic, sent, clean, faults>>

OnWire == [v : Byte, f : 1 .. MaxFrames]

LinkTypeOK ==
    /\ wire \in Seq(OnWire)
    /\ buffer \in Seq(OnWire) /\ Len(buffer) < 3
    /\ topic \in Seq([state : State, f : 1 .. MaxFrames])
    /\ sent \in Seq(State) /\ Len(sent) <= MaxFrames
    /\ clean \subseteq 1 .. Len(sent)
    /\ faults \in 0 .. MaxFaults

LinkInit ==
    /\ wire = << >>
    /\ buffer = << >>
    /\ topic = << >>
    /\ sent = << >>
    /\ clean = {}
    /\ faults = 0

-----------------------------------------------------------------------------
(* The frame *)
kMagic == 165

xor(a, b) ==
    LET bit(d) == d * (((a \div d) + (b \div d)) % 2)
    IN  bit(1) + bit(2) + bit(4) + bit(8) + bit(16) + bit(32) + bit(64) + bit(128)

(* The division by x^8 + x^2 + x + 1: one bit, the eight bits of a byte,   *)
(* all bytes (crc8_atm of the receiver is the same).                       *)
bitStep(crc) == IF crc >= 128 THEN xor((2 * crc) % 256, 7) ELSE 2 * crc

twoBits(crc)  == LET next == bitStep(crc) IN bitStep(next)
fourBits(crc) == LET next == twoBits(crc) IN twoBits(next)
byteStep(crc) == LET next == fourBits(crc) IN fourBits(next)

crc8(bytes) ==
    LET crc[n \in 0 .. Len(bytes)] ==
            IF n = 0 THEN 0
            ELSE LET mixed == xor(crc[n - 1], bytes[n]) IN byteStep(mixed)
    IN  crc[Len(bytes)]

encode(state) == <<kMagic, state, crc8(<<kMagic, state>>)>>

SentFrame  == {encode(state) : state \in State}
ValidFrame == {encode(byte) : byte \in Byte}    \* what the receiver accepts

-----------------------------------------------------------------------------
(* The loop of _poll.  from[i] is what it makes of the bytes from i on:    *)
(* the frames it finds, and the first byte that is left in the buffer.     *)
safeState(state) == IF state \in State THEN state ELSE Stop
atFrame(buf, i)  == <<buf[i].v, buf[i + 1].v, buf[i + 2].v>> \in ValidFrame
found(buf, i)    == [state |-> safeState(buf[i + 1].v), f |-> buf[i].f]

(* Slip: a frame that fails the check is skipped as a whole. *)
drain_Slip_SkipFrame(buf) ==
    LET from[i \in 1 .. Len(buf) + 3] ==
            IF i + 2 > Len(buf) THEN [left |-> i, out |-> << >>]
            ELSE IF buf[i].v # kMagic THEN from[i + 1]
            ELSE IF ~atFrame(buf, i) THEN from[i + 3]
            ELSE LET rest == from[i + 3]
                 IN  [rest EXCEPT !.out = <<found(buf, i)>> \o @]
    IN  from[1]

drain(buf) ==
    LET from[i \in 1 .. Len(buf) + 3] ==
            IF i + 2 > Len(buf) THEN [left |-> i, out |-> << >>]
            ELSE IF ~atFrame(buf, i) THEN from[i + 1]
            ELSE LET rest == from[i + 3]
                 IN  [rest EXCEPT !.out = <<found(buf, i)>> \o @]
    IN  from[1]

-----------------------------------------------------------------------------
(* A frame goes out, of which these bytes reach the wire. *)
Out(frame, bytes) ==
    /\ Len(sent) < MaxFrames
    /\ sent' = Append(sent, frame[2])
    /\ wire' = wire \o [k \in DOMAIN bytes |-> [v |-> bytes[k], f |-> Len(sent) + 1]]
    /\ UNCHANGED <<buffer, topic>>

Send(frame) ==
    /\ Out(frame, frame)
    /\ clean' = clean \cup {Len(sent) + 1}
    /\ UNCHANGED faults

(* Bound: faulty frames do not follow each other.  What is left of two     *)
(* neighbours may by chance be a valid frame, against which a check byte   *)
(* of one frame is no help.                                                *)
lastWhole == Len(sent) = 0 \/ Len(sent) \in clean

Fault ==
    /\ faults < MaxFaults /\ lastWhole
    /\ faults' = faults + 1
    /\ UNCHANGED clean

(* ::write fails after the first k bytes. *)
WriteFails(frame, k) == Out(frame, SubSeq(frame, 1, k)) /\ Fault

Lose(frame, k) == Out(frame, SubSeq(frame, 1, k - 1) \o SubSeq(frame, k + 1, 3)) /\ Fault

Damage(frame, k, v) == v # frame[k] /\ Out(frame, [frame EXCEPT ![k] = v]) /\ Fault

(* _poll: what has arrived of the bytes is read, and the buffer worked off *)
Poll(n) ==
    LET bytes == buffer \o SubSeq(wire, 1, n)
        done  == drain(bytes)
    IN  /\ wire' = SubSeq(wire, n + 1, Len(wire))
        /\ buffer' = SubSeq(bytes, done.left, Len(bytes))
        /\ topic' = topic \o done.out
        /\ UNCHANGED <<sent, clean, faults>>

LinkNext ==
    \/ \E frame \in SentFrame :
        \/ Send(frame)
        \/ \E k \in 0 .. 2 : WriteFails(frame, k)
        \/ \E k \in 1 .. 3 : Lose(frame, k)
        \/ \E k \in 1 .. 3, v \in Noise : Damage(frame, k, v)
    \/ \E n \in 1 .. Len(wire) : Poll(n)

LinkSpec == LinkInit /\ [][LinkNext]_linkVars

-----------------------------------------------------------------------------
(* A frame that went out whole is published, once and in its place, as     *)
(* soon as its bytes are read: damage to the frames around it never costs  *)
(* it, however the bytes are split between polls.                          *)
CleanFramesArrive ==
    /\ \A f \in clean :
        (\A k \in DOMAIN wire : wire[k].f # f) /\ (\A k \in DOMAIN buffer : buffer[k].f # f)
            => \E p \in DOMAIN topic : topic[p] = [state |-> sent[f], f |-> f]
    /\ \A p, q \in DOMAIN topic : p < q => topic[p].f < topic[q].f

(* Damage never makes a state that was not sent: every published state is  *)
(* the one of the frame it came in.                                        *)
NothingInvented == \A p \in DOMAIN topic : topic[p].state = sent[topic[p].f]

(* What the receiver node makes of the line: every frame that went out     *)
(* whole and nothing that was not sent, and fewer bytes than a frame wait. *)
LineIsFaithful == LinkTypeOK /\ CleanFramesArrive /\ NothingInvented
=============================================================================
