--------------------------- MODULE SafetyMessage ---------------------------
(***************************************************************************)
(* The message in shared memory (common/src/SafetyMessage.cpp): publish()  *)
(* on one core and read() on another, without a lock.  sequence is odd     *)
(* while the message is written, and read() takes a copy only if sequence  *)
(* was even and the same before and after it.                              *)
(*                                                                         *)
(* The barriers order the writes to sequence and to the other words; the   *)
(* words between them are written, and copied, in any order.  sequence is  *)
(* 32 bits wide and does not wrap within MaxMessages messages.  The writer   *)
(* may die and be started again: the memory stays as it is.                *)
(***************************************************************************)
EXTENDS Integers

CONSTANTS
    kMaxDetections,
    max_retries,
    MaxMessages           \* bound: messages published

ASSUME MessageAssumption ==
    {kMaxDetections, max_retries, MaxMessages} \subseteq Nat

(* The words of the message; a record counts as one. *)
format  == -2           \* magic and version: 1 once they are written
count   == -1
time    == 0            \* capture_time_ns: the number of the frame
Records == 1 .. kMaxDetections
Words   == {format, count, time} \cup Records

VARIABLES
    sequence,
    shared,             \* the other words of the message
    writer,             \* "idle" or "writing"
    todo,               \* words publish() has yet to write
    frame,              \* the frame it publishes (a record holds its frame)
    reader,             \* "idle", "look", "copy"
    before, attempt,
    out,                \* the copy
    left,               \* words yet to copy
    result,             \* what the last read() returned
    (* history *)
    counts,             \* the number of detections of each frame
    revived             \* a writer has died in publish() and another written

writerVars  == <<sequence, shared, writer, todo, frame, counts, revived>>
readerVars  == <<reader, before, attempt, out, left, result>>
messageVars == <<writerVars, readerVars>>

MessageTypeOK ==
    /\ sequence \in Nat
    /\ shared \in [Words -> Nat]
    /\ writer \in {"idle", "writing"}
    /\ todo \subseteq Words
    /\ frame \in Nat
    /\ reader \in {"idle", "look", "copy"}
    /\ before \in Nat
    /\ attempt \in Nat
    /\ out \in [Words -> Nat]
    /\ left \subseteq Words
    /\ result \in BOOLEAN
    /\ counts \in [0 .. MaxMessages -> Nat]
    /\ revived \in BOOLEAN

(* The memory is cleared at power-on. *)
MessageInit ==
    /\ sequence = 0
    /\ shared = [w \in Words |-> 0]
    /\ writer = "idle" /\ todo = {} /\ frame = 0
    /\ reader = "idle" /\ before = 0 /\ attempt = 0
    /\ out = [w \in Words |-> 0] /\ left = {} /\ result = FALSE
    /\ counts = [f \in 0 .. MaxMessages |-> 0]
    /\ revived = FALSE

isOdd(n) == n % 2 = 1

-----------------------------------------------------------------------------
(* publish() *)
kept(items) == IF items > kMaxDetections THEN kMaxDetections ELSE items

Begin(items) ==
    /\ writer = "idle"
    /\ frame < MaxMessages
    /\ writer' = "writing"
    /\ frame' = frame + 1
    /\ sequence' = sequence + 1
    /\ todo' = {format, count, time} \cup (1 .. kept(items))
    /\ counts' = [counts EXCEPT ![frame + 1] = kept(items)]
    /\ revived' = (revived \/ isOdd(sequence))
    /\ UNCHANGED <<shared, readerVars>>

valueOf(w) == IF w = format THEN 1 ELSE IF w = count THEN counts[frame] ELSE frame

Write(w) ==
    /\ w \in todo
    /\ shared' = [shared EXCEPT ![w] = valueOf(w)]
    /\ todo' = todo \ {w}
    /\ UNCHANGED <<sequence, writer, frame, counts, revived, readerVars>>

Finish ==
    /\ writer = "writing"
    /\ todo = {}
    /\ writer' = "idle"
    /\ sequence' = sequence + 1
    /\ UNCHANGED <<shared, todo, frame, counts, revived, readerVars>>

(* The process dies in publish() and another takes its place. *)
Restart ==
    /\ writer = "writing"
    /\ writer' = "idle"
    /\ todo' = {}
    /\ UNCHANGED <<sequence, shared, frame, counts, revived, readerVars>>

-----------------------------------------------------------------------------
(* read() *)
Call ==
    /\ reader = "idle"
    /\ reader' = "look"
    /\ attempt' = 0
    /\ UNCHANGED <<writerVars, before, out, left, result>>

Return(ok) == reader' = "idle" /\ result' = ok /\ UNCHANGED attempt

(* continue: another attempt, or the end of the loop *)
Retry ==
    IF attempt < max_retries
    THEN reader' = "look" /\ attempt' = attempt + 1 /\ UNCHANGED result
    ELSE Return(FALSE)

Look ==
    /\ reader = "look"
    /\ before' = sequence
    /\ left' = Words
    /\ IF isOdd(sequence) THEN Retry
       ELSE reader' = "copy" /\ UNCHANGED <<attempt, result>>
    /\ UNCHANGED <<writerVars, out>>

Copy(w) ==
    /\ reader = "copy"
    /\ w \in left
    /\ out' = [out EXCEPT ![w] = shared[w]]
    /\ left' = left \ {w}
    /\ UNCHANGED <<writerVars, reader, before, attempt, result>>

(* Slip: sequence is not looked at again after the copy. *)
unchanged_Slip_Trusted == TRUE
unchanged == sequence = before

valid == out[format] = 1 /\ out[count] <= kMaxDetections

Recheck ==
    /\ reader = "copy"
    /\ left = {}
    /\ IF unchanged THEN Return(valid) ELSE Retry
    /\ UNCHANGED <<writerVars, before, out, left>>

MessageNext ==
    \/ \E items \in 0 .. kMaxDetections + 1 : Begin(items)
    \/ \E w \in Words : Write(w) \/ Copy(w)
    \/ Finish \/ Restart
    \/ Call \/ Look \/ Recheck

MessageSpec == MessageInit /\ [][MessageNext]_messageVars

-----------------------------------------------------------------------------
(* The count, and each of the records it counts, belong to the frame the   *)
(* time names.  Records beyond the count are left from earlier frames.     *)
whole(m) ==
    /\ m[count] = counts[m[time]]
    /\ \A i \in Records : i <= m[count] => m[i] = m[time]

(* read() returns true only with a whole snapshot, wherever the writer was *)
(* during the copy and even if it has died in the middle of a message, as  *)
(* long as no other writer has gone on after that.                         *)
WholeSnapshot == reader = "idle" /\ result /\ ~revived => whole(out)

(* Why, as an inductive invariant.  Unless a writer was revived, an even   *)
(* sequence says that the memory is whole; what is copied while sequence   *)
(* stays the same is what the memory holds; and sequence never returns to  *)
(* the value it had before the copy.                                       *)
frameWords == {format, count, time} \cup (1 .. counts[frame])

WriterInv ==
    /\ frame <= MaxMessages /\ shared[time] <= frame
    /\ counts[frame] <= kMaxDetections
    /\ writer = "idle" => todo = {}
    /\ writer = "writing" => \A w \in frameWords \ todo : shared[w] = valueOf(w)
    /\ ~revived /\ writer = "writing" => isOdd(sequence)
    /\ ~revived /\ ~isOdd(sequence) => whole(shared)

ReaderInv ==
    /\ out[time] <= frame
    /\ reader = "copy" =>
        /\ ~isOdd(before) /\ before <= sequence
        /\ ~revived /\ sequence = before => \A w \in Words \ left : out[w] = shared[w]

MessageInv == MessageTypeOK /\ WriterInv /\ ReaderInv /\ WholeSnapshot

=============================================================================
