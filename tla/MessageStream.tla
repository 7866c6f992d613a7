------------------------------ MODULE MessageStream ------------------------------
(***************************************************************************)
(* MessageStream: how Connection.ReadMessage of protocol/connection.go     *)
(* cuts the bytes of a TCP connection into messages with the BinaryCodec   *)
(* of protocol/codec.go.                                                   *)
(*                                                                         *)
(* A byte is its position in the stream.  TCP keeps the order and hands    *)
(* the bytes over in pieces of any size; CRC32 is taken to notice every    *)
(* difference.  overtaken is history.                                      *)
(***************************************************************************)
EXTENDS Naturals, Sequences

CONSTANTS
  MinLength,   \* the bytes of a header with empty ids: 28
  Lengths,     \* bound: the lengths of the client's messages
  BufferSize,  \* the most one Read returns
  MaxMessages  \* bound: messages the client sends

ASSUME StreamAssumption ==
  /\ MinLength \in Nat \ {0} /\ BufferSize \in Nat \ {0} /\ MaxMessages \in Nat
  /\ Lengths \subseteq Nat /\ \A n \in Lengths : n >= MinLength

VARIABLES
  sent,       \* the position after the last byte of each message sent
  from, to,   \* readBuffer holds the bytes from + 1 to to
  delivered,  \* the first and last position of the messages ReadMessage returned
  reader,     \* where the goroutine of handleConnectionLoop is, or why it ended
  overtaken   \* the client sent a message while the one before was unread

vars == <<sent, from, to, delivered, reader, overtaken>>

Written == IF sent = <<>> THEN 0 ELSE sent[Len(sent)]

Running == {"handle", "try", "read"}
Ended   == {"rejected", "lost"}

TypeOK ==
  /\ sent \in Seq(Nat) /\ from \in Nat /\ to \in Nat /\ from <= to /\ to <= Written
  /\ delivered \in Seq(Nat \X Nat)
  /\ reader \in Running \cup Ended /\ overtaken \in BOOLEAN

Init ==
  /\ sent = <<>> /\ from = 0 /\ to = 0 /\ delivered = <<>>
  /\ reader = "handle" /\ overtaken = FALSE

(* The client encodes a message and writes all of it.                      *)
Send ==
  /\ Len(sent) < MaxMessages
  /\ \E n \in Lengths : sent' = Append(sent, Written + n)
  /\ overtaken' = (overtaken \/ Len(delivered) < Len(sent))
  /\ UNCHANGED <<from, to, delivered, reader>>

(* handleConnectionLoop has handled a message and calls ReadMessage.       *)
ReadMessage ==
  /\ reader = "handle" /\ reader' = "try"
  /\ UNCHANGED <<sent, from, to, delivered, overtaken>>

-------------------------------------------------------------------------------
(* Where the message that starts at the buffer's first byte ends, by the   *)
(* lengths its header states.                                              *)
End == sent[Len(delivered) + 1]

(* Mutant: a buffer of exactly the shortest message is not tried.          *)
WorthTryingLate == to - from > MinLength

WorthTrying == to - from >= MinLength

(* Mutant: the length of the body is left out of the comparison.           *)
ShortOfIds == to - from < MinLength

(* Decode stops at an id or a body that the buffer does not hold whole.    *)
Short == to < End

(* The sum is taken over the whole buffer.                                 *)
ChecksumFits == to = End

ReadMore == reader' = "read" /\ UNCHANGED <<from, to, delivered>>

(* Mutant: Decode reports the header as all it has consumed.               *)
DeliverHeader(last) ==
  /\ delivered' = Append(delivered, <<from, from + MinLength>>)
  /\ from' = from + MinLength /\ to' = to /\ reader' = "handle"

(* tryDecodeMessage drops what it decoded, and keeps the rest.             *)
Deliver(last) ==
  /\ delivered' = Append(delivered, <<from, last>>)
  /\ from' = last /\ to' = to /\ reader' = "handle"

tryDecodeMessage ==
  /\ reader = "try"
  /\ \/ ~WorthTrying /\ ReadMore
     \/ WorthTrying /\ Short /\ ReadMore
     \/ WorthTrying /\ ~Short /\ ChecksumFits /\ Deliver(End)
     \/ WorthTrying /\ ~Short /\ ~ChecksumFits /\ reader' = "rejected"
        /\ UNCHANGED <<from, to, delivered>>
  /\ UNCHANGED <<sent, overtaken>>

(* Mutant: the whole of the buffer that was handed to Read is appended.    *)
ReceivedWhole == {BufferSize}

(* How many bytes a Read may return.                                       *)
Received == {n \in 1..BufferSize : to + n <= Written}

Read ==
  /\ reader = "read" /\ to < Written
  /\ \E n \in Received : to' = to + n
  /\ reader' = "try"
  /\ UNCHANGED <<sent, from, delivered, overtaken>>

(* The peer or a deadline ends the read; the connection is given up.       *)
ReadFails ==
  /\ reader = "read" /\ reader' = "lost"
  /\ UNCHANGED <<sent, from, to, delivered, overtaken>>

Next == Send \/ ReadMessage \/ tryDecodeMessage \/ Read \/ ReadFails

Spec == Init /\ [][Next]_vars

(* The goroutine runs on, and TCP hands over what was written.             *)
FairSpec == Spec /\ WF_vars(ReadMessage) /\ WF_vars(tryDecodeMessage) /\ WF_vars(Read)

-------------------------------------------------------------------------------
First(i) == IF i = 1 THEN 0 ELSE sent[i - 1]

(* The messages ReadMessage returns are the messages sent, whole, in order *)
(* and each once, however TCP cuts the stream.                             *)
DeliveredAsSent ==
  /\ Len(delivered) <= Len(sent)
  /\ \A i \in 1..Len(delivered) : delivered[i] = <<First(i), sent[i]>>

(* A client that never sends a message before its last one was read is     *)
(* never rejected, however TCP fragments its messages.                     *)
OnlyCoalescedRejected == reader = "rejected" => overtaken

(* Every message sent is returned, or the connection is given up: a        *)
(* message that is complete is not kept waiting for bytes after it.        *)
EveryMessageDelivered ==
  \A i \in 1..MaxMessages : Len(sent) >= i ~> (Len(delivered) >= i \/ reader \in Ended)

(* The comment on ReadMessage, "supports TCP packets that are glued        *)
(* together": no message of a correct client is rejected.                  *)
GluedMessagesDecoded == reader # "rejected"
================================================================================
