---------------------------- MODULE MessageStreamProofs ----------------------------
(***************************************************************************)
(* The safety of MessageStream for messages and buffers of any size.       *)
(***************************************************************************)
EXTENDS MessageStream, TLAPS, SequenceTheorems

-------------------------------------------------------------------------------
(* The inductive invariant.                                                *)

(* The buffer begins where the last message that was returned ended.       *)
BufferInv == from = First(Len(delivered) + 1)

(* A client that never overtook itself has one unread message at most.     *)
PaceInv == ~overtaken => Len(sent) <= Len(delivered) + 1

IInv == TypeOK /\ DeliveredAsSent /\ BufferInv /\ PaceInv /\ OnlyCoalescedRejected

(* Where the stream ends, and that it is a position.                       *)
LEMMA WrittenType ==
  ASSUME TypeOK
  PROVE  Written \in Nat /\ Len(sent) \in Nat /\ Len(delivered) \in Nat
<1>1. sent \in Seq(Nat) /\ Len(sent) \in Nat /\ Len(delivered) \in Nat
  BY DEF TypeOK
<1>2. CASE sent = <<>>
  BY <1>1, <1>2 DEF Written
<1>3. CASE sent # <<>>
  <2>1. Len(sent) \in 1..Len(sent)
    BY <1>1, <1>3, EmptySeq
  <2> QED BY <1>1, <1>3, <2>1, ElementOfSeq DEF Written
<1> QED BY <1>1, <1>2, <1>3

(* A buffer worth trying begins with a message that has been sent.         *)
LEMMA TriedIsSent ==
  ASSUME IInv, WorthTrying
  PROVE  /\ Len(delivered) < Len(sent)
         /\ End \in Nat /\ End = sent[Len(delivered) + 1]
         /\ Len(delivered) + 1 = Len(sent) => End = Written
<1>1. /\ Written \in Nat /\ Len(sent) \in Nat /\ Len(delivered) \in Nat
      /\ sent \in Seq(Nat) /\ from \in Nat /\ to \in Nat /\ to <= Written
      /\ Len(delivered) <= Len(sent)
  BY WrittenType DEF IInv, TypeOK, DeliveredAsSent
<1>2. from < to
  BY <1>1, StreamAssumption DEF WorthTrying
<1>3. Len(delivered) # Len(sent)
  <2> SUFFICES ASSUME Len(delivered) = Len(sent) PROVE FALSE
    OBVIOUS
  <2>1. CASE sent = <<>>
    BY <1>1, <1>2, <2>1 DEF Written
  <2>2. CASE sent # <<>>
    BY <1>1, <1>2, <2>2, EmptySeq DEF IInv, BufferInv, First, Written
  <2> QED BY <2>1, <2>2
<1>4. Len(delivered) + 1 \in 1..Len(sent)
  BY <1>1, <1>3
<1>5. End \in Nat
  BY <1>1, <1>4, ElementOfSeq DEF End
<1>6. sent # <<>>
  BY <1>1, <1>4, EmptySeq
<1> QED BY <1>1, <1>3, <1>5, <1>6 DEF End, Written

(* What a step that only reads or moves the reader on leaves true.         *)
LEMMA SameMessages ==
  ASSUME IInv, UNCHANGED <<sent, from, delivered, overtaken>>,
         to' \in Nat, to <= to', to' <= Written,
         reader' \in Running \cup Ended, reader' = "rejected" => overtaken
  PROVE  IInv'
<1>1. Written' = Written /\ \A i : First(i)' = First(i)
  BY DEF Written, First
<1>2. TypeOK'
  <2>1. from \in Nat /\ to \in Nat /\ from <= to
    BY DEF IInv, TypeOK
  <2> QED BY <1>1, <2>1 DEF IInv, TypeOK, Running, Ended
<1>3. DeliveredAsSent' /\ BufferInv' /\ PaceInv'
  BY <1>1 DEF IInv, DeliveredAsSent, BufferInv, PaceInv
<1> QED BY <1>2, <1>3 DEF IInv, OnlyCoalescedRejected

-------------------------------------------------------------------------------
LEMMA InitInv == Init => IInv
<1> SUFFICES ASSUME Init PROVE IInv
  OBVIOUS
<1>1. sent \in Seq(Nat) /\ delivered \in Seq(Nat \X Nat) /\ Len(sent) = 0 /\ Len(delivered) = 0
  BY EmptySeq DEF Init
<1>2. Written = 0 /\ First(1) = 0
  BY DEF Init, Written, First
<1>3. TypeOK
  <2>1. from = 0 /\ to = 0 /\ reader = "handle" /\ overtaken = FALSE
    BY DEF Init
  <2>2. from <= to /\ to <= Written
    BY <1>2, <2>1
  <2> QED BY <1>1, <2>1, <2>2 DEF TypeOK, Running
<1> QED BY <1>1, <1>2, <1>3
        DEF Init, IInv, DeliveredAsSent, BufferInv, PaceInv, OnlyCoalescedRejected

LEMMA SendKeepsInv ==
  ASSUME IInv, Send PROVE IInv'
<1>1. PICK n \in Lengths : sent' = Append(sent, Written + n)
  BY DEF Send
<1>2. n \in Nat /\ Written \in Nat /\ Len(sent) \in Nat /\ Len(delivered) \in Nat /\ sent \in Seq(Nat)
  BY StreamAssumption, WrittenType DEF IInv, TypeOK
<1>3. /\ sent' \in Seq(Nat) /\ Len(sent') = Len(sent) + 1
      /\ sent'[Len(sent) + 1] = Written + n
      /\ \A i \in 1..Len(sent) : sent'[i] = sent[i]
  BY <1>1, <1>2, AppendProperties
<1>4. Written' = Written + n
  BY <1>2, <1>3, EmptySeq DEF Written
<1>5. TypeOK'
  <2>1. to \in Nat /\ to <= Written'
    BY <1>2, <1>4 DEF IInv, TypeOK
  <2> QED BY <1>3, <2>1 DEF IInv, TypeOK, Send
<1>6. \A i \in 1..Len(delivered) + 1 : First(i)' = First(i)
  <2> SUFFICES ASSUME NEW i \in 1..Len(delivered) + 1 PROVE First(i)' = First(i)
    OBVIOUS
  <2>1. i # 1 => i - 1 \in 1..Len(sent)
    BY <1>2 DEF IInv, DeliveredAsSent
  <2> QED BY <1>3, <2>1 DEF First
<1>7. DeliveredAsSent'
  <2>1. delivered' = delivered /\ Len(delivered) <= Len(sent)
    BY DEF Send, IInv, DeliveredAsSent
  <2>2. \A i \in 1..Len(delivered) : First(i)' = First(i) /\ sent'[i] = sent[i]
    BY <1>2, <1>3, <1>6, <2>1
  <2> QED BY <1>2, <1>3, <2>1, <2>2 DEF IInv, DeliveredAsSent
<1>8. BufferInv'
  <2>1. from' = from /\ delivered' = delivered
    BY DEF Send
  <2>2. Len(delivered) # 0 => sent'[Len(delivered)] = sent[Len(delivered)]
    BY <1>2, <1>3 DEF IInv, DeliveredAsSent
  <2> QED BY <1>2, <2>1, <2>2 DEF IInv, BufferInv, First
<1>9. PaceInv'
  <2>1. ~overtaken' => ~(Len(delivered) < Len(sent))
    BY DEF Send
  <2>2. delivered' = delivered
    BY DEF Send
  <2> QED BY <1>2, <1>3, <2>1, <2>2 DEF PaceInv
<1> QED BY <1>5, <1>7, <1>8, <1>9 DEF IInv, OnlyCoalescedRejected, Send

(* A message that ends where the buffer ends is returned.                  *)
LEMMA DeliverKeepsInv ==
  ASSUME IInv, WorthTrying, ChecksumFits, Deliver(End), UNCHANGED <<sent, overtaken>>
  PROVE  IInv'
<1> DEFINE d == Len(delivered)
<1>1. /\ d \in Nat /\ d < Len(sent) /\ End \in Nat /\ End = sent[d + 1]
      /\ Len(sent) \in Nat /\ from \in Nat /\ to \in Nat /\ delivered \in Seq(Nat \X Nat)
  BY WrittenType, TriedIsSent DEF IInv, TypeOK
<1>2. /\ delivered' \in Seq(Nat \X Nat) /\ Len(delivered') = d + 1
      /\ delivered'[d + 1] = <<from, End>>
      /\ \A i \in 1..d : delivered'[i] = delivered[i]
  BY <1>1, AppendProperties DEF Deliver
<1>3. Written' = Written /\ \A i : First(i)' = First(i)
  BY DEF Written, First
<1>4. from' = to /\ to' = to /\ reader' = "handle"
  BY DEF Deliver, ChecksumFits
<1>5. TypeOK'
  BY <1>1, <1>2, <1>3, <1>4 DEF IInv, TypeOK, Running
<1>6. DeliveredAsSent'
  <2>1. delivered'[d + 1] = <<First(d + 1), sent[d + 1]>>
    BY <1>1, <1>2 DEF IInv, BufferInv
  <2>2. \A i \in 1..d : delivered'[i] = <<First(i), sent[i]>>
    BY <1>2 DEF IInv, DeliveredAsSent
  <2>3. sent' = sent /\ Len(delivered') <= Len(sent)
    BY <1>1, <1>2
  <2>4. ASSUME NEW i \in 1..Len(delivered')
        PROVE  delivered'[i] = <<First(i)', sent'[i]>>
    <3>1. i \in 1..d \/ i = d + 1
      BY <1>1, <1>2
    <3> QED BY <1>3, <2>1, <2>2, <2>3, <3>1
  <2> QED BY <2>3, <2>4 DEF DeliveredAsSent
<1>7. BufferInv'
  <2>1. Len(delivered') + 1 # 1 /\ Len(delivered') + 1 - 1 = d + 1
    BY <1>1, <1>2
  <2>2. sent' = sent /\ from' = sent[d + 1]
    BY <1>1, <1>4 DEF ChecksumFits
  <2> QED BY <2>1, <2>2 DEF BufferInv, First
<1>8. PaceInv'
  BY <1>1, <1>2 DEF IInv, PaceInv
<1> QED BY <1>4, <1>5, <1>6, <1>7, <1>8 DEF IInv, OnlyCoalescedRejected

(* A message behind which the buffer holds more is rejected: then a second *)
(* message was sent while the first was unread.                            *)
LEMMA RejectedIsOvertaken ==
  ASSUME IInv, WorthTrying, ~Short, ~ChecksumFits PROVE overtaken
<1>1. /\ Len(delivered) < Len(sent) /\ End \in Nat
      /\ Len(delivered) + 1 = Len(sent) => End = Written
      /\ Written \in Nat /\ Len(sent) \in Nat /\ Len(delivered) \in Nat
      /\ to \in Nat /\ to <= Written /\ overtaken \in BOOLEAN
  BY WrittenType, TriedIsSent DEF IInv, TypeOK
<1>2. to > End
  BY <1>1 DEF Short, ChecksumFits
<1>3. Len(sent) > Len(delivered) + 1
  BY <1>1, <1>2
<1> QED BY <1>1, <1>3 DEF IInv, PaceInv

LEMMA StepInv == IInv /\ [Next]_vars => IInv'
<1> SUFFICES ASSUME IInv, [Next]_vars PROVE IInv'
  OBVIOUS
<1>0. to \in Nat /\ to <= Written /\ Written \in Nat
  BY WrittenType DEF IInv, TypeOK
<1>1. CASE Send
  BY <1>1, SendKeepsInv
<1>2. CASE ReadMessage
  BY <1>0, <1>2, SameMessages DEF ReadMessage, Running
<1>3. CASE tryDecodeMessage
  <2>1. CASE ReadMore
    BY <1>0, <1>3, <2>1, SameMessages DEF tryDecodeMessage, ReadMore, Running
  <2>2. CASE WorthTrying /\ ~Short /\ ChecksumFits /\ Deliver(End)
    BY <1>3, <2>2, DeliverKeepsInv DEF tryDecodeMessage
  <2>3. CASE WorthTrying /\ ~Short /\ ~ChecksumFits /\ reader' = "rejected"
             /\ UNCHANGED <<from, to, delivered>>
    BY <1>0, <1>3, <2>3, SameMessages, RejectedIsOvertaken DEF tryDecodeMessage, Ended
  <2> QED BY <1>3, <2>1, <2>2, <2>3 DEF tryDecodeMessage
<1>4. CASE Read
  <2>1. PICK n \in Received : to' = to + n
    BY <1>4 DEF Read
  <2>2. n \in Nat /\ to + n <= Written
    BY <2>1, StreamAssumption DEF Received
  <2> QED BY <1>0, <1>4, <2>1, <2>2, SameMessages DEF Read, Running
<1>5. CASE ReadFails
  BY <1>0, <1>5, SameMessages DEF ReadFails, Ended
<1>6. CASE UNCHANGED vars
  BY <1>0, <1>6, SameMessages DEF vars, IInv, TypeOK, OnlyCoalescedRejected
<1> QED BY <1>1, <1>2, <1>3, <1>4, <1>5, <1>6 DEF Next

LEMMA InvHolds == Spec => []IInv
BY InitInv, StepInv, PTL DEF Spec

-------------------------------------------------------------------------------
(* The buffer holds a part of what was written, between two positions.     *)
THEOREM TypeCorrect == Spec => []TypeOK
BY InvHolds, PTL DEF IInv

(* What ReadMessage returns is what was sent, in whatever pieces TCP       *)
(* delivers it and however long the messages are.                          *)
THEOREM MessagesArriveAsSent == Spec => []DeliveredAsSent
BY InvHolds, PTL DEF IInv

(* The checksum over the whole buffer rejects no client that waits until   *)
(* its message is read before it sends the next.                           *)
THEOREM PatientClientIsServed == Spec => []OnlyCoalescedRejected
BY InvHolds, PTL DEF IInv
================================================================================
