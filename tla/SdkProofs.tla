--------------------------------- MODULE SdkProofs ---------------------------------
(*****************************************************************************)
(* Machine-checked proofs about the two halves of sdk/server.go: the         *)
(* streaming calls (InvokeStream), for any number of streams, any channel    *)
(* capacity, either provider and any mix of deadlines; and the life of a     *)
(* plugin's process (Serve), for any number of processes that are started    *)
(* one after the other, killed, or live at the same time.  The two share no  *)
(* state, so that each has its own invariant.                                *)
(*                                                                           *)
(* IInv is the invariant of InvokeStream.  ServeInv is that of Serve; its    *)
(* heart is PathKept: that only a living process changes what the path       *)
(* names, and that two living processes know of each other, so that nobody   *)
(* takes the path from one that lives alone.                                 *)
(*****************************************************************************)
EXTENDS InvokeStream, Serve, TLAPS


-----------------------------------------------------------------------------
(* Facts about the sequences the channel is modelled with. *)

LEMMA AppendAfter ==
    ASSUME NEW S, NEW s \in Seq(S), NEW t \in Seq(S), NEW e \in S
    PROVE  s \o Append(t, e) = Append(s \o t, e)
OBVIOUS

LEMMA MoveHead ==
    ASSUME NEW S, NEW s \in Seq(S), NEW t \in Seq(S), t # <<>>
    PROVE  Append(s, Head(t)) \o Tail(t) = s \o t
OBVIOUS

LEMMA ConcatEmpty ==
    ASSUME NEW S, NEW s \in Seq(S)
    PROVE  s \o <<>> = s
OBVIOUS

LEMMA HeadIsNext ==
    ASSUME NEW S, NEW s \in Seq(S), NEW t \in Seq(S), t # <<>>
    PROVE  /\ Head(t) = (s \o t)[Len(s) + 1]
           /\ Len(s) < Len(s \o t)
OBVIOUS

-----------------------------------------------------------------------------
(* The inductive invariant of InvokeStream. *)

(* The wrapper of a provider that has nothing to send never waits to send. *)
SendHasPending == \A i \in Streams : pc[i] = "send" => pending[i] # <<>>

(* Identifiers are handed out in order, and what is not handed out is untouched. *)
UnstartedUntouched ==
    \A i \in Streams :
        /\ i \in 1..nextID <=> pc[i] # "none"
        /\ pc[i] = "none" => /\ i \notin streams
                             /\ next[i] = "idle"
                             /\ sent[i] = <<>>
                             /\ got[i] = <<>>

(* A stream that was started is registered until EOF or InvokeCancel. *)
StartedRegistered ==
    \A i \in Streams :
        pc[i] # "none" /\ i \notin streams => cancelled[i] \/ next[i] = "ended"

(* A reader that has been told EOF left nothing behind. *)
EndIsDrained ==
    \A i \in Streams :
        next[i] \in {"eof", "ended"} => pc[i] = "done" /\ ch[i] = <<>>

WithinCapacity == \A i \in Streams : Len(ch[i]) <= ChanCap

IInv == /\ TypeOK
        /\ SendHasPending
        /\ InOrderNoLoss
        /\ UnstartedUntouched
        /\ StartedRegistered
        /\ EndIsDrained
        /\ WithinCapacity
        /\ UnknownOnlyAfterCancel

(* How a provider ended, told from where its producer is. *)
ReasonOfState ==
    \A i \in Streams :
        /\ pc[i] \in {"none", "call", "read"} => why[i] = "none"
        /\ pc[i] = "fail" => why[i] = "setup"
        /\ pc[i] = "send" => why[i] \in {"none", "request", "body", "complete"}
        /\ pc[i] \in {"return", "close", "done"} => why[i] # "none"

(* Until the deferred cancel has run, a context ended for a reason of its own. *)
ReleasedLast ==
    \A i \in Streams : ctx[i] = "released" => pc[i] \in {"close", "done"}

(* The error of a failing provider is still to be sent, or was sent, or the  *)
(* context had ended when it was given up.                                   *)
ErrorAccounted ==
    \A i \in Streams :
        /\ pc[i] = "send" /\ why[i] \in {"request", "body"} => pending[i] = <<"error">>
        /\ pc[i] \in {"return", "close", "done"} /\ why[i] \notin {"complete", "cut"} =>
              \/ \E k \in 1..Len(sent[i]) : sent[i][k] = "error"
              \/ ctx[i] \in {"expired", "cancelled"}

QuietInv == ReasonOfState /\ ReleasedLast /\ ErrorAccounted

(* Only a producer that is sending has something left to send. *)
NothingLeft ==
    \A i \in Streams :
        /\ pc[i] # "send" => pending[i] = <<>>
        /\ pc[i] = "none" => heard[i] = <<>>

(* What a provider was told it has sent or is still to send, unless the      *)
(* context had ended when the rest was given up.                             *)
HeardAccounted ==
    \A i \in Streams : why[i] # "setup" =>
        \/ sent[i] \o pending[i] = heard[i]
        \/ ctx[i] \in {"expired", "cancelled"}

(* Only a streamed answer can be cut or have an event passed over. *)
DocumentsAreWhole ==
    \A i \in Streams :
        /\ pc[i] = "none" => ~missed[i]
        /\ ~streaming[i] => ~missed[i] /\ why[i] # "cut"

HeardInv == NothingLeft /\ HeardAccounted /\ DocumentsAreWhole

-----------------------------------------------------------------------------
(* Init establishes the invariant, and every step preserves it. *)

LEMMA InitIInv == Init => IInv
BY BoundsAssumption, ConcatEmpty
   DEF Init, IInv, TypeOK, SendHasPending, InOrderNoLoss, UnstartedUntouched,
       StartedRegistered, EndIsDrained, WithinCapacity, UnknownOnlyAfterCancel,
       Streams, ProducerStates, ContextStates, Reasons, NextStates

LEMMA DeltasAreKinds ==
    ASSUME NEW k \in 0..MaxChoices
    PROVE  Deltas(k) \in Seq(Kinds)
BY DEF Deltas, Kinds

LEMMA EventKinds ==
    ASSUME NEW k \in 0..MaxChoices, NEW usage \in {<<>>, <<"usage">>}
    PROVE  Deltas(k) \o usage \in Seq(Kinds)
<1>1. <<>> \in Seq(Kinds)
  OBVIOUS
<1>2. <<"usage">> \in Seq(Kinds)
  BY DEF Kinds
<1>3. usage \in Seq(Kinds)
  BY <1>1, <1>2
<1> QED
  BY <1>3, DeltasAreKinds

(* What a provider prepares changes no type. *)
LEMMA PrepareTyped ==
    ASSUME IInv, NEW i \in Streams, NEW ks \in Seq(Kinds), NEW w \in Reasons,
           Prepare(i, ks, w)
    PROVE  TypeOK'
<1>1. heard[i] \o ks \in Seq(Kinds)
  BY DEF IInv, TypeOK
<1> QED
  BY <1>1 DEF Prepare, IInv, TypeOK, ProducerStates

LEMMA TypeStep ==
    ASSUME IInv, [Next]_vars
    PROVE  TypeOK'
<1> USE DEF IInv
<1>1. ASSUME NEW i \in Streams, InvokeStart(i) PROVE TypeOK'
  <2>1. /\ streaming' \in [Streams -> BOOLEAN] /\ ctx' \in [Streams -> ContextStates]
        /\ pc' \in [Streams -> ProducerStates]
    BY <1>1, ChoicesAssumption DEF InvokeStart, TypeOK, ProducerStates, ContextStates
  <2>2. nextID' \in 0..MaxStreams /\ streams' \subseteq Streams
    BY <1>1, BoundsAssumption DEF InvokeStart, TypeOK, Streams
  <2>3. UNCHANGED <<provider, ch, pending, why, heard, missed, next, sent, got, cancelled>>
    BY <1>1 DEF InvokeStart
  <2> QED
    BY <2>1, <2>2, <2>3 DEF TypeOK
<1>2. ASSUME NEW i \in Streams, SetupFails(i) PROVE TypeOK'
  BY <1>2 DEF SetupFails, TypeOK, ProducerStates, Reasons
<1>3. ASSUME NEW i \in Streams, CallOk(i) PROVE TypeOK'
  BY <1>3 DEF CallOk, TypeOK, ProducerStates
<1>4. ASSUME NEW i \in Streams, CallFails(i) PROVE TypeOK'
  <2>1. Prepare(i, <<"error">>, "request") /\ <<"error">> \in Seq(Kinds)
    BY <1>4 DEF CallFails, Kinds
  <2> QED
    BY <2>1, PrepareTyped DEF Reasons
<1>5. ASSUME NEW i \in Streams, ReadEvent(i) PROVE TypeOK'
  <2>1. PICK k \in 0..MaxChoices, usage \in {<<>>, <<"usage">>} :
           Prepare(i, Deltas(k) \o usage, "none")
    BY <1>5 DEF ReadEvent
  <2>2. Deltas(k) \o usage \in Seq(Kinds)
    BY EventKinds
  <2> QED
    BY <2>1, <2>2, PrepareTyped DEF Reasons
<1>6. ASSUME NEW i \in Streams, ReadEnd(i) PROVE TypeOK'
  <2>1. PICK how \in {"complete", "cut"} : Prepare(i, <<>>, how)
    BY <1>6 DEF ReadEnd
  <2>2. <<>> \in Seq(Kinds)
    OBVIOUS
  <2> QED
    BY <2>1, <2>2, PrepareTyped DEF Reasons
<1>7. ASSUME NEW i \in Streams, ReadResponse(i) PROVE TypeOK'
  <2>1. PICK k \in 0..MaxChoices :
           Prepare(i, Append(Deltas(k), "usage"), "complete")
    BY <1>7 DEF ReadResponse
  <2>2. Append(Deltas(k), "usage") \in Seq(Kinds)
    BY DeltasAreKinds DEF Kinds
  <2> QED
    BY <2>1, <2>2, PrepareTyped DEF Reasons
<1>8. ASSUME NEW i \in Streams, ReadFails(i) PROVE TypeOK'
  <2>1. Prepare(i, <<"error">>, "body") /\ <<"error">> \in Seq(Kinds)
    BY <1>8 DEF ReadFails, Kinds
  <2> QED
    BY <2>1, PrepareTyped DEF Reasons
<1>9. ASSUME NEW i \in Streams, Send(i) PROVE TypeOK'
  BY <1>9 DEF Send, Put, Room, AfterSend, TypeOK, ProducerStates, SendHasPending
<1>10. ASSUME NEW i \in Streams, AbortSend(i) PROVE TypeOK'
  BY <1>10 DEF AbortSend, TypeOK, ProducerStates, Reasons
<1>11. ASSUME NEW i \in Streams, FailSend(i) PROVE TypeOK'
  BY <1>11 DEF FailSend, Put, Room, TypeOK, ProducerStates, Kinds
<1>12. ASSUME NEW i \in Streams, FailDrop(i) PROVE TypeOK'
  BY <1>12 DEF FailDrop, TypeOK, ProducerStates
<1>13. ASSUME NEW i \in Streams, Return(i) PROVE TypeOK'
  BY <1>13 DEF Return, CancelCtx, TypeOK, ProducerStates, ContextStates
<1>14. ASSUME NEW i \in Streams, Close(i) PROVE TypeOK'
  BY <1>14 DEF Close, TypeOK, ProducerStates
<1>15. ASSUME NEW i \in Streams, NextCall(i) PROVE TypeOK'
  BY <1>15 DEF NextCall, producerVars, TypeOK, NextStates
<1>16. ASSUME NEW i \in Streams, NextReceive(i) PROVE TypeOK'
  BY <1>16 DEF NextReceive, producerVars, TypeOK, NextStates
<1>17. ASSUME NEW i \in Streams, NextClosed(i) PROVE TypeOK'
  BY <1>17 DEF NextClosed, producerVars, TypeOK, NextStates
<1>18. ASSUME NEW i \in Streams, NextEOF(i) PROVE TypeOK'
  BY <1>18 DEF NextEOF, producerVars, TypeOK, NextStates
<1>19. ASSUME NEW i \in Streams, InvokeCancel(i) PROVE TypeOK'
  BY <1>19 DEF InvokeCancel, producerVars, CancelCtx, TypeOK, ContextStates
<1>20. ASSUME NEW i \in Streams, DeadlineExpires(i) PROVE TypeOK'
  BY <1>20 DEF DeadlineExpires, producerVars, TypeOK, ContextStates
<1>22. ASSUME NEW i \in Streams, SkipEvent(i) PROVE TypeOK'
  BY <1>22 DEF SkipEvent, TypeOK
<1>21. CASE UNCHANGED vars
  BY <1>21 DEF vars, TypeOK
<1> QED
  BY <1>1, <1>2, <1>3, <1>4, <1>5, <1>6, <1>7, <1>8, <1>9, <1>10, <1>11, <1>12, <1>13, <1>14, <1>15, <1>16, <1>17, <1>18, <1>19, <1>20, <1>21, <1>22
     DEF Next, Producer, InvokeNext

(* Only Put and NextReceive touch the channel and its histories. *)
QuietOnChannel == UNCHANGED <<ch, sent, got>>

LEMMA ChannelStep ==
    ASSUME IInv, [Next]_vars
    PROVE  InOrderNoLoss' /\ WithinCapacity'
<1>1. CASE QuietOnChannel
  BY <1>1 DEF QuietOnChannel, IInv, InOrderNoLoss, WithinCapacity
<1>2. ASSUME NEW i \in Streams, NEW kind \in Kinds, Put(i, kind), UNCHANGED got
      PROVE  InOrderNoLoss' /\ WithinCapacity'
  <2>1. got[i] \in Seq(Kinds) /\ ch[i] \in Seq(Kinds) /\ sent[i] \in Seq(Kinds)
    BY DEF IInv, TypeOK
  <2>2. got[i] \o Append(ch[i], kind) = Append(sent[i], kind)
    <3>1. got[i] \o ch[i] = sent[i]
      BY DEF IInv, InOrderNoLoss
    <3>2. got[i] \o Append(ch[i], kind) = Append(got[i] \o ch[i], kind)
      <4>1. kind \in Kinds
        OBVIOUS
      <4>2. \A s, t \in Seq(Kinds), e \in Kinds : s \o Append(t, e) = Append(s \o t, e)
        BY AppendAfter
      <4> QED
        BY <2>1, <4>1, <4>2
    <3> QED
      BY <3>1, <3>2
  <2>3. Len(Append(ch[i], kind)) <= ChanCap
    BY <1>2, <2>1, BoundsAssumption DEF Put, Room
  <2>4. /\ ch' = [ch EXCEPT ![i] = Append(ch[i], kind)]
        /\ sent' = [sent EXCEPT ![i] = Append(sent[i], kind)]
    BY <1>2 DEF Put
  <2> QED
    BY <1>2, <2>2, <2>3, <2>4 DEF IInv, TypeOK, InOrderNoLoss, WithinCapacity
<1>3. ASSUME NEW i \in Streams, NextReceive(i)
      PROVE  InOrderNoLoss' /\ WithinCapacity'
  <2>1. got[i] \in Seq(Kinds) /\ ch[i] \in Seq(Kinds) /\ ch[i] # <<>>
    BY <1>3 DEF IInv, TypeOK, NextReceive
  <2>2. Append(got[i], Head(ch[i])) \o Tail(ch[i]) = sent[i]
    BY <2>1, MoveHead DEF IInv, InOrderNoLoss
  <2>3. Len(Tail(ch[i])) <= ChanCap
    BY <2>1, BoundsAssumption DEF IInv, WithinCapacity
  <2>4. /\ ch' = [ch EXCEPT ![i] = Tail(ch[i])]
        /\ got' = [got EXCEPT ![i] = Append(got[i], Head(ch[i]))]
        /\ UNCHANGED sent
    BY <1>3 DEF NextReceive
  <2> QED
    BY <2>2, <2>3, <2>4 DEF IInv, TypeOK, InOrderNoLoss, WithinCapacity
<1>4. ASSUME NEW i \in Streams, Send(i)
      PROVE  InOrderNoLoss' /\ WithinCapacity'
  <2>1. Head(pending[i]) \in Kinds
    BY <1>4 DEF Send, IInv, TypeOK, SendHasPending
  <2> QED
    BY <1>2, <1>4, <2>1 DEF Send
<1>5. ASSUME NEW i \in Streams, FailSend(i)
      PROVE  InOrderNoLoss' /\ WithinCapacity'
  BY <1>2, <1>5 DEF FailSend, Kinds
<1>6. ASSUME NEW i \in Streams,
             \/ InvokeStart(i) \/ SetupFails(i) \/ CallOk(i) \/ CallFails(i)
             \/ ReadEvent(i) \/ SkipEvent(i) \/ ReadEnd(i) \/ ReadResponse(i) \/ ReadFails(i)
             \/ AbortSend(i) \/ FailDrop(i) \/ Return(i) \/ Close(i)
             \/ NextCall(i) \/ NextClosed(i) \/ NextEOF(i)
             \/ InvokeCancel(i) \/ DeadlineExpires(i)
      PROVE  QuietOnChannel
  BY <1>6 DEF QuietOnChannel, InvokeStart, SetupFails, CallOk, CallFails, ReadEvent, SkipEvent,
              ReadEnd, ReadResponse, ReadFails, Prepare, AbortSend, FailDrop,
              Return, Close, NextCall, NextClosed, NextEOF, InvokeCancel,
              DeadlineExpires
<1>7. CASE UNCHANGED vars
  BY <1>1, <1>7 DEF vars, QuietOnChannel
<1> QED
  BY <1>1, <1>3, <1>4, <1>5, <1>6, <1>7 DEF Next, Producer, InvokeNext

(* The part of IInv about identifiers, the map and the reader. *)
RegistryInv == /\ SendHasPending
               /\ UnstartedUntouched
               /\ StartedRegistered
               /\ EndIsDrained
               /\ UnknownOnlyAfterCancel

LEMMA RegistryStep ==
    ASSUME IInv, [Next]_vars
    PROVE  RegistryInv'
<1> USE DEF IInv, TypeOK, RegistryInv, SendHasPending, UnstartedUntouched,
            StartedRegistered, EndIsDrained, UnknownOnlyAfterCancel
<1>1. ASSUME NEW i \in Streams, InvokeStart(i) PROVE RegistryInv'
  BY <1>1 DEF InvokeStart
<1>2. ASSUME NEW i \in Streams, SetupFails(i) PROVE RegistryInv'
  BY <1>2 DEF SetupFails
<1>3. ASSUME NEW i \in Streams, CallOk(i) PROVE RegistryInv'
  BY <1>3 DEF CallOk
<1>4. ASSUME NEW i \in Streams, CallFails(i) PROVE RegistryInv'
  BY <1>4 DEF CallFails, Prepare
<1>5. ASSUME NEW i \in Streams, ReadEvent(i) PROVE RegistryInv'
  BY <1>5 DEF ReadEvent, Prepare
<1>6. ASSUME NEW i \in Streams, ReadEnd(i) PROVE RegistryInv'
  BY <1>6 DEF ReadEnd, Prepare
<1>7. ASSUME NEW i \in Streams, ReadResponse(i) PROVE RegistryInv'
  BY <1>7, SMTT(30) DEF ReadResponse, Prepare
<1>8. ASSUME NEW i \in Streams, ReadFails(i) PROVE RegistryInv'
  BY <1>8 DEF ReadFails, Prepare
<1>9. ASSUME NEW i \in Streams, Send(i) PROVE RegistryInv'
  BY <1>9 DEF Send, Put, Room, AfterSend
<1>10. ASSUME NEW i \in Streams, AbortSend(i) PROVE RegistryInv'
  BY <1>10 DEF AbortSend
<1>11. ASSUME NEW i \in Streams, FailSend(i) PROVE RegistryInv'
  BY <1>11 DEF FailSend, Put, Room
<1>12. ASSUME NEW i \in Streams, FailDrop(i) PROVE RegistryInv'
  BY <1>12 DEF FailDrop
<1>13. ASSUME NEW i \in Streams, Return(i) PROVE RegistryInv'
  BY <1>13 DEF Return
<1>14. ASSUME NEW i \in Streams, Close(i) PROVE RegistryInv'
  BY <1>14 DEF Close
<1>15. ASSUME NEW i \in Streams, NextCall(i) PROVE RegistryInv'
  BY <1>15 DEF NextCall, producerVars
<1>16. ASSUME NEW i \in Streams, NextReceive(i) PROVE RegistryInv'
  BY <1>16 DEF NextReceive, producerVars
<1>17. ASSUME NEW i \in Streams, NextClosed(i) PROVE RegistryInv'
  BY <1>17 DEF NextClosed, producerVars
<1>18. ASSUME NEW i \in Streams, NextEOF(i) PROVE RegistryInv'
  BY <1>18 DEF NextEOF, producerVars
<1>19. ASSUME NEW i \in Streams, InvokeCancel(i) PROVE RegistryInv'
  BY <1>19 DEF InvokeCancel, producerVars
<1>20. ASSUME NEW i \in Streams, DeadlineExpires(i) PROVE RegistryInv'
  BY <1>20 DEF DeadlineExpires, producerVars
<1>22. ASSUME NEW i \in Streams, SkipEvent(i) PROVE RegistryInv'
  BY <1>22 DEF SkipEvent
<1>21. CASE UNCHANGED vars
  BY <1>21 DEF vars
<1> QED
  BY <1>1, <1>2, <1>3, <1>4, <1>5, <1>6, <1>7, <1>8, <1>9, <1>10, <1>11, <1>12, <1>13, <1>14, <1>15, <1>16, <1>17, <1>18, <1>19, <1>20, <1>21, <1>22
     DEF Next, Producer, InvokeNext

LEMMA IInvStep == IInv /\ [Next]_vars => IInv'
BY TypeStep, ChannelStep, RegistryStep DEF IInv, RegistryInv

LEMMA IInvHolds == Spec => []IInv
<1>1. Init => IInv
  BY InitIInv
<1>2. IInv /\ [Next]_vars => IInv'
  BY IInvStep
<1> QED
  BY <1>1, <1>2, PTL DEF Spec

(* Every variable keeps its type. *)
THEOREM TypeCorrect == Spec => []TypeOK
<1>1. IInv => TypeOK
  BY DEF IInv
<1> QED
  BY <1>1, IInvHolds, PTL

(* The channel loses, doubles and reorders nothing, for any capacity. *)
THEOREM InOrder == Spec => []InOrderNoLoss
<1>1. IInv => InOrderNoLoss
  BY DEF IInv
<1> QED
  BY <1>1, IInvHolds, PTL

(* "unknown stream" is only ever the answer to a gateway that cancelled. *)
THEOREM UnknownAfterCancel == Spec => []UnknownOnlyAfterCancel
<1>1. IInv => UnknownOnlyAfterCancel
  BY DEF IInv
<1> QED
  BY <1>1, IInvHolds, PTL

(* An entry leaves the map by InvokeCancel, or drained after the close. *)
THEOREM EntriesLeave == Spec => EntriesLeaveDrainedOrCancelled
<1>1. ASSUME IInv, [Next]_vars PROVE [LeavesDrainedOrCancelled]_vars
  <2> USE DEF LeavesDrainedOrCancelled
  <2>1. ASSUME NEW i \in Streams, InvokeStart(i) PROVE LeavesDrainedOrCancelled
    BY <2>1 DEF InvokeStart
  <2>2. ASSUME NEW i \in Streams, NextEOF(i) PROVE LeavesDrainedOrCancelled
    <3>1. pc[i] = "done" /\ ch[i] = <<>>
      BY <1>1, <2>2 DEF NextEOF, IInv, EndIsDrained
    <3>2. got[i] = sent[i]
      <4>1. got[i] \in Seq(Kinds) /\ got[i] \o <<>> = sent[i]
        BY <1>1, <3>1 DEF IInv, InOrderNoLoss, TypeOK
      <4> QED
        BY <4>1, ConcatEmpty
    <3> QED
      BY <2>2, <3>1, <3>2 DEF NextEOF
  <2>3. ASSUME NEW i \in Streams, InvokeCancel(i) PROVE LeavesDrainedOrCancelled
    BY <1>1, <2>3 DEF InvokeCancel, IInv, TypeOK
  <2>4. ASSUME NEW i \in Streams,
               Producer(i) \/ NextCall(i) \/ NextReceive(i) \/ NextClosed(i)
               \/ DeadlineExpires(i)
        PROVE  UNCHANGED streams
    BY <2>4 DEF Producer, SetupFails, CallOk, CallFails, ReadEvent, SkipEvent, ReadEnd,
                ReadResponse, ReadFails, Prepare, Send, AbortSend, FailSend,
                FailDrop, Return, Close, NextCall, NextReceive, NextClosed,
                DeadlineExpires
  <2>5. CASE UNCHANGED streams
    BY <2>5
  <2>6. CASE UNCHANGED vars
    BY <2>6
  <2> QED
    BY <1>1, <2>1, <2>2, <2>3, <2>4, <2>5, <2>6 DEF Next, InvokeNext
<1> QED
  BY <1>1, IInvHolds, PTL DEF Spec, EntriesLeaveDrainedOrCancelled

-----------------------------------------------------------------------------
(* What a quiet EOF means. *)

ErrorSent(i) == \E k \in 1..Len(sent[i]) : sent[i][k] = "error"

LEMMA AppendKeepsError ==
    ASSUME NEW s \in Seq(Kinds), NEW e \in Kinds,
           e = "error" \/ \E k \in 1..Len(s) : s[k] = "error"
    PROVE  \E k \in 1..Len(Append(s, e)) : Append(s, e)[k] = "error"
<1>1. CASE e = "error"
  <2>1. Append(s, e)[Len(s) + 1] = "error" /\ Len(s) + 1 \in 1..Len(Append(s, e))
    BY <1>1
  <2> QED
    BY <2>1
<1>2. ASSUME NEW k \in 1..Len(s), s[k] = "error"
      PROVE  \E j \in 1..Len(Append(s, e)) : Append(s, e)[j] = "error"
  <2>1. Append(s, e)[k] = "error" /\ k \in 1..Len(Append(s, e))
    BY <1>2
  <2> QED
    BY <2>1
<1> QED
  BY <1>1, <1>2

LEMMA QuietInit == Init => QuietInv
BY DEF Init, QuietInv, ReasonOfState, ReleasedLast, ErrorAccounted

LEMMA QuietStep ==
    ASSUME IInv, QuietInv, [Next]_vars
    PROVE  QuietInv'
<1> USE DEF IInv, TypeOK, QuietInv, ReasonOfState, ReleasedLast, ErrorAccounted
<1>1. ASSUME NEW i \in Streams, InvokeStart(i) PROVE QuietInv'
  <2>1. pc[i] = "none"
    BY <1>1, BoundsAssumption DEF InvokeStart, UnstartedUntouched
  <2> QED
    BY <1>1, <2>1 DEF InvokeStart
<1>2. ASSUME NEW i \in Streams, SetupFails(i) PROVE QuietInv'
  BY <1>2 DEF SetupFails
<1>3. ASSUME NEW i \in Streams, CallOk(i) PROVE QuietInv'
  BY <1>3 DEF CallOk
<1>4. ASSUME NEW i \in Streams, CallFails(i) PROVE QuietInv'
  BY <1>4 DEF CallFails, Prepare
<1>5. ASSUME NEW i \in Streams, ReadEvent(i) PROVE QuietInv'
  <2>1. PICK ks : ks # <<>> /\ Prepare(i, ks, "none")
    BY <1>5 DEF ReadEvent
  <2>2. pc[i] = "read"
    BY <1>5 DEF ReadEvent
  <2> QED
    BY <2>1, <2>2 DEF Prepare
<1>6. ASSUME NEW i \in Streams, ReadEnd(i) PROVE QuietInv'
  <2>1. PICK how \in {"complete", "cut"} : Prepare(i, <<>>, how)
    BY <1>6 DEF ReadEnd
  <2>2. /\ pc' = [pc EXCEPT ![i] = "return"] /\ why' = [why EXCEPT ![i] = how]
        /\ pending' = [pending EXCEPT ![i] = <<>>] /\ UNCHANGED <<sent, ctx>>
    BY <2>1 DEF Prepare
  <2>3. pc[i] = "read"
    BY <1>6 DEF ReadEnd
  <2> QED
    BY <2>2, <2>3
<1>7. ASSUME NEW i \in Streams, ReadResponse(i) PROVE QuietInv'
  <2>1. PICK ks : Prepare(i, ks, "complete")
    BY <1>7 DEF ReadResponse
  <2>2. pc[i] = "read"
    BY <1>7 DEF ReadResponse
  <2> QED
    BY <2>1, <2>2 DEF Prepare
<1>8. ASSUME NEW i \in Streams, ReadFails(i) PROVE QuietInv'
  BY <1>8 DEF ReadFails, Prepare
<1>9. ASSUME NEW i \in Streams, Send(i) PROVE QuietInv'
  <2>1. /\ pending[i] \in Seq(Kinds) /\ pending[i] # <<>> /\ pc[i] = "send"
        /\ Head(pending[i]) \in Kinds /\ sent[i] \in Seq(Kinds)
    BY <1>9 DEF Send, SendHasPending
  <2>2. sent' = [sent EXCEPT ![i] = Append(sent[i], Head(pending[i]))]
    BY <1>9 DEF Send, Put
  <2>3. why[i] \in {"request", "body"} => Tail(pending[i]) = <<>> /\ ErrorSent(i)'
    <3> SUFFICES ASSUME why[i] \in {"request", "body"}
                 PROVE  Tail(pending[i]) = <<>> /\ ErrorSent(i)'
      OBVIOUS
    <3>1. pending[i] = <<"error">>
      BY <2>1
    <3>2. sent'[i] = Append(sent[i], "error") /\ "error" \in Kinds
      BY <2>2, <3>1 DEF Kinds
    <3>3. ErrorSent(i)'
      BY <2>1, <3>2, AppendKeepsError, SMTT(30) DEF ErrorSent
    <3> QED
      BY <3>1, <3>3
  <2>4. \A j \in Streams : j # i => sent'[j] = sent[j]
    BY <2>2
  <2>5. ReasonOfState' /\ ReleasedLast'
    BY <1>9 DEF Send, AfterSend
  <2>6. UNCHANGED <<why, ctx>> /\ \A j \in Streams : j # i => pc'[j] = pc[j] /\ pending'[j] = pending[j]
    BY <1>9 DEF Send
  <2>7. pc'[i] = AfterSend(i) /\ pending'[i] = Tail(pending[i])
    BY <1>9 DEF Send
  <2>8. ErrorAccounted'
    <3> SUFFICES ASSUME NEW j \in Streams
                 PROVE  /\ pc'[j] = "send" /\ why'[j] \in {"request", "body"} =>
                              pending'[j] = <<"error">>
                        /\ pc'[j] \in {"return", "close", "done"} /\ why'[j] \notin {"complete", "cut"} =>
                              ErrorSent(j)' \/ ctx'[j] \in {"expired", "cancelled"}
      BY DEF ErrorSent
    <3>1. CASE j = i
      BY <2>1, <2>3, <2>6, <2>7, <3>1 DEF AfterSend
    <3>2. CASE j # i
      <4>1. /\ pc'[j] = pc[j] /\ pending'[j] = pending[j] /\ sent'[j] = sent[j]
            /\ why'[j] = why[j] /\ ctx'[j] = ctx[j]
        BY <2>4, <2>6, <3>2
      <4>2. /\ pc[j] = "send" /\ why[j] \in {"request", "body"} =>
                  pending[j] = <<"error">>
            /\ pc[j] \in {"return", "close", "done"} /\ why[j] \notin {"complete", "cut"} =>
                  ErrorSent(j) \/ ctx[j] \in {"expired", "cancelled"}
        BY DEF ErrorSent
      <4> QED
        BY <4>1, <4>2 DEF ErrorSent
    <3> QED
      BY <3>1, <3>2
  <2> QED
    BY <2>5, <2>8
<1>10. ASSUME NEW i \in Streams, AbortSend(i) PROVE QuietInv'
  BY <1>10 DEF AbortSend, CtxDone, Guarded
<1>11. ASSUME NEW i \in Streams, FailSend(i) PROVE QuietInv'
  <2>1. sent' = [sent EXCEPT ![i] = Append(sent[i], "error")] /\ sent[i] \in Seq(Kinds)
    BY <1>11 DEF FailSend, Put
  <2>2. ErrorSent(i)'
    <3>1. sent'[i] = Append(sent[i], "error") /\ "error" \in Kinds
      BY <2>1 DEF Kinds
    <3> QED
      BY <2>1, <3>1, AppendKeepsError DEF ErrorSent
  <2> QED
    BY <1>11, <2>1, <2>2 DEF FailSend, ErrorSent
<1>12. ASSUME NEW i \in Streams, FailDrop(i) PROVE QuietInv'
  BY <1>12 DEF FailDrop, CtxDone
<1>13. ASSUME NEW i \in Streams, Return(i) PROVE QuietInv'
  BY <1>13 DEF Return, CancelCtx
<1>14. ASSUME NEW i \in Streams, Close(i) PROVE QuietInv'
  BY <1>14 DEF Close
<1>15. ASSUME NEW i \in Streams, NextCall(i) PROVE QuietInv'
  BY <1>15 DEF NextCall, producerVars
<1>16. ASSUME NEW i \in Streams, NextReceive(i) PROVE QuietInv'
  BY <1>16 DEF NextReceive, producerVars
<1>17. ASSUME NEW i \in Streams, NextClosed(i) PROVE QuietInv'
  BY <1>17 DEF NextClosed, producerVars
<1>18. ASSUME NEW i \in Streams, NextEOF(i) PROVE QuietInv'
  BY <1>18 DEF NextEOF, producerVars
<1>19. ASSUME NEW i \in Streams, InvokeCancel(i) PROVE QuietInv'
  BY <1>19 DEF InvokeCancel, producerVars, CancelCtx
<1>20. ASSUME NEW i \in Streams, DeadlineExpires(i) PROVE QuietInv'
  BY <1>20 DEF DeadlineExpires, producerVars
<1>22. ASSUME NEW i \in Streams, SkipEvent(i) PROVE QuietInv'
  BY <1>22 DEF SkipEvent
<1>21. CASE UNCHANGED vars
  BY <1>21 DEF vars
<1> QED
  BY <1>1, <1>2, <1>3, <1>4, <1>5, <1>6, <1>7, <1>8, <1>9, <1>10, <1>11, <1>12, <1>13, <1>14, <1>15, <1>16, <1>17, <1>18, <1>19, <1>20, <1>21, <1>22
     DEF Next, Producer, InvokeNext

LEMMA HeardInit == Init => HeardInv
BY ConcatEmpty DEF Init, HeardInv, NothingLeft, HeardAccounted, DocumentsAreWhole, Streams

(* What a provider decides to send it was told. *)
LEMMA PrepareKeepsHeard ==
    ASSUME IInv, QuietInv, HeardInv, NEW i \in Streams, pc[i] \in {"call", "read"},
           NEW ks \in Seq(Kinds), NEW w \in Reasons, w = "cut" => streaming[i],
           Prepare(i, ks, w)
    PROVE  HeardInv'
<1>1. /\ pending' = [pending EXCEPT ![i] = ks]
      /\ heard' = [heard EXCEPT ![i] = heard[i] \o ks]
      /\ why' = [why EXCEPT ![i] = w]
      /\ pc' = [pc EXCEPT ![i] = IF ks = <<>> THEN "return" ELSE "send"]
      /\ UNCHANGED <<sent, ctx, streaming, missed>>
  BY DEF Prepare
<1>2. NothingLeft'
  BY <1>1 DEF IInv, TypeOK, HeardInv, NothingLeft
<1>3. sent[i] \o ks = heard[i] \o ks \/ ctx[i] \in {"expired", "cancelled"}
  <2>1. why[i] = "none" /\ pending[i] = <<>>
    BY DEF QuietInv, ReasonOfState, HeardInv, NothingLeft
  <2>3. sent[i] \in Seq(Kinds)
    BY DEF IInv, TypeOK
  <2>2. sent[i] \o <<>> = sent[i]
    BY <2>3, ConcatEmpty
  <2> QED
    BY <2>1, <2>2 DEF HeardInv, HeardAccounted
<1>4. HeardAccounted'
  BY <1>1, <1>3 DEF IInv, TypeOK, HeardInv, HeardAccounted
<1>5. DocumentsAreWhole'
  BY <1>1 DEF IInv, TypeOK, HeardInv, DocumentsAreWhole
<1> QED
  BY <1>2, <1>4, <1>5 DEF HeardInv

LEMMA HeardStep ==
    ASSUME IInv, QuietInv, HeardInv, [Next]_vars
    PROVE  HeardInv'
<1> USE DEF IInv, TypeOK, HeardInv, NothingLeft, HeardAccounted, DocumentsAreWhole
<1>1. ASSUME NEW i \in Streams, InvokeStart(i) PROVE HeardInv'
  <2>1. pc[i] = "none"
    BY <1>1, BoundsAssumption DEF InvokeStart, UnstartedUntouched
  <2>2. pending[i] = <<>> /\ heard[i] = <<>>
    BY ONLY <2>1, NothingLeft, i \in Streams DEF NothingLeft
  <2>4. sent[i] = <<>>
    BY ONLY <2>1, UnstartedUntouched, i \in Streams DEF UnstartedUntouched
  <2>3. sent[i] \o pending[i] = heard[i]
    BY <2>2, <2>4
  <2>5. NothingLeft' /\ DocumentsAreWhole'
    <3>1. why[i] = "none" /\ ~missed[i]
      BY <2>1 DEF QuietInv, ReasonOfState
    <3> QED
      BY <1>1, <2>1, <3>1 DEF InvokeStart
  <2>6. HeardAccounted'
    BY <1>1, <2>3 DEF InvokeStart
  <2> QED
    BY <2>5, <2>6
<1>2. ASSUME NEW i \in Streams, SetupFails(i) PROVE HeardInv'
  BY <1>2 DEF SetupFails
<1>3. ASSUME NEW i \in Streams, CallOk(i) PROVE HeardInv'
  BY <1>3 DEF CallOk
<1>4. ASSUME NEW i \in Streams, NEW ks \in Seq(Kinds), NEW w \in Reasons,
             pc[i] \in {"call", "read"}, w = "cut" => streaming[i], Prepare(i, ks, w)
      PROVE  HeardInv'
  BY <1>4, PrepareKeepsHeard
<1>5. ASSUME NEW i \in Streams, CallFails(i) \/ ReadFails(i) PROVE HeardInv'
  <2>1. <<"error">> \in Seq(Kinds) /\ {"request", "body"} \subseteq Reasons
    BY DEF Kinds, Reasons
  <2> QED
    BY <1>4, <1>5, <2>1 DEF CallFails, ReadFails
<1>6. ASSUME NEW i \in Streams, ReadEvent(i) PROVE HeardInv'
  <2>1. PICK k \in 0..MaxChoices, usage \in {<<>>, <<"usage">>} :
           Prepare(i, Deltas(k) \o usage, "none")
    BY <1>6 DEF ReadEvent
  <2>2. Deltas(k) \o usage \in Seq(Kinds)
    BY EventKinds
  <2>3. pc[i] = "read" /\ "none" \in Reasons
    BY <1>6 DEF ReadEvent, Reasons
  <2> QED
    BY <1>4, <2>1, <2>2, <2>3
<1>7. ASSUME NEW i \in Streams, ReadEnd(i) PROVE HeardInv'
  <2>1. <<>> \in Seq(Kinds) /\ {"complete", "cut"} \subseteq Reasons
    BY DEF Reasons
  <2> QED
    BY <1>4, <1>7, <2>1 DEF ReadEnd
<1>8. ASSUME NEW i \in Streams, ReadResponse(i) PROVE HeardInv'
  <2>1. PICK k \in 0..MaxChoices : Prepare(i, Append(Deltas(k), "usage"), "complete")
    BY <1>8 DEF ReadResponse
  <2>2. Append(Deltas(k), "usage") \in Seq(Kinds) /\ "complete" \in Reasons
    BY DeltasAreKinds DEF Kinds, Reasons
  <2> QED
    BY <1>4, <1>8, <2>1, <2>2 DEF ReadResponse
<1>9. ASSUME NEW i \in Streams, Send(i) PROVE HeardInv'
  <2>1. /\ pending[i] \in Seq(Kinds) /\ pending[i] # <<>> /\ sent[i] \in Seq(Kinds)
    BY <1>9 DEF Send, SendHasPending
  <2>2. /\ sent' = [sent EXCEPT ![i] = Append(sent[i], Head(pending[i]))]
        /\ pending' = [pending EXCEPT ![i] = Tail(pending[i])]
        /\ pc' = [pc EXCEPT ![i] = AfterSend(i)]
        /\ UNCHANGED <<heard, why, ctx, streaming, missed>>
    BY <1>9 DEF Send, Put
  <2>3. sent'[i] \o pending'[i] = sent[i] \o pending[i]
    BY <2>1, <2>2, MoveHead
  <2>4. AfterSend(i) # "none" /\ (AfterSend(i) # "send" => Tail(pending[i]) = <<>>)
    BY DEF AfterSend
  <2>5. NothingLeft' /\ DocumentsAreWhole'
    BY <2>2, <2>4
  <2>6. HeardAccounted'
    BY <2>2, <2>3
  <2> QED
    BY <2>5, <2>6
<1>10. ASSUME NEW i \in Streams, AbortSend(i) PROVE HeardInv'
  <2>1. ctx[i] \in {"expired", "cancelled"}
    BY <1>10 DEF AbortSend, CtxDone, QuietInv, ReleasedLast
  <2> QED
    BY <1>10, <2>1 DEF AbortSend
<1>11. ASSUME NEW i \in Streams, FailSend(i) PROVE HeardInv'
  <2>1. why[i] = "setup"
    BY <1>11 DEF FailSend, QuietInv, ReasonOfState
  <2> QED
    BY <1>11, <2>1 DEF FailSend, Put
<1>12. ASSUME NEW i \in Streams, FailDrop(i) \/ Close(i) PROVE HeardInv'
  <2>1. CASE FailDrop(i)
    BY <2>1 DEF FailDrop
  <2>2. CASE Close(i)
    BY <2>2 DEF Close
  <2> QED
    BY <1>12, <2>1, <2>2
<1>13. ASSUME NEW i \in Streams, Return(i) PROVE HeardInv'
  BY <1>13 DEF Return, CancelCtx
<1>14. ASSUME NEW i \in Streams, SkipEvent(i) PROVE HeardInv'
  BY <1>14 DEF SkipEvent
<1>15. ASSUME NEW i \in Streams,
              NextCall(i) \/ NextReceive(i) \/ NextClosed(i) \/ NextEOF(i)
       PROVE  HeardInv'
  BY <1>15 DEF NextCall, NextReceive, NextClosed, NextEOF, producerVars
<1>16. ASSUME NEW i \in Streams, InvokeCancel(i) \/ DeadlineExpires(i)
       PROVE  HeardInv'
  <2>1. UNCHANGED <<pc, pending, why, heard, missed, streaming, sent>>
    BY <1>16 DEF InvokeCancel, DeadlineExpires, producerVars
  <2>2. ctx' \in {ctx, [ctx EXCEPT ![i] = "cancelled"], [ctx EXCEPT ![i] = "expired"]}
    BY <1>16 DEF InvokeCancel, DeadlineExpires, CancelCtx
  <2>3. NothingLeft' /\ DocumentsAreWhole'
    BY <2>1
  <2>4. HeardAccounted'
    BY <2>1, <2>2
  <2> QED
    BY <2>3, <2>4
<1>17. CASE UNCHANGED vars
  BY <1>17 DEF vars
<1> QED
  BY <1>1, <1>2, <1>3, <1>5, <1>6, <1>7, <1>8, <1>9, <1>10, <1>11, <1>12, <1>13, <1>14,
     <1>15, <1>16, <1>17
     DEF Next, Producer, InvokeNext

(* A reader that sees EOF and no error chunk has all that the provider was   *)
(* told, and that was no failure, unless the caller's own context ended.     *)
THEOREM QuietEOF == Spec => []QuietEOFHidesNothingHeard
<1>1. Init => IInv /\ QuietInv /\ HeardInv
  BY InitIInv, QuietInit, HeardInit
<1>2. IInv /\ QuietInv /\ HeardInv /\ [Next]_vars => (IInv /\ QuietInv /\ HeardInv)'
  BY IInvStep, QuietStep, HeardStep
<1>3. ASSUME IInv, QuietInv, HeardInv PROVE QuietEOFHidesNothingHeard
  <2> SUFFICES ASSUME NEW i \in Streams, next[i] = "ended",
                      \A k \in 1..Len(got[i]) : got[i][k] # "error",
                      ctx[i] \notin {"expired", "cancelled"}
               PROVE  /\ why[i] \in {"complete", "cut"} /\ got[i] = heard[i]
                      /\ streaming[i] \/ Whole(i)
    BY DEF QuietEOFHidesNothingHeard
  <2>1. pc[i] = "done" /\ ch[i] = <<>>
    BY <1>3 DEF IInv, EndIsDrained
  <2>2. got[i] = sent[i] /\ sent[i] \in Seq(Kinds)
    <3>1. got[i] \in Seq(Kinds) /\ got[i] \o <<>> = sent[i]
      BY <1>3, <2>1 DEF IInv, InOrderNoLoss, TypeOK
    <3>2. got[i] \o <<>> = got[i]
      BY <3>1, ConcatEmpty
    <3> QED
      BY <3>1, <3>2
  <2>3. why[i] \in {"complete", "cut"}
    BY <1>3, <2>1, <2>2 DEF QuietInv, ErrorAccounted
  <2>4. pending[i] = <<>> /\ sent[i] \o pending[i] = heard[i]
    <3>1. pending[i] = <<>>
      BY <1>3, <2>1 DEF HeardInv, NothingLeft
    <3>2. sent[i] \o pending[i] = heard[i]
      BY <1>3, <2>3 DEF HeardInv, HeardAccounted
    <3> QED
      BY <3>1, <3>2
  <2>5. got[i] = heard[i]
    BY <2>2, <2>4, ConcatEmpty
  <2>6. streaming[i] \/ Whole(i)
    BY <1>3, <2>3 DEF HeardInv, DocumentsAreWhole, Whole
  <2> QED
    BY <2>3, <2>5, <2>6
<1> QED
  BY <1>1, <1>2, <1>3, PTL DEF Spec

-----------------------------------------------------------------------------
(* An error is the last chunk. *)

ErrorFree(s) == \A k \in 1..Len(s) : s[k] # "error"

(* Nothing that was sent is an error while the producer may send more, and   *)
(* an error that is still to be sent is all that is still to be sent.        *)
ErrorsEnd ==
    \A i \in Streams :
        /\ pc[i] \in {"none", "call", "read", "fail", "send"} => ErrorFree(sent[i])
        /\ pc[i] = "send" => \/ ErrorFree(pending[i])
                             \/ pending[i] = <<"error">> /\ why[i] # "none"

ErrorInv == ErrorsEnd /\ ErrorIsLast

LEMMA ErrorFreeParts ==
    ASSUME NEW s \in Seq(Kinds), s # <<>>, ErrorFree(s)
    PROVE  Head(s) # "error" /\ ErrorFree(Tail(s))
<1>1. Head(s) = s[1] /\ 1 \in 1..Len(s)
  OBVIOUS
<1>2. \A k \in 1..Len(Tail(s)) : Tail(s)[k] = s[k + 1] /\ k + 1 \in 1..Len(s)
  OBVIOUS
<1> QED
  BY <1>1, <1>2 DEF ErrorFree

LEMMA ErrorFreeAppend ==
    ASSUME NEW s \in Seq(Kinds), NEW e \in Kinds, ErrorFree(s)
    PROVE  /\ e # "error" => ErrorFree(Append(s, e))
           /\ \A k \in 1..Len(Append(s, e)) :
                  Append(s, e)[k] = "error" => k = Len(Append(s, e))
<1>1. Len(Append(s, e)) = Len(s) + 1 /\ Append(s, e)[Len(s) + 1] = e
  OBVIOUS
<1>2. \A k \in 1..Len(s) : Append(s, e)[k] = s[k]
  OBVIOUS
<1> QED
  BY <1>1, <1>2 DEF ErrorFree

(* What an event or a document makes the provider send has no error in it.   *)
LEMMA EventErrorFree ==
    ASSUME NEW k \in 0..MaxChoices, NEW usage \in {<<>>, <<"usage">>}
    PROVE  ErrorFree(Deltas(k) \o usage)
<1>1. Deltas(k) \in Seq(Kinds) /\ Len(Deltas(k)) = k /\ \A j \in 1..k : Deltas(k)[j] = "delta"
  BY DeltasAreKinds, BoundsAssumption DEF Deltas
<1>2. ErrorFree(Deltas(k))
  BY <1>1 DEF ErrorFree
<1>3. CASE usage = <<>>
  <2>1. Deltas(k) \o usage = Deltas(k)
    BY <1>1, <1>3, ConcatEmpty
  <2> QED
    BY <1>2, <2>1
<1>4. CASE usage = <<"usage">>
  <2>1. Deltas(k) \o usage = Append(Deltas(k), "usage")
    BY <1>1, <1>4
  <2> QED
    BY <1>1, <1>2, <2>1, ErrorFreeAppend DEF Kinds
<1> QED
  BY <1>3, <1>4

(* What is read from the upstream before an error has no error in it.        *)
LEMMA ErrorFreePrepared ==
    ASSUME IInv, ErrorInv, NEW i \in Streams, pc[i] = "read", NEW ks, ErrorFree(ks),
           NEW w, Prepare(i, ks, w)
    PROVE  ErrorInv'
<1>1. /\ pc'[i] = (IF ks = <<>> THEN "return" ELSE "send") /\ pending'[i] = ks
      /\ \A j \in Streams \ {i} : pc'[j] = pc[j] /\ pending'[j] = pending[j] /\ why'[j] = why[j]
      /\ sent' = sent
  BY DEF IInv, TypeOK, Prepare
<1>2. ErrorsEnd /\ ErrorIsLast
  BY DEF ErrorInv
<1>3. ErrorFree(sent[i])
  BY <1>2 DEF ErrorsEnd
<1>4. ErrorsEnd'
  <2> SUFFICES ASSUME NEW j \in Streams
               PROVE  /\ pc'[j] \in {"none", "call", "read", "fail", "send"} => ErrorFree(sent'[j])
                      /\ pc'[j] = "send" => \/ ErrorFree(pending'[j])
                                            \/ pending'[j] = <<"error">> /\ why'[j] # "none"
    BY DEF ErrorsEnd
  <2>1. CASE j = i
    BY ONLY <1>1, <1>3, <2>1, ErrorFree(ks)
  <2>2. CASE j # i
    BY <1>1, <1>2, <2>2 DEF ErrorsEnd
  <2> QED
    BY <2>1, <2>2
<1>5. ErrorIsLast'
  BY <1>1, <1>2 DEF ErrorIsLast
<1> QED
  BY <1>4, <1>5 DEF ErrorInv

LEMMA ErrorStep ==
    ASSUME IInv, ErrorInv, [Next]_vars
    PROVE  ErrorInv'
<1> USE DEF IInv, TypeOK, ErrorInv, ErrorsEnd, ErrorIsLast
<1>1. ASSUME NEW i \in Streams, InvokeStart(i) PROVE ErrorInv'
  <2>1. pc[i] = "none"
    BY <1>1, BoundsAssumption DEF InvokeStart, UnstartedUntouched
  <2> QED
    BY <1>1, <2>1 DEF InvokeStart
<1>2. ASSUME NEW i \in Streams, SetupFails(i) PROVE ErrorInv'
  BY <1>2 DEF SetupFails
<1>3. ASSUME NEW i \in Streams, CallOk(i) PROVE ErrorInv'
  BY <1>3 DEF CallOk
<1>4. ASSUME NEW i \in Streams, CallFails(i) PROVE ErrorInv'
  BY <1>4 DEF CallFails, Prepare
<1>5. ASSUME NEW i \in Streams, ReadEvent(i) PROVE ErrorInv'
  <2>1. PICK k \in 0..MaxChoices, usage \in {<<>>, <<"usage">>} :
           Prepare(i, Deltas(k) \o usage, "none")
    BY <1>5 DEF ReadEvent
  <2>2. ErrorFree(Deltas(k) \o usage)
    BY EventErrorFree
  <2>3. pc[i] = "read"
    BY <1>5 DEF ReadEvent
  <2> QED
    BY ONLY IInv, ErrorInv, <2>1, <2>2, <2>3, ErrorFreePrepared
<1>6. ASSUME NEW i \in Streams, ReadEnd(i) PROVE ErrorInv'
  BY <1>6 DEF ReadEnd, Prepare
<1>7. ASSUME NEW i \in Streams, ReadResponse(i) PROVE ErrorInv'
  <2>1. PICK k \in 0..MaxChoices : Prepare(i, Append(Deltas(k), "usage"), "complete")
    BY <1>7 DEF ReadResponse
  <2>2. ErrorFree(Append(Deltas(k), "usage"))
    <3>1. Append(Deltas(k), "usage") = Deltas(k) \o <<"usage">>
      BY DeltasAreKinds
    <3> QED
      BY <3>1, EventErrorFree
  <2>3. pc[i] = "read"
    BY <1>7 DEF ReadResponse
  <2> QED
    BY ONLY IInv, ErrorInv, <2>1, <2>2, <2>3, ErrorFreePrepared
<1>8. ASSUME NEW i \in Streams, ReadFails(i) PROVE ErrorInv'
  BY <1>8 DEF ReadFails, Prepare
<1>9. ASSUME NEW i \in Streams, Send(i) PROVE ErrorInv'
  <2>1. /\ pending[i] \in Seq(Kinds) /\ pending[i] # <<>> /\ pc[i] = "send"
        /\ Head(pending[i]) \in Kinds /\ sent[i] \in Seq(Kinds) /\ ErrorFree(sent[i])
    BY <1>9 DEF Send, SendHasPending
  <2>2. /\ sent' = [sent EXCEPT ![i] = Append(sent[i], Head(pending[i]))]
        /\ pending' = [pending EXCEPT ![i] = Tail(pending[i])]
        /\ pc' = [pc EXCEPT ![i] = AfterSend(i)] /\ why' = why
    BY <1>9 DEF Send, Put
  <2>3. ErrorIsLast'
    BY <2>1, <2>2, ErrorFreeAppend
  <2>4. CASE ErrorFree(pending[i])
    <3>1. ErrorFree(Tail(pending[i])) /\ ErrorFree(Append(sent[i], Head(pending[i])))
      BY <2>1, <2>4, ErrorFreeParts, ErrorFreeAppend
    <3> QED
      BY <2>2, <2>3, <3>1
  <2>5. CASE pending[i] = <<"error">> /\ why[i] # "none"
    <3>1. AfterSend(i) = "return"
      BY <2>5 DEF AfterSend
    <3> QED
      BY <2>2, <2>3, <3>1
  <2> QED
    BY <2>1, <2>4, <2>5
<1>10. ASSUME NEW i \in Streams, AbortSend(i) PROVE ErrorInv'
  BY <1>10 DEF AbortSend
<1>11. ASSUME NEW i \in Streams, FailSend(i) PROVE ErrorInv'
  <2>1. /\ sent' = [sent EXCEPT ![i] = Append(sent[i], "error")]
        /\ pc' = [pc EXCEPT ![i] = "return"] /\ UNCHANGED <<pending, why>>
        /\ sent[i] \in Seq(Kinds) /\ "error" \in Kinds /\ ErrorFree(sent[i])
    BY <1>11 DEF FailSend, Put, Kinds
  <2>2. ErrorIsLast'
    BY <2>1, ErrorFreeAppend
  <2> QED
    BY <2>1, <2>2
<1>12. ASSUME NEW i \in Streams, FailDrop(i) PROVE ErrorInv'
  BY <1>12 DEF FailDrop
<1>13. ASSUME NEW i \in Streams, Return(i) PROVE ErrorInv'
  BY <1>13 DEF Return
<1>14. ASSUME NEW i \in Streams, Close(i) PROVE ErrorInv'
  BY <1>14 DEF Close
<1>15. ASSUME NEW i \in Streams,
              \/ NextCall(i) \/ NextReceive(i) \/ NextClosed(i) \/ NextEOF(i)
              \/ InvokeCancel(i) \/ DeadlineExpires(i)
       PROVE  ErrorInv'
  BY <1>15 DEF NextCall, NextReceive, NextClosed, NextEOF, InvokeCancel, DeadlineExpires,
               producerVars
<1>16. CASE UNCHANGED vars
  BY <1>16 DEF vars
<1>17. ASSUME NEW i \in Streams, SkipEvent(i) PROVE ErrorInv'
  BY <1>17 DEF SkipEvent
<1> QED
  BY <1>1, <1>2, <1>3, <1>4, <1>5, <1>6, <1>7, <1>8, <1>9, <1>10, <1>11, <1>12, <1>13, <1>14,
     <1>15, <1>16, <1>17
     DEF Next, Producer, InvokeNext

(* Neither provider, nor the wrapper, sends anything after an error.         *)
THEOREM ErrorLast == Spec => []ErrorIsLast
<1>1. Init => IInv /\ ErrorInv
  <2>1. Init => ErrorInv
    BY DEF Init, ErrorInv, ErrorsEnd, ErrorIsLast, ErrorFree
  <2> QED
    BY <2>1, InitIInv
<1>2. IInv /\ ErrorInv /\ [Next]_vars => (IInv /\ ErrorInv)'
  BY IInvStep, ErrorStep
<1>3. ErrorInv => ErrorIsLast
  BY DEF ErrorInv
<1> QED
  BY <1>1, <1>2, <1>3, PTL DEF Spec

-----------------------------------------------------------------------------
(* InvokeStream implements ChunkStream. *)

LEMMA AbstractInit == Init => Abstract!Init
<1> SUFFICES ASSUME Init PROVE Abstract!Init
  OBVIOUS
<1>1. \A i \in Streams : AbstractPhase(i) = "new"
  BY DEF Init, AbstractPhase
<1>2. \A i \in Streams : (next[i] \in {"eof", "ended"}) = FALSE
  BY DEF Init
<1> QED
  BY <1>1, <1>2 DEF Init, Abstract!Init

LEMMA AbstractStep ==
    ASSUME IInv, [Next]_vars
    PROVE  [Abstract!Next]_Abstract!streamVars
<1> DEFINE phaseOf == [j \in Streams |-> AbstractPhase(j)]
           eofOf == [j \in Streams |-> next[j] \in {"eof", "ended"}]
<1> USE DEF IInv, TypeOK
<1>1. ASSUME NEW i \in Streams, InvokeStart(i) PROVE Abstract!Open(i)
  <2>1. pc[i] = "none"
    BY <1>1, BoundsAssumption DEF InvokeStart, UnstartedUntouched
  <2> QED
    BY <1>1, <2>1 DEF InvokeStart, Abstract!Open, AbstractPhase
<1>2. ASSUME NEW i \in Streams, NEW kind \in Kinds, Put(i, kind),
             pc[i] \in {"send", "fail"}, UNCHANGED <<got, next, phaseOf>>
      PROVE  Abstract!Produce(i)
  <2>1. AbstractPhase(i) = "open"
    BY <1>2 DEF AbstractPhase
  <2>2. Len(sent[i]) < Len(got[i]) + ChanCap
    <3>1. got[i] \o ch[i] = sent[i]
      BY DEF InOrderNoLoss
    <3>2. Len(got[i] \o ch[i]) = Len(got[i]) + Len(ch[i])
      OBVIOUS
    <3> QED
      BY <1>2, <3>1, <3>2, BoundsAssumption DEF Put, Room
  <2>3. sent' = [sent EXCEPT ![i] = Append(sent[i], kind)]
    BY <1>2 DEF Put
  <2> QED
    BY <1>2, <2>1, <2>2, <2>3 DEF Abstract!Produce
<1>3. ASSUME NEW i \in Streams, Send(i) PROVE Abstract!Produce(i)
  <2>1. Head(pending[i]) \in Kinds
    BY <1>3 DEF Send, SendHasPending
  <2>2. \A j \in Streams : AbstractPhase(j)' = AbstractPhase(j)
    BY <1>3 DEF Send, AfterSend, AbstractPhase
  <2>3. UNCHANGED phaseOf
    BY <2>2
  <2> QED
    BY <1>2, <1>3, <2>1, <2>3 DEF Send
<1>4. ASSUME NEW i \in Streams, FailSend(i) PROVE Abstract!Produce(i)
  <2>1. \A j \in Streams : AbstractPhase(j)' = AbstractPhase(j)
    BY <1>4 DEF FailSend, AbstractPhase
  <2>2. UNCHANGED phaseOf
    BY <2>1
  <2> QED
    BY <1>2, <1>4, <2>2 DEF FailSend, Kinds
<1>5. ASSUME NEW i \in Streams, Close(i) PROVE Abstract!Finish(i)
  BY <1>5 DEF Close, Abstract!Finish, AbstractPhase
<1>6. ASSUME NEW i \in Streams, NextReceive(i) PROVE Abstract!Deliver(i)
  <2>1. got[i] \o ch[i] = sent[i]
    BY DEF InOrderNoLoss
  <2>2. /\ Head(ch[i]) = sent[i][Len(got[i]) + 1]
        /\ Len(got[i]) < Len(sent[i])
    BY <1>6, <2>1, HeadIsNext DEF NextReceive
  <2>3. \A j \in Streams : AbstractPhase(j)' = AbstractPhase(j)
    BY <1>6 DEF NextReceive, producerVars, AbstractPhase
  <2>4. \A j \in Streams :
            (next[j] \in {"eof", "ended"})' = (next[j] \in {"eof", "ended"})
    BY <1>6 DEF NextReceive
  <2> QED
    BY <1>6, <2>2, <2>3, <2>4 DEF NextReceive, Abstract!Deliver
<1>7. ASSUME NEW i \in Streams, NextClosed(i) PROVE Abstract!SignalEOF(i)
  <2>1. got[i] \o <<>> = sent[i] /\ got[i] \in Seq(Kinds)
    BY <1>7 DEF NextClosed, InOrderNoLoss
  <2>2. got[i] = sent[i]
    BY <2>1, ConcatEmpty
  <2>3. \A j \in Streams : AbstractPhase(j)' = AbstractPhase(j)
    BY <1>7 DEF NextClosed, producerVars, AbstractPhase
  <2>4. AbstractPhase(i) = "finished"
    BY <1>7 DEF NextClosed, AbstractPhase
  <2>5. eofOf' = [eofOf EXCEPT ![i] = TRUE]
    BY <1>7 DEF NextClosed
  <2> QED
    BY <1>7, <2>2, <2>3, <2>4, <2>5 DEF NextClosed, Abstract!SignalEOF
(* Every other step is one the gateway cannot tell from no step. *)
<1>8. ASSUME NEW i \in Streams,
             \/ SetupFails(i) \/ CallOk(i) \/ CallFails(i) \/ ReadEvent(i)
             \/ SkipEvent(i) \/ ReadEnd(i) \/ ReadResponse(i) \/ ReadFails(i) \/ AbortSend(i)
             \/ FailDrop(i) \/ Return(i) \/ NextCall(i) \/ NextEOF(i)
             \/ InvokeCancel(i) \/ DeadlineExpires(i)
      PROVE  UNCHANGED Abstract!streamVars
  <2>1. CASE NextCall(i) \/ NextEOF(i) \/ InvokeCancel(i) \/ DeadlineExpires(i)
    <3>1. UNCHANGED <<pc, sent, got>>
      BY <2>1 DEF NextCall, NextEOF, InvokeCancel, DeadlineExpires, producerVars
    <3>2. \A j \in Streams :
             (next[j] \in {"eof", "ended"})' = (next[j] \in {"eof", "ended"})
      BY <2>1 DEF NextCall, NextEOF, InvokeCancel, DeadlineExpires
    <3> QED
      BY <3>1, <3>2 DEF Abstract!streamVars, AbstractPhase
  <2>2. CASE \/ SetupFails(i) \/ CallOk(i) \/ CallFails(i) \/ ReadEvent(i) \/ SkipEvent(i)
             \/ ReadEnd(i) \/ ReadResponse(i) \/ ReadFails(i)
    <3>1. UNCHANGED <<next, sent, got>>
      BY <2>2 DEF SetupFails, CallOk, CallFails, ReadEvent, SkipEvent, ReadEnd, ReadResponse,
                  ReadFails, Prepare
    <3>2. \A j \in Streams : \/ pc'[j] = pc[j]
                             \/ {pc[j], pc'[j]} \intersect {"none", "done"} = {}
      <4>1. CASE SetupFails(i) \/ CallOk(i) \/ SkipEvent(i)
        BY <4>1 DEF SetupFails, CallOk, SkipEvent
      <4>2. ASSUME NEW ks, NEW w, pc[i] \in {"call", "read"}, Prepare(i, ks, w)
            PROVE  \A j \in Streams : \/ pc'[j] = pc[j]
                                     \/ {pc[j], pc'[j]} \intersect {"none", "done"} = {}
        BY <4>2 DEF Prepare
      <4>3. CASE CallFails(i) \/ ReadEvent(i) \/ ReadEnd(i)
        BY <4>2, <4>3 DEF CallFails, ReadEvent, ReadEnd
      <4>4. CASE ReadResponse(i) \/ ReadFails(i)
        BY <4>2, <4>4 DEF ReadResponse, ReadFails
      <4> QED
        BY <2>2, <4>1, <4>3, <4>4
    <3> QED
      BY <3>1, <3>2 DEF Abstract!streamVars, AbstractPhase
  <2>3. CASE AbortSend(i) \/ FailDrop(i) \/ Return(i)
    BY <2>3 DEF AbortSend, FailDrop, Return, Abstract!streamVars, AbstractPhase
  <2> QED
    BY <1>8, <2>1, <2>2, <2>3
<1>9. CASE UNCHANGED vars
  BY <1>9 DEF vars, Abstract!streamVars, AbstractPhase
<1> QED
  BY <1>1, <1>3, <1>4, <1>5, <1>6, <1>7, <1>8, <1>9
     DEF Next, Producer, InvokeNext, Abstract!Next, Abstract!Step

(* The SDK and its providers keep the promise of ChunkStream. *)
THEOREM Refinement == Spec => ImplementsChunkStream
<1>1. IInv /\ [Next]_vars => [Abstract!Next]_Abstract!streamVars
  BY AbstractStep
<1> QED
  BY AbstractInit, <1>1, IInvHolds, PTL DEF Spec, ImplementsChunkStream, Abstract!Spec

-----------------------------------------------------------------------------
(* The process of a plugin: the invariant of Serve.                          *)

(* A process keeps its listener open until it has given the path back. *)
OpenToTheEnd ==
    \A i \in Instances : stage[i] \in {"notify", "serve", "unlink", "close"} => open[i]

(* Whoever lives beside another one is marked. *)
OverlapsMarked ==
    \A i, j \in Instances : i # j /\ Alive(i) /\ Alive(j) => overlapped[i]

(* The path names only processes that have bound it. *)
PathIsBound ==
    \A i \in Instances : path = i => stage[i] \notin {"down", "remove", "listen"}

PathKept ==
    \A i \in Instances : stage[i] \in {"notify", "serve"} /\ ~overlapped[i] => path = i

(* Nothing is returned before the end, and no signal is handled and no       *)
(* connection accepted before the handler is on.                             *)
NothingReturned ==
    \A i \in Instances :
        stage[i] \in {"down", "remove", "listen", "notify", "serve"} => result[i] = "none"

AskedWhileServing ==
    \A i \in Instances :
        stage[i] \in {"down", "remove", "listen", "notify"} =>
            ~askedFirst[i] /\ acceptor[i] = "none"

(* What the accept loop reports knows of the signal. *)
ReportsKnow ==
    \A i \in Instances :
        /\ askedFirst[i] => signalled[i] /\ errCh[i] # "err" /\ acceptor[i] # "err"
        /\ errCh[i] = "nil" => signalled[i]
        /\ acceptor[i] = "nil" => signalled[i]
        /\ errCh[i] # "empty" => acceptor[i] = "done"

ServeInv == /\ ServeTypeOK
        /\ OpenToTheEnd
        /\ OverlapsMarked
        /\ PathIsBound
        /\ PathKept
        /\ NothingReturned
        /\ AskedWhileServing
        /\ ReportsKnow
        /\ CleanStop
        /\ NothingStale

-----------------------------------------------------------------------------
(* At the start nothing runs and the path names nobody. *)
LEMMA ServeInitInv == ServeInit => ServeInv
BY InstancesAssumption
   DEF ServeInit, ServeInv, ServeTypeOK, OpenToTheEnd, OverlapsMarked, PathIsBound, PathKept,
       NothingReturned, AskedWhileServing, ReportsKnow, CleanStop, NothingStale, Alive,
       Instances, Nobody

(* The processes have numbers, and Nobody is none of them. *)
LEMMA NobodyIsNoInstance == Nobody \notin Instances
BY InstancesAssumption DEF Nobody, Instances

(* The types are kept by every step. *)
LEMMA ServeTypeKept == ServeTypeOK /\ [ServeNext]_serveVars => ServeTypeOK'
<1> SUFFICES ASSUME ServeTypeOK, [ServeNext]_serveVars
             PROVE  ServeTypeOK'
    OBVIOUS
<1>1. CASE UNCHANGED serveVars
    BY <1>1 DEF serveVars, ServeTypeOK
<1>2. CASE ServeNext
    <2> PICK i \in Instances : Start(i) \/ Internal(i) \/ AcceptStep(i) \/ Signal(i) \/ Crash(i)
        BY <1>2 DEF ServeNext
    <2>1. CASE Start(i)
        BY <2>1 DEF Start, ServeTypeOK
    <2>2. CASE Internal(i)
        <3>1. CASE Remove(i) \/ Listen(i) \/ ListenFails(i) \/ Notify(i) \/ Stop(i)
            <4>1. CASE Remove(i) \/ ListenFails(i)
                BY <4>1 DEF Remove, ListenFails, ServeTypeOK
            <4>2. CASE Listen(i)
                BY <4>2 DEF Listen, ServeTypeOK
            <4>3. CASE Notify(i) \/ Stop(i)
                BY <4>3 DEF Notify, Stop, ServeTypeOK
            <4> QED
                BY <3>1, <4>1, <4>2, <4>3
        <3>2. CASE ReturnReport(i)
            BY <3>2 DEF ReturnReport, ServeTypeOK
        <3>3. CASE Unlink(i) \/ CloseListener(i) \/ RemoveAgain(i)
            BY <3>3 DEF Unlink, CloseListener, RemoveAgain, ServeTypeOK
        <3> QED
            BY <2>2, <3>1, <3>2, <3>3 DEF Internal
    <2>3. CASE AcceptStep(i)
        <3>1. CASE AcceptFails(i) \/ AcceptClosed(i) \/ Judge(i)
            BY <3>1 DEF AcceptFails, AcceptClosed, Judge, ServeTypeOK
        <3>2. CASE Report(i)
            BY <3>2 DEF Report, ServeTypeOK
        <3> QED
            BY <2>3, <3>1, <3>2 DEF AcceptStep
    <2>4. CASE Signal(i)
        BY <2>4 DEF Signal, ServeTypeOK
    <2>5. CASE Crash(i)
        BY <2>5 DEF Crash, ServeTypeOK
    <2> QED
        BY <2>1, <2>2, <2>3, <2>4, <2>5
<1> QED
    BY <1>1, <1>2

(* Every part of the invariant is kept by every step. *)
LEMMA ServeInvKept == ServeInv /\ [ServeNext]_serveVars => ServeInv'
<1> SUFFICES ASSUME ServeInv, [ServeNext]_serveVars
             PROVE  ServeInv'
    OBVIOUS
<1> USE NobodyIsNoInstance
    DEF OpenToTheEnd, OverlapsMarked, PathIsBound, PathKept, NothingReturned,
        AskedWhileServing, ReportsKnow, CleanStop, NothingStale, Alive
<1>0. ServeTypeOK /\ ServeTypeOK'
    BY ServeTypeKept DEF ServeInv
<1>1. CASE UNCHANGED serveVars
    BY <1>0, <1>1 DEF serveVars, ServeInv
<1>2. CASE ServeNext
    <2> PICK i \in Instances : Start(i) \/ Internal(i) \/ AcceptStep(i) \/ Signal(i) \/ Crash(i)
        BY <1>2 DEF ServeNext
    <2>1. CASE Start(i)
        BY <1>0, <2>1 DEF Start, ServeInv, ServeTypeOK
    <2>2. CASE Remove(i)
        BY <1>0, <2>2 DEF Remove, ServeInv, ServeTypeOK
    <2>3. CASE Listen(i)
        BY <1>0, <2>3 DEF Listen, ServeInv, ServeTypeOK
    <2>4. CASE ListenFails(i)
        BY <1>0, <2>4 DEF ListenFails, ServeInv, ServeTypeOK
    <2>5. CASE Notify(i)
        BY <1>0, <2>5 DEF Notify, ServeInv, ServeTypeOK
    <2>6. CASE Stop(i)
        BY <1>0, <2>6 DEF Stop, ServeInv, ServeTypeOK
    <2>7. CASE ReturnReport(i)
        BY <1>0, <2>7 DEF ReturnReport, ServeInv, ServeTypeOK
    <2>8. CASE Unlink(i)
        BY <1>0, <2>8 DEF Unlink, ServeInv, ServeTypeOK
    <2>9. CASE CloseListener(i)
        BY <1>0, <2>9 DEF CloseListener, ServeInv, ServeTypeOK
    <2>10. CASE RemoveAgain(i)
        BY <1>0, <2>10 DEF RemoveAgain, ServeInv, ServeTypeOK
    <2>11. CASE AcceptStep(i)
        <3>1. CASE AcceptFails(i) \/ AcceptClosed(i)
            BY <1>0, <3>1 DEF AcceptFails, AcceptClosed, ServeInv, ServeTypeOK
        <3>2. CASE Judge(i)
            BY <1>0, <3>2 DEF Judge, ServeInv, ServeTypeOK
        <3>3. CASE Report(i)
            BY <1>0, <3>3 DEF Report, ServeInv, ServeTypeOK
        <3> QED
            BY <2>11, <3>1, <3>2, <3>3 DEF AcceptStep
    <2>12. CASE Signal(i)
        BY <1>0, <2>12 DEF Signal, ServeInv, ServeTypeOK
    <2>13. CASE Crash(i)
        BY <1>0, <2>13 DEF Crash, ServeInv, ServeTypeOK
    <2> QED
        BY <2>1, <2>2, <2>3, <2>4, <2>5, <2>6, <2>7, <2>8, <2>9, <2>10, <2>11, <2>12, <2>13
        DEF Internal
<1> QED
    BY <1>1, <1>2

LEMMA ServeInvHolds == ServeSpec => []ServeInv
<1>1. ServeInit => ServeInv
    BY ServeInitInv
<1>2. ServeInv /\ [ServeNext]_serveVars => ServeInv'
    BY ServeInvKept
<1> QED
    BY <1>1, <1>2, PTL DEF ServeSpec

-----------------------------------------------------------------------------
(* A plugin that shares its life with no other can be reached from Listen    *)
(* until it closes its listener, however many died before it.                *)
THEOREM AloneIsReachable == ServeSpec => []Reachable
<1>1. ServeInv => Reachable
    BY DEF ServeInv, OpenToTheEnd, PathKept, Reachable, Reached
<1> QED
    BY <1>1, ServeInvHolds, PTL

(* A signal that comes before the accept loop has judged its error: the stop *)
(* is not reported as an error.  And an error is never reported as a stop.   *)
THEOREM StopsCleanly == ServeSpec => []CleanStop
<1>1. ServeInv => CleanStop
    BY DEF ServeInv
<1> QED
    BY <1>1, ServeInvHolds, PTL

(* ServeUnix leaves no socket behind when it returns, overlapping or not.    *)
THEOREM LeavesNothing == ServeSpec => []NothingStale
<1>1. ServeInv => NothingStale
    BY DEF ServeInv
<1> QED
    BY <1>1, ServeInvHolds, PTL

(* Types, for lives of the process that overlap in any number.               *)
THEOREM ServeTyped == ServeSpec => []ServeTypeOK
<1>1. ServeInv => ServeTypeOK
    BY DEF ServeInv
<1> QED
    BY <1>1, ServeInvHolds, PTL
=============================================================================
