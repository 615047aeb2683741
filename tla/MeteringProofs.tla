--------------------------- MODULE MeteringProofs ---------------------------
(***************************************************************************)
(* Proofs about Metering, for any number of services, consumers and events *)
(* and any limits: a message that is acknowledged is kept unless every     *)
(* attempt to keep it has failed; in short, the accounting service is a    *)
(* Ledger.                                                                 *)
(***************************************************************************)
EXTENDS Metering, SequenceTheorems, TLAPS

\* What an action of one consumer does to its own record, in TypeOK's terms.
Works(c, r) ==
  /\ r \in ConState
  /\ \A i \in DOMAIN r.batch : r.batch[i] \in DOMAIN stream
  /\ r.pc \in {"save", "dlq", "ack"} => r.batch # <<>>

\* The part of TypeOK about the consumers, record by record.
LEMMA ConsumersTyped ==
  TypeOK <=> /\ pub \in [pc : {"round", "next", "publish"}, todo : SUBSET Services,
                         ev : Events, tries : Nat]
             /\ uuids \in Events
             /\ stream \in Seq(Msg)
             /\ meterings \in [Events -> Nat]
             /\ dlq \subseteq Events
             /\ foreign \in Nat /\ faults \in Nat /\ crashes \in Nat
             /\ con \in [Consumers -> ConState]
             /\ \A c \in Consumers : Works(c, con[c])
  BY DEF TypeOK, Works

LEMMA InitTyped == Init => TypeOK
  BY MeteringAssumption DEF Init, TypeOK, Events, NoEvent, ConState

\* A consumer's record changes and the stream does not.
LEMMA OneConsumerTyped ==
  ASSUME TypeOK, NEW c \in Consumers, NEW r, Works(c, r),
         con' = [con EXCEPT ![c] = r], stream' = stream,
         pub' \in [pc : {"round", "next", "publish"}, todo : SUBSET Services,
                   ev : Events, tries : Nat],
         uuids' \in Events, meterings' \in [Events -> Nat], dlq' \subseteq Events,
         foreign' \in Nat, faults' \in Nat, crashes' \in Nat
  PROVE  TypeOK'
<1>1. r \in ConState
  BY DEF Works
<1>2. con' \in [Consumers -> ConState]
  BY <1>1 DEF TypeOK
<1>3. ASSUME NEW d \in Consumers PROVE Works(d, con[d])'
  <2>1. CASE d = c
    BY <2>1 DEF TypeOK, Works
  <2>2. CASE d # c
    BY <2>2 DEF TypeOK, Works
  <2> QED BY <2>1, <2>2
<1> QED
  BY <1>2, <1>3 DEF TypeOK, Works

\* The stream changes, keeps what it has, and the consumers do not.
LEMMA StreamTyped ==
  ASSUME TypeOK, con' = con, stream' \in Seq(Msg), DOMAIN stream \subseteq DOMAIN stream',
         pub' \in [pc : {"round", "next", "publish"}, todo : SUBSET Services,
                   ev : Events, tries : Nat],
         uuids' \in Events, meterings' \in [Events -> Nat], dlq' \subseteq Events,
         foreign' \in Nat, faults' \in Nat, crashes' \in Nat
  PROVE  TypeOK'
  BY DEF TypeOK

LEMMA FaultTyped == TypeOK /\ (Fault \/ NoFault) => foreign' \in Nat /\ faults' \in Nat /\ crashes' \in Nat
  BY DEF TypeOK, Fault, NoFault

LEMMA StoreTyped ==
  ASSUME TypeOK, NEW e \in Events, Store(e)
  PROVE  /\ stream' \in Seq(Msg) /\ DOMAIN stream \subseteq DOMAIN stream'
         /\ \A i \in DOMAIN stream : stream'[i] = stream[i]
         /\ \A i \in DOMAIN stream' \ DOMAIN stream : stream'[i] = [ev |-> e, st |-> "ready"]
<1> DEFINE x == [ev |-> e, st |-> "ready"]
<1>1. x \in Msg
  BY DEF Msg
<1>2. stream' = Append(stream, x) /\ stream \in Seq(Msg)
  BY DEF Store, TypeOK
<1> HIDE DEF x
<1>3. stream' \in Seq(Msg) /\ Len(stream') = Len(stream) + 1
      /\ \A i \in 1..Len(stream) : stream'[i] = stream[i]
  BY <1>1, <1>2, AppendProperties
<1>4. stream'[Len(stream) + 1] = x
  BY <1>1, <1>2, AppendProperties
<1>5. DOMAIN stream = 1..Len(stream) /\ DOMAIN stream' = 1..Len(stream') /\ Len(stream) \in Nat
  BY <1>2, <1>3, LenProperties
<1> QED
  BY <1>3, <1>4, <1>5 DEF x

\* The message that a busy consumer works on is one of the stream.
LEMMA CurTyped ==
  ASSUME TypeOK, NEW c \in Consumers, con[c].batch # <<>>
  PROVE  Cur(c) \in DOMAIN stream /\ stream[Cur(c)] \in Msg /\ CurEvent(c) \in Events
<1>1. con[c].batch \in Seq(Nat \ {0})
  BY DEF TypeOK, ConState
<1>2. 1 \in DOMAIN con[c].batch /\ Cur(c) = con[c].batch[1]
  BY <1>1 DEF Cur
<1>3. Cur(c) \in DOMAIN stream
  BY <1>2 DEF TypeOK
<1>4. stream[Cur(c)] \in Msg
  BY <1>3 DEF TypeOK
<1> QED
  BY <1>3, <1>4 DEF CurEvent, Msg

LEMMA PublisherTyped ==
  ASSUME TypeOK, startAccountingMetering \/ startAccountingRequestMeter
  PROVE  TypeOK'
<1>1. CASE startAccountingMetering
  <2>1. foreign' \in Nat /\ faults' \in Nat /\ crashes' \in Nat
    BY <1>1, FaultTyped DEF startAccountingMetering
  <2> QED
    BY <1>1, <2>1, MeteringAssumption DEF startAccountingMetering, TypeOK
<1>2. CASE startAccountingRequestMeter
  <2>1. foreign' \in Nat /\ faults' \in Nat /\ crashes' \in Nat
    BY <1>2, FaultTyped DEF startAccountingRequestMeter
  <2>2. pub' \in [pc : {"round", "next", "publish"}, todo : SUBSET Services,
                  ev : Events, tries : Nat] /\ uuids' \in Events
    <3>1. CASE pub.todo = {} /\ pub' = [pub EXCEPT !.pc = "round"] /\ UNCHANGED uuids
      BY <3>1 DEF TypeOK
    <3>2. CASE uuids < MaxEvents /\ uuids' = uuids + 1
      <4>1. uuids + 1 \in Events
        BY <3>2, MeteringAssumption DEF TypeOK, Events
      <4>2. CASE pub' = [pub EXCEPT !.pc = "round"]
        BY <3>2, <4>1, <4>2 DEF TypeOK
      <4>3. CASE \E t \in pub.todo : pub' = [pc |-> "publish", todo |-> pub.todo \ {t},
                                             ev |-> uuids + 1, tries |-> 0]
        BY <3>2, <4>1, <4>3 DEF TypeOK
      <4> QED BY <1>2, <4>2, <4>3 DEF startAccountingRequestMeter
    <3> QED BY <1>2, <3>1, <3>2 DEF startAccountingRequestMeter
  <2> QED
    BY <1>2, <2>1, <2>2 DEF startAccountingRequestMeter, TypeOK
<1> QED BY <1>1, <1>2

\* A message of the stream gets another state.
LEMMA MarkTyped ==
  ASSUME TypeOK, NEW i \in DOMAIN stream, NEW s \in {"ready", "sent", "acked"},
         stream' = [stream EXCEPT ![i].st = s]
  PROVE  /\ stream' \in Seq(Msg) /\ DOMAIN stream' = DOMAIN stream
         /\ \A k \in DOMAIN stream : stream'[k].ev = stream[k].ev
         /\ stream'[i].st = s
         /\ \A k \in DOMAIN stream \ {i} : stream'[k] = stream[k]
<1>1. stream \in Seq(Msg) /\ DOMAIN stream = 1..Len(stream) /\ Len(stream) \in Nat
  BY DEF TypeOK
<1>2. ASSUME NEW k \in DOMAIN stream PROVE stream[k] \in Msg
  BY <1>1
<1>3. [stream[i] EXCEPT !.st = s] \in Msg /\ [stream[i] EXCEPT !.st = s].ev = stream[i].ev
      /\ [stream[i] EXCEPT !.st = s].st = s
  BY <1>2 DEF Msg
<1>4. stream' = [stream EXCEPT ![i] = [stream[i] EXCEPT !.st = s]]
  OBVIOUS
<1>5. stream' \in [1..Len(stream) -> Msg]
  BY <1>1, <1>2, <1>3, <1>4
<1> QED
  BY <1>1, <1>3, <1>4, <1>5

LEMMA PublishTyped ==
  ASSUME TypeOK, PublishMeteringEvent \/ PublishForeign \/ Redeliver
  PROVE  TypeOK'
<1>1. CASE PublishMeteringEvent
  <2>1. foreign' \in Nat /\ faults' \in Nat /\ crashes' \in Nat
    BY <1>1, FaultTyped DEF PublishMeteringEvent
  <2>2. pub' \in [pc : {"round", "next", "publish"}, todo : SUBSET Services,
                  ev : Events, tries : Nat]
    <3>1. pub.tries + 1 \in Nat
      BY DEF TypeOK
    <3>2. CASE pub' = [pub EXCEPT !.pc = "next"]
      BY <3>2 DEF TypeOK
    <3>3. CASE pub' = [pub EXCEPT !.pc = IF pub.tries + 1 = PublishTries THEN "next" ELSE @,
                                  !.tries = @ + 1]
      BY <1>1, <3>1, <3>3 DEF TypeOK, PublishMeteringEvent
    <3> QED BY <1>1, <3>2, <3>3 DEF PublishMeteringEvent
  <2>3. pub.ev \in Events
    BY DEF TypeOK
  <2>4. stream' \in Seq(Msg) /\ DOMAIN stream \subseteq DOMAIN stream'
    BY <1>1, <2>3, StoreTyped DEF PublishMeteringEvent, TypeOK
  <2> QED
    BY <1>1, <2>1, <2>2, <2>4, StreamTyped DEF PublishMeteringEvent, TypeOK
<1>2. CASE PublishForeign
  <2>1. NoEvent \in Events
    BY MeteringAssumption DEF NoEvent, Events
  <2>2. stream' \in Seq(Msg) /\ DOMAIN stream \subseteq DOMAIN stream'
    BY <1>2, <2>1, StoreTyped DEF PublishForeign
  <2> QED
    BY <1>2, <2>2, StreamTyped DEF PublishForeign, TypeOK
<1>3. CASE Redeliver
  <2>1. PICK i \in DOMAIN stream : stream' = [stream EXCEPT ![i].st = "ready"]
    BY <1>3 DEF Redeliver
  <2>2. stream' \in Seq(Msg) /\ DOMAIN stream \subseteq DOMAIN stream'
    BY <2>1, MarkTyped
  <2> QED
    BY <1>3, <2>2, StreamTyped, FaultTyped DEF Redeliver, TypeOK
<1> QED BY <1>1, <1>2, <1>3

\* Goto leaves the batch alone.
LEMMA GotoTyped ==
  ASSUME TypeOK, NEW c \in Consumers, NEW pc \in {"build", "read", "save", "dlq", "ack"},
         pc \in {"save", "dlq", "ack"} => con[c].batch # <<>>
  PROVE  /\ Goto(c, pc) = [con EXCEPT ![c] = [con[c] EXCEPT !.pc = pc, !.tries = 0]]
         /\ Works(c, [con[c] EXCEPT !.pc = pc, !.tries = 0])
  BY DEF Goto, TypeOK, Works, ConState

LEMMA RetryTyped ==
  ASSUME TypeOK, NEW c \in Consumers
  PROVE  /\ [con EXCEPT ![c].tries = @ + 1] = [con EXCEPT ![c] = [con[c] EXCEPT !.tries = con[c].tries + 1]]
         /\ Works(c, [con[c] EXCEPT !.tries = con[c].tries + 1])
<1>1. con[c] \in ConState
  BY DEF TypeOK
<1>2. [con[c] EXCEPT !.tries = con[c].tries + 1] \in ConState
  BY <1>1 DEF ConState
<1>3. /\ [con[c] EXCEPT !.tries = con[c].tries + 1].batch = con[c].batch
      /\ [con[c] EXCEPT !.tries = con[c].tries + 1].pc = con[c].pc
  BY <1>1 DEF ConState
<1> QED
  BY <1>2, <1>3 DEF TypeOK, Works

LEMMA ReadTyped ==
  ASSUME TypeOK, NEW c \in Consumers,
         preReadMsgs(c) \/ ReadFails(c) \/ startMetering(c) \/ handleMsgWithRetry(c) \/ Crash(c)
  PROVE  TypeOK'
<1>1. CASE preReadMsgs(c)
  <2>1. foreign' \in Nat /\ faults' \in Nat /\ crashes' \in Nat
    BY <1>1, FaultTyped DEF preReadMsgs
  <2>2. CASE con' = con
    BY <1>1, <2>1, <2>2 DEF preReadMsgs, TypeOK
  <2>3. CASE con' = Goto(c, "read")
    BY <1>1, <2>1, <2>3, GotoTyped, OneConsumerTyped DEF preReadMsgs, TypeOK
  <2> QED BY <1>1, <2>2, <2>3 DEF preReadMsgs
<1>2. CASE ReadFails(c)
  <2>1. Works(c, [con[c] EXCEPT !.fails = @ + 1])
    <3>1. con[c] \in ConState
      BY DEF TypeOK
    <3>2. [con[c] EXCEPT !.fails = @ + 1] \in ConState
      BY <3>1 DEF ConState
    <3>3. /\ [con[c] EXCEPT !.fails = @ + 1].batch = con[c].batch
          /\ [con[c] EXCEPT !.fails = @ + 1].pc = con[c].pc
      BY <3>1 DEF ConState
    <3> QED
      BY <3>2, <3>3 DEF TypeOK, Works
  <2>2. con' = [con EXCEPT ![c] = [con[c] EXCEPT !.fails = @ + 1]]
    BY <1>2 DEF ReadFails, TypeOK
  <2> QED
    BY <1>2, <2>1, <2>2, FaultTyped, OneConsumerTyped DEF ReadFails, TypeOK
<1>3. CASE startMetering(c)
  <2>1. Works(c, [con[c] EXCEPT !.pc = "build", !.fails = 0])
    BY DEF TypeOK, Works, ConState
  <2>2. con' = [con EXCEPT ![c] = [con[c] EXCEPT !.pc = "build", !.fails = 0]]
    BY <1>3 DEF startMetering, TypeOK
  <2> QED
    BY <1>3, <2>1, <2>2, FaultTyped, OneConsumerTyped DEF startMetering, TypeOK
<1>4. CASE handleMsgWithRetry(c)
  BY <1>4, GotoTyped, FaultTyped, OneConsumerTyped DEF handleMsgWithRetry, TypeOK
<1>5. CASE Crash(c)
  <2>1. Works(c, [pc |-> "build", batch |-> <<>>, tries |-> 0, fails |-> 0])
    BY DEF Works, ConState
  <2>2. con' = [con EXCEPT ![c] = [pc |-> "build", batch |-> <<>>, tries |-> 0, fails |-> 0]]
    BY <1>5 DEF Crash
  <2>3. foreign' \in Nat /\ faults' \in Nat /\ crashes' \in Nat
    BY <1>5 DEF Crash, TypeOK
  <2>4. /\ pub' = pub /\ uuids' = uuids /\ stream' = stream
        /\ meterings' = meterings /\ dlq' = dlq
    BY <1>5 DEF Crash
  <2>5. /\ pub' \in [pc : {"round", "next", "publish"}, todo : SUBSET Services,
                     ev : Events, tries : Nat]
        /\ uuids' \in Events /\ meterings' \in [Events -> Nat] /\ dlq' \subseteq Events
    BY <2>4 DEF TypeOK
  <2> HIDE DEF Works
  <2> QED
    BY <2>1, <2>2, <2>3, <2>4, <2>5, OneConsumerTyped
<1> QED BY <1>1, <1>2, <1>3, <1>4, <1>5

LEMMA FetchTyped ==
  ASSUME TypeOK, NEW c \in Consumers, FetchMeterEventMessages(c)
  PROVE  /\ TypeOK'
         /\ DOMAIN stream' = DOMAIN stream
         /\ \A k \in DOMAIN stream : stream'[k].ev = stream[k].ev
         /\ \A k \in DOMAIN stream : stream'[k].st = "acked" => stream[k].st = "acked"
<1>1. PICK n \in 1..Batch : \E ids \in [1..n -> Ready] :
         /\ con' = [con EXCEPT ![c].batch = ids]
         /\ stream' = [k \in DOMAIN stream |->
                         IF \E i \in 1..n : ids[i] = k THEN [stream[k] EXCEPT !.st = "sent"]
                         ELSE stream[k]]
  BY DEF FetchMeterEventMessages
<1>2. PICK ids \in [1..n -> Ready] :
         /\ con' = [con EXCEPT ![c].batch = ids]
         /\ stream' = [k \in DOMAIN stream |->
                         IF \E i \in 1..n : ids[i] = k THEN [stream[k] EXCEPT !.st = "sent"]
                         ELSE stream[k]]
  BY <1>1
<1>3. n \in Nat /\ stream \in Seq(Msg) /\ con \in [Consumers -> ConState]
  BY MeteringAssumption DEF TypeOK
<1>4. Ready \subseteq DOMAIN stream /\ DOMAIN stream = 1..Len(stream) /\ Len(stream) \in Nat
  BY <1>3 DEF Ready
<1>5. ids \in Seq(Nat \ {0}) /\ DOMAIN ids = 1..n
  <2>1. \A i \in 1..n : ids[i] \in Nat \ {0}
    BY <1>4
  <2> QED BY <1>3, <2>1
<1>6. \A k \in DOMAIN stream : stream'[k] \in Msg /\ stream'[k].ev = stream[k].ev
                               /\ (stream'[k].st = "acked" => stream[k].st = "acked")
  <2> TAKE k \in DOMAIN stream
  <2>1. stream[k] \in Msg
    BY <1>3, <1>4
  <2>2. CASE \E i \in 1..n : ids[i] = k
    BY <1>2, <2>1, <2>2 DEF Msg
  <2>3. CASE ~\E i \in 1..n : ids[i] = k
    BY <1>2, <2>1, <2>3
  <2> QED BY <2>2, <2>3
<1>7. stream' \in Seq(Msg) /\ DOMAIN stream' = DOMAIN stream
  <2>1. stream' \in [1..Len(stream) -> Msg]
    BY <1>2, <1>4, <1>6
  <2> QED BY <1>4, <2>1
<1>8. con' = [con EXCEPT ![c] = [con[c] EXCEPT !.batch = ids]]
  BY <1>2
<1>9. con' \in [Consumers -> ConState]
  BY <1>3, <1>5, <1>8 DEF ConState
<1>10. ASSUME NEW d \in Consumers
       PROVE  /\ \A i \in DOMAIN con'[d].batch : con'[d].batch[i] \in DOMAIN stream'
              /\ con'[d].pc \in {"save", "dlq", "ack"} => con'[d].batch # <<>>
  <2>1. CASE d = c
    <3>1. con'[d].batch = ids /\ con'[d].pc = "read"
      BY <1>3, <1>8, <2>1 DEF FetchMeterEventMessages, ConState
    <3> QED BY <3>1, <1>4, <1>5, <1>7
  <2>2. CASE d # c
    BY <1>3, <1>7, <1>8, <2>2 DEF TypeOK
  <2> QED BY <2>1, <2>2
<1> QED
  BY <1>6, <1>7, <1>9, <1>10, FaultTyped DEF TypeOK, FetchMeterEventMessages

LEMMA CreateTyped ==
  ASSUME TypeOK, NEW e \in Events, Create(e)
  PROVE  /\ meterings' \in [Events -> Nat] /\ meterings[e] = 0 /\ meterings'[e] = 1
         /\ \A d \in Events \ {e} : meterings'[d] = meterings[d]
  BY DEF Create, TypeOK

\* What the attempts to save do to the record of a consumer.
LEMMA SaveAgainTyped ==
  ASSUME TypeOK, NEW c \in Consumers, con[c].pc = "save", SaveAgain(c)
  PROVE  \E r : Works(c, r) /\ con' = [con EXCEPT ![c] = r]
<1>1. con[c].batch # <<>>
  BY DEF TypeOK
<1>2. CASE con[c].tries + 1 = SaveTries
  BY <1>1, <1>2, GotoTyped DEF SaveAgain
<1>3. CASE con[c].tries + 1 # SaveTries
  BY <1>1, <1>3, RetryTyped DEF SaveAgain
<1> QED BY <1>2, <1>3

LEMMA HandleTyped ==
  ASSUME TypeOK, NEW c \in Consumers,
         SaveMeteringEventRecord(c) \/ handleMsgData(c) \/ moveMsgToDLQWithReTry(c)
  PROVE  TypeOK'
<1> USE DEF TypeOK
<1>0. foreign' \in Nat /\ faults' \in Nat /\ crashes' \in Nat
  BY FaultTyped DEF SaveMeteringEventRecord, handleMsgData, moveMsgToDLQWithReTry
<1>1. con[c].batch # <<>>
  BY DEF SaveMeteringEventRecord, handleMsgData, moveMsgToDLQWithReTry
<1>2. CurEvent(c) \in Events
  BY <1>1, CurTyped
<1> HIDE DEF TypeOK
<1>3. CASE SaveMeteringEventRecord(c)
  <2>1. meterings' \in [Events -> Nat]
    BY <1>2, <1>3, CreateTyped DEF SaveMeteringEventRecord
  <2>2. \E r : Works(c, r) /\ con' = [con EXCEPT ![c] = r]
    BY <1>1, <1>3, GotoTyped DEF SaveMeteringEventRecord
  <2> QED
    BY <1>0, <1>3, <2>1, <2>2, OneConsumerTyped DEF SaveMeteringEventRecord, TypeOK
<1>4. CASE handleMsgData(c)
  <2>1. meterings' \in [Events -> Nat]
    BY <1>2, <1>4, CreateTyped DEF handleMsgData, TypeOK
  <2>2. \E r : Works(c, r) /\ con' = [con EXCEPT ![c] = r]
    BY <1>4, SaveAgainTyped DEF handleMsgData
  <2> QED
    BY <1>0, <1>4, <2>1, <2>2, OneConsumerTyped DEF handleMsgData, TypeOK
<1>5. CASE moveMsgToDLQWithReTry(c)
  <2>1. dlq' \subseteq Events
    BY <1>2, <1>5 DEF moveMsgToDLQWithReTry, TypeOK
  <2>2. \E r : Works(c, r) /\ con' = [con EXCEPT ![c] = r]
    <3>1. CASE con' = Goto(c, "ack")
      BY <1>1, <3>1, GotoTyped
    <3>2. CASE con' = [con EXCEPT ![c].tries = @ + 1]
      BY <3>2, RetryTyped
    <3> QED BY <1>5, <3>1, <3>2 DEF moveMsgToDLQWithReTry
  <2> QED
    BY <1>0, <1>5, <2>1, <2>2, OneConsumerTyped DEF moveMsgToDLQWithReTry, TypeOK
<1> QED BY <1>3, <1>4, <1>5

LEMMA AckTyped ==
  ASSUME TypeOK, NEW c \in Consumers, Ack(c)
  PROVE  /\ TypeOK'
         /\ DOMAIN stream' = DOMAIN stream
         /\ \A k \in DOMAIN stream : stream'[k].ev = stream[k].ev
         /\ \A k \in DOMAIN stream \ {Cur(c)} : stream'[k] = stream[k]
         /\ con'[c].pc = "read" /\ \A d \in Consumers \ {c} : con'[d] = con[d]
<1>1. con[c].batch # <<>> /\ con[c] \in ConState
  BY DEF Ack, TypeOK
<1>2. Cur(c) \in DOMAIN stream
  BY <1>1, CurTyped
<1>3. /\ stream' \in Seq(Msg) /\ DOMAIN stream' = DOMAIN stream
      /\ \A k \in DOMAIN stream : stream'[k].ev = stream[k].ev
      /\ \A k \in DOMAIN stream \ {Cur(c)} : stream'[k] = stream[k]
  <2>1. CASE stream' = [stream EXCEPT ![Cur(c)].st = "acked"]
    BY <1>2, <2>1, MarkTyped
  <2>2. CASE stream' = stream
    BY <2>2 DEF TypeOK
  <2> QED BY <2>1, <2>2 DEF Ack
<1> DEFINE b == con[c].batch
           g == [con[c] EXCEPT !.pc = "read", !.tries = 0]
           r == [g EXCEPT !.batch = Tail(b)]
<1>g. g \in ConState /\ g.batch = b /\ g.pc = "read"
  BY <1>1 DEF ConState
<1>4. con' = [con EXCEPT ![c] = r]
  <2>1. Goto(c, "read") = [con EXCEPT ![c] = g] /\ con \in [Consumers -> ConState]
    BY DEF Goto, TypeOK
  <2>2. con' = [Goto(c, "read") EXCEPT ![c].batch = Tail(@)]
    BY DEF Ack
  <2> HIDE DEF g
  <2> QED BY <1>g, <2>1, <2>2
<1>5. b \in Seq(Nat \ {0}) /\ Tail(b) \in Seq(Nat \ {0}) /\ Len(Tail(b)) = Len(b) - 1
      /\ \A i \in 1..Len(Tail(b)) : Tail(b)[i] = b[i + 1]
  BY <1>1 DEF ConState
<1>6. \A i \in DOMAIN Tail(b) : Tail(b)[i] \in DOMAIN stream
  <2>1. \A i \in DOMAIN b : b[i] \in DOMAIN stream
    BY DEF TypeOK
  <2>2. DOMAIN b = 1..Len(b) /\ DOMAIN Tail(b) = 1..Len(Tail(b)) /\ Len(b) \in Nat
    BY <1>5
  <2> QED BY <1>5, <2>1, <2>2
<1>7. r \in ConState /\ r.batch = Tail(b) /\ r.pc = "read"
  <2> HIDE DEF g
  <2> QED BY <1>g, <1>5 DEF ConState
<1> HIDE DEF r
<1>8. con' \in [Consumers -> ConState] /\ con'[c] = r /\ \A d \in Consumers \ {c} : con'[d] = con[d]
  BY <1>4, <1>7 DEF TypeOK
<1>9. ASSUME NEW d \in Consumers
      PROVE  /\ \A i \in DOMAIN con'[d].batch : con'[d].batch[i] \in DOMAIN stream'
             /\ con'[d].pc \in {"save", "dlq", "ack"} => con'[d].batch # <<>>
  <2>1. CASE d = c
    BY <1>3, <1>6, <1>7, <1>8, <2>1
  <2>2. CASE d # c
    BY <1>3, <1>8, <2>2 DEF TypeOK
  <2> QED BY <2>1, <2>2
<1>10. foreign' \in Nat /\ faults' \in Nat /\ crashes' \in Nat
  BY FaultTyped DEF Ack
<1>11. TypeOK'
  BY <1>3, <1>8, <1>9, <1>10 DEF TypeOK, Ack
<1> QED
  BY <1>3, <1>7, <1>8, <1>11

LEMMA NextTyped == TypeOK /\ [Next]_vars => TypeOK'
<1> SUFFICES ASSUME TypeOK, [Next]_vars PROVE TypeOK'
  OBVIOUS
<1>1. CASE UNCHANGED vars
  BY <1>1 DEF vars, TypeOK
<1>2. CASE Next
  BY <1>2, PublisherTyped, PublishTyped, ReadTyped, FetchTyped, HandleTyped, AckTyped
     DEF Next, Consumer
<1> QED BY <1>1, <1>2

\* A consumer never works on a message that is not in the stream.
THEOREM TypeCorrect == Spec => []TypeOK
  BY InitTyped, NextTyped, PTL DEF Spec

\* An event has one row in account_meterings at most: the unique index sees to it.
BilledOnce == \A e \in Events : meterings[e] <= 1

\* That stays so in every behaviour, and the ledger's entries rely on it.
LEMMA BillOnce == Spec => []BilledOnce
<1>1. Init => BilledOnce
  BY DEF Init, BilledOnce
<1>2. BilledOnce /\ TypeOK /\ [Next]_vars => BilledOnce'
  <2> SUFFICES ASSUME BilledOnce, TypeOK, [Next]_vars PROVE BilledOnce'
    OBVIOUS
  <2>1. CASE meterings' = meterings
    BY <2>1 DEF BilledOnce
  <2>2. ASSUME NEW c \in Consumers, con[c].pc = "save", Create(CurEvent(c)) PROVE BilledOnce'
    <3>1. CurEvent(c) \in Events
      BY <2>2, CurTyped DEF TypeOK
    <3> QED
      BY <2>2, <3>1, CreateTyped DEF BilledOnce
  <2>3. CASE UNCHANGED vars
    BY <2>1, <2>3 DEF vars
  <2>4. CASE Next
    <3>1. ASSUME NEW c \in Consumers, SaveMeteringEventRecord(c) \/ handleMsgData(c)
          PROVE BilledOnce'
      BY <2>1, <2>2, <3>1 DEF SaveMeteringEventRecord, handleMsgData
    <3> QED
      BY <2>1, <2>4, <3>1
         DEF Next, Consumer, startAccountingMetering, startAccountingRequestMeter,
             PublishMeteringEvent, PublishForeign, Redeliver, preReadMsgs, ReadFails,
             startMetering, FetchMeterEventMessages, handleMsgWithRetry,
             moveMsgToDLQWithReTry, Ack, Crash
  <2> QED BY <2>3, <2>4
<1> QED
  BY <1>1, <1>2, TypeCorrect, PTL DEF Spec

----------------------------------------------------------------------------
(* AckedIsKept is not inductive: a consumer about to acknowledge must have   *)
(* kept the event or met as many failures as it has made attempts.           *)

Worked(c) ==
  /\ con[c].pc = "save" =>
       /\ con[c].tries < SaveTries
       /\ CurEvent(c) = NoEvent \/ Kept(CurEvent(c)) \/ faults >= con[c].tries
  /\ con[c].pc = "dlq" =>
       /\ con[c].tries < MoveTries
       /\ \/ Kept(CurEvent(c))
          \/ CurEvent(c) = NoEvent /\ faults >= con[c].tries
          \/ faults >= SaveTries + con[c].tries
  /\ con[c].pc = "ack" => Kept(CurEvent(c)) \/ faults >= Patience(CurEvent(c))

KeptInv == TypeOK /\ AckedIsKept /\ \A c \in Consumers : Worked(c)

\* No step forgets an event, a failure or a message.
Growing ==
  /\ faults' >= faults
  /\ \A e \in Events : Kept(e) => Kept(e)'
  /\ DOMAIN stream \subseteq DOMAIN stream'
  /\ \A i \in DOMAIN stream : stream'[i].ev = stream[i].ev

LEMMA FaultGrows == TypeOK /\ (Fault \/ NoFault) => faults' >= faults
  BY DEF TypeOK, Fault, NoFault

LEMMA KeptGrows ==
  ASSUME TypeOK, dlq \subseteq dlq',
         \/ meterings' = meterings
         \/ \E e \in Events : Create(e)
  PROVE  \A e \in Events : Kept(e) => Kept(e)'
<1>1. CASE meterings' = meterings
  BY <1>1 DEF Kept
<1>2. ASSUME NEW d \in Events, Create(d) PROVE \A e \in Events : Kept(e) => Kept(e)'
  BY <1>2, CreateTyped DEF Kept
<1> QED BY <1>1, <1>2

LEMMA NextGrows == TypeOK /\ [Next]_vars => Growing
<1> SUFFICES ASSUME TypeOK, [Next]_vars PROVE Growing
  OBVIOUS
<1>t. stream \in Seq(Msg) /\ faults \in Nat
  BY DEF TypeOK
<1>1. CASE UNCHANGED vars
  BY <1>t, <1>1 DEF vars, Growing, Kept
<1>2. CASE startAccountingMetering \/ startAccountingRequestMeter
  BY <1>t, <1>2, FaultGrows DEF startAccountingMetering, startAccountingRequestMeter, Growing, Kept
<1>3. CASE PublishMeteringEvent
  <2>1. pub.ev \in Events
    BY DEF TypeOK
  <2>2. DOMAIN stream \subseteq DOMAIN stream' /\ \A i \in DOMAIN stream : stream'[i] = stream[i]
    BY <1>3, <2>1, StoreTyped DEF PublishMeteringEvent
  <2> QED
    BY <1>3, <2>2, FaultGrows DEF PublishMeteringEvent, Growing, Kept
<1>4. CASE PublishForeign
  <2>1. NoEvent \in Events
    BY MeteringAssumption DEF NoEvent, Events
  <2>2. DOMAIN stream \subseteq DOMAIN stream' /\ \A i \in DOMAIN stream : stream'[i] = stream[i]
    BY <1>4, <2>1, StoreTyped DEF PublishForeign
  <2> QED
    BY <1>t, <1>4, <2>2 DEF PublishForeign, Growing, Kept
<1>5. CASE Redeliver
  <2>1. PICK i \in DOMAIN stream : stream' = [stream EXCEPT ![i].st = "ready"]
    BY <1>5 DEF Redeliver
  <2>2. DOMAIN stream' = DOMAIN stream /\ \A k \in DOMAIN stream : stream'[k].ev = stream[k].ev
    BY <2>1, MarkTyped
  <2> QED
    BY <1>5, <2>2, FaultGrows DEF Redeliver, Growing, Kept
<1>6. ASSUME NEW c \in Consumers, Consumer(c) \/ ReadFails(c) \/ Crash(c) PROVE Growing
  <2>1. CASE preReadMsgs(c) \/ ReadFails(c) \/ startMetering(c) \/ handleMsgWithRetry(c) \/ Crash(c)
    BY <1>t, <2>1, FaultGrows
       DEF preReadMsgs, ReadFails, startMetering, handleMsgWithRetry, Crash, Growing, Kept
  <2>2. CASE FetchMeterEventMessages(c)
    BY <2>2, FetchTyped, FaultGrows DEF FetchMeterEventMessages, Growing, Kept
  <2>3. CASE SaveMeteringEventRecord(c) \/ handleMsgData(c) \/ moveMsgToDLQWithReTry(c)
    <3>1. CurEvent(c) \in Events
      BY <2>3, CurTyped DEF TypeOK, SaveMeteringEventRecord, handleMsgData, moveMsgToDLQWithReTry
    <3>2. \A e \in Events : Kept(e) => Kept(e)'
      BY <2>3, <3>1, KeptGrows DEF SaveMeteringEventRecord, handleMsgData, moveMsgToDLQWithReTry
    <3>3. faults' >= faults /\ stream' = stream
      BY <2>3, FaultGrows DEF SaveMeteringEventRecord, handleMsgData, moveMsgToDLQWithReTry
    <3> QED
      BY <3>2, <3>3 DEF Growing
  <2>4. CASE Ack(c)
    BY <2>4, AckTyped, FaultGrows DEF Ack, Growing, Kept
  <2> QED BY <1>6, <2>1, <2>2, <2>3, <2>4 DEF Consumer
<1> QED BY <1>1, <1>2, <1>3, <1>4, <1>5, <1>6 DEF Next

\* A consumer that does nothing stays as it is.
LEMMA OthersWorked ==
  ASSUME TypeOK, TypeOK', Growing, NEW d \in Consumers, Worked(d), con'[d] = con[d]
  PROVE  Worked(d)'
<1>1. CASE con[d].pc \notin {"save", "dlq", "ack"}
  BY <1>1 DEF Worked
<1>2. CASE con[d].pc \in {"save", "dlq", "ack"}
  <2>1. con[d].batch # <<>> /\ con[d] \in ConState
    BY <1>2 DEF TypeOK
  <2>2. Cur(d) \in DOMAIN stream /\ CurEvent(d) \in Events
    BY <2>1, CurTyped
  <2>3. CurEvent(d)' = CurEvent(d)
    BY <2>2 DEF Growing, CurEvent, Cur
  <2>4. Kept(CurEvent(d)) => Kept(CurEvent(d))'
    BY <2>2, <2>3 DEF Growing, Kept
  <2>5. faults \in Nat /\ faults' \in Nat /\ faults' >= faults /\ con[d].tries \in Nat
    BY <2>1 DEF TypeOK, Growing, ConState
  <2>6. Patience(CurEvent(d))' = Patience(CurEvent(d)) /\ Patience(CurEvent(d)) \in Nat
    BY <2>3, MeteringAssumption DEF Patience
  <2> QED
    BY <2>3, <2>4, <2>5, <2>6, MeteringAssumption DEF Worked
<1> QED BY <1>1, <1>2

\* What Goto and a further attempt make of the consumers.
LEMMA GoneTo ==
  ASSUME TypeOK, NEW c \in Consumers, NEW pc \in {"build", "read", "save", "dlq", "ack"},
         con' = Goto(c, pc)
  PROVE  /\ con'[c].pc = pc /\ con'[c].tries = 0 /\ con'[c].batch = con[c].batch
         /\ \A d \in Consumers \ {c} : con'[d] = con[d]
  BY DEF Goto, TypeOK, ConState

LEMMA Retried ==
  ASSUME TypeOK, NEW c \in Consumers, con' = [con EXCEPT ![c].tries = @ + 1]
  PROVE  /\ con'[c].pc = con[c].pc /\ con'[c].tries = con[c].tries + 1
         /\ con'[c].batch = con[c].batch
         /\ \A d \in Consumers \ {c} : con'[d] = con[d]
  BY DEF TypeOK, ConState

\* A consumer that keeps its batch keeps its event.
LEMMA SameEvent ==
  ASSUME TypeOK, Growing, NEW c \in Consumers, con[c].batch # <<>>, con'[c].batch = con[c].batch
  PROVE  /\ CurEvent(c) \in Events /\ CurEvent(c)' = CurEvent(c)
         /\ Kept(CurEvent(c)) => Kept(CurEvent(c))'
<1>1. Cur(c) \in DOMAIN stream /\ CurEvent(c) \in Events
  BY CurTyped
<1>2. CurEvent(c)' = CurEvent(c)
  BY <1>1 DEF Growing, CurEvent, Cur
<1>3. Kept(CurEvent(c)) => Kept(CurEvent(c))'
  BY <1>1, <1>2 DEF Growing, Kept
<1> QED BY <1>1, <1>2, <1>3

LEMMA SaveWorked ==
  ASSUME TypeOK, TypeOK', Growing, NEW c \in Consumers, Worked(c),
         SaveMeteringEventRecord(c) \/ handleMsgData(c)
  PROVE  /\ Worked(c)'
         /\ \A d \in Consumers \ {c} : con'[d] = con[d]
<1>0. con[c].pc = "save" /\ con[c].batch # <<>> /\ con[c] \in ConState
  BY DEF TypeOK, SaveMeteringEventRecord, handleMsgData
<1>n. /\ con[c].tries \in Nat /\ faults \in Nat /\ faults' \in Nat /\ faults' >= faults
      /\ SaveTries \in Nat \ {0} /\ MoveTries \in Nat \ {0}
  BY <1>0, MeteringAssumption DEF TypeOK, ConState, Growing
<1>w. con[c].tries < SaveTries
      /\ (CurEvent(c) = NoEvent \/ Kept(CurEvent(c)) \/ faults >= con[c].tries)
  BY <1>0 DEF Worked
<1>1. CASE SaveMeteringEventRecord(c)
  <2>1. /\ con'[c].pc = "ack" /\ con'[c].batch = con[c].batch
        /\ \A d \in Consumers \ {c} : con'[d] = con[d]
    BY <1>1, GoneTo DEF SaveMeteringEventRecord
  <2>2. CurEvent(c) \in Events /\ CurEvent(c)' = CurEvent(c)
    BY <1>0, <2>1, SameEvent
  <2>3. meterings'[CurEvent(c)] = 1
    BY <1>1, <2>2, CreateTyped DEF SaveMeteringEventRecord
  <2>4. Kept(CurEvent(c))'
    BY <2>2, <2>3 DEF Kept
  <2> QED BY <2>1, <2>4 DEF Worked
<1>2. CASE handleMsgData(c)
  <2>1. /\ con'[c].batch = con[c].batch
        /\ \A d \in Consumers \ {c} : con'[d] = con[d]
        /\ \/ con[c].tries + 1 = SaveTries /\ con'[c].pc = "dlq" /\ con'[c].tries = 0
           \/ /\ con[c].tries + 1 # SaveTries /\ con'[c].pc = "save"
              /\ con'[c].tries = con[c].tries + 1
    <3>1. CASE con[c].tries + 1 = SaveTries
      BY <1>2, <3>1, GoneTo DEF handleMsgData, SaveAgain
    <3>2. CASE con[c].tries + 1 # SaveTries
      BY <1>0, <1>2, <3>2, Retried DEF handleMsgData, SaveAgain
    <3> QED BY <3>1, <3>2
  <2>2. /\ CurEvent(c) \in Events /\ CurEvent(c)' = CurEvent(c)
        /\ Kept(CurEvent(c)) => Kept(CurEvent(c))'
    BY <1>0, <2>1, SameEvent
  <2>3. CurEvent(c) = NoEvent \/ Kept(CurEvent(c)) \/ faults' = faults + 1
    <3>1. CASE meterings[CurEvent(c)] > 0
      BY <3>1 DEF Kept
    <3>2. CASE Fault
      BY <3>2 DEF Fault
    <3> QED BY <1>2, <3>1, <3>2 DEF handleMsgData
  <2>4. CurEvent(c)' = NoEvent \/ Kept(CurEvent(c))' \/ faults' >= con[c].tries + 1
    BY <1>n, <1>w, <2>2, <2>3
  <2> QED
    BY <1>n, <1>w, <2>1, <2>4 DEF Worked
<1> QED BY <1>1, <1>2

LEMMA MoveWorked ==
  ASSUME TypeOK, TypeOK', Growing, NEW c \in Consumers, Worked(c), moveMsgToDLQWithReTry(c)
  PROVE  /\ Worked(c)'
         /\ \A d \in Consumers \ {c} : con'[d] = con[d]
<1>0. con[c].pc = "dlq" /\ con[c].batch # <<>> /\ con[c] \in ConState
  BY DEF TypeOK, moveMsgToDLQWithReTry
<1>n. /\ con[c].tries \in Nat /\ faults \in Nat /\ faults' \in Nat /\ faults' >= faults
      /\ SaveTries \in Nat \ {0} /\ MoveTries \in Nat \ {0}
  BY <1>0, MeteringAssumption DEF TypeOK, ConState, Growing
<1>w. /\ con[c].tries < MoveTries
      /\ \/ Kept(CurEvent(c))
         \/ CurEvent(c) = NoEvent /\ faults >= con[c].tries
         \/ faults >= SaveTries + con[c].tries
  BY <1>0 DEF Worked
<1>1. CASE dlq' = dlq \cup {CurEvent(c)} /\ con' = Goto(c, "ack")
  <2>1. /\ con'[c].pc = "ack" /\ con'[c].batch = con[c].batch
        /\ \A d \in Consumers \ {c} : con'[d] = con[d]
    BY <1>1, GoneTo
  <2>2. CurEvent(c)' = CurEvent(c)
    BY <1>0, <2>1, SameEvent
  <2>3. Kept(CurEvent(c))'
    BY <1>1, <2>2 DEF Kept
  <2> QED BY <2>1, <2>3 DEF Worked
<1>2. CASE /\ con' = IF con[c].tries + 1 = MoveTries THEN Goto(c, "ack")
                     ELSE [con EXCEPT ![c].tries = @ + 1]
           /\ Fault
  <2>1. /\ con'[c].batch = con[c].batch
        /\ \A d \in Consumers \ {c} : con'[d] = con[d]
        /\ \/ con[c].tries + 1 = MoveTries /\ con'[c].pc = "ack"
           \/ /\ con[c].tries + 1 # MoveTries /\ con'[c].pc = "dlq"
              /\ con'[c].tries = con[c].tries + 1
    <3>1. CASE con[c].tries + 1 = MoveTries
      BY <1>2, <3>1, GoneTo
    <3>2. CASE con[c].tries + 1 # MoveTries
      BY <1>0, <1>2, <3>2, Retried
    <3> QED BY <3>1, <3>2
  <2>2. /\ CurEvent(c) \in Events /\ CurEvent(c)' = CurEvent(c)
        /\ Kept(CurEvent(c)) => Kept(CurEvent(c))'
    BY <1>0, <2>1, SameEvent
  <2>3. faults' = faults + 1
    BY <1>2 DEF Fault
  <2>4. \/ Kept(CurEvent(c))'
        \/ CurEvent(c)' = NoEvent /\ faults' >= con[c].tries + 1
        \/ faults' >= SaveTries + (con[c].tries + 1)
    BY <1>n, <1>w, <2>2, <2>3
  <2>5. CASE con[c].tries + 1 = MoveTries /\ con'[c].pc = "ack"
    <3>1. Kept(CurEvent(c))' \/ faults' >= Patience(CurEvent(c))'
      BY <1>n, <2>4, <2>5 DEF Patience
    <3>2. con'[c].pc # "save" /\ con'[c].pc # "dlq"
      BY <2>5
    <3> QED BY <2>1, <3>1, <3>2 DEF Worked
  <2>6. CASE /\ con[c].tries + 1 # MoveTries /\ con'[c].pc = "dlq"
             /\ con'[c].tries = con[c].tries + 1
    <3>1. con'[c].pc # "save" /\ con'[c].pc # "ack" /\ con'[c].tries < MoveTries
      BY <1>n, <1>w, <2>6
    <3>2. \/ Kept(CurEvent(c))'
          \/ CurEvent(c)' = NoEvent /\ faults' >= con'[c].tries
          \/ faults' >= SaveTries + con'[c].tries
      BY <2>4, <2>6
    <3> QED BY <2>1, <3>1, <3>2 DEF Worked
  <2> QED BY <2>1, <2>5, <2>6
<1> QED BY <1>1, <1>2 DEF moveMsgToDLQWithReTry

\* The other steps leave a consumer where it has nothing to answer for.
LEMMA ReadWorked ==
  ASSUME TypeOK, TypeOK', NEW c \in Consumers,
         preReadMsgs(c) \/ ReadFails(c) \/ startMetering(c) \/ handleMsgWithRetry(c) \/ Crash(c)
           \/ FetchMeterEventMessages(c)
  PROVE  /\ con'[c] = con[c] \/ Worked(c)'
         /\ \A d \in Consumers \ {c} : con'[d] = con[d]
<1>t. con \in [Consumers -> ConState] /\ faults' \in Nat /\ SaveTries \in Nat \ {0}
  BY MeteringAssumption DEF TypeOK
<1>1. CASE preReadMsgs(c)
  BY <1>1, GoneTo DEF preReadMsgs, Worked
<1>2. CASE handleMsgWithRetry(c)
  <2>1. /\ con'[c].pc = "save" /\ con'[c].tries = 0
        /\ \A d \in Consumers \ {c} : con'[d] = con[d]
    BY <1>2, GoneTo DEF handleMsgWithRetry
  <2> QED BY <1>t, <2>1 DEF Worked
<1>3. CASE ReadFails(c) \/ startMetering(c) \/ Crash(c) \/ FetchMeterEventMessages(c)
  <2>1. /\ con'[c].pc \in {"build", "read"}
        /\ \A d \in Consumers \ {c} : con'[d] = con[d]
    <3>1. CASE ReadFails(c)
      BY <1>t, <3>1 DEF ReadFails, ConState
    <3>3. CASE startMetering(c)
      BY <1>t, <3>3 DEF startMetering, ConState
    <3>4. CASE Crash(c)
      BY <1>t, <3>4 DEF Crash
    <3>2. CASE FetchMeterEventMessages(c)
      <4>1. con[c].pc = "read" /\ \E ids : con' = [con EXCEPT ![c].batch = ids]
        BY <3>2 DEF FetchMeterEventMessages
      <4> QED BY <1>t, <4>1 DEF ConState
    <3> QED BY <1>3, <3>1, <3>2, <3>3, <3>4
  <2> QED BY <2>1 DEF Worked
<1> QED BY <1>1, <1>2, <1>3

\* A message that becomes acknowledged is the one that a consumer answers for.
LEMMA AckWorked ==
  ASSUME TypeOK, AckedIsKept, Growing, TypeOK', NEW c \in Consumers, Worked(c), Ack(c)
  PROVE  AckedIsKept'
<1> SUFFICES ASSUME NEW i \in DOMAIN stream', stream'[i].st = "acked"
             PROVE  Kept(stream[i].ev)' \/ faults' >= Patience(stream[i].ev)'
  BY DEF AckedIsKept
<1>0. con[c].pc = "ack" /\ con[c].batch # <<>>
  BY DEF Ack, TypeOK
<1>1. i \in DOMAIN stream /\ stream'[i].ev = stream[i].ev
  BY AckTyped
<1>2. Kept(stream[i].ev) \/ faults >= Patience(stream[i].ev)
  <2>1. CASE i = Cur(c)
    BY <1>0, <2>1 DEF Worked, CurEvent
  <2>2. CASE i # Cur(c)
    <3>1. stream[i].st = "acked"
      BY <1>1, <2>2, AckTyped
    <3> QED BY <1>1, <3>1 DEF AckedIsKept
  <2> QED BY <2>1, <2>2
<1>3. stream[i].ev \in Events
  <2>1. stream[i] \in Msg
    BY <1>1 DEF TypeOK
  <2> QED BY <2>1 DEF Msg
<1>4. Kept(stream[i].ev) => Kept(stream[i].ev)'
  BY <1>1, <1>3 DEF Growing, Kept
<1>5. /\ faults' >= faults /\ faults \in Nat /\ faults' \in Nat
      /\ Patience(stream[i].ev) \in Nat /\ Patience(stream[i].ev)' = Patience(stream[i].ev)
  BY <1>1, MeteringAssumption DEF Growing, TypeOK, Patience
<1> QED BY <1>1, <1>2, <1>4, <1>5

\* The other steps acknowledge nothing.
LEMMA OthersKept ==
  ASSUME TypeOK, AckedIsKept, Growing, TypeOK',
         \A i \in DOMAIN stream' : stream'[i].st = "acked" =>
            i \in DOMAIN stream /\ stream[i].st = "acked"
  PROVE  AckedIsKept'
<1> SUFFICES ASSUME NEW i \in DOMAIN stream', stream'[i].st = "acked"
             PROVE  Kept(stream[i].ev)' \/ faults' >= Patience(stream[i].ev)'
  BY DEF AckedIsKept
<1>1. i \in DOMAIN stream /\ stream'[i].ev = stream[i].ev
  BY DEF Growing
<1>2. Kept(stream[i].ev) \/ faults >= Patience(stream[i].ev)
  BY <1>1 DEF AckedIsKept
<1>3. stream[i].ev \in Events
  <2>1. stream[i] \in Msg
    BY <1>1 DEF TypeOK
  <2> QED BY <2>1 DEF Msg
<1>4. Kept(stream[i].ev) => Kept(stream[i].ev)'
  BY <1>1, <1>3 DEF Growing, Kept
<1>5. /\ faults' >= faults /\ faults \in Nat /\ faults' \in Nat
      /\ Patience(stream[i].ev) \in Nat /\ Patience(stream[i].ev)' = Patience(stream[i].ev)
  BY <1>1, MeteringAssumption DEF Growing, TypeOK, Patience
<1> QED BY <1>1, <1>2, <1>4, <1>5

LEMMA NothingAcked ==
  ASSUME TypeOK,
         \/ UNCHANGED stream
         \/ PublishMeteringEvent \/ PublishForeign \/ Redeliver
         \/ \E c \in Consumers : FetchMeterEventMessages(c)
  PROVE  \A i \in DOMAIN stream' : stream'[i].st = "acked" =>
            i \in DOMAIN stream /\ stream[i].st = "acked"
<1>1. CASE UNCHANGED stream
  BY <1>1
<1>2. ASSUME NEW e \in Events, Store(e)
      PROVE \A i \in DOMAIN stream' : stream'[i].st = "acked" =>
               i \in DOMAIN stream /\ stream[i].st = "acked"
  <2> TAKE i \in DOMAIN stream'
  <2>1. CASE i \in DOMAIN stream
    BY <1>2, <2>1, StoreTyped
  <2>2. CASE i \notin DOMAIN stream
    <3>1. stream'[i] = [ev |-> e, st |-> "ready"]
      BY <1>2, <2>2, StoreTyped
    <3> QED BY <3>1
  <2> QED BY <2>1, <2>2
<1>3. CASE PublishMeteringEvent
  <2>1. pub.ev \in Events
    BY DEF TypeOK
  <2> QED BY <1>1, <1>2, <1>3, <2>1 DEF PublishMeteringEvent
<1>4. CASE PublishForeign
  <2>1. NoEvent \in Events
    BY MeteringAssumption DEF NoEvent, Events
  <2> QED BY <1>2, <1>4, <2>1 DEF PublishForeign
<1>5. CASE Redeliver
  <2>1. PICK k \in DOMAIN stream : stream' = [stream EXCEPT ![k].st = "ready"]
    BY <1>5 DEF Redeliver
  <2>2. /\ DOMAIN stream' = DOMAIN stream /\ stream'[k].st = "ready"
        /\ \A i \in DOMAIN stream \ {k} : stream'[i] = stream[i]
    BY <2>1, MarkTyped
  <2> QED BY <2>2
<1>6. CASE \E c \in Consumers : FetchMeterEventMessages(c)
  BY <1>6, FetchTyped
<1> QED BY <1>1, <1>3, <1>4, <1>5, <1>6

LEMMA NextKept == KeptInv /\ [Next]_vars => KeptInv'
<1> SUFFICES ASSUME TypeOK, AckedIsKept, \A c \in Consumers : Worked(c), [Next]_vars
             PROVE  KeptInv'
  BY DEF KeptInv
<1>t. TypeOK' /\ Growing
  BY NextTyped, NextGrows
<1>1. CASE UNCHANGED vars \/ startAccountingMetering \/ startAccountingRequestMeter
           \/ PublishMeteringEvent \/ PublishForeign \/ Redeliver
  <2>1. con' = con
    BY <1>1 DEF vars, startAccountingMetering, startAccountingRequestMeter,
                PublishMeteringEvent, PublishForeign, Redeliver
  <2>2. AckedIsKept'
    BY <1>t, <1>1, NothingAcked, OthersKept
       DEF vars, startAccountingMetering, startAccountingRequestMeter
  <2>3. \A d \in Consumers : Worked(d)'
    BY <1>t, <2>1, OthersWorked
  <2> QED BY <1>t, <2>2, <2>3 DEF KeptInv
<1>2. ASSUME NEW c \in Consumers, Consumer(c) \/ ReadFails(c) \/ Crash(c) PROVE KeptInv'
  <2>1. (con'[c] = con[c] \/ Worked(c)') /\ \A d \in Consumers \ {c} : con'[d] = con[d]
    <3>1. CASE Ack(c)
      BY <3>1, AckTyped DEF Worked
    <3> QED BY <1>t, <1>2, <3>1, ReadWorked, SaveWorked, MoveWorked DEF Consumer
  <2>2. \A d \in Consumers : Worked(d)'
    BY <1>t, <2>1, OthersWorked
  <2>3. AckedIsKept'
    <3>1. CASE Ack(c)
      BY <1>t, <3>1, AckWorked
    <3>2. CASE UNCHANGED stream \/ FetchMeterEventMessages(c)
      BY <1>t, <3>2, NothingAcked, OthersKept
    <3> QED
      BY <1>2, <3>1, <3>2
         DEF Consumer, preReadMsgs, ReadFails, startMetering, handleMsgWithRetry, Crash,
             SaveMeteringEventRecord, handleMsgData, moveMsgToDLQWithReTry
  <2> QED BY <1>t, <2>2, <2>3 DEF KeptInv
<1> QED BY <1>1, <1>2 DEF Next

LEMMA InitKept == Init => KeptInv
<1> SUFFICES ASSUME Init PROVE KeptInv
  OBVIOUS
<1>1. AckedIsKept
  BY DEF Init, AckedIsKept
<1>2. \A c \in Consumers : Worked(c)
  BY DEF Init, Worked
<1> QED BY <1>1, <1>2, InitTyped DEF KeptInv

\* A consumer acknowledges a message only when its event is in the table or in
\* the dead letter queue, or SaveTries inserts and MoveTries moves (for what is
\* no event, MoveTries moves) have failed.
THEOREM KeepAcked == Spec => []AckedIsKept
<1>1. KeptInv => AckedIsKept
  BY DEF KeptInv
<1> QED
  BY <1>1, InitKept, NextKept, PTL DEF Spec

----------------------------------------------------------------------------
(* The service implements a ledger. *)

LEMMA SameSent ==
  ASSUME TypeOK, TypeOK', DOMAIN stream' = DOMAIN stream,
         \A k \in DOMAIN stream : stream'[k].ev = stream[k].ev
  PROVE  Sent' = Sent
  BY DEF Sent

LEMMA SameAcked ==
  ASSUME DOMAIN stream' = DOMAIN stream,
         \A k \in DOMAIN stream : stream'[k].st = "acked" <=> stream[k].st = "acked"
  PROVE  Acked' = Acked
  BY DEF Acked

LEMMA LostGrows ==
  ASSUME TypeOK, TypeOK', Growing  PROVE Lost \subseteq Lost'
<1>1. \A e \in Events : Patience(e) \in Nat
  BY MeteringAssumption DEF Patience
<1>2. faults \in Nat /\ faults' \in Nat /\ faults' >= faults
  BY DEF TypeOK, Growing
<1>3. \A e \in Events : Patience(e)' = Patience(e)
  BY DEF Patience
<1> QED BY <1>1, <1>2, <1>3 DEF Lost

\* The events that were asked for.
LEMMA CurAsked ==
  ASSUME TypeOK, NEW c \in Consumers, con[c].batch # <<>>
  PROVE  CurEvent(c) \in AbstractLedger!Asked /\ CurEvent(c) = Sent[Cur(c)] /\ Cur(c) \in DOMAIN Sent
  BY CurTyped DEF CurEvent, Sent, AbstractLedger!Asked

\* A message that is stored is asked for after all others.
LEMMA StoreAsks ==
  ASSUME TypeOK, NEW e \in Events, Store(e), UNCHANGED <<meterings, dlq>>
  PROVE  AbstractLedger!Ask(e)
<1>1. /\ stream' \in Seq(Msg) /\ DOMAIN stream \subseteq DOMAIN stream'
      /\ \A i \in DOMAIN stream : stream'[i] = stream[i]
      /\ \A i \in DOMAIN stream' \ DOMAIN stream : stream'[i] = [ev |-> e, st |-> "ready"]
  BY StoreTyped
<1>2. stream \in Seq(Msg) /\ stream' = Append(stream, [ev |-> e, st |-> "ready"])
  BY DEF Store, TypeOK
<1>3. /\ DOMAIN stream = 1..Len(stream) /\ DOMAIN stream' = 1..Len(stream) + 1
      /\ Len(stream) \in Nat
  BY <1>1, <1>2
<1>4. Acked' = Acked
  BY <1>1 DEF Acked
<1>5. Sent \in [1..Len(stream) -> Events] /\ Sent \in Seq(Events) /\ Len(Sent) = Len(stream)
  <2>0. \A i \in 1..Len(stream) : stream[i] \in Msg
    BY <1>2, <1>3
  <2>1. \A i \in 1..Len(stream) : stream[i].ev \in Events
    BY <2>0 DEF Msg
  <2>2. Sent \in [1..Len(stream) -> Events]
    BY <1>3, <2>1 DEF Sent
  <2> QED BY <1>3, <2>2
<1>6. Sent' \in [1..Len(stream) + 1 -> Events]
  <2>0. \A i \in 1..Len(stream) + 1 : stream'[i] \in Msg
    BY <1>1, <1>3
  <2>1. \A i \in 1..Len(stream) + 1 : stream'[i].ev \in Events
    BY <2>0 DEF Msg
  <2> QED BY <1>3, <2>1 DEF Sent
<1>7. Append(Sent, e) \in [1..Len(stream) + 1 -> Events]
  <2>1. Append(Sent, e) \in Seq(Events) /\ Len(Append(Sent, e)) = Len(stream) + 1
    BY <1>5, AppendProperties
  <2>2. Append(Sent, e) \in [1..Len(Append(Sent, e)) -> Events]
    BY <2>1, LenProperties
  <2> QED BY <2>1, <2>2
<1>8. ASSUME NEW i \in 1..Len(stream) + 1 PROVE Sent'[i] = Append(Sent, e)[i]
  <2>1. CASE i \in 1..Len(stream)
    <3>1. Append(Sent, e)[i] = Sent[i]
      BY <1>5, <2>1, AppendProperties
    <3>2. Sent'[i] = stream[i].ev /\ Sent[i] = stream[i].ev
      BY <1>1, <1>3, <2>1 DEF Sent
    <3> QED BY <3>1, <3>2
  <2>2. CASE i = Len(stream) + 1
    <3>1. Append(Sent, e)[i] = e
      BY <1>5, <2>2, AppendProperties
    <3>2. i \in DOMAIN stream' \ DOMAIN stream
      BY <1>3, <2>2
    <3>3. Sent'[i] = e
      BY <1>1, <3>2 DEF Sent
    <3> QED BY <3>1, <3>3
  <2>3. Len(stream) \in Nat
    BY <1>3
  <2>4. i \in 1..Len(stream) \/ i = Len(stream) + 1
    BY <2>3
  <2> QED BY <2>1, <2>2, <2>4
<1>9. Sent' = Append(Sent, e)
  BY <1>6, <1>7, <1>8
<1> QED BY <1>4, <1>9 DEF AbstractLedger!Ask

LEMMA CreateEnters ==
  ASSUME TypeOK, NEW c \in Consumers, con[c].batch # <<>>, CurEvent(c) # NoEvent,
         Create(CurEvent(c)), UNCHANGED <<stream, dlq>>
  PROVE  AbstractLedger!Enter(CurEvent(c))
<1>1. CurEvent(c) \in AbstractLedger!Asked /\ CurEvent(c) \in Events
  BY CurAsked, CurTyped
<1>2. meterings[CurEvent(c)] = 0 /\ meterings' = [meterings EXCEPT ![CurEvent(c)] = 1]
  BY DEF Create
<1>3. Sent' = Sent /\ Acked' = Acked
  BY DEF Sent, Acked
<1> QED BY <1>1, <1>2, <1>3 DEF AbstractLedger!Enter

LEMMA MoveSetsAside ==
  ASSUME TypeOK, NEW c \in Consumers, con[c].batch # <<>>,
         dlq' = dlq \cup {CurEvent(c)}, UNCHANGED <<stream, meterings>>
  PROVE  AbstractLedger!SetAside(CurEvent(c))
<1>1. CurEvent(c) \in AbstractLedger!Asked
  BY CurAsked
<1>2. Sent' = Sent /\ Acked' = Acked
  BY DEF Sent, Acked
<1> QED BY <1>1, <1>2 DEF AbstractLedger!SetAside

\* The event of a message that is acknowledged is kept, or every attempt has failed.
LEMMA AckSettles ==
  ASSUME KeptInv, TypeOK', BilledOnce, NEW c \in Consumers, Ack(c)
  PROVE  UNCHANGED <<Sent, Acked>> \/ AbstractLedger!Settle(Cur(c))
<1>0. TypeOK /\ Worked(c) /\ con[c].pc = "ack" /\ con[c].batch # <<>>
  BY DEF KeptInv, Ack, TypeOK
<1>1. Cur(c) \in DOMAIN stream /\ CurEvent(c) \in Events
  BY <1>0, CurTyped
<1>2. Sent' = Sent
  BY <1>0, AckTyped, SameSent
<1>3. CASE stream' = stream
  BY <1>2, <1>3 DEF Acked
<1>4. CASE stream' = [stream EXCEPT ![Cur(c)].st = "acked"]
  <2>1. /\ DOMAIN stream' = DOMAIN stream
        /\ stream'[Cur(c)].st = "acked"
        /\ \A k \in DOMAIN stream \ {Cur(c)} : stream'[k] = stream[k]
    BY <1>0, <1>1, <1>4, MarkTyped
  <2>2. Acked' = Acked \cup {Cur(c)}
    BY <1>1, <2>1 DEF Acked
  <2>3. Cur(c) \in DOMAIN Sent /\ Sent[Cur(c)] = CurEvent(c)
    BY <1>0, CurAsked
  <2>4. Kept(CurEvent(c)) \/ CurEvent(c) \in Lost
    BY <1>0, <1>1 DEF Worked, Lost
  <2>5. meterings[CurEvent(c)] \in Nat /\ meterings[CurEvent(c)] <= 1
    BY <1>0, <1>1 DEF TypeOK, BilledOnce
  <2>6. meterings[CurEvent(c)] = 1 \/ CurEvent(c) \in dlq \cup Lost
    BY <2>4, <2>5 DEF Kept
  <2>7. UNCHANGED <<meterings, dlq>>
    BY DEF Ack
  <2> QED BY <1>2, <2>2, <2>3, <2>6, <2>7 DEF AbstractLedger!Settle
<1> QED BY <1>3, <1>4 DEF Ack

LEMMA FetchKeepsAcked ==
  ASSUME TypeOK, NEW c \in Consumers, FetchMeterEventMessages(c)
  PROVE  Acked' = Acked
<1>0. PICK n \in 1..Batch : \E ids \in [1..n -> Ready] :
         stream' = [k \in DOMAIN stream |->
                      IF \E i \in 1..n : ids[i] = k THEN [stream[k] EXCEPT !.st = "sent"]
                      ELSE stream[k]]
  BY DEF FetchMeterEventMessages
<1>1. PICK ids \in [1..n -> Ready] :
         stream' = [k \in DOMAIN stream |->
                      IF \E i \in 1..n : ids[i] = k THEN [stream[k] EXCEPT !.st = "sent"]
                      ELSE stream[k]]
  BY <1>0
<1>2. DOMAIN stream' = DOMAIN stream
  BY <1>1
<1>3. ASSUME NEW k \in DOMAIN stream PROVE stream'[k].st = "acked" <=> stream[k].st = "acked"
  <2>0. stream[k] \in Msg
    BY DEF TypeOK
  <2>1. CASE \E i \in 1..n : ids[i] = k
    <3>1. stream[k].st = "ready"
      BY <1>1, <2>1 DEF Ready
    <3>2. stream'[k] = [stream[k] EXCEPT !.st = "sent"]
      BY <1>1, <2>1
    <3> QED BY <2>0, <3>1, <3>2 DEF Msg
  <2>2. CASE ~\E i \in 1..n : ids[i] = k
    BY <1>1, <2>2
  <2> QED BY <2>1, <2>2
<1> QED BY <1>2, <1>3, SameAcked

LEMMA RedeliverKeepsAcked ==
  ASSUME TypeOK, Redeliver  PROVE Acked' = Acked /\ DOMAIN stream' = DOMAIN stream
                                  /\ \A k \in DOMAIN stream : stream'[k].ev = stream[k].ev
<1>1. PICK i \in DOMAIN stream : stream[i].st = "sent" /\ stream' = [stream EXCEPT ![i].st = "ready"]
  BY DEF Redeliver
<1>2. /\ DOMAIN stream' = DOMAIN stream /\ stream'[i].st = "ready"
      /\ \A k \in DOMAIN stream : stream'[k].ev = stream[k].ev
      /\ \A k \in DOMAIN stream \ {i} : stream'[k] = stream[k]
  BY <1>1, MarkTyped
<1>3. \A k \in DOMAIN stream : stream'[k].st = "acked" <=> stream[k].st = "acked"
  BY <1>1, <1>2
<1> QED BY <1>2, <1>3, SameAcked

\* Every step is a step of the ledger.
LedgerStep ==
  \/ UNCHANGED <<Sent, Acked, meterings, dlq>>
  \/ \E e \in Events : \/ AbstractLedger!Ask(e) \/ AbstractLedger!Enter(e)
                       \/ AbstractLedger!SetAside(e)
  \/ \E i \in DOMAIN Sent : AbstractLedger!Settle(i)

LEMMA LedgerSteps ==
  ASSUME KeptInv, TypeOK', BilledOnce, [Next]_vars  PROVE LedgerStep
<1>0. TypeOK
  BY DEF KeptInv
<1>1. CASE UNCHANGED <<stream, meterings, dlq>>
  BY <1>1 DEF LedgerStep, Sent, Acked
<1>2. CASE PublishMeteringEvent
  <2>1. pub.ev \in Events
    BY <1>0 DEF TypeOK
  <2>2. UNCHANGED stream \/ Store(pub.ev)
    BY <1>2 DEF PublishMeteringEvent
  <2>3. UNCHANGED <<meterings, dlq>>
    BY <1>2 DEF PublishMeteringEvent
  <2> QED BY <1>0, <1>1, <2>1, <2>2, <2>3, StoreAsks DEF LedgerStep
<1>3. CASE PublishForeign
  <2>1. NoEvent \in Events
    BY MeteringAssumption DEF NoEvent, Events
  <2> QED BY <1>0, <1>3, <2>1, StoreAsks DEF LedgerStep, PublishForeign
<1>4. CASE Redeliver
  <2>1. Sent' = Sent /\ Acked' = Acked
    BY <1>0, <1>4, RedeliverKeepsAcked, SameSent
  <2> QED BY <1>4, <2>1 DEF LedgerStep, Redeliver
<1>5. ASSUME NEW c \in Consumers, FetchMeterEventMessages(c) PROVE LedgerStep
  <2>1. Sent' = Sent /\ Acked' = Acked
    BY <1>0, <1>5, FetchTyped, FetchKeepsAcked, SameSent
  <2> QED BY <1>5, <2>1 DEF LedgerStep, FetchMeterEventMessages
<1>6. ASSUME NEW c \in Consumers, SaveMeteringEventRecord(c) \/ handleMsgData(c) PROVE LedgerStep
  <2>1. con[c].batch # <<>> /\ UNCHANGED <<stream, dlq>>
    BY <1>0, <1>6 DEF SaveMeteringEventRecord, handleMsgData, TypeOK
  <2>2. UNCHANGED meterings \/ (CurEvent(c) # NoEvent /\ Create(CurEvent(c)))
    BY <1>6 DEF SaveMeteringEventRecord, handleMsgData
  <2>3. CurEvent(c) \in Events
    BY <1>0, <2>1, CurTyped
  <2> QED BY <1>0, <1>1, <2>1, <2>2, <2>3, CreateEnters DEF LedgerStep
<1>7. ASSUME NEW c \in Consumers, moveMsgToDLQWithReTry(c) PROVE LedgerStep
  <2>1. con[c].batch # <<>> /\ UNCHANGED <<stream, meterings>>
    BY <1>0, <1>7 DEF moveMsgToDLQWithReTry, TypeOK
  <2>2. UNCHANGED dlq \/ dlq' = dlq \cup {CurEvent(c)}
    BY <1>7 DEF moveMsgToDLQWithReTry
  <2>3. CurEvent(c) \in Events
    BY <1>0, <2>1, CurTyped
  <2> QED BY <1>0, <1>1, <2>1, <2>2, <2>3, MoveSetsAside DEF LedgerStep
<1>8. ASSUME NEW c \in Consumers, Ack(c) PROVE LedgerStep
  <2>1. con[c].batch # <<>> /\ UNCHANGED <<meterings, dlq>>
    BY <1>0, <1>8 DEF Ack, TypeOK
  <2>2. Cur(c) \in DOMAIN Sent
    BY <1>0, <2>1, CurAsked
  <2> QED BY <1>8, <2>1, <2>2, AckSettles DEF LedgerStep
<1>9. CASE UNCHANGED vars \/ startAccountingMetering \/ startAccountingRequestMeter
  BY <1>1, <1>9 DEF vars, startAccountingMetering, startAccountingRequestMeter
<1>10. ASSUME NEW c \in Consumers,
              preReadMsgs(c) \/ startMetering(c) \/ handleMsgWithRetry(c) \/ ReadFails(c) \/ Crash(c)
       PROVE  LedgerStep
  BY <1>1, <1>10 DEF preReadMsgs, startMetering, handleMsgWithRetry, ReadFails, Crash
<1> QED BY <1>2, <1>3, <1>4, <1>5, <1>6, <1>7, <1>8, <1>9, <1>10 DEF Next, Consumer

\* The accounting service is a ledger, for any consumers, events, limits and
\* failures.
THEOREM MeteringIsLedger == Spec => ImplementsLedger
<1>1. Init => AbstractLedger!Init
  <2> SUFFICES ASSUME Init PROVE AbstractLedger!Init
    OBVIOUS
  <2>1. Sent = <<>> /\ Acked = {}
    BY DEF Init, Sent, Acked
  <2>2. \A e \in Events : Patience(e) \in Nat \ {0}
    BY MeteringAssumption DEF Patience
  <2>3. Lost = {}
    BY <2>2 DEF Init, Lost
  <2> QED BY <2>1, <2>3 DEF Init, AbstractLedger!Init
<1>2. KeptInv /\ TypeOK' /\ BilledOnce /\ [Next]_vars
        => [AbstractLedger!Next]_<<Sent, Acked, meterings, dlq, Lost>>
  <2> SUFFICES ASSUME KeptInv, TypeOK', BilledOnce, [Next]_vars PROVE AbstractLedger!Next
    OBVIOUS
  <2>1. Lost \subseteq Lost'
    BY NextGrows, LostGrows DEF KeptInv
  <2> QED BY <2>1, LedgerSteps DEF LedgerStep, AbstractLedger!Next, AbstractLedger!books
<1>3. Spec => []KeptInv
  BY InitKept, NextKept, PTL DEF Spec
<1> QED BY <1>1, <1>2, <1>3, BillOnce, TypeCorrect, PTL DEF Spec, ImplementsLedger, AbstractLedger!Spec

=============================================================================
