------------------------------ MODULE Metering ------------------------------
(***************************************************************************)
(* Metering of running services: the deployer publishes one event for each *)
(* service and interval into a JetStream stream, and the accounting        *)
(* service (one or more instances on one durable consumer) inserts them    *)
(* into account_meterings, moves what it cannot insert to a dead letter    *)
(* queue and acknowledges.  JetStream delivers at least once.              *)
(***************************************************************************)
EXTENDS Integers, Sequences

CONSTANTS
  Services,     \* the services in the deployer's status cache
  Billable,     \* those that run, have a known resource and a valid scene
  Consumers,    \* accounting instances
  PublishTries, \* 3: attempts of PublishMeteringEvent
  SaveTries,    \* 3: attempts of handleMsgWithRetry
  MoveTries,    \* 5: attempts of moveMsgToDLQWithReTry
  FailedLimit,  \* 10: failures after which handleReadMsgs builds the streams anew
  Batch,        \* 5: messages of one fetch
  MaxEvents,    \* bound on the events
  MaxMsgs,      \* bound on the messages in the stream
  MaxForeign,   \* bound on the messages of other producers
  MaxFaults,    \* bound on the failures of NATS and of the database
  MaxCrashes    \* bound on the crashes of consumers

ASSUME MeteringAssumption ==
  /\ Billable \subseteq Services
  /\ PublishTries \in Nat \ {0} /\ SaveTries \in Nat \ {0} /\ MoveTries \in Nat \ {0}
  /\ FailedLimit \in Nat \ {0} /\ Batch \in Nat \ {0}
  /\ MaxEvents \in Nat /\ MaxMsgs \in Nat /\ MaxForeign \in Nat
  /\ MaxFaults \in Nat /\ MaxCrashes \in Nat

VARIABLES
  pub,      \* the goroutine startAccountingMetering
  uuids,    \* how many events have got a UUID
  stream,   \* external: the messages of the stream, in order, with their state
  meterings,\* table account_meterings: how many rows each event has
  dlq,      \* external: the events in the dead letter queue
  con,      \* the consumers
  foreign, faults, crashes

vars == <<pub, uuids, stream, meterings, dlq, con, foreign, faults, crashes>>

\* An event is the number of its UUID; 0 stands for data that is no event.
NoEvent == 0
Events == 0..MaxEvents

Init ==
  /\ pub = [pc |-> "round", todo |-> {}, ev |-> NoEvent, tries |-> 0] /\ uuids = 0
  /\ stream = <<>> /\ dlq = {}
  /\ meterings = [e \in Events |-> 0]
  /\ con = [c \in Consumers |-> [pc |-> "build", batch |-> <<>>, tries |-> 0, fails |-> 0]]
  /\ foreign = 0 /\ faults = 0 /\ crashes = 0

NoFault == UNCHANGED <<foreign, faults, crashes>>
Fault == faults < MaxFaults /\ faults' = faults + 1 /\ UNCHANGED <<foreign, crashes>>

----------------------------------------------------------------------------
(* The deployer. *)

\* An interval begins; without the resources no service can be metered.
startAccountingMetering ==
  /\ pub.pc = "round" /\ uuids < MaxEvents
  /\ \/ pub' = [pub EXCEPT !.pc = "next", !.todo = Billable] /\ NoFault
     \/ pub' = [pub EXCEPT !.pc = "next", !.todo = {}] /\ Fault
  /\ UNCHANGED <<uuids, stream, meterings, dlq, con>>

startAccountingRequestMeter ==
  /\ pub.pc = "next"
  /\ \/ /\ pub.todo = {} /\ pub' = [pub EXCEPT !.pc = "round"] /\ UNCHANGED uuids
     \/ /\ uuids < MaxEvents
        /\ \E s \in pub.todo :
             pub' = [pc |-> "publish", todo |-> pub.todo \ {s}, ev |-> uuids + 1, tries |-> 0]
        /\ uuids' = uuids + 1
  /\ NoFault /\ UNCHANGED <<stream, meterings, dlq, con>>

Store(e) ==
  /\ Len(stream) < MaxMsgs
  /\ stream' = Append(stream, [ev |-> e, st |-> "ready"])

\* Up to PublishTries times.  The stream may have stored the message although
\* the acknowledgement does not arrive in time: the next attempt stores it again.
PublishMeteringEvent ==
  /\ pub.pc = "publish"
  /\ \/ Store(pub.ev) /\ pub' = [pub EXCEPT !.pc = "next"] /\ NoFault
     \/ /\ pub' = [pub EXCEPT !.pc = IF pub.tries + 1 = PublishTries THEN "next" ELSE @,
                              !.tries = @ + 1]
        /\ Store(pub.ev) \/ UNCHANGED stream
        /\ Fault
  /\ UNCHANGED <<uuids, meterings, dlq, con>>

\* Another producer on the subject sends what is no metering event.
PublishForeign ==
  /\ foreign < MaxForeign /\ foreign' = foreign + 1
  /\ Store(NoEvent)
  /\ UNCHANGED <<pub, uuids, meterings, dlq, con, faults, crashes>>

----------------------------------------------------------------------------
(* JetStream. *)

\* The consumer took too long to acknowledge (AckWait), or is gone.
Redeliver ==
  /\ \E i \in DOMAIN stream : /\ stream[i].st = "sent"
                              /\ stream' = [stream EXCEPT ![i].st = "ready"]
  /\ NoFault /\ UNCHANGED <<pub, uuids, meterings, dlq, con>>

----------------------------------------------------------------------------
(* The accounting service. *)

Goto(c, pc) == [con EXCEPT ![c] = [@ EXCEPT !.pc = pc, !.tries = 0]]

\* Both streams, until it works.
preReadMsgs(c) ==
  /\ con[c].pc = "build"
  /\ \/ con' = Goto(c, "read") /\ NoFault
     \/ UNCHANGED con /\ Fault
  /\ UNCHANGED <<pub, uuids, stream, meterings, dlq>>

\* The stream cannot be verified or read; failures are counted, never forgotten.
ReadFails(c) ==
  /\ con[c].pc = "read" /\ con[c].batch = <<>> /\ con[c].fails < FailedLimit
  /\ con' = [con EXCEPT ![c].fails = @ + 1]
  /\ Fault
  /\ UNCHANGED <<pub, uuids, stream, meterings, dlq>>

startMetering(c) ==
  /\ con[c].pc = "read" /\ con[c].batch = <<>> /\ con[c].fails >= FailedLimit
  /\ con' = [con EXCEPT ![c] = [@ EXCEPT !.pc = "build", !.fails = 0]]
  /\ NoFault /\ UNCHANGED <<pub, uuids, stream, meterings, dlq>>

Ready == {i \in DOMAIN stream : stream[i].st = "ready"}

\* Mutant: a message is acknowledged when it is fetched.
AckAtFetch(c) ==
  /\ con[c].pc = "read" /\ con[c].batch = <<>> /\ con[c].fails < FailedLimit
  /\ Ready # {}
  /\ LET i == CHOOSE k \in Ready : \A j \in Ready : k <= j
     IN  /\ con' = [con EXCEPT ![c].batch = <<i>>]
         /\ stream' = [stream EXCEPT ![i].st = "acked"]
  /\ NoFault /\ UNCHANGED <<pub, uuids, meterings, dlq>>

\* The oldest messages that are ready, at most Batch of them.
FetchMeterEventMessages(c) ==
  /\ con[c].pc = "read" /\ con[c].batch = <<>> /\ con[c].fails < FailedLimit
  /\ \E n \in 1..Batch : \E ids \in [1..n -> Ready] :
       /\ \A i, j \in 1..n : i < j => ids[i] < ids[j]
       /\ \A k \in Ready : k < ids[n] => \E i \in 1..n : ids[i] = k
       /\ con' = [con EXCEPT ![c].batch = ids]
       /\ stream' = [k \in DOMAIN stream |->
                       IF \E i \in 1..n : ids[i] = k THEN [stream[k] EXCEPT !.st = "sent"]
                       ELSE stream[k]]
  /\ NoFault /\ UNCHANGED <<pub, uuids, meterings, dlq>>

handleMsgWithRetry(c) ==
  /\ con[c].pc = "read" /\ con[c].batch # <<>>
  /\ con' = Goto(c, "save")
  /\ NoFault /\ UNCHANGED <<pub, uuids, stream, meterings, dlq>>

Cur(c) == Head(con[c].batch)
CurEvent(c) == stream[Cur(c)].ev

\* The index idx_unique_account_metering_event_uuid refuses a second row.
Create(e) == meterings[e] = 0 /\ meterings' = [meterings EXCEPT ![e] = @ + 1]

SaveMeteringEventRecord(c) ==
  /\ con[c].pc = "save" /\ CurEvent(c) # NoEvent
  /\ Create(CurEvent(c))
  /\ con' = Goto(c, "ack")
  /\ NoFault /\ UNCHANGED <<pub, uuids, stream, dlq>>

\* Mutant: a message that cannot be saved is acknowledged.
AckAfterFailures(c) ==
  con' = IF con[c].tries + 1 = SaveTries THEN Goto(c, "ack") ELSE [con EXCEPT ![c].tries = @ + 1]

\* An attempt has failed.
SaveAgain(c) ==
  con' = IF con[c].tries + 1 = SaveTries THEN Goto(c, "dlq") ELSE [con EXCEPT ![c].tries = @ + 1]

\* The data is no event or the row is there already; or the database fails,
\* perhaps (a timeout) after it has inserted the row.
handleMsgData(c) ==
  /\ con[c].pc = "save"
  /\ SaveAgain(c)
  /\ \/ /\ CurEvent(c) = NoEvent \/ meterings[CurEvent(c)] > 0
        /\ NoFault /\ UNCHANGED meterings
     \/ /\ CurEvent(c) # NoEvent
        /\ Create(CurEvent(c)) \/ UNCHANGED meterings
        /\ Fault
  /\ UNCHANGED <<pub, uuids, stream, dlq>>

moveMsgToDLQWithReTry(c) ==
  /\ con[c].pc = "dlq"
  /\ \/ dlq' = dlq \cup {CurEvent(c)} /\ con' = Goto(c, "ack") /\ NoFault
     \/ /\ con' = IF con[c].tries + 1 = MoveTries THEN Goto(c, "ack")
                  ELSE [con EXCEPT ![c].tries = @ + 1]
        /\ dlq' \in {dlq, dlq \cup {CurEvent(c)}}
        /\ Fault
  /\ UNCHANGED <<pub, uuids, stream, meterings>>

\* Mutant: the acknowledgement is forgotten when the message could not be saved.
AckSaved(c) ==
  /\ con[c].pc = "ack"
  /\ con' = [Goto(c, "read") EXCEPT ![c].batch = Tail(@)]
  /\ stream' = IF CurEvent(c) \in dlq THEN stream ELSE [stream EXCEPT ![Cur(c)].st = "acked"]
  /\ NoFault
  /\ UNCHANGED <<pub, uuids, meterings, dlq>>

\* Whatever became of the message.  The acknowledgement may be lost.
Ack(c) ==
  /\ con[c].pc = "ack"
  /\ con' = [Goto(c, "read") EXCEPT ![c].batch = Tail(@)]
  /\ \/ stream' = [stream EXCEPT ![Cur(c)].st = "acked"] /\ NoFault
     \/ UNCHANGED stream /\ Fault
  /\ UNCHANGED <<pub, uuids, meterings, dlq>>

Crash(c) ==
  /\ crashes < MaxCrashes /\ crashes' = crashes + 1
  /\ con' = [con EXCEPT ![c] = [pc |-> "build", batch |-> <<>>, tries |-> 0, fails |-> 0]]
  /\ UNCHANGED <<pub, uuids, stream, meterings, dlq, foreign, faults>>

Consumer(c) ==
  \/ preReadMsgs(c) \/ startMetering(c) \/ FetchMeterEventMessages(c)
  \/ handleMsgWithRetry(c) \/ SaveMeteringEventRecord(c) \/ handleMsgData(c)
  \/ moveMsgToDLQWithReTry(c) \/ Ack(c)

Next ==
  \/ startAccountingMetering \/ startAccountingRequestMeter \/ PublishMeteringEvent
  \/ PublishForeign \/ Redeliver
  \/ \E c \in Consumers : Consumer(c) \/ ReadFails(c) \/ Crash(c)

Spec == Init /\ [][Next]_vars

\* The consumers go on, and JetStream redelivers what is not acknowledged.
LiveSpec == Spec /\ WF_vars(Redeliver) /\ \A c \in Consumers : WF_vars(Consumer(c))

----------------------------------------------------------------------------
(* Properties. *)

Msg == [ev : Events, st : {"ready", "sent", "acked"}]
ConState == [pc : {"build", "read", "save", "dlq", "ack"}, batch : Seq(Nat \ {0}), tries : Nat,
             fails : Nat]

\* A consumer only works on messages of the stream.
TypeOK ==
  /\ pub \in [pc : {"round", "next", "publish"}, todo : SUBSET Services, ev : Events, tries : Nat]
  /\ uuids \in Events
  /\ stream \in Seq(Msg)
  /\ meterings \in [Events -> Nat]
  /\ dlq \subseteq Events
  /\ con \in [Consumers -> ConState]
  /\ foreign \in Nat /\ faults \in Nat /\ crashes \in Nat
  /\ \A c \in Consumers :
       /\ \A i \in DOMAIN con[c].batch : con[c].batch[i] \in DOMAIN stream
       /\ con[c].pc \in {"save", "dlq", "ack"} => con[c].batch # <<>>

\* The failures it takes to lose the event of a message.
Patience(e) == IF e = NoEvent THEN MoveTries ELSE SaveTries + MoveTries
Kept(e) == meterings[e] > 0 \/ e \in dlq

\* A message is acknowledged only when its event is in the table or in the dead
\* letter queue, unless every attempt to put it into either has failed.
AckedIsKept ==
  \A i \in DOMAIN stream :
    stream[i].st = "acked" => Kept(stream[i].ev) \/ faults >= Patience(stream[i].ev)

\* The accounting service is a ledger: an interval is entered once and only when a
\* message asked for it, an entry stays, and a message that is settled is kept (or
\* every attempt to keep it has failed) and not taken up again, whatever consumers
\* do at the same time and wherever they crash.
Sent == [i \in DOMAIN stream |-> stream[i].ev]
Acked == {i \in DOMAIN stream : stream[i].st = "acked"}
Lost == {e \in Events : faults >= Patience(e)}
AbstractLedger ==
  INSTANCE Ledger WITH Junk <- NoEvent, asked <- Sent, settled <- Acked,
                       entries <- meterings, aside <- dlq, gaveUp <- Lost
ImplementsLedger == AbstractLedger!Spec

\* Every message is acknowledged in the end: no message, were it no event at
\* all, comes back forever.
AllAcked == \A i \in 1..MaxMsgs : i \in DOMAIN stream ~> (i \in DOMAIN stream /\ stream[i].st = "acked")

\* What is in the dead letter queue is a "failed to handle message".
DLQUnhandled == \A e \in dlq \ {NoEvent} : meterings[e] = 0

\* "ack for handle metering message done": an acknowledged message is in the
\* table or in the dead letter queue.
AckedIsDone == \A i \in DOMAIN stream : stream[i].st = "acked" => Kept(stream[i].ev)
=============================================================================
