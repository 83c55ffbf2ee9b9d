------------------------ MODULE NotificationsProofs ------------------------
(***************************************************************************)
(* Proofs about module Notifications: the safety invariants its runs check *)
(* on small instances hold for all messages, accounts, devices and bounds. *)
(***************************************************************************)
EXTENDS Notifications, SequenceTheorems, TLAPS

(* The inductive invariant.                                                *)

\* A message is held exactly while an attempt at it runs, an attempt runs only
\* under a live subscription, and only a publishing attempt has open frames.
AttemptOK ==
    /\ held = NoMessage <=> stage = "idle"
    /\ sub # "on" => stage = "idle"
    /\ inflight # {} => stage = "confirm"

\* Rows come and go in one direction only.
RowsOK ==
    /\ Stored \subseteq accounts \cup deleted
    /\ \A u \in Users : Registered[u] \subseteq devices[u]

AnnouncedOK ==
    /\ held # NoMessage => held \in Elements(log)
    /\ \A i \in DOMAIN queue : queue[i] \in Elements(log)

\* What the attempt has found out about the receiver.
ReceiverOK ==
    IF tx.to = NoAccount
    THEN ~tx.callback /\ tx.devices = {} /\ ~AlwaysStored(held)
    ELSE /\ tx.to = To[held] /\ tx.to \in Accounts
         /\ tx.callback <=> tx.to \in WithCallback
         /\ Registered[Owner[tx.to]] \subseteq tx.devices
         /\ tx.devices \subseteq devices[Owner[tx.to]]

TxOK ==
    /\ stage \in {"idle", "parse"} => tx = NoTx
    /\ stage \in {"from", "to", "devices", "publish", "confirm"} =>
         tx.from \subseteq From[held] \cap Known
    /\ stage \in {"from", "to"} => tx.to = NoAccount /\ ~tx.callback /\ tx.devices = {}
    /\ stage = "devices" =>
         /\ tx.to = To[held] /\ tx.to \in Accounts
         /\ tx.callback <=> tx.to \in WithCallback
    /\ stage \in {"publish", "confirm"} => ReceiverOK

NoticesInFlight == {Notice(n) : n \in inflight}

\* What is owed for the held message is answered or still to be answered.
PublishedOK == stage = "confirm" => Due(held) \subseteq Answered \cup NoticesInFlight

\* The messages not yet settled, as module Delivery sees them, and the one that is
\* worked on.
Line == HeldSeq \o queue
Front == IF Line = <<>> THEN {} ELSE {Head(Line)}

\* A frame is about the message at the front or about one acknowledged before.
WireOK ==
    /\ \A n \in inflight : n.msg = held
    /\ \A n \in stray : n.msg \in Elements(acked) \cup Front

IInv ==
    /\ TypeOK
    /\ AttemptOK
    /\ RowsOK
    /\ QueueOrder
    /\ AnnouncedOK
    /\ TxOK
    /\ PublishedOK
    /\ AckedIsNotified
    /\ NotificationsAreGenuine
    /\ WireOK

-----------------------------------------------------------------------------
(* Type correctness                                                        *)

LEMMA WantedType ==
    ASSUME NEW m \in Messages, NEW info \in TxInfo,
           info.to \in Accounts \/ (info.devices = {} /\ ~info.callback)
    PROVE  Wanted(m, info) \subseteq Notification
  BY DEF Wanted, Push, Callback, Notification, TxInfo

LEMMA RequeuedType ==
    ASSUME TypeOK
    PROVE  Requeued \in Seq(Messages)
  BY DEF TypeOK, Requeued

LEMMA LoseChannelsType ==
    ASSUME TypeOK, LoseChannels
    PROVE  /\ queue' \in Seq(Messages)
           /\ held' \in Messages \cup {NoMessage}
           /\ stage' \in Stages
           /\ tx' \in TxInfo
           /\ inflight' \subseteq Notification
           /\ stray' \subseteq Notification
           /\ outbox' \subseteq Notification
  BY RequeuedType DEF LoseChannels, TypeOK, Stages, TxInfo, NoTx

LEMMA AbandonType ==
    ASSUME TypeOK, Abandon
    PROVE  /\ stage' \in Stages
           /\ inflight' \subseteq Notification
           /\ stray' \subseteq Notification
  BY DEF Abandon, TypeOK, Stages

LEMMA FaultType ==
    ASSUME TypeOK, NEW kind, Fault(kind)
    PROVE  faults' \in 0..MaxFaults
  BY NotificationsAssumption DEF Fault, TypeOK

LEMMA TypeStep ==
    ASSUME TypeOK, AttemptOK, TxOK, [Next]_vars
    PROVE  TypeOK'
<1> USE NotificationsAssumption DEF TypeOK, dbVars, brokerVars, wireVars
<1>1. ASSUME NEW m \in Messages, Announce(m)
      PROVE  TypeOK'
  BY <1>1 DEF Announce
<1>2. CASE ChangeDatabase
  <2>1. ASSUME NEW a \in Accounts, CreateAccount(a) \/ DeleteAccount(a)
        PROVE  accounts' \subseteq Accounts /\ deleted' \subseteq Accounts
               /\ devices' = devices
    BY <2>1 DEF CreateAccount, DeleteAccount
  <2>2. ASSUME NEW u \in Users, NEW d \in Devices, AddDevice(u, d)
        PROVE  accounts' \subseteq Accounts /\ deleted' \subseteq Accounts
               /\ devices' \in [Users -> SUBSET Devices]
    BY <2>2 DEF AddDevice
  <2>3. QED
    BY <1>2, <2>1, <2>2 DEF ChangeDatabase
<1>3. CASE Deliver
  BY <1>3, HeadTailProperties DEF Deliver, Stages
<1>4. CASE Parse \/ ReadFrom \/ ReadTo \/ ReadDevices
  <2>1. held \in Messages
    BY <1>4 DEF Parse, ReadFrom, ReadTo, ReadDevices, AttemptOK
  <2>2. CASE Parse
    BY <2>2 DEF Parse, Stages
  <2>3. CASE ReadFrom
    <3>1. ASSUME NEW a \in From[held] \ tx.read,
                 tx' = [tx EXCEPT !.read = @ \cup {a}, !.from = @ \cup ({a} \cap accounts)]
          PROVE  tx' \in TxInfo
      <4>1. a \in Accounts
        BY <2>1
      <4>2. QED
        BY <3>1, <4>1 DEF TxInfo
    <3>2. ASSUME tx' = [tx EXCEPT !.read = {}]
          PROVE  tx' \in TxInfo
      BY <3>2 DEF TxInfo
    <3>3. tx' \in TxInfo /\ stage' \in Stages
      BY <2>3, <3>1, <3>2 DEF ReadFrom, Stages
    <3>4. QED
      BY <2>3, <3>3 DEF ReadFrom
  <2>4. CASE ReadTo
    <3>1. CASE To[held] \in accounts
      <4> DEFINE b == To[held] \in WithCallback
      <4>1. b \in BOOLEAN
        OBVIOUS
      <4>2. tx' = [tx EXCEPT !.to = To[held], !.callback = b]
        BY <2>4, <3>1 DEF ReadTo
      <4> HIDE DEF b
      <4>3. tx' \in TxInfo
        BY <3>1, <4>1, <4>2 DEF TxInfo
      <4>4. QED
        BY <2>4, <4>3 DEF ReadTo, Stages
    <3>2. CASE To[held] \notin accounts
      BY <2>4, <3>2 DEF ReadTo, Stages
    <3>3. QED
      BY <3>1, <3>2
  <2>5. CASE ReadDevices
    <3>1. tx' \in TxInfo
      BY <2>5 DEF ReadDevices, TxInfo, TxOK
    <3>2. QED
      BY <2>5, <3>1 DEF ReadDevices, Stages
  <2>6. QED
    BY <1>4, <2>2, <2>3, <2>4, <2>5
<1>5. CASE Publish
  <2>1. held \in Messages
    BY <1>5 DEF Publish, AttemptOK
  <2>2. tx.to \in Accounts \/ (tx.devices = {} /\ ~tx.callback)
    BY <1>5 DEF Publish, TxOK, ReceiverOK, TxInfo
  <2>3. Wanted(held, tx) \subseteq Notification
    BY <2>1, <2>2, WantedType
  <2>4. QED
    BY <1>5, <2>3 DEF Publish, Stages
<1>6. ASSUME NEW n \in inflight, Accept(n) \/ Refuse(n)
      PROVE  TypeOK'
  BY <1>6, FaultType DEF Accept, Refuse
<1>7. ASSUME NEW n \in stray, AcceptStray(n)
      PROVE  TypeOK'
  BY <1>7 DEF AcceptStray
<1>8. CASE Ack
  BY <1>8 DEF Ack, AttemptOK, Stages, TxInfo, NoTx
<1>9. CASE DbFails
  BY <1>9, FaultType DEF DbFails, Stages
<1>10. CASE PublishFails \/ HandlerTimeout
  BY <1>10, FaultType, AbandonType DEF PublishFails, HandlerTimeout
<1>11. CASE Nack
  BY <1>11 DEF Nack, AttemptOK, Stages, TxInfo, NoTx
<1>12. CASE ConnectionLost \/ Crash
  BY <1>12, FaultType, LoseChannelsType DEF ConnectionLost, Crash
<1>13. CASE Restart
  BY <1>13 DEF Restart
<1>14. CASE UNCHANGED vars
  BY <1>14 DEF vars
<1>15. QED
  BY <1>1, <1>2, <1>3, <1>4, <1>5, <1>6, <1>7, <1>8, <1>9, <1>10, <1>11,
     <1>12, <1>13, <1>14 DEF Next

-----------------------------------------------------------------------------
(* Sequences                                                               *)

\* A message put at the end of a sequence is its only new element.
LEMMA ElementsOfAppend ==
    ASSUME NEW S, NEW s \in Seq(S), NEW e \in S
    PROVE  Elements(Append(s, e)) = Elements(s) \cup {e}
<1>1. /\ DOMAIN Append(s, e) = DOMAIN s \cup {Len(s) + 1}
      /\ \A i \in DOMAIN s : Append(s, e)[i] = s[i]
      /\ Append(s, e)[Len(s) + 1] = e
  BY AppendProperties, LenProperties
<1>2. QED
  BY <1>1 DEF Elements

\* A message put in front of a sequence is its only new element.
LEMMA ElementsOfCons ==
    ASSUME NEW S, NEW s \in Seq(S), NEW e \in S
    PROVE  \A i \in DOMAIN (<<e>> \o s) : (<<e>> \o s)[i] \in Elements(s) \cup {e}
<1>1. TAKE i \in DOMAIN (<<e>> \o s)
<1>2. <<e>> \in Seq(S) /\ Len(<<e>>) = 1 /\ <<e>>[1] = e
  OBVIOUS
<1>3. /\ i \in 1..(1 + Len(s))
      /\ (<<e>> \o s)[i] = IF i <= 1 THEN <<e>>[i] ELSE s[i - 1]
  BY <1>2, ConcatProperties, LenProperties
<1>4. CASE i = 1
  BY <1>2, <1>3, <1>4
<1>5. CASE i # 1
  <2>1. i - 1 \in DOMAIN s
    BY <1>3, <1>5, LenProperties
  <2>2. QED
    BY <1>3, <1>5, <2>1 DEF Elements
<1>6. QED
  BY <1>4, <1>5

\* The four ways in which the three parts of the log change.
LEMMA OrderOnAppend ==
    ASSUME NEW S, NEW r \in Seq(S), NEW s \in Seq(S), NEW t \in Seq(S), NEW e \in S
    PROVE  (r \o s \o t) \o <<e>> = r \o s \o (t \o <<e>>)
<1>1. <<e>> \in Seq(S) /\ r \o s \in Seq(S)
  BY ConcatProperties
<1>2. QED
  BY <1>1, ConcatAssociative

LEMMA OrderOnDeliver ==
    ASSUME NEW S, NEW r \in Seq(S), NEW t \in Seq(S), t # <<>>
    PROVE  r \o <<>> \o t = r \o <<Head(t)>> \o Tail(t)
<1>1. Head(t) \in S /\ Tail(t) \in Seq(S) /\ <<Head(t)>> \in Seq(S)
  BY HeadTailProperties
<1>2. r \o <<>> = r
  BY ConcatEmptySeq
<1>3. t = <<Head(t)>> \o Tail(t)
  BY <1>1
<1>4. (r \o <<Head(t)>>) \o Tail(t) = r \o (<<Head(t)>> \o Tail(t))
  BY <1>1, ConcatAssociative
<1>5. QED
  BY <1>2, <1>3, <1>4

LEMMA OrderOnAck ==
    ASSUME NEW S, NEW r \in Seq(S), NEW t \in Seq(S), NEW e \in S
    PROVE  r \o <<e>> \o t = Append(r, e) \o <<>> \o t
<1>1. Append(r, e) \in Seq(S) /\ Append(r, e) = r \o <<e>>
  BY AppendIsConcat
<1>2. Append(r, e) \o <<>> = Append(r, e)
  BY <1>1, ConcatEmptySeq
<1>3. QED
  BY <1>1, <1>2

LEMMA OrderOnRequeue ==
    ASSUME NEW S, NEW r \in Seq(S), NEW t \in Seq(S), NEW e \in S
    PROVE  r \o <<e>> \o t = r \o <<>> \o (<<e>> \o t)
<1>1. <<e>> \in Seq(S)
  OBVIOUS
<1>2. (r \o <<e>>) \o t = r \o (<<e>> \o t)
  BY <1>1, ConcatAssociative
<1>3. r \o <<>> = r
  BY ConcatEmptySeq
<1>4. QED
  BY <1>2, <1>3

-----------------------------------------------------------------------------
(* What only ever grows                                                    *)

LEMMA RowsMonotone ==
    ASSUME TypeOK, RowsOK, [Next]_vars
    PROVE  /\ Known \subseteq Known'
           /\ \A u \in Users : devices[u] \subseteq devices'[u]
           /\ Stored \cap accounts' \subseteq accounts
<1> USE DEF Known, RowsOK
<1>1. CASE ChangeDatabase
  <2>1. ASSUME NEW a \in Accounts, CreateAccount(a) \/ DeleteAccount(a)
        PROVE  /\ Known \subseteq Known'
               /\ devices' = devices
               /\ Stored \cap accounts' \subseteq accounts
    BY <2>1 DEF CreateAccount, DeleteAccount
  <2>2. ASSUME NEW u \in Users, NEW d \in Devices, AddDevice(u, d)
        PROVE  /\ Known \subseteq Known'
               /\ \A v \in Users : devices[v] \subseteq devices'[v]
               /\ Stored \cap accounts' \subseteq accounts
    BY <2>2 DEF AddDevice, TypeOK
  <2>3. QED
    BY <1>1, <2>1, <2>2 DEF ChangeDatabase
<1>2. CASE UNCHANGED dbVars
  BY <1>2 DEF dbVars
<1>3. QED
  <2>1. [Next]_vars => ChangeDatabase \/ UNCHANGED dbVars
    BY DEF Next, vars, Announce, Deliver, Parse, ReadFrom, ReadTo, ReadDevices,
       Publish, Accept, Refuse, AcceptStray, Ack, DbFails, PublishFails,
       HandlerTimeout, Nack, ConnectionLost, Crash, Restart
  <2>2. QED
    BY <1>1, <1>2, <2>1

LEMMA LogMonotone ==
    ASSUME TypeOK, [Next]_vars
    PROVE  /\ Elements(log) \subseteq Elements(log')
           /\ outbox \subseteq outbox'
           /\ refused \subseteq refused'
<1>1. ASSUME NEW m \in Messages, Announce(m)
      PROVE  Elements(log) \subseteq Elements(log') /\ UNCHANGED wireVars
  BY <1>1, ElementsOfAppend DEF Announce, TypeOK
<1>2. ASSUME NEW m \in Messages, Announce(m)
      PROVE  outbox' = outbox /\ refused' = refused
  BY <1>1, <1>2 DEF wireVars
<1>3. CASE \/ ChangeDatabase \/ Deliver \/ Parse \/ ReadFrom \/ ReadTo \/ ReadDevices
           \/ Publish \/ Ack \/ DbFails \/ PublishFails \/ HandlerTimeout \/ Nack
           \/ Restart \/ UNCHANGED vars
  BY <1>3 DEF vars, wireVars, brokerVars, ChangeDatabase, Deliver, Parse, ReadFrom,
     ReadTo, ReadDevices, Publish, Ack, DbFails, PublishFails, HandlerTimeout, Nack,
     Restart
<1>4. CASE \/ (\E n \in inflight : Accept(n) \/ Refuse(n))
           \/ (\E n \in stray : AcceptStray(n))
  BY <1>4 DEF brokerVars, Accept, Refuse, AcceptStray
<1>5. CASE ConnectionLost \/ Crash
  BY <1>5 DEF ConnectionLost, Crash, LoseChannels
<1>6. QED
  BY <1>1, <1>2, <1>3, <1>4, <1>5 DEF Next

\* What has been answered stays answered, and no new debt arises for a message.
LEMMA DebtShrinks ==
    ASSUME TypeOK, RowsOK, [Next]_vars
    PROVE  /\ Answered \subseteq Answered'
           /\ \A m \in Messages : (AlwaysStored(m))' => AlwaysStored(m)
           /\ \A m \in Messages : (Due(m))' \subseteq Due(m)
<1>1. Answered \subseteq Answered'
  BY LogMonotone DEF Answered
<1>2. \A m \in Messages : (AlwaysStored(m))' => AlwaysStored(m)
  BY RowsMonotone DEF AlwaysStored
<1>3. \A m \in Messages : (Due(m))' \subseteq Due(m)
  BY <1>2 DEF Due
<1>4. QED
  BY <1>1, <1>2, <1>3

-----------------------------------------------------------------------------
(* The conjuncts of the invariant                                          *)

LEMMA InitInv ==
    ASSUME Init
    PROVE  IInv
<1> USE NotificationsAssumption DEF Init
<1>1. TypeOK
  BY DEF TypeOK, Stages, TxInfo, NoTx
<1>2. AttemptOK /\ RowsOK /\ AnnouncedOK
  BY DEF AttemptOK, RowsOK, AnnouncedOK
<1>3. QueueOrder
  BY DEF QueueOrder, HeldSeq
<1>4. TxOK /\ PublishedOK
  BY DEF TxOK, PublishedOK
<1>5. AckedIsNotified /\ NotificationsAreGenuine /\ WireOK
  BY DEF AckedIsNotified, NotificationsAreGenuine, WireOK
<1>6. QED
  BY <1>1, <1>2, <1>3, <1>4, <1>5 DEF IInv

LEMMA AttemptStep ==
    ASSUME TypeOK, AttemptOK, [Next]_vars
    PROVE  AttemptOK'
<1> USE NotificationsAssumption DEF AttemptOK
<1>1. CASE \/ (\E m \in Messages : Announce(m)) \/ ChangeDatabase \/ Restart
           \/ (\E n \in stray : AcceptStray(n)) \/ UNCHANGED vars
  BY <1>1 DEF Announce, ChangeDatabase, Restart, AcceptStray, vars, brokerVars, wireVars
<1>2. CASE Deliver
  <2>1. Head(queue) \in Messages
    BY <1>2, HeadTailProperties DEF Deliver, TypeOK
  <2>2. QED
    BY <1>2, <2>1 DEF Deliver, wireVars
<1>3. CASE Parse \/ ReadFrom \/ ReadTo \/ ReadDevices \/ Publish \/ DbFails
  BY <1>3 DEF Parse, ReadFrom, ReadTo, ReadDevices, Publish, DbFails, brokerVars, wireVars
<1>4. CASE \/ (\E n \in inflight : Accept(n) \/ Refuse(n)) \/ PublishFails
           \/ HandlerTimeout
  BY <1>4 DEF Accept, Refuse, PublishFails, HandlerTimeout, Abandon, Running, brokerVars
<1>5. CASE Ack \/ Nack \/ ConnectionLost \/ Crash
  BY <1>5 DEF Ack, Nack, ConnectionLost, Crash, LoseChannels, wireVars
<1>6. QED
  BY <1>1, <1>2, <1>3, <1>4, <1>5 DEF Next

LEMMA RowsStep ==
    ASSUME TypeOK, RowsOK, [Next]_vars
    PROVE  RowsOK'
<1>1. \A u \in Users : Registered[u] \subseteq devices'[u]
  BY RowsMonotone DEF RowsOK
<1>2. Stored \subseteq accounts' \cup deleted'
  <2>1. CASE ChangeDatabase
    BY <2>1 DEF ChangeDatabase, CreateAccount, DeleteAccount, AddDevice, RowsOK
  <2>2. CASE UNCHANGED dbVars
    BY <2>2 DEF dbVars, RowsOK
  <2>3. [Next]_vars => ChangeDatabase \/ UNCHANGED dbVars
    BY DEF Next, vars, Announce, Deliver, Parse, ReadFrom, ReadTo, ReadDevices,
       Publish, Accept, Refuse, AcceptStray, Ack, DbFails, PublishFails,
       HandlerTimeout, Nack, ConnectionLost, Crash, Restart
  <2>4. QED
    BY <2>1, <2>2, <2>3
<1>3. QED
  BY <1>1, <1>2 DEF RowsOK

\* A requeue puts the held message back where it was taken from.
LEMMA RequeueKeepsOrder ==
    ASSUME TypeOK, AttemptOK, QueueOrder, log' = log, acked' = acked,
           queue' = Requeued, held' = NoMessage
    PROVE  QueueOrder'
<1>1. CASE held = NoMessage
  BY <1>1 DEF Requeued, QueueOrder, HeldSeq
<1>2. CASE held # NoMessage
  <2>1. acked \o <<held>> \o queue = acked \o <<>> \o (<<held>> \o queue)
    BY <1>2, OrderOnRequeue DEF TypeOK
  <2>2. QED
    BY <1>2, <2>1 DEF Requeued, QueueOrder, HeldSeq
<1>3. QED
  BY <1>1, <1>2

LEMMA OrderStep ==
    ASSUME TypeOK, AttemptOK, QueueOrder, [Next]_vars
    PROVE  QueueOrder'
<1> USE NotificationsAssumption
<1>1. ASSUME NEW m \in Messages, Announce(m)
      PROVE  QueueOrder'
  <2>1. HeldSeq \in Seq(Messages) /\ acked \in Seq(Messages) /\ queue \in Seq(Messages)
    BY DEF HeldSeq, TypeOK
  <2>2. log' = log \o <<m>> /\ queue' = queue \o <<m>>
    BY <1>1, AppendIsConcat DEF Announce, TypeOK
  <2>3. (acked \o HeldSeq \o queue) \o <<m>> = acked \o HeldSeq \o (queue \o <<m>>)
    BY <2>1, OrderOnAppend
  <2>4. HeldSeq' = HeldSeq /\ acked' = acked
    BY <1>1 DEF Announce, HeldSeq
  <2>5. QED
    BY <2>2, <2>3, <2>4 DEF QueueOrder
<1>2. CASE Deliver
  <2>1. Head(queue) \in Messages
    BY <1>2, HeadTailProperties DEF Deliver, TypeOK
  <2>2. acked \o <<>> \o queue = acked \o <<Head(queue)>> \o Tail(queue)
    BY <1>2, OrderOnDeliver DEF Deliver, TypeOK
  <2>3. QED
    BY <1>2, <2>1, <2>2 DEF Deliver, QueueOrder, HeldSeq
<1>3. CASE Ack
  <2>1. held \in Messages /\ held # NoMessage
    BY <1>3 DEF Ack, AttemptOK, TypeOK
  <2>2. acked \o <<held>> \o queue = Append(acked, held) \o <<>> \o queue
    BY <2>1, OrderOnAck DEF TypeOK
  <2>3. QED
    BY <1>3, <2>1, <2>2 DEF Ack, QueueOrder, HeldSeq
<1>4. CASE Nack
  <2>1. Requeued = <<held>> \o queue
    BY <1>4 DEF Nack, AttemptOK, Requeued
  <2>2. QED
    BY <1>4, <2>1, RequeueKeepsOrder DEF Nack
<1>5. CASE ConnectionLost \/ Crash
  BY <1>5, RequeueKeepsOrder DEF ConnectionLost, Crash, LoseChannels
<1>6. CASE \/ ChangeDatabase \/ Parse \/ ReadFrom \/ ReadTo \/ ReadDevices \/ Publish
           \/ DbFails \/ PublishFails \/ HandlerTimeout \/ Restart \/ UNCHANGED vars
  BY <1>6 DEF QueueOrder, HeldSeq, vars, brokerVars, ChangeDatabase, Parse, ReadFrom,
     ReadTo, ReadDevices, Publish, DbFails, PublishFails, HandlerTimeout, Restart
<1>7. CASE \/ (\E n \in inflight : Accept(n) \/ Refuse(n))
           \/ (\E n \in stray : AcceptStray(n))
  BY <1>7 DEF QueueOrder, HeldSeq, brokerVars, Accept, Refuse, AcceptStray
<1>8. QED
  BY <1>1, <1>2, <1>3, <1>4, <1>5, <1>6, <1>7 DEF Next

LEMMA RequeueKeepsAnnounced ==
    ASSUME TypeOK, AnnouncedOK, log' = log, queue' = Requeued, held' = NoMessage
    PROVE  AnnouncedOK'
<1>1. CASE held = NoMessage
  BY <1>1 DEF Requeued, AnnouncedOK
<1>2. CASE held # NoMessage
  <2>1. held \in Elements(log) /\ queue' = <<held>> \o queue
    BY <1>2 DEF AnnouncedOK, Requeued
  <2>2. \A i \in DOMAIN queue' : queue'[i] \in Elements(queue) \cup {held}
    BY <1>2, <2>1, ElementsOfCons DEF TypeOK
  <2>3. Elements(queue) \subseteq Elements(log)
    BY DEF AnnouncedOK, Elements
  <2>4. QED
    BY <2>1, <2>2, <2>3 DEF AnnouncedOK
<1>3. QED
  BY <1>1, <1>2

LEMMA AnnouncedStep ==
    ASSUME TypeOK, AttemptOK, AnnouncedOK, [Next]_vars
    PROVE  AnnouncedOK'
<1> USE NotificationsAssumption
<1>1. ASSUME NEW m \in Messages, Announce(m)
      PROVE  AnnouncedOK'
  <2>1. Elements(log') = Elements(log) \cup {m} /\ held' = held
    BY <1>1, ElementsOfAppend DEF Announce, TypeOK
  <2>2. Elements(queue') = Elements(queue) \cup {m}
    BY <1>1, ElementsOfAppend DEF Announce, TypeOK
  <2>3. Elements(queue) \subseteq Elements(log)
    BY DEF AnnouncedOK, Elements
  <2>4. \A i \in DOMAIN queue' : queue'[i] \in Elements(queue')
    BY DEF Elements
  <2>5. QED
    BY <2>1, <2>2, <2>3, <2>4 DEF AnnouncedOK
<1>2. CASE Deliver
  <2>1. /\ queue \in Seq(Messages) /\ queue # <<>> /\ log' = log
        /\ held' = Head(queue) /\ queue' = Tail(queue)
    BY <1>2 DEF Deliver, TypeOK
  <2>2. 1 \in DOMAIN queue /\ held' = queue[1]
    BY <2>1
  <2>3. \A i \in DOMAIN queue' : i + 1 \in DOMAIN queue /\ queue'[i] = queue[i + 1]
    BY <2>1
  <2>4. QED
    BY <2>1, <2>2, <2>3 DEF AnnouncedOK
<1>3. CASE Ack
  BY <1>3 DEF Ack, AnnouncedOK
<1>4. CASE Nack
  <2>1. Requeued = <<held>> \o queue
    BY <1>4 DEF Nack, AttemptOK, Requeued
  <2>2. QED
    BY <1>4, <2>1, RequeueKeepsAnnounced DEF Nack
<1>5. CASE ConnectionLost \/ Crash
  BY <1>5, RequeueKeepsAnnounced DEF ConnectionLost, Crash, LoseChannels
<1>6. CASE \/ ChangeDatabase \/ Parse \/ ReadFrom \/ ReadTo \/ ReadDevices \/ Publish
           \/ DbFails \/ PublishFails \/ HandlerTimeout \/ Restart \/ UNCHANGED vars
  BY <1>6 DEF AnnouncedOK, vars, brokerVars, ChangeDatabase, Parse, ReadFrom,
     ReadTo, ReadDevices, Publish, DbFails, PublishFails, HandlerTimeout, Restart
<1>7. CASE \/ (\E n \in inflight : Accept(n) \/ Refuse(n))
           \/ (\E n \in stray : AcceptStray(n))
  BY <1>7 DEF AnnouncedOK, brokerVars, Accept, Refuse, AcceptStray
<1>8. QED
  BY <1>1, <1>2, <1>3, <1>4, <1>5, <1>6, <1>7 DEF Next

\* What an attempt has found out stays true while the API changes rows.
LEMMA TxSurvivesRows ==
    ASSUME TypeOK, AttemptOK, RowsOK, TxOK, [Next]_vars, UNCHANGED <<held, stage, tx>>
    PROVE  TxOK'
<1> USE NotificationsAssumption
<1>1. Known \subseteq Known' /\ \A u \in Users : devices[u] \subseteq devices'[u]
  BY RowsMonotone
<1>2. stage # "idle" => held \in Messages
  BY DEF AttemptOK, TypeOK
<1>3. stage # "idle" => ((AlwaysStored(held))' => AlwaysStored(held))
  BY <1>2, RowsMonotone DEF AlwaysStored
<1>4. stage \in {"publish", "confirm"} => ReceiverOK'
  <2>1. SUFFICES ASSUME stage \in {"publish", "confirm"}, ReceiverOK
                 PROVE  ReceiverOK'
    BY DEF TxOK
  <2>2. CASE tx.to = NoAccount
    BY <1>3, <2>1, <2>2 DEF ReceiverOK
  <2>3. CASE tx.to # NoAccount
    BY <1>1, <2>1, <2>3 DEF ReceiverOK
  <2>4. QED
    BY <2>2, <2>3
<1>5. QED
  BY <1>1, <1>4 DEF TxOK

LEMMA TxStep ==
    ASSUME TypeOK, AttemptOK, RowsOK, TxOK, [Next]_vars
    PROVE  TxOK'
<1> USE NotificationsAssumption
<1>1. CASE \/ (\E m \in Messages : Announce(m)) \/ ChangeDatabase \/ Restart
           \/ (\E n \in inflight : Accept(n) \/ Refuse(n))
           \/ (\E n \in stray : AcceptStray(n)) \/ UNCHANGED vars
  <2>1. UNCHANGED <<held, stage, tx>>
    BY <1>1 DEF Announce, ChangeDatabase, Restart, Accept, Refuse, AcceptStray,
       brokerVars, vars
  <2>2. QED
    BY <2>1, TxSurvivesRows
<1>2. CASE Deliver
  <2>1. tx = NoTx
    BY <1>2 DEF Deliver, AttemptOK, TxOK
  <2>2. QED
    BY <1>2, <2>1 DEF Deliver, TxOK
<1>3. CASE Parse
  BY <1>3 DEF Parse, TxOK, NoTx, brokerVars
<1>4. CASE ReadFrom
  <2>1. /\ held' = held /\ Known' = Known /\ tx.from \subseteq From[held] \cap Known
        /\ tx.to = NoAccount /\ ~tx.callback /\ tx.devices = {}
    BY <1>4 DEF ReadFrom, TxOK, brokerVars, dbVars, Known
  <2>2. ASSUME NEW a \in From[held] \ tx.read,
               tx' = [tx EXCEPT !.read = @ \cup {a}, !.from = @ \cup ({a} \cap accounts)],
               stage' = "from"
        PROVE  TxOK'
    <3>1. /\ tx'.from = tx.from \cup ({a} \cap accounts)
          /\ tx'.to = NoAccount /\ ~tx'.callback /\ tx'.devices = {}
      BY <2>1, <2>2 DEF TypeOK, TxInfo
    <3>2. tx'.from \subseteq From[held] \cap Known
      BY <2>1, <3>1 DEF Known
    <3>3. QED
      BY <2>1, <2>2, <3>1, <3>2 DEF TxOK
  <2>3. ASSUME tx' = [tx EXCEPT !.read = {}], stage' = "to"
        PROVE  TxOK'
    <3>1. tx'.from = tx.from /\ tx'.to = NoAccount /\ ~tx'.callback /\ tx'.devices = {}
      BY <2>1, <2>3 DEF TypeOK, TxInfo
    <3>2. QED
      BY <2>1, <2>3, <3>1 DEF TxOK
  <2>4. QED
    BY <1>4, <2>2, <2>3 DEF ReadFrom
<1>5. CASE ReadTo
  <2>1. /\ held \in Messages /\ held' = held /\ Known' = Known
        /\ accounts' = accounts /\ stage = "to"
        /\ tx.from \subseteq From[held] \cap Known
        /\ tx.to = NoAccount /\ ~tx.callback /\ tx.devices = {}
    BY <1>5 DEF ReadTo, TxOK, AttemptOK, TypeOK, brokerVars, dbVars, Known
  <2>2. CASE To[held] \in accounts
    <3> DEFINE b == To[held] \in WithCallback
    <3>1. tx' = [tx EXCEPT !.to = To[held], !.callback = b] /\ stage' = "devices"
      BY <1>5, <2>2 DEF ReadTo
    <3>2. b \in BOOLEAN
      OBVIOUS
    <3> HIDE DEF b
    <3>3. tx'.to = To[held] /\ tx'.callback = b /\ tx'.from = tx.from
      BY <3>1, <3>2 DEF TypeOK, TxInfo
    <3> USE DEF b
    <3>4. To[held] \in Accounts
      BY <2>2 DEF TypeOK
    <3>5. QED
      BY <2>1, <3>1, <3>3, <3>4 DEF TxOK
  <2>3. CASE To[held] \notin accounts
    <3>1. tx' = tx /\ stage' = "publish"
      BY <1>5, <2>3 DEF ReadTo
    <3>2. ReceiverOK'
      BY <2>1, <2>3, <3>1 DEF ReceiverOK, AlwaysStored
    <3>3. QED
      BY <2>1, <3>1, <3>2 DEF TxOK
  <2>4. QED
    BY <2>2, <2>3
<1>6. CASE ReadDevices
  <2>1. /\ held' = held /\ Known' = Known /\ devices' = devices
        /\ stage = "devices" /\ stage' = "publish"
        /\ tx.from \subseteq From[held] \cap Known
        /\ tx.to = To[held] /\ tx.to \in Accounts
        /\ tx.callback <=> tx.to \in WithCallback
    BY <1>6 DEF ReadDevices, TxOK, brokerVars, dbVars, Known
  <2>2. /\ tx'.from = tx.from /\ tx'.to = tx.to /\ tx'.callback = tx.callback
        /\ tx'.devices = devices[Owner[tx.to]]
    BY <1>6 DEF ReadDevices, TypeOK, TxInfo
  <2>3. Registered[Owner[tx.to]] \subseteq devices[Owner[tx.to]]
    BY <2>1 DEF RowsOK
  <2>4. ReceiverOK'
    BY <2>1, <2>2, <2>3 DEF ReceiverOK
  <2>5. QED
    BY <2>1, <2>2, <2>4 DEF TxOK
<1>7. CASE Publish
  <2>1. /\ UNCHANGED <<tx, held, accounts, deleted, devices>>
        /\ stage = "publish" /\ stage' = "confirm"
    BY <1>7 DEF Publish, brokerVars, dbVars
  <2>2. ReceiverOK'
    BY <2>1 DEF TxOK, ReceiverOK, AlwaysStored
  <2>3. QED
    BY <2>1, <2>2 DEF TxOK, Known
<1>8. CASE Ack \/ Nack \/ ConnectionLost \/ Crash
  BY <1>8 DEF Ack, Nack, ConnectionLost, Crash, LoseChannels, TxOK
<1>9. CASE DbFails \/ PublishFails \/ HandlerTimeout
  BY <1>9 DEF DbFails, PublishFails, HandlerTimeout, Abandon, TxOK
<1>10. QED
  BY <1>1, <1>2, <1>3, <1>4, <1>5, <1>6, <1>7, <1>8, <1>9 DEF Next

\* A publishing attempt puts every owed notification on the channel.
LEMMA WantedCoversDue ==
    ASSUME TypeOK, TxOK, stage = "publish", held \in Messages
    PROVE  Due(held) \subseteq {Notice(n) : n \in Wanted(held, tx)}
<1> USE NotificationsAssumption
<1>1. ReceiverOK
  BY DEF TxOK
<1>2. CASE tx.to = NoAccount
  BY <1>1, <1>2 DEF ReceiverOK, Due
<1>3. CASE tx.to # NoAccount
  <2>1. ASSUME NEW d \in Registered[Owner[To[held]]]
        PROVE  <<"push", held, d>> \in {Notice(n) : n \in Wanted(held, tx)}
    <3>1. Push(held, d, tx.from, tx.to) \in Wanted(held, tx)
      BY <1>1, <1>3, <2>1 DEF ReceiverOK, Wanted
    <3>2. Notice(Push(held, d, tx.from, tx.to)) = <<"push", held, d>>
      BY DEF Notice, Push
    <3>3. QED
      BY <3>1, <3>2
  <2>2. ASSUME To[held] \in WithCallback
        PROVE  <<"callback", held>> \in {Notice(n) : n \in Wanted(held, tx)}
    <3>1. Callback(held, tx.to) \in Wanted(held, tx)
      BY <1>1, <1>3, <2>2 DEF ReceiverOK, Wanted
    <3>2. Notice(Callback(held, tx.to)) = <<"callback", held>>
      BY DEF Notice, Callback
    <3>3. QED
      BY <3>1, <3>2
  <2>3. QED
    BY <2>1, <2>2 DEF Due
<1>4. QED
  BY <1>2, <1>3

LEMMA PublishedStep ==
    ASSUME TypeOK, AttemptOK, RowsOK, TxOK, PublishedOK, [Next]_vars
    PROVE  PublishedOK'
<1> USE NotificationsAssumption
<1>1. Answered \subseteq Answered' /\ \A m \in Messages : (Due(m))' \subseteq Due(m)
  BY DebtShrinks
<1>2. CASE \/ (\E m \in Messages : Announce(m)) \/ ChangeDatabase \/ Restart
           \/ (\E n \in stray : AcceptStray(n)) \/ UNCHANGED vars
  <2>1. UNCHANGED <<held, stage, inflight>>
    BY <1>2 DEF Announce, ChangeDatabase, Restart, AcceptStray, brokerVars, wireVars, vars
  <2>2. SUFFICES ASSUME stage = "confirm"
                 PROVE  (Due(held))' \subseteq Answered' \cup NoticesInFlight'
    BY <2>1 DEF PublishedOK
  <2>3. held \in Messages
    BY <2>2 DEF AttemptOK, TypeOK
  <2>4. (Due(held))' \subseteq Due(held)
    BY <1>1, <2>1, <2>3 DEF Due, AlwaysStored
  <2>5. QED
    BY <1>1, <2>1, <2>2, <2>4 DEF PublishedOK, NoticesInFlight
<1>3. CASE Publish
  <2>1. held \in Messages
    BY <1>3 DEF Publish, AttemptOK, TypeOK
  <2>2. Due(held) \subseteq NoticesInFlight'
    BY <1>3, <2>1, WantedCoversDue DEF Publish, NoticesInFlight
  <2>3. (Due(held))' = Due(held)
    BY <1>3 DEF Publish, brokerVars, dbVars, Due, AlwaysStored
  <2>4. QED
    BY <2>2, <2>3 DEF PublishedOK
<1>4. ASSUME NEW n \in inflight, Accept(n) \/ Refuse(n)
      PROVE  PublishedOK'
  <2>1. UNCHANGED <<held, stage, accounts>> /\ inflight' = inflight \ {n}
        /\ n \in outbox' \cup refused'
    BY <1>4 DEF Accept, Refuse, brokerVars, dbVars
  <2>2. (Due(held))' = Due(held)
    BY <2>1 DEF Due, AlwaysStored
  <2>3. Notice(n) \in Answered'
    BY <2>1 DEF Answered
  <2>4. NoticesInFlight \subseteq NoticesInFlight' \cup {Notice(n)}
    BY <2>1 DEF NoticesInFlight
  <2>5. QED
    BY <1>1, <2>1, <2>2, <2>3, <2>4 DEF PublishedOK
<1>5. CASE \/ Deliver \/ Parse \/ ReadFrom \/ ReadTo \/ ReadDevices \/ DbFails
           \/ PublishFails \/ HandlerTimeout \/ Ack \/ Nack \/ ConnectionLost \/ Crash
  BY <1>5 DEF Deliver, Parse, ReadFrom, ReadTo, ReadDevices, DbFails, PublishFails,
     HandlerTimeout, Abandon, Ack, Nack, ConnectionLost, Crash, LoseChannels, PublishedOK
<1>6. QED
  BY <1>2, <1>3, <1>4, <1>5 DEF Next

LEMMA AckedStep ==
    ASSUME TypeOK, AttemptOK, RowsOK, PublishedOK, AckedIsNotified, [Next]_vars
    PROVE  AckedIsNotified'
<1> USE NotificationsAssumption
<1>1. Answered \subseteq Answered' /\ \A m \in Messages : (Due(m))' \subseteq Due(m)
  BY DebtShrinks
<1>2. \A i \in DOMAIN acked : acked[i] \in Messages
  BY DEF TypeOK
<1>3. CASE Ack
  <2>1. held \in Messages /\ held # NoMessage
    BY <1>3 DEF Ack, AttemptOK, TypeOK
  <2>2. Due(held) \subseteq Answered
    BY <1>3 DEF Ack, PublishedOK, NoticesInFlight
  <2>3. /\ acked' = Append(acked, held) /\ Answered' = Answered
        /\ accounts' = accounts
    BY <1>3 DEF Ack, wireVars, dbVars, Answered
  <2>4. ASSUME NEW i \in DOMAIN acked'
        PROVE  \/ i \in DOMAIN acked /\ acked'[i] = acked[i]
               \/ acked'[i] = held
    BY <2>1, <2>3 DEF TypeOK
  <2>5. ASSUME NEW i \in DOMAIN acked'
        PROVE  (Due(acked[i]))' \subseteq Answered'
    <3>1. CASE acked'[i] = held
      BY <2>2, <2>3, <3>1 DEF Due, AlwaysStored
    <3>2. CASE i \in DOMAIN acked /\ acked'[i] = acked[i]
      BY <2>3, <3>2 DEF AckedIsNotified, Due, AlwaysStored
    <3>3. QED
      BY <2>4, <2>5, <3>1, <3>2
  <2>6. QED
    BY <2>5 DEF AckedIsNotified
<1>4. CASE acked' = acked
  <2>1. ASSUME NEW i \in DOMAIN acked
        PROVE  (Due(acked[i]))' \subseteq Answered'
    <3>1. (Due(acked[i]))' \subseteq Due(acked[i])
      BY <1>1, <1>2, <1>4, <2>1 DEF Due, AlwaysStored
    <3>2. QED
      BY <1>1, <3>1, <2>1 DEF AckedIsNotified
  <2>2. QED
    BY <1>4, <2>1 DEF AckedIsNotified
<1>5. Ack \/ acked' = acked
  BY DEF Next, vars, brokerVars, Announce, ChangeDatabase, Deliver, Parse, ReadFrom,
     ReadTo, ReadDevices, Publish, Accept, Refuse, AcceptStray, DbFails, PublishFails,
     HandlerTimeout, Nack, ConnectionLost, Crash, Restart
<1>6. QED
  BY <1>3, <1>4, <1>5

\* What is genuine stays genuine: rows are added, never taken from Known.
LEMMA GenuineMonotone ==
    ASSUME TypeOK, RowsOK, [Next]_vars, NEW n \in Notification, Genuine(n)
    PROVE  Genuine(n)'
<1> USE NotificationsAssumption
<1>1. Elements(log) \subseteq Elements(log')
  BY LogMonotone
<1>2. Known \subseteq Known' /\ \A u \in Users : devices[u] \subseteq devices'[u]
  BY RowsMonotone
<1>3. n.kind = "push" => n.to \in Accounts
  BY DEF Notification
<1>4. QED
  BY <1>1, <1>2, <1>3 DEF Genuine

\* Everything an attempt publishes is genuine.
LEMMA WantedGenuine ==
    ASSUME TypeOK, AttemptOK, AnnouncedOK, TxOK, stage = "publish"
    PROVE  \A n \in Wanted(held, tx) : Genuine(n)
<1> USE NotificationsAssumption
<1>1. held \in Messages /\ held \in Elements(log)
  BY DEF AttemptOK, TypeOK, AnnouncedOK
<1>2. ReceiverOK /\ tx.from \subseteq From[held] \cap Known
  BY DEF TxOK
<1>3. ASSUME NEW d \in tx.devices
      PROVE  Genuine(Push(held, d, tx.from, tx.to))
  BY <1>1, <1>2, <1>3 DEF ReceiverOK, Genuine, Push
<1>4. ASSUME tx.callback
      PROVE  Genuine(Callback(held, tx.to))
  BY <1>1, <1>2, <1>4 DEF ReceiverOK, Genuine, Callback
<1>5. QED
  BY <1>3, <1>4 DEF Wanted

LEMMA GenuineStep ==
    ASSUME TypeOK, AttemptOK, RowsOK, AnnouncedOK, TxOK, NotificationsAreGenuine,
           [Next]_vars
    PROVE  NotificationsAreGenuine'
<1> USE NotificationsAssumption
<1> DEFINE seen == inflight \cup stray \cup outbox \cup refused
<1>1. CASE Publish
  <2>1. seen' \subseteq seen \cup Wanted(held, tx)
    BY <1>1 DEF Publish
  <2>2. \A n \in seen : Genuine(n)'
    BY GenuineMonotone DEF TypeOK, NotificationsAreGenuine
  <2>3. Wanted(held, tx) \subseteq Notification
    <3>1. held \in Messages
      BY <1>1 DEF Publish, AttemptOK, TypeOK
    <3>2. tx.to \in Accounts \/ (tx.devices = {} /\ ~tx.callback)
      BY <1>1 DEF Publish, TxOK, ReceiverOK
    <3>3. QED
      BY <3>1, <3>2, WantedType DEF TypeOK
  <2>4. \A n \in Wanted(held, tx) : Genuine(n)'
    BY <1>1, <2>3, WantedGenuine, GenuineMonotone DEF Publish
  <2>5. QED
    BY <2>1, <2>2, <2>4 DEF NotificationsAreGenuine
<1>2. CASE seen' \subseteq seen
  BY <1>2, GenuineMonotone DEF TypeOK, NotificationsAreGenuine
<1>3. Publish \/ seen' \subseteq seen
  <2>1. CASE \/ (\E m \in Messages : Announce(m)) \/ ChangeDatabase \/ Deliver \/ Parse
             \/ ReadFrom \/ ReadTo \/ ReadDevices \/ Ack \/ DbFails \/ Nack \/ Restart
             \/ UNCHANGED vars
    BY <2>1 DEF vars, wireVars, Announce, ChangeDatabase, Deliver, Parse, ReadFrom, ReadTo,
       ReadDevices, Ack, DbFails, Nack, Restart
  <2>2. CASE \/ (\E n \in inflight : Accept(n) \/ Refuse(n))
             \/ (\E n \in stray : AcceptStray(n))
    BY <2>2 DEF Accept, Refuse, AcceptStray
  <2>3. CASE PublishFails \/ HandlerTimeout
    BY <2>3 DEF PublishFails, HandlerTimeout, Abandon
  <2>4. CASE ConnectionLost \/ Crash
    BY <2>4 DEF ConnectionLost, Crash, LoseChannels
  <2>5. QED
    BY <2>1, <2>2, <2>3, <2>4 DEF Next
<1>4. QED
  BY <1>1, <1>2, <1>3

-----------------------------------------------------------------------------
(* The line and its front                                                  *)

\* While a message is held it is the front of the line, else the queue is the line.
LEMMA LineType ==
    ASSUME TypeOK
    PROVE  /\ Line \in Seq(Messages)
           /\ held = NoMessage => Line = queue
           /\ held # NoMessage =>
                Line = <<held>> \o queue /\ Front = {held} /\ Tail(Line) = queue
<1>1. CASE held = NoMessage
  BY <1>1 DEF Line, HeldSeq, TypeOK
<1>2. CASE held # NoMessage
  <2>1. held \in Messages /\ queue \in Seq(Messages)
    BY <1>2 DEF TypeOK
  <2>2. /\ Line = <<held>> \o queue /\ Line \in Seq(Messages)
        /\ Line # <<>> /\ Head(Line) = held /\ Tail(Line) = queue
    BY <1>2, <2>1 DEF Line, HeldSeq
  <2>3. QED
    BY <1>2, <2>2 DEF Front
<1>3. QED
  BY <1>1, <1>2

\* An announcement joins the line at its end.
LEMMA LineOnAnnounce ==
    ASSUME TypeOK, NEW m \in Messages, Announce(m)
    PROVE  Line' = Append(Line, m) /\ Front \subseteq Front'
<1>1. HeldSeq' = HeldSeq /\ queue' = Append(queue, m)
  BY DEF Announce, HeldSeq
<1>2. HeldSeq \in Seq(Messages) /\ queue \in Seq(Messages)
  BY DEF HeldSeq, TypeOK
<1>3. Line' = Append(Line, m)
  BY <1>1, <1>2 DEF Line
<1>4. Line # <<>> => Append(Line, m) # <<>> /\ Head(Append(Line, m)) = Head(Line)
  BY LineType
<1>5. QED
  BY <1>3, <1>4 DEF Front

\* A delivery, a nack and a requeue leave every message where it is.
LEMMA LineKeeps ==
    ASSUME TypeOK, AttemptOK, [Next]_vars, ~Ack, \A m \in Messages : ~Announce(m)
    PROVE  Line' = Line /\ Front' = Front /\ acked' = acked
<1> USE NotificationsAssumption
<1>1. SUFFICES Line' = Line /\ acked' = acked
  BY DEF Front
<1>2. CASE Deliver
  <2>1. queue \in Seq(Messages) /\ queue # <<>> /\ held = NoMessage /\ acked' = acked
        /\ held' = Head(queue) /\ queue' = Tail(queue)
    BY <1>2 DEF Deliver, TypeOK
  <2>2. held' # NoMessage /\ queue = <<Head(queue)>> \o Tail(queue)
    BY <2>1, HeadTailProperties
  <2>3. QED
    BY <2>1, <2>2, LineType DEF Line, HeldSeq
<1>3. CASE queue' = Requeued /\ held' = NoMessage /\ acked' = acked
  <2>1. Requeued = Line /\ Requeued \in Seq(Messages)
    BY LineType, RequeuedType DEF Requeued
  <2>2. Line' = Requeued
    BY <1>3, <2>1 DEF Line, HeldSeq
  <2>3. QED
    BY <1>3, <2>1, <2>2
<1>4. CASE UNCHANGED <<held, queue, acked>>
  BY <1>4 DEF Line, HeldSeq
<1>5. \/ Deliver
      \/ queue' = Requeued /\ held' = NoMessage /\ acked' = acked
      \/ UNCHANGED <<held, queue, acked>>
  <2>1. CASE Nack
    BY <2>1 DEF Nack, AttemptOK, Requeued
  <2>2. CASE ConnectionLost \/ Crash
    BY <2>2 DEF ConnectionLost, Crash, LoseChannels
  <2>3. CASE \/ ChangeDatabase \/ Parse \/ ReadFrom \/ ReadTo \/ ReadDevices \/ Publish
             \/ DbFails \/ PublishFails \/ HandlerTimeout \/ Restart \/ UNCHANGED vars
    BY <2>3 DEF vars, brokerVars, ChangeDatabase, Parse, ReadFrom, ReadTo, ReadDevices,
       Publish, DbFails, PublishFails, HandlerTimeout, Restart
  <2>4. CASE \/ (\E n \in inflight : Accept(n) \/ Refuse(n))
             \/ (\E n \in stray : AcceptStray(n))
    BY <2>4 DEF brokerVars, Accept, Refuse, AcceptStray
  <2>5. QED
    BY <2>1, <2>2, <2>3, <2>4 DEF Next
<1>6. QED
  BY <1>2, <1>3, <1>4, <1>5

\* A frame outlives its attempt, but its message stays at the front until it is settled.
LEMMA WireStep ==
    ASSUME TypeOK, AttemptOK, WireOK, [Next]_vars
    PROVE  WireOK'
<1> USE NotificationsAssumption
<1>1. ASSUME NEW m \in Messages, Announce(m)
      PROVE  WireOK'
  <2>1. UNCHANGED <<held, acked, inflight, stray>>
    BY <1>1 DEF Announce, wireVars
  <2>2. QED
    BY <1>1, <2>1, LineOnAnnounce DEF WireOK
<1>2. CASE Ack
  <2>1. held \in Messages /\ held # NoMessage /\ inflight = {}
    BY <1>2 DEF Ack, AttemptOK, TypeOK
  <2>2. Elements(acked') = Elements(acked) \cup {held} /\ UNCHANGED <<inflight, stray>>
    BY <1>2, <2>1, ElementsOfAppend DEF Ack, wireVars, TypeOK
  <2>3. Front = {held}
    BY <2>1, LineType
  <2>4. QED
    BY <2>1, <2>2, <2>3 DEF WireOK
<1>3. CASE ~Ack /\ \A m \in Messages : ~Announce(m)
  <2>1. Front' = Front /\ acked' = acked
    BY <1>3, LineKeeps
  <2>2. \A n \in stray' : n.msg \in Elements(acked) \cup Front
    <3>1. CASE PublishFails \/ HandlerTimeout
      <4>1. stray' \subseteq stray \cup inflight
        BY <3>1 DEF PublishFails, HandlerTimeout, Abandon
      <4>2. inflight # {} => Front = {held}
        BY LineType DEF AttemptOK
      <4>3. QED
        BY <4>1, <4>2 DEF WireOK
    <3>2. CASE ConnectionLost \/ Crash
      BY <3>2 DEF ConnectionLost, Crash, LoseChannels
    <3>3. CASE stray' \subseteq stray
      BY <3>3 DEF WireOK
    <3>4. QED
      BY <1>3, <3>1, <3>2, <3>3 DEF Next, vars, wireVars, ChangeDatabase, Deliver, Parse,
         ReadFrom, ReadTo, ReadDevices, Publish, Accept, Refuse, AcceptStray, DbFails,
         Nack, Restart
  <2>3. \A n \in inflight' : n.msg = held'
    <3>1. CASE Publish
      <4>1. inflight' = Wanted(held, tx) /\ held' = held
        BY <3>1 DEF Publish, brokerVars
      <4>2. \A n \in Wanted(held, tx) : n.msg = held
        BY DEF Wanted, Push, Callback
      <4>3. QED
        BY <4>1, <4>2
    <3>2. CASE inflight' = {}
      BY <3>2
    <3>3. CASE held' = held /\ inflight' \subseteq inflight
      BY <3>3 DEF WireOK
    <3>4. inflight = {} \/ stage = "confirm"
      BY DEF AttemptOK
    <3>5. QED
      BY <1>3, <3>1, <3>2, <3>3, <3>4 DEF Next, vars, wireVars, brokerVars, ChangeDatabase,
         Deliver, Parse, ReadFrom, ReadTo, ReadDevices, Accept, Refuse, AcceptStray,
         DbFails, PublishFails, HandlerTimeout, Abandon, Nack, ConnectionLost, Crash,
         LoseChannels, Restart, AttemptOK
  <2>4. QED
    BY <2>1, <2>2, <2>3 DEF WireOK
<1>4. QED
  BY <1>1, <1>2, <1>3

-----------------------------------------------------------------------------
(* The promise of module Delivery                                          *)

\* What is due for a message are notices of that message.
LEMMA DueType ==
    ASSUME NEW m \in Messages
    PROVE  Due(m) \subseteq {<<"callback", m>>} \cup {<<"push", m, d>> : d \in Devices}
<1> USE NotificationsAssumption
<1>1. To[m] \in Accounts => Registered[Owner[To[m]]] \subseteq Devices
  OBVIOUS
<1>2. AlwaysStored(m) => To[m] \in Accounts
  BY DEF AlwaysStored
<1>3. QED
  BY <1>1, <1>2 DEF Due

LEMMA DueIsDueSet ==
    [m \in Messages |-> Due(m)] \in Abs!DueSets
<1> DEFINE notices == [m \in Messages |->
                         {<<"callback", m>>} \cup {<<"push", m, d>> : d \in Devices}]
<1>1. \A m \in Messages : Due(m) \subseteq notices[m]
  BY DueType
<1> HIDE DEF notices
<1>2. [m \in Messages |-> Due(m)] \in [Messages -> SUBSET UNION {notices[m] : m \in Messages}]
  BY <1>1
<1>3. QED
  BY <1>2 DEF Abs!DueSets, notices

\* What a frame becomes when the broker answers it is a notice of its message.
LEMMA NoticeOfMessage ==
    ASSUME NEW n \in Notification
    PROVE  /\ n.msg \in Messages
           /\ Notice(n) \in {<<"callback", n.msg>>} \cup {<<"push", n.msg, d>> : d \in Devices}
  BY DEF Notification, Notice

\* An announcement is new to the line and to the acknowledged messages.
LEMMA AnnounceStep ==
    ASSUME TypeOK, QueueOrder, NEW m \in Messages, Announce(m)
    PROVE  Abs!Announce(m)
<1>1. acked \in Seq(Messages) /\ Line \in Seq(Messages) /\ log = acked \o Line
  <2>1. acked \in Seq(Messages) /\ HeldSeq \in Seq(Messages) /\ queue \in Seq(Messages)
    BY DEF TypeOK, HeldSeq
  <2>2. (acked \o HeldSeq) \o queue = acked \o (HeldSeq \o queue)
    BY <2>1, ConcatAssociative
  <2>3. QED
    BY <2>1, <2>2, LineType DEF QueueOrder, Line
<1>2. ASSUME NEW i \in DOMAIN acked
      PROVE  acked[i] \in Elements(log)
  <2>1. i \in DOMAIN log /\ log[i] = acked[i]
    BY <1>1, <1>2, ConcatProperties, LenProperties
  <2>2. QED
    BY <2>1 DEF Elements
<1>3. ASSUME NEW i \in DOMAIN Line
      PROVE  Line[i] \in Elements(log)
  <2>1. Len(acked) + i \in DOMAIN log /\ log[Len(acked) + i] = Line[i]
    BY <1>1, <1>3, ConcatProperties, LenProperties
  <2>2. QED
    BY <2>1 DEF Elements
<1>4. m \notin Abs!Elements(Line) \cup Abs!Elements(acked)
  BY <1>2, <1>3 DEF Announce, Abs!Elements
<1>5. Line' = Append(Line, m)
  BY LineOnAnnounce
<1>6. UNCHANGED <<accounts, acked, outbox, refused>>
  BY DEF Announce, dbVars, wireVars
<1>7. (\A k \in Messages : Due(k)' = Due(k)) /\ Answered' = Answered
  BY <1>6 DEF Due, AlwaysStored, Answered
<1>8. QED
  BY <1>4, <1>5, <1>6, <1>7 DEF Abs!Announce, Line

\* A change of the database can only excuse: a closed account is owed nothing.
LEMMA ExcuseStep ==
    ASSUME TypeOK, RowsOK, ChangeDatabase
    PROVE  Abs!Excuse
<1>1. \A m \in Messages : Due(m)' \subseteq Due(m)
  BY DebtShrinks DEF Next
<1>2. UNCHANGED <<held, queue, acked, outbox, refused>>
  BY DEF ChangeDatabase, brokerVars, wireVars
<1>3. [m \in Messages |-> Due(m)'] \in Abs!DueSets
  <2> DEFINE all == [m \in Messages |-> Due(m)]
  <2>1. all \in Abs!DueSets
    BY DueIsDueSet
  <2>2. \A m \in Messages : Due(m)' \subseteq all[m]
    BY <1>1
  <2>3. ASSUME NEW N, all \in [Messages -> SUBSET N]
        PROVE  [m \in Messages |-> Due(m)'] \in [Messages -> SUBSET N]
    BY <2>2, <2>3
  <2>4. QED
    BY <2>1, <2>3 DEF Abs!DueSets
<1>4. QED
  BY <1>1, <1>2, <1>3 DEF Abs!Excuse, HeldSeq, Answered

\* The ack settles the front of the line, with nothing owed for it left unanswered.
LEMMA SettleStep ==
    ASSUME TypeOK, AttemptOK, PublishedOK, Ack
    PROVE  Abs!Settle
<1>1. held \in Messages /\ held # NoMessage
  BY DEF Ack, AttemptOK, TypeOK
<1>2. Line = <<held>> \o queue /\ queue \in Seq(Messages) /\ Tail(Line) = queue
  BY <1>1, LineType DEF TypeOK
<1>3. Line # <<>> /\ Head(Line) = held
  BY <1>1, <1>2
<1>4. Due(held) \subseteq Answered
  BY DEF Ack, PublishedOK, NoticesInFlight
<1>5. acked' = Append(acked, held) /\ held' = NoMessage /\ queue' = queue
  BY DEF Ack
<1>6. Line' = queue
  BY <1>2, <1>5 DEF Line, HeldSeq
<1>7. UNCHANGED <<accounts, outbox, refused>>
  BY DEF Ack, dbVars, wireVars
<1>8. (\A m \in Messages : Due(m)' = Due(m)) /\ Answered' = Answered
  BY <1>7 DEF Due, AlwaysStored, Answered
<1>9. QED
  BY <1>1, <1>2, <1>3, <1>4, <1>5, <1>6, <1>8 DEF Abs!Settle, Line

\* Every other step may only add answers, and those are about the front of the
\* line or about messages settled before.
LEMMA AnswerStep ==
    ASSUME TypeOK, AttemptOK, WireOK, [Next]_vars, ~Ack, ~ChangeDatabase,
           \A m \in Messages : ~Announce(m)
    PROVE  Abs!Answer
<1>1. Line' = Line /\ acked' = acked
  BY LineKeeps
<1>2. /\ accounts' = accounts
      /\ outbox' \cup refused' \subseteq outbox \cup refused \cup inflight \cup stray
  <2>1. CASE \/ Deliver \/ Parse \/ ReadFrom \/ ReadTo \/ ReadDevices \/ Publish
             \/ DbFails \/ PublishFails \/ HandlerTimeout \/ Nack \/ Restart \/ UNCHANGED vars
    BY <2>1 DEF vars, dbVars, wireVars, Deliver, Parse, ReadFrom, ReadTo, ReadDevices,
       Publish, DbFails, PublishFails, HandlerTimeout, Nack, Restart
  <2>2. CASE \/ (\E n \in inflight : Accept(n) \/ Refuse(n))
             \/ (\E n \in stray : AcceptStray(n))
    BY <2>2 DEF dbVars, Accept, Refuse, AcceptStray
  <2>3. CASE ConnectionLost \/ Crash
    BY <2>3 DEF dbVars, ConnectionLost, Crash, LoseChannels
  <2>4. QED
    BY <2>1, <2>2, <2>3 DEF Next
<1>3. Answered \subseteq Answered'
  BY LogMonotone DEF Answered
<1>4. \A m \in Messages : Due(m)' = Due(m)
  BY <1>2 DEF Due, AlwaysStored
<1> DEFINE notices == [m \in Messages |->
                         {<<"callback", m>>} \cup {<<"push", m, d>> : d \in Devices}]
<1>5. ASSUME NEW x \in Answered' \ Answered
      PROVE  \E m \in Elements(acked) \cup Front : x \in notices[m]
  <2>1. PICK n \in outbox' \cup refused' : x = Notice(n)
    BY <1>5 DEF Answered, Notice
  <2>2. n \in inflight \cup stray
    BY <1>2, <1>5, <2>1 DEF Answered
  <2>3. n \in Notification
    BY <2>2 DEF TypeOK
  <2>4. n.msg \in Elements(acked) \cup Front
    <3>1. CASE n \in inflight
      BY <3>1, LineType DEF WireOK, AttemptOK
    <3>2. CASE n \in stray
      BY <3>2 DEF WireOK
    <3>3. QED
      BY <2>2, <3>1, <3>2
  <2>5. x \in notices[n.msg]
    BY <2>1, <2>3, NoticeOfMessage
  <2>6. QED
    BY <2>4, <2>5
<1> HIDE DEF notices
<1>6. Elements(acked) = Abs!Elements(acked)
  BY DEF Elements, Abs!Elements
<1>7. QED
  BY <1>1, <1>3, <1>4, <1>5, <1>6 DEF Abs!Answer, Line, Front, notices

LEMMA DeliveryStep ==
    ASSUME TypeOK, AttemptOK, RowsOK, QueueOrder, PublishedOK, WireOK, [Next]_vars
    PROVE  [Abs!Next]_(Abs!vars)
<1>1. ASSUME NEW m \in Messages, Announce(m)
      PROVE  Abs!Next
  BY <1>1, AnnounceStep DEF Abs!Next
<1>2. CASE ChangeDatabase
  BY <1>2, ExcuseStep DEF Abs!Next
<1>3. CASE Ack
  BY <1>3, SettleStep DEF Abs!Next
<1>4. CASE ~Ack /\ ~ChangeDatabase /\ \A m \in Messages : ~Announce(m)
  BY <1>4, AnswerStep DEF Abs!Next
<1>5. QED
  BY <1>1, <1>2, <1>3, <1>4

LEMMA DeliveryInit ==
    ASSUME Init
    PROVE  Abs!Init
<1>1. HeldSeq \o queue = <<>> /\ acked = <<>> /\ Answered = {}
  BY DEF Init, HeldSeq, Answered
<1>2. QED
  BY <1>1, DueIsDueSet DEF Abs!Init

-----------------------------------------------------------------------------
(* The theorems                                                            *)

\* The inductive invariant holds in every reachable state.
THEOREM Inductive == Spec => []IInv
<1>1. Init => IInv
  BY InitInv
<1>2. IInv /\ [Next]_vars => IInv'
  BY TypeStep, AttemptStep, RowsStep, OrderStep, AnnouncedStep, TxStep, PublishedStep,
     AckedStep, GenuineStep, WireStep DEF IInv
<1>3. QED
  BY <1>1, <1>2, PTL DEF Spec

\* No step of the broker, the handler or the API leaves a variable outside its
\* type, for any number of messages, accounts, users and devices.
THEOREM TypeCorrect == Spec => []TypeOK
<1>1. IInv => TypeOK
  BY DEF IInv
<1>2. QED
  BY <1>1, Inductive, PTL

\* No announcement is lost, duplicated or overtaken inside the gateway, however
\* often handling fails, the connection dies or the process crashes (lib.rs:141-159).
THEOREM NothingLostOrOvertaken == Spec => []QueueOrder
<1>1. IInv => QueueOrder
  BY DEF IInv
<1>2. QED
  BY <1>1, Inductive, PTL

\* The ack of lib.rs:145 comes only after the broker has answered every push and
\* the callback owed for the message.
THEOREM AckAfterAnswers == Spec => []AckedIsNotified
<1>1. IInv => AckedIsNotified
  BY DEF IInv
<1>2. QED
  BY <1>1, Inductive, PTL

\* Whatever rows the API changes between the Notificator's reads, a notification
\* goes to the receiver's devices and callback and names known accounts only
\* (services/rabbit.rs:39-124).
THEOREM OnlyGenuineNotifications == Spec => []NotificationsAreGenuine
<1>1. IInv => NotificationsAreGenuine
  BY DEF IInv
<1>2. QED
  BY <1>1, Inductive, PTL

\* The subscription loop and the Notificator keep the promise of module Delivery
\* (lib.rs:134-165, services/rabbit.rs:39-124): a message leaves the line only from
\* its front and only when all it owes has been answered, and whatever is on the
\* wire, of whichever attempt, is about that message or about one settled before.
THEOREM ImplementsPromise == Spec => ImplementsDelivery
<1>1. Init => Abs!Init
  BY DeliveryInit
<1>2. IInv /\ [Next]_vars => [Abs!Next]_(Abs!vars)
  BY DeliveryStep DEF IInv
<1>3. QED
  BY <1>1, <1>2, Inductive, PTL DEF Spec, ImplementsDelivery, Abs!Spec

=============================================================================
