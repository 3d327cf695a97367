------------------------ MODULE Ar2300ReceiverProofs ------------------------
(***************************************************************************)
(* Proofs about Ar2300Receiver, for every number of transfers, every       *)
(* capacity of the queue and every packet length: the driver frees its     *)
(* transfers only when they have all come back, and a gap in the data ends *)
(* the reading.                                                            *)
(***************************************************************************)
EXTENDS Ar2300Receiver, FiniteSetTheorems, SequenceTheorems, TLAPS

\* The sets whose members are counted are finite.
LEMMA OrbitFinite ==
  ASSUME TypeOK
  PROVE  /\ IsFiniteSet(InOrbit) /\ Cardinality(InOrbit) \in Nat
         /\ IsFiniteSet(toSubmit) /\ Cardinality(toSubmit) \in Nat
         /\ Cardinality(Transfers) \in Nat
<1>1. InOrbit \subseteq Transfers /\ toSubmit \subseteq Transfers
  BY DEF InOrbit, TypeOK
<1> QED
  BY <1>1, Ar2300Assumption, FS_Subset, FS_CardinalityType

\* Taking a transfer out of the orbit.
LEMMA OneLess ==
  ASSUME TypeOK, OrbitCovers, NEW t \in InOrbit, InOrbit' = InOrbit \ {t},
         toSubmit' = toSubmit, orbit' \in {orbit, orbit - 1}
  PROVE  OrbitCovers' /\ orbit' \in 0..Cardinality(Transfers)
<1>1. Cardinality(InOrbit \ {t}) = Cardinality(InOrbit) - 1
  BY OrbitFinite, FS_RemoveElement
<1>2. Cardinality(InOrbit \ {t}) \in Nat
  BY OrbitFinite, FS_RemoveElement, FS_CardinalityType
<1> QED
  BY <1>1, <1>2, OrbitFinite DEF OrbitCovers, TypeOK

\* packets_in_orbit never counts less than what libusb holds.
LEMMA OrbitStep ==
  IInv /\ [Next]_vars => OrbitCovers' /\ orbit' \in 0..Cardinality(Transfers)
<1> SUFFICES ASSUME IInv, [Next]_vars
             PROVE  OrbitCovers' /\ orbit' \in 0..Cardinality(Transfers)
  OBVIOUS
<1> DEFINE Goal == OrbitCovers' /\ orbit' \in 0..Cardinality(Transfers)
<1> USE DEF usbVars, dataVars
<1>0. TypeOK /\ OrbitCovers /\ CallbackOwns /\ QuietStages
  BY DEF IInv
<1>same. ASSUME InOrbit' = InOrbit, orbit' = orbit, toSubmit' = toSubmit
         PROVE  Goal
  BY <1>0, <1>same DEF OrbitCovers, TypeOK
<1>still. ASSUME transfer' = transfer, orbit' = orbit, toSubmit' = toSubmit
          PROVE  Goal
  BY <1>same, <1>still DEF InOrbit
<1>1. CASE Start
  <2>1. InOrbit' = {} /\ orbit' = 0 /\ toSubmit' = Transfers
    BY <1>0, <1>1 DEF Start, MainAt, QuietStages, InOrbit
  <2> QED
    BY <1>0, <2>1, OrbitFinite, FS_EmptySet DEF OrbitCovers
<1>2. ASSUME NEW t \in Transfers, SubmitIso(t) PROVE Goal
  <2>1. /\ t \in toSubmit /\ toSubmit' = toSubmit \ {t} /\ orbit' = orbit + 1
        /\ InOrbit' \subseteq InOrbit \cup {t}
    BY <1>0, <1>2 DEF SubmitIso, InOrbit, TypeOK
  <2>2. Cardinality(toSubmit \ {t}) = Cardinality(toSubmit) - 1
    BY <1>0, <2>1, OrbitFinite, FS_RemoveElement
  <2>3. /\ IsFiniteSet(InOrbit \cup {t})
        /\ Cardinality(InOrbit \cup {t}) <= Cardinality(InOrbit) + 1
    <3>1. IsFiniteSet(InOrbit) /\ Cardinality(InOrbit) \in Nat
      BY <1>0, OrbitFinite
    <3>2. /\ IsFiniteSet(InOrbit \cup {t})
          /\ Cardinality(InOrbit \cup {t})
               = IF t \in InOrbit THEN Cardinality(InOrbit) ELSE Cardinality(InOrbit) + 1
      BY <3>1, FS_AddElement
    <3> QED
      BY <3>1, <3>2
  <2>4. /\ Cardinality(InOrbit') <= Cardinality(InOrbit \cup {t})
        /\ Cardinality(InOrbit') \in Nat /\ Cardinality(InOrbit \cup {t}) \in Nat
    BY <2>1, <2>3, FS_Subset, FS_CardinalityType
  <2>5. Cardinality(toSubmit \ {t}) \in Nat
    BY <1>0, OrbitFinite, FS_RemoveElement, FS_CardinalityType
  <2> QED
    BY <1>0, <2>1, <2>2, <2>3, <2>4, <2>5, OrbitFinite DEF OrbitCovers, TypeOK
<1>3. CASE SubmitIsoFails \/ CreateThread \/ CreateThreadFails \/ StartBulk
             \/ StartBulkFails \/ DestroyFailed
  BY <1>3, <1>still DEF SubmitIsoFails, CreateThread, CreateThreadFails, StartBulk,
     StartBulkFails, SendBulk, DestroyFailed
<1>4. CASE Reading
  BY <1>4, <1>still DEF Reading, Read, PopTakes, PopTimesOut, OnlyMainMoves
<1>5. CASE Stop \/ Stopping \/ Destroy
  BY <1>5, <1>still DEF Stop, Stopping, Destroy, StopBulk, StopBulkFails, SendBulk,
     SetCancelling, CancelTransfers, TransfersStopped, Close, Free, OnlyMainMoves
<1>6. ASSUME NEW t \in Transfers, IsoDone(t) PROVE Goal
  BY <1>6, <1>still DEF IsoDone
<1>7. ASSUME NEW t \in Transfers, IsoCancelled(t) PROVE Goal
  <2>1. t \in InOrbit /\ InOrbit' = InOrbit \ {t}
    BY <1>0, <1>7 DEF IsoCancelled, InOrbit, TypeOK
  <2> QED
    BY <1>0, <1>7, <2>1, OneLess DEF IsoCancelled
<1>8. ASSUME NEW n \in 1..PacketLen, WritePacket(n) PROVE Goal
  BY <1>8, <1>still DEF WritePacket
<1>9. CASE WriteUsesDestroyed \/ ReportIncomplete \/ PacketsDone \/ BulkDone
             \/ EventThreadEnds \/ CompleteBulk
  BY <1>9, <1>still DEF WriteUsesDestroyed, ReportIncomplete, PacketsDone, BulkDone,
     EventThreadEnds, CompleteBulk
<1>10. CASE Reuse
  <2>1. cur \in InOrbit
    BY <1>0, <1>10 DEF Reuse, CallbackOwns, InOrbit
  <2>2. CASE isoStatus = "ready"
    BY <1>10, <1>still, <2>2 DEF Reuse
  <2>3. CASE isoStatus = "cancelling"
    <3>1. InOrbit' = InOrbit \ {cur}
      BY <1>0, <1>10, <2>1, <2>3 DEF Reuse, InOrbit, TypeOK
    <3>2. toSubmit' = toSubmit /\ orbit' = orbit - 1
      BY <1>10, <2>3 DEF Reuse
    <3> QED
      BY <1>0, <2>1, <3>1, <3>2, OneLess
  <2> QED
    BY <1>10, <2>2, <2>3 DEF Reuse
<1>11. CASE Resubmit
  <2>1. InOrbit' = InOrbit
    BY <1>0, <1>11 DEF Resubmit, EvtAt, CallbackOwns, InOrbit, TypeOK
  <2> QED
    BY <1>11, <1>same, <2>1 DEF Resubmit
<1>12. CASE ResubmitFails
  <2>1. cur \in InOrbit /\ InOrbit' = InOrbit \ {cur}
    BY <1>0, <1>12 DEF ResubmitFails, EvtAt, CallbackOwns, InOrbit, TypeOK
  <2> QED
    BY <1>0, <1>12, <2>1, OneLess DEF ResubmitFails
<1>13. ASSUME NEW t \in Transfers, NEW s \in {"completed", "cancelled", "error"},
              Complete(t, s)
       PROVE  Goal
  <2>1. InOrbit' = InOrbit
    BY <1>0, <1>13 DEF Complete, InOrbit, TypeOK
  <2> QED
    BY <1>13, <1>same, <2>1 DEF Complete
<1>14. CASE UNCHANGED vars
  BY <1>14, <1>still DEF vars
<1> QED
  BY <1>1, <1>2, <1>3, <1>4, <1>5, <1>6, <1>7, <1>8, <1>9, <1>10, <1>11, <1>12, <1>13,
     <1>14
  DEF Next, Starting, EventThread, Libusb

\* The callback, the bulk transfer and the stages of start() and stop().
LEMMA StageStep ==
  IInv /\ [Next]_vars => CallbackOwns' /\ BulkOwns' /\ QuietStages'
<1> SUFFICES ASSUME IInv, [Next]_vars
             PROVE  CallbackOwns' /\ BulkOwns' /\ QuietStages'
  OBVIOUS
<1> DEFINE Goal == CallbackOwns' /\ BulkOwns' /\ QuietStages'
<1> USE DEF usbVars, dataVars, CallbackOwns, BulkOwns, QuietStages, InOrbit
<1>0. TypeOK /\ CallbackOwns /\ BulkOwns /\ QuietStages
  BY DEF IInv
<1>1. CASE Start
  BY <1>0, <1>1 DEF Start, MainAt
<1>2. ASSUME NEW t \in Transfers, SubmitIso(t) PROVE Goal
  BY <1>0, <1>2 DEF SubmitIso, TypeOK
<1>3. CASE SubmitIsoFails \/ CreateThread \/ CreateThreadFails \/ DestroyFailed
  BY <1>0, <1>3 DEF SubmitIsoFails, CreateThread, CreateThreadFails, DestroyFailed, MainAt
<1>4. CASE StartBulk \/ StartBulkFails \/ StopBulk \/ StopBulkFails
  BY <1>0, <1>4 DEF StartBulk, StartBulkFails, StopBulk, StopBulkFails, SendBulk, MainAt
<1>5. CASE Reading \/ Stop \/ Destroy
  BY <1>0, <1>5 DEF Reading, Read, PopTakes, PopTimesOut, Stop, Destroy, OnlyMainMoves, MainAt
<1>6. CASE SetCancelling \/ CancelTransfers \/ Close \/ Free
  BY <1>0, <1>6 DEF SetCancelling, CancelTransfers, Close, Free, OnlyMainMoves, MainAt
<1>7. CASE TransfersStopped
  <2>1. InOrbit = {}
    BY <1>0, <1>7, OrbitFinite, FS_EmptySet DEF TransfersStopped, IInv, OrbitCovers
  <2>2. bulk = "idle"
    BY <1>0, <1>7 DEF TransfersStopped
  <2> QED
    BY <1>0, <1>7, <2>1, <2>2 DEF TransfersStopped, OnlyMainMoves, MainAt
<1>8. ASSUME NEW t \in Transfers, IsoDone(t) \/ IsoCancelled(t) PROVE Goal
  BY <1>0, <1>8 DEF IsoDone, IsoCancelled, TypeOK
<1>9. ASSUME NEW n \in 1..PacketLen, WritePacket(n) PROVE Goal
  BY <1>0, <1>9 DEF WritePacket
<1>10. CASE WriteUsesDestroyed \/ ReportIncomplete \/ PacketsDone \/ BulkDone
              \/ EventThreadEnds \/ CompleteBulk
  BY <1>0, <1>10 DEF WriteUsesDestroyed, ReportIncomplete, PacketsDone, BulkDone,
     EventThreadEnds, CompleteBulk, EvtAt
<1>11. CASE Reuse \/ Resubmit \/ ResubmitFails
  <2>1. cur \in Transfers /\ transfer[cur] # "idle"
    BY <1>0, <1>11 DEF Reuse, Resubmit, ResubmitFails, EvtAt
  <2>2. main \notin {"close", "join", "stopped", "none", "submit", "thread"}
    BY <1>0, <1>11, <2>1 DEF Reuse, Resubmit, ResubmitFails, EvtAt
  <2> QED
    BY <1>0, <1>11, <2>1, <2>2 DEF Reuse, Resubmit, ResubmitFails, EvtAt
<1>12. ASSUME NEW t \in Transfers, NEW s \in {"completed", "cancelled", "error"},
              Complete(t, s)
       PROVE  Goal
  BY <1>0, <1>12 DEF Complete, TypeOK
<1>13. CASE UNCHANGED vars
  BY <1>0, <1>13 DEF vars
<1> QED
  BY <1>1, <1>2, <1>3, <1>4, <1>5, <1>6, <1>7, <1>8, <1>9, <1>10, <1>11, <1>12, <1>13
  DEF Next, Starting, Stopping, EventThread, Libusb

\* What iq_packet_write leaves in the queue.
LEMMA PushedBytes ==
  ASSUME NEW q \in Seq(1..MaxBytes), Len(q) <= Capacity, NEW r \in 0..MaxBytes,
         NEW n \in 1..PacketLen, r + n <= MaxBytes, NEW k \in 0..n,
         k <= Capacity - Len(q)
  PROVE  LET p == q \o [i \in 1..k |-> r + i]
         IN  /\ p \in Seq(1..MaxBytes) /\ Len(p) = Len(q) + k /\ Len(p) <= Capacity
             /\ \A i \in 1..Len(q) : p[i] = q[i]
             /\ \A i \in Len(q) + 1..Len(q) + k : p[i] = r + (i - Len(q))
<1> DEFINE e == [i \in 1..k |-> r + i]
<1>1. /\ e \in Seq(1..MaxBytes) /\ Len(e) = k
      /\ \A i \in 1..k : e[i] = r + i
  <2>1. \A i \in 1..k : r + i \in 1..MaxBytes
    BY Ar2300Assumption
  <2>2. e \in [1..k -> 1..MaxBytes] /\ k \in Nat
    BY <2>1
  <2> QED
    BY <2>2
<1> HIDE DEF e
<1>2. /\ q \o e \in Seq(1..MaxBytes) /\ Len(q \o e) = Len(q) + k
      /\ \A i \in 1..Len(q) : (q \o e)[i] = q[i]
      /\ \A i \in Len(q) + 1..Len(q) + k : (q \o e)[i] = e[i - Len(q)]
  BY <1>1
<1>3. \A i \in Len(q) + 1..Len(q) + k : e[i - Len(q)] = r + (i - Len(q))
  BY <1>1
<1>4. Len(q) + k <= Capacity
  BY Ar2300Assumption
<1> QED
  BY <1>2, <1>3, <1>4 DEF e

\* What pop() moves from the queue to the reader.
LEMMA PoppedBytes ==
  ASSUME NEW d \in Seq(1..MaxBytes), NEW q \in Seq(1..MaxBytes), NEW n \in 1..Len(q)
  PROVE  LET e == d \o SubSeq(q, 1, n)
             p == SubSeq(q, n + 1, Len(q))
         IN  /\ e \in Seq(1..MaxBytes) /\ p \in Seq(1..MaxBytes)
             /\ Len(e) = Len(d) + n /\ Len(p) = Len(q) - n
             /\ \A i \in 1..Len(d) + Len(q) : (e \o p)[i] = (d \o q)[i]
<1> DEFINE a == SubSeq(q, 1, n)
           p == SubSeq(q, n + 1, Len(q))
<1>0. /\ Len(q) \in Nat /\ n \in Nat /\ 1 <= n /\ n <= Len(q) /\ Len(d) \in Nat
      /\ \A i \in 1..Len(q) : q[i] \in 1..MaxBytes
  <2>1. Len(q) \in Nat /\ Len(d) \in Nat
    BY LenProperties
  <2>2. \A i \in 1..Len(q) : q[i] \in 1..MaxBytes
    BY ElementOfSeq
  <2> QED
    BY <2>1, <2>2
<1>1. a \in Seq(1..MaxBytes) /\ Len(a) = n /\ \A i \in 1..n : a[i] = q[i]
  <2>1. /\ a \in Seq(1..MaxBytes) /\ Len(a) = IF 1 <= n THEN n - 1 + 1 ELSE 0
        /\ \A i \in 1..n - 1 + 1 : a[i] = q[1 + i - 1]
    BY <1>0, SubSeqProperties
  <2> HIDE DEF a
  <2> QED
    BY <1>0, <2>1
<1>2. /\ p \in Seq(1..MaxBytes) /\ Len(p) = Len(q) - n
      /\ \A i \in 1..Len(q) - n : p[i] = q[n + i]
  <2>1. /\ p \in Seq(1..MaxBytes)
        /\ Len(p) = IF n + 1 <= Len(q) THEN Len(q) - (n + 1) + 1 ELSE 0
        /\ \A i \in 1..Len(q) - (n + 1) + 1 : p[i] = q[(n + 1) + i - 1]
    BY <1>0, SubSeqProperties
  <2> HIDE DEF p
  <2>2. Len(q) - (n + 1) + 1 = Len(q) - n
    BY <1>0
  <2>3. \A i \in 1..Len(q) - n : (n + 1) + i - 1 = n + i
    BY <1>0
  <2>4. \A i \in 1..Len(q) - n : p[i] = q[n + i]
    BY <2>1, <2>2, <2>3
  <2>5. Len(p) = Len(q) - n
    BY <1>0, <2>1
  <2> QED
    BY <2>1, <2>4, <2>5
<1> HIDE DEF a, p
<1>3. /\ d \o a \in Seq(1..MaxBytes) /\ Len(d \o a) = Len(d) + n
      /\ \A i \in 1..Len(d) : (d \o a)[i] = d[i]
      /\ \A i \in Len(d) + 1..Len(d) + n : (d \o a)[i] = a[i - Len(d)]
  BY <1>1
<1>4. ASSUME NEW i \in 1..Len(d) + Len(q) PROVE ((d \o a) \o p)[i] = (d \o q)[i]
  <2>1. CASE i <= Len(d) + n
    BY <1>1, <1>2, <1>3, <2>1
  <2>2. CASE i > Len(d) + n
    <3>1. ((d \o a) \o p)[i] = p[i - (Len(d) + n)]
      BY <1>2, <1>3, <2>2
    <3>2. p[i - (Len(d) + n)] = q[n + (i - (Len(d) + n))]
      <4>1. i - (Len(d) + n) \in 1..Len(q) - n
        BY <1>0, <2>2
      <4> QED
        BY <1>2, <4>1
    <3>3. n + (i - (Len(d) + n)) = i - Len(d)
      OBVIOUS
    <3>4. (d \o q)[i] = q[i - Len(d)]
      BY <1>0, <2>2
    <3> QED
      BY <3>1, <3>2, <3>3, <3>4
  <2>3. i <= Len(d) + n \/ i > Len(d) + n
    BY <1>0
  <2> QED
    BY <2>1, <2>2, <2>3
<1> QED
  BY <1>2, <1>3, <1>4 DEF a, p

\* The bytes in the reader's hands, followed by those in the queue.
LEMMA Joined ==
  ASSUME NEW d \in Seq(1..MaxBytes), NEW q \in Seq(1..MaxBytes)
  PROVE  /\ Len(d) \in Nat /\ Len(q) \in Nat
         /\ DOMAIN d = 1..Len(d)
         /\ DOMAIN (d \o q) = 1..Len(d) + Len(q)
         /\ \A i \in 1..Len(d) + Len(q) :
              (d \o q)[i] = IF i <= Len(d) THEN d[i] ELSE q[i - Len(d)]
<1>1. Len(d) \in Nat /\ Len(q) \in Nat /\ DOMAIN d = 1..Len(d)
  BY LenProperties
<1>2. d \o q \in Seq(1..MaxBytes) /\ Len(d \o q) = Len(d) + Len(q)
  BY ConcatProperties
<1>3. DOMAIN (d \o q) = 1..Len(d) + Len(q)
  BY <1>2, LenProperties
<1>4. \A i \in 1..Len(d) + Len(q) :
        (d \o q)[i] = IF i <= Len(d) THEN d[i] ELSE q[i - Len(d)]
  BY ConcatProperties
<1> QED
  BY <1>1, <1>3, <1>4

\* A receiver that has received nothing.
LEMMA NothingYet ==
  /\ <<>> \in Seq(1..MaxBytes) /\ Len(<<>>) = 0
  /\ \A i \in DOMAIN <<>> : FALSE
  /\ \A i \in DOMAIN (<<>> \o <<>>) : FALSE
<1>1. <<>> \in Seq(1..MaxBytes) /\ Len(<<>>) = 0
  BY EmptySeq
<1>2. DOMAIN <<>> = 1..0 /\ DOMAIN (<<>> \o <<>>) = 1..0
  BY <1>1, Joined
<1>3. 1..0 = {}
  OBVIOUS
<1> QED
  BY <1>1, <1>2, <1>3

\* The two steps that move bytes.
LEMMA WriteStep ==
  ASSUME IInv, NEW n \in 1..PacketLen, WritePacket(n)
  PROVE  /\ queue' \in Seq(1..MaxBytes) /\ Len(queue') <= Capacity
         /\ received' \in 0..MaxBytes /\ NothingMissing'
<1> DEFINE k == IF Capacity - Len(queue) < n THEN Capacity - Len(queue) ELSE n
<1>0. TypeOK /\ NothingMissing
  BY DEF IInv
<1>1. /\ queue \in Seq(1..MaxBytes) /\ Len(queue) <= Capacity /\ Len(queue) \in Nat
      /\ delivered \in Seq(1..MaxBytes) /\ Len(delivered) \in Nat
      /\ received \in 0..MaxBytes /\ received + n <= MaxBytes
  BY <1>0, LenProperties DEF WritePacket, TypeOK
<1>2. k \in 0..n /\ k <= Capacity - Len(queue)
  BY <1>1, Ar2300Assumption
<1>3. /\ queue' = queue \o [i \in 1..k |-> received + i]
      /\ evt' = IF k < n THEN "incomplete" ELSE "packets"
      /\ received' = received + n /\ evt = "packets"
      /\ UNCHANGED <<main, err, delivered>>
  BY DEF WritePacket
<1> HIDE DEF k
<1>4. /\ queue' \in Seq(1..MaxBytes) /\ Len(queue') = Len(queue) + k
      /\ Len(queue') <= Capacity
      /\ \A i \in 1..Len(queue) : queue'[i] = queue[i]
      /\ \A i \in Len(queue) + 1..Len(queue) + k : queue'[i] = received + (i - Len(queue))
  BY <1>1, <1>2, <1>3, PushedBytes
<1>5. received' \in 0..MaxBytes
  BY <1>1, <1>3, Ar2300Assumption
<1>6. (Gap => main # "pop")'
  BY <1>0, <1>3 DEF NothingMissing, Gap
<1>7. ASSUME ~err
      PROVE  /\ \A i \in DOMAIN (delivered \o queue)' : (delivered \o queue)'[i] = i
             /\ evt' # "incomplete" => Len(delivered) + Len(queue') = received'
  <2>1. Len(delivered) + Len(queue) = received
    BY <1>0, <1>3, <1>7 DEF NothingMissing
  <2>2. ASSUME NEW i \in 1..Len(delivered) + Len(queue) + k
        PROVE  (delivered \o queue')[i] = i
    <3>0. /\ i \in 1..Len(delivered) + Len(queue')
          /\ (delivered \o queue')[i]
               = IF i <= Len(delivered) THEN delivered[i] ELSE queue'[i - Len(delivered)]
      <4>1. i \in 1..Len(delivered) + Len(queue')
        BY <1>1, <1>2, <1>4
      <4> QED
        BY <1>1, <1>4, <4>1, Joined
    <3>1. CASE i <= Len(delivered) + Len(queue)
      <4>1. i \in 1..Len(delivered) + Len(queue)
        BY <1>1, <1>2, <3>1
      <4>2. (delivered \o queue)[i] = i
        BY <1>0, <1>1, <1>7, <4>1, Joined DEF NothingMissing
      <4>3. (delivered \o queue)[i]
              = IF i <= Len(delivered) THEN delivered[i] ELSE queue[i - Len(delivered)]
        BY <1>1, <4>1, Joined
      <4>4. i > Len(delivered) => i - Len(delivered) \in 1..Len(queue)
        BY <1>1, <4>1
      <4>5. i > Len(delivered) => queue'[i - Len(delivered)] = queue[i - Len(delivered)]
        BY <1>4, <4>4
      <4>6. i <= Len(delivered) \/ i > Len(delivered)
        BY <1>1, <4>1
      <4> QED
        BY <3>0, <4>2, <4>3, <4>5, <4>6
    <3>2. CASE i > Len(delivered) + Len(queue)
      <4>1. i - Len(delivered) \in Len(queue) + 1..Len(queue) + k
        BY <1>1, <1>2, <3>2
      <4>2. ~(i <= Len(delivered))
        BY <1>1, <1>2, <3>2
      <4>3. queue'[i - Len(delivered)] = received + ((i - Len(delivered)) - Len(queue))
        BY <1>4, <4>1
      <4>4. received + ((i - Len(delivered)) - Len(queue)) = i
        BY <1>1, <1>2, <2>1
      <4> QED
        BY <3>0, <4>2, <4>3, <4>4
    <3>3. i <= Len(delivered) + Len(queue) \/ i > Len(delivered) + Len(queue)
      BY <1>1, <1>2
    <3> QED
      BY <3>1, <3>2, <3>3
  <2>3. DOMAIN (delivered \o queue') = 1..Len(delivered) + Len(queue) + k
    <3>1. DOMAIN (delivered \o queue') = 1..Len(delivered) + Len(queue')
      BY <1>1, <1>4, Joined
    <3>2. Len(delivered) + Len(queue') = Len(delivered) + Len(queue) + k
      BY <1>1, <1>2, <1>4
    <3> QED
      BY <3>1, <3>2
  <2>4. evt' # "incomplete" => k = n
    BY <1>1, <1>2, <1>3
  <2> QED
    <3>1. (delivered \o queue)' = delivered \o queue'
      BY <1>3
    <3>2. k = n => Len(delivered) + Len(queue') = received'
      <4>1. Len(queue') = Len(queue) + k /\ received' = received + n
        BY <1>3, <1>4
      <4> QED
        BY <1>1, <1>2, <2>1, <4>1
    <3> QED
      BY <2>2, <2>3, <2>4, <3>1, <3>2
<1> QED
  BY <1>3, <1>4, <1>5, <1>6, <1>7 DEF NothingMissing

LEMMA PopStep ==
  ASSUME IInv, NEW n \in 1..Capacity, PopTakes(n)
  PROVE  /\ queue' \in Seq(1..MaxBytes) /\ Len(queue') <= Capacity
         /\ delivered' \in Seq(1..MaxBytes) /\ NothingMissing'
<1>0. TypeOK /\ NothingMissing
  BY DEF IInv
<1>1. /\ queue \in Seq(1..MaxBytes) /\ Len(queue) <= Capacity /\ Len(queue) \in Nat
      /\ delivered \in Seq(1..MaxBytes) /\ Len(delivered) \in Nat
      /\ n \in 1..Len(queue)
  BY <1>0, LenProperties DEF PopTakes, TypeOK
<1>2. /\ delivered' = delivered \o SubSeq(queue, 1, n)
      /\ queue' = SubSeq(queue, n + 1, Len(queue))
      /\ main' = "started" /\ UNCHANGED <<evt, err, received>>
  BY DEF PopTakes, MainAt
<1>3. /\ delivered' \in Seq(1..MaxBytes) /\ queue' \in Seq(1..MaxBytes)
      /\ Len(delivered') = Len(delivered) + n /\ Len(queue') = Len(queue) - n
      /\ \A i \in 1..Len(delivered) + Len(queue) :
           (delivered' \o queue')[i] = (delivered \o queue)[i]
  BY <1>1, <1>2, PoppedBytes
<1>4. /\ Len(queue') <= Capacity
      /\ Len(delivered') + Len(queue') = Len(delivered) + Len(queue)
  BY <1>1, <1>3, Ar2300Assumption
<1>5. /\ DOMAIN (delivered \o queue) = 1..Len(delivered) + Len(queue)
      /\ DOMAIN (delivered' \o queue') = 1..Len(delivered) + Len(queue)
  <2>1. DOMAIN (delivered \o queue) = 1..Len(delivered) + Len(queue)
    BY <1>1, Joined
  <2>2. DOMAIN (delivered' \o queue') = 1..Len(delivered') + Len(queue')
    BY <1>3, Joined
  <2> QED
    BY <1>4, <2>1, <2>2
<1> QED
  BY <1>0, <1>2, <1>3, <1>4, <1>5 DEF NothingMissing

\* Every step keeps the types and the account of the bytes.
LEMMA DataStep == IInv /\ [Next]_vars => TypeOK' /\ NothingMissing'
<1> SUFFICES ASSUME IInv, [Next]_vars PROVE TypeOK' /\ NothingMissing'
  OBVIOUS
<1> USE DEF usbVars, dataVars
<1>0. TypeOK /\ NothingMissing /\ CallbackOwns
  BY DEF IInv
<1>orbit. orbit' \in 0..Cardinality(Transfers)
  BY OrbitStep
<1>same. ASSUME UNCHANGED <<dataVars, delivered>>, err => err', err' \/ evt' # "incomplete",
                evt # "incomplete" \/ err', main' = "pop" => main = "pop"
         PROVE  NothingMissing'
  BY <1>0, <1>same DEF NothingMissing, Gap
<1>keep. ASSUME UNCHANGED <<dataVars, delivered, err, evt>>, main' = "pop" => main = "pop"
         PROVE  NothingMissing'
  BY <1>0, <1>keep DEF NothingMissing, Gap
<1>1. CASE Start
  <2>1. TypeOK'
    <3>1. /\ queue' \in Seq(1..MaxBytes) /\ Len(queue') <= Capacity
          /\ delivered' \in Seq(1..MaxBytes) /\ received' \in 0..MaxBytes
      BY <1>1, Ar2300Assumption, NothingYet DEF Start
    <3> QED
      BY <1>0, <1>1, <1>orbit, <3>1 DEF Start, MainAt, TypeOK, MainStates
  <2>2. delivered' = <<>> /\ queue' = <<>> /\ received' = 0 /\ main' = "submit"
    BY <1>1 DEF Start, MainAt
  <2>3. NothingMissing'
    BY <2>2, NothingYet DEF NothingMissing, Gap
  <2> QED
    BY <2>1, <2>3
<1>2. ASSUME NEW t \in Transfers, SubmitIso(t) PROVE TypeOK' /\ NothingMissing'
  <2>1. TypeOK'
    BY <1>0, <1>2, <1>orbit DEF SubmitIso, TypeOK, MainStates
  <2> QED
    BY <1>2, <1>keep, <2>1 DEF SubmitIso
<1>3. CASE SubmitIsoFails \/ CreateThreadFails \/ DestroyFailed
  <2>1. TypeOK'
    <3>1. CASE SubmitIsoFails
      BY <1>0, <3>1, <1>orbit DEF SubmitIsoFails, MainAt, TypeOK, MainStates
    <3>2. CASE CreateThreadFails \/ DestroyFailed
      BY <1>0, <3>2, <1>orbit
      DEF CreateThreadFails, DestroyFailed, MainAt, TypeOK, MainStates
    <3> QED
      BY <1>3, <3>1, <3>2
  <2> QED
    BY <1>3, <1>keep, <2>1 DEF SubmitIsoFails, CreateThreadFails, DestroyFailed, MainAt
<1>4. CASE CreateThread
  <2>1. TypeOK'
    BY <1>0, <1>4, <1>orbit DEF CreateThread, MainAt, TypeOK, MainStates
  <2>2. evt # "incomplete"
    BY <1>4 DEF IInv, QuietStages, CreateThread, MainAt
  <2> QED
    BY <1>4, <1>same, <2>1, <2>2 DEF CreateThread, MainAt
<1>5. CASE StartBulk \/ StartBulkFails \/ StopBulk \/ StopBulkFails
  <2>1. TypeOK'
    BY <1>0, <1>5, <1>orbit DEF StartBulk, StartBulkFails, StopBulk, StopBulkFails,
       SendBulk, MainAt, TypeOK, MainStates
  <2> QED
    BY <1>5, <1>keep, <2>1
    DEF StartBulk, StartBulkFails, StopBulk, StopBulkFails, SendBulk, MainAt
<1>6. CASE Read
  <2>1. TypeOK'
    BY <1>0, <1>6, <1>orbit DEF Read, OnlyMainMoves, TypeOK, MainStates
  <2>2. UNCHANGED <<dataVars, delivered, err, evt>> /\ (main' = "pop" => ~err)
    BY <1>6 DEF Read, OnlyMainMoves
  <2>3. ~err => ~Gap
    <3>1. /\ DOMAIN delivered = 1..Len(delivered) /\ Len(delivered) \in Nat
          /\ DOMAIN (delivered \o queue) = 1..Len(delivered) + Len(queue)
          /\ Len(queue) \in Nat
          /\ \A i \in 1..Len(delivered) : (delivered \o queue)[i] = delivered[i]
      BY <1>0, LenProperties DEF TypeOK
    <3> QED
      BY <1>0, <3>1 DEF NothingMissing, Gap
  <2> QED
    BY <1>0, <2>1, <2>2, <2>3 DEF NothingMissing, Gap
<1>7. ASSUME NEW n \in 1..Capacity, PopTakes(n) PROVE TypeOK' /\ NothingMissing'
  BY <1>0, <1>7, <1>orbit, PopStep DEF PopTakes, MainAt, TypeOK, MainStates
<1>8. CASE PopTimesOut \/ Stop \/ TransfersStopped \/ Free \/ Destroy
  <2>1. TypeOK'
    <3>1. OnlyMainMoves /\ main' \in MainStates
      BY <1>8 DEF PopTimesOut, Stop, TransfersStopped, Free, Destroy, MainAt, MainStates
    <3> QED
      BY <1>0, <1>orbit, <3>1 DEF OnlyMainMoves, TypeOK
  <2> QED
    BY <1>8, <1>keep, <2>1
    DEF PopTimesOut, Stop, TransfersStopped, Free, Destroy, OnlyMainMoves, MainAt
<1>9. CASE SetCancelling \/ CancelTransfers \/ Close
  <2>1. TypeOK'
    <3>1. CASE SetCancelling
      BY <1>0, <1>orbit, <3>1 DEF SetCancelling, MainAt, TypeOK, MainStates
    <3>2. CASE CancelTransfers
      BY <1>0, <1>orbit, <3>2 DEF CancelTransfers, Flying, TypeOK
    <3>3. CASE Close
      BY <1>0, <1>orbit, <3>3 DEF Close, MainAt, TypeOK, MainStates
    <3> QED
      BY <1>9, <3>1, <3>2, <3>3
  <2> QED
    BY <1>9, <1>keep, <2>1 DEF SetCancelling, CancelTransfers, Close, MainAt
<1>10. ASSUME NEW t \in Transfers, IsoDone(t) \/ IsoCancelled(t)
       PROVE  TypeOK' /\ NothingMissing'
  <2>1. TypeOK'
    <3>1. CASE IsoDone(t)
      BY <1>0, <1>orbit, <3>1 DEF IsoDone, TypeOK
    <3>2. CASE IsoCancelled(t)
      BY <1>0, <1>orbit, <3>2 DEF IsoCancelled, TypeOK
    <3> QED
      BY <1>10, <3>1, <3>2
  <2>2. CASE IsoDone(t)
    BY <1>same, <2>1, <2>2 DEF IsoDone
  <2>3. CASE IsoCancelled(t)
    BY <1>keep, <2>1, <2>3 DEF IsoCancelled
  <2> QED
    BY <1>10, <2>2, <2>3
<1>11. ASSUME NEW n \in 1..PacketLen, WritePacket(n) PROVE TypeOK' /\ NothingMissing'
  BY <1>0, <1>11, <1>orbit, WriteStep DEF WritePacket, TypeOK
<1>12. CASE WriteUsesDestroyed \/ PacketsDone \/ EventThreadEnds
  <2>1. TypeOK'
    BY <1>0, <1>12, <1>orbit
    DEF WriteUsesDestroyed, PacketsDone, EventThreadEnds, EvtAt, TypeOK
  <2> QED
    BY <1>12, <1>same, <2>1 DEF WriteUsesDestroyed, PacketsDone, EventThreadEnds, EvtAt
<1>13. CASE ReportIncomplete
  <2>1. TypeOK'
    BY <1>0, <1>13, <1>orbit DEF ReportIncomplete, EvtAt, TypeOK
  <2> QED
    BY <1>13, <1>same, <2>1 DEF ReportIncomplete, EvtAt
<1>14. CASE Reuse \/ Resubmit \/ ResubmitFails
  <2>1. TypeOK'
    <3>1. CASE Reuse
      BY <1>0, <1>orbit, <3>1 DEF Reuse, TypeOK
    <3>2. CASE Resubmit
      BY <1>0, <1>orbit, <3>2 DEF Resubmit, EvtAt, TypeOK
    <3>3. CASE ResubmitFails
      BY <1>0, <1>orbit, <3>3 DEF ResubmitFails, EvtAt, TypeOK
    <3> QED
      BY <1>14, <3>1, <3>2, <3>3
  <2> QED
    BY <1>14, <1>same, <2>1 DEF Reuse, Resubmit, ResubmitFails, EvtAt
<1>15. CASE BulkDone \/ CompleteBulk
  <2>1. TypeOK'
    BY <1>0, <1>15, <1>orbit DEF BulkDone, CompleteBulk, TypeOK
  <2> QED
    BY <1>15, <1>keep, <2>1 DEF BulkDone, CompleteBulk
<1>16. ASSUME NEW t \in Transfers, NEW s \in {"completed", "cancelled", "error"},
              Complete(t, s)
       PROVE  TypeOK' /\ NothingMissing'
  <2>1. TypeOK'
    BY <1>0, <1>16, <1>orbit DEF Complete, TypeOK
  <2> QED
    BY <1>16, <1>keep, <2>1 DEF Complete
<1>17. CASE UNCHANGED vars
  <2>1. TypeOK'
    BY <1>0, <1>17 DEF vars, TypeOK
  <2> QED
    BY <1>17, <1>keep, <2>1 DEF vars
<1> QED
  BY <1>1, <1>2, <1>3, <1>4, <1>5, <1>6, <1>7, <1>8, <1>9, <1>10, <1>11, <1>12, <1>13,
     <1>14, <1>15, <1>16, <1>17
  DEF Next, Starting, Reading, Stopping, EventThread, Libusb

\* The inductive invariant holds in every reachable state.
THEOREM ReceiverInvariant == Spec => []IInv
<1>1. Init => IInv
  <2> SUFFICES ASSUME Init PROVE IInv
    OBVIOUS
  <2>1. InOrbit = {} /\ Cardinality({}) = 0 /\ Cardinality(Transfers) \in Nat
    BY Ar2300Assumption, FS_EmptySet, FS_CardinalityType DEF Init, InOrbit
  <2>2. TypeOK
    <3>1. /\ queue \in Seq(1..MaxBytes) /\ Len(queue) <= Capacity
          /\ delivered \in Seq(1..MaxBytes) /\ received \in 0..MaxBytes
      BY Ar2300Assumption, NothingYet DEF Init
    <3>2. orbit \in 0..Cardinality(Transfers)
      BY <2>1 DEF Init
    <3> QED
      BY <3>1, <3>2 DEF Init, TypeOK, MainStates
  <2>3. OrbitCovers /\ CallbackOwns /\ BulkOwns /\ QuietStages
    BY <2>1 DEF Init, OrbitCovers, CallbackOwns, BulkOwns, QuietStages
  <2>4. NothingMissing
    BY NothingYet DEF Init, NothingMissing, Gap
  <2> QED
    BY <2>2, <2>3, <2>4 DEF IInv
<1>2. IInv /\ [Next]_vars => IInv'
  BY OrbitStep, StageStep, DataStep DEF IInv
<1> QED
  BY <1>1, <1>2, PTL DEF Spec

\* Type correctness: packets_in_orbit stays between 0 and the number of
\* transfers, and the queue within its capacity.
THEOREM ReceiverTypeCorrect == Spec => []TypeOK
<1>1. IInv => TypeOK
  BY DEF IInv
<1> QED
  BY <1>1, ReceiverInvariant, PTL

\* stop() frees transfers and handle only when nobody uses them any more.
THEOREM ReceiverFreesQuietly == Spec => []FreedWhenQuiet
<1>1. IInv => FreedWhenQuiet
  BY DEF IInv, QuietStages, FreedWhenQuiet
<1> QED
  BY <1>1, ReceiverInvariant, PTL

\* The read() that crosses a gap in the data is the last to return any.
THEOREM GapIsTheEnd == Spec => GapEndsReading
<1>1. IInv /\ [Next]_vars => [Gap => delivered' \in {delivered, <<>>}]_vars
  <2> SUFFICES ASSUME IInv, Next, Gap PROVE delivered' \in {delivered, <<>>}
    BY DEF vars
  <2>1. main # "pop"
    BY DEF IInv, NothingMissing
  <2> USE DEF usbVars, dataVars
  <2>2. CASE Starting
    BY <2>2 DEF Starting, Start, SubmitIso, SubmitIsoFails, CreateThread,
       CreateThreadFails, StartBulk, StartBulkFails, SendBulk, DestroyFailed
  <2>3. CASE Reading \/ Stop \/ Destroy
    BY <2>1, <2>3
    DEF Reading, Read, PopTakes, PopTimesOut, Stop, Destroy, OnlyMainMoves, MainAt
  <2>4. CASE Stopping
    BY <2>4 DEF Stopping, StopBulk, StopBulkFails, SendBulk, SetCancelling,
       CancelTransfers, TransfersStopped, Close, Free, OnlyMainMoves
  <2>5. CASE EventThread
    BY <2>5 DEF EventThread, IsoDone, IsoCancelled, WritePacket, WriteUsesDestroyed,
       ReportIncomplete, PacketsDone, Reuse, Resubmit, ResubmitFails, BulkDone,
       EventThreadEnds
  <2>6. CASE Libusb
    BY <2>6 DEF Libusb, Complete, CompleteBulk
  <2> QED
    BY <2>2, <2>3, <2>4, <2>5, <2>6 DEF Next
<1> QED
  BY <1>1, ReceiverInvariant, PTL DEF Spec, GapEndsReading

=============================================================================
