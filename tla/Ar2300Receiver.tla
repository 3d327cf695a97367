--------------------------- MODULE Ar2300Receiver ---------------------------
(***************************************************************************)
(* The AR2300 receiver: lib/driver.c, lib/init.c, lib/ar2300_receiver.cc   *)
(* and lib/blocking_spsc_queue.cc.  The thread of the source block creates *)
(* the receiver, reads from it and stops it; the event thread runs the     *)
(* callbacks of libusb; libusb and the device complete transfers.          *)
(*                                                                         *)
(* A byte is the number of its arrival.  pop() of the queue is one step:   *)
(* its predicate is evaluated again when the time is up, so a wake-up that *)
(* was missed (push notifies without the mutex) costs time and no data.    *)
(***************************************************************************)
EXTENDS Integers, Sequences, FiniteSets

CONSTANTS
  Transfers,  \* the isochronous transfers (MAX_AR2300_ALLOCATED_PACKETS)
  NoTransfer,
  Capacity,   \* buffer_size of the queue, in bytes
  PacketLen,  \* the most bytes a packet of a transfer brings
  MaxBytes    \* bound: bytes a receiver gets in its life

ASSUME Ar2300Assumption ==
  /\ IsFiniteSet(Transfers) /\ NoTransfer \notin Transfers
  /\ Capacity \in Nat \ {0} /\ PacketLen \in Nat \ {0} /\ MaxBytes \in Nat

VARIABLES
  main,         \* the thread of the source block
  toSubmit,     \* transfers that ar2300_start_transfer has yet to submit
  transfer,     \* per transfer: "idle", "flying" (submitted), or its status
  cancel,       \* flying transfers libusb_cancel_transfer was called for
  orbit,        \* packets_in_orbit
  isoStatus,    \* "ready" | "cancelling"
  bulk,         \* the bulk transfer: "idle" | "flying" | "done"
  bulkStatus,   \* "idle" | "sent"
  run,          \* event_thread_run
  evt,          \* the event thread
  cur,          \* the transfer whose callback it runs
  err,          \* err_code # ERROR_CODE_NA
  received,     \* history: bytes that have arrived
  queue,        \* the queue of the receiver
  delivered,    \* history: what read() has returned
  submitFailed  \* history: libusb_submit_transfer has failed

usbVars  == <<transfer, cancel, bulk>>
dataVars == <<received, queue>>
vars == <<main, toSubmit, usbVars, orbit, isoStatus, bulkStatus, run, evt, cur,
          err, dataVars, delivered, submitFailed>>

MainStates ==
  {"none", "submit", "thread", "bulk", "started", "pop", "stopBulk", "stopIso",
   "cancelling", "close", "join", "stopped", "failed", "leaked"}

TypeOK ==
  /\ main \in MainStates
  /\ toSubmit \subseteq Transfers
  /\ transfer \in [Transfers -> {"idle", "flying", "completed", "cancelled", "error"}]
  /\ cancel \subseteq Transfers
  /\ orbit \in 0..Cardinality(Transfers)
  /\ isoStatus \in {"ready", "cancelling"}
  /\ bulk \in {"idle", "flying", "done"}
  /\ bulkStatus \in {"idle", "sent"}
  /\ run \in BOOLEAN
  /\ evt \in {"none", "loop", "packets", "incomplete", "reuse", "resubmit",
              "ended", "undefined"}
  /\ cur \in Transfers \cup {NoTransfer}
  /\ err \in BOOLEAN
  /\ received \in 0..MaxBytes
  /\ queue \in Seq(1..MaxBytes) /\ Len(queue) <= Capacity
  /\ delivered \in Seq(1..MaxBytes)
  /\ submitFailed \in BOOLEAN

Init ==
  /\ main = "none" /\ toSubmit = {}
  /\ transfer = [t \in Transfers |-> "idle"] /\ cancel = {} /\ orbit = 0
  /\ isoStatus = "ready" /\ bulk = "idle" /\ bulkStatus = "idle"
  /\ run = FALSE /\ evt = "none" /\ cur = NoTransfer /\ err = FALSE
  /\ received = 0 /\ queue = <<>> /\ delivered = <<>>
  /\ submitFailed = FALSE

-----------------------------------------------------------------------------
(* ar2300_receiver::start, called when the block is constructed *)

MainAt(from, to) == main = from /\ main' = to

\* start() up to ar2300_start_thread.  If the device cannot be opened start()
\* throws, and there is no receiver still.
Start ==
  /\ MainAt("none", "submit")
  /\ toSubmit' = Transfers
  /\ orbit' = 0 /\ isoStatus' = "ready" /\ bulkStatus' = "idle"
  /\ err' = FALSE /\ evt' = "none"
  /\ received' = 0 /\ queue' = <<>> /\ delivered' = <<>>
  /\ submitFailed' = FALSE
  /\ UNCHANGED <<usbVars, run, cur>>

\* ar2300_start_transfer submits the isochronous transfers one by one.
SubmitIso(t) ==
  /\ main = "submit" /\ t \in toSubmit
  /\ toSubmit' = toSubmit \ {t}
  /\ transfer' = [transfer EXCEPT ![t] = "flying"]
  /\ orbit' = orbit + 1
  /\ main' = IF toSubmit' = {} THEN "thread" ELSE "submit"
  /\ UNCHANGED <<cancel, bulk, isoStatus, bulkStatus, run, evt, cur, err, dataVars,
                 delivered, submitFailed>>

\* It returns at the first that fails; start() then throws.
SubmitIsoFails ==
  /\ MainAt("submit", "failed")
  /\ submitFailed' = TRUE
  /\ UNCHANGED <<toSubmit, usbVars, orbit, isoStatus, bulkStatus, run, evt, cur, err,
                 dataVars, delivered>>

CreateThread ==
  /\ MainAt("thread", "bulk")
  /\ ~run
  /\ run' = TRUE /\ evt' = "loop"
  /\ UNCHANGED <<toSubmit, usbVars, orbit, isoStatus, bulkStatus, cur, err, dataVars,
                 delivered, submitFailed>>

CreateThreadFails ==
  /\ MainAt("thread", "failed")
  /\ UNCHANGED <<toSubmit, usbVars, orbit, isoStatus, bulkStatus, run, evt, cur, err,
                 dataVars, delivered, submitFailed>>

\* The bulk transfer carries the command that starts, or stops, the device.
\* bulk_status is set before the transfer is submitted.
SendBulk(submitted) ==
  /\ bulkStatus = "idle" /\ bulkStatus' = "sent"
  /\ bulk' = IF submitted THEN "flying" ELSE bulk
  /\ submitFailed' = (submitFailed \/ ~submitted)
  /\ UNCHANGED <<toSubmit, transfer, cancel, orbit, isoStatus, run, evt, cur, err,
                 dataVars, delivered>>

StartBulk == MainAt("bulk", "started") /\ SendBulk(TRUE)

StartBulkFails == MainAt("bulk", "failed") /\ SendBulk(FALSE)

\* The constructor of the block throws too, and the receiver is destroyed:
\* started is not set, so its stop() returns at once and neither the event
\* thread nor the transfers are ended.  The interface stays claimed: no later
\* start() gets past ar2300_open.
DestroyFailed ==
  /\ MainAt("failed", "leaked")
  /\ UNCHANGED <<toSubmit, usbVars, orbit, isoStatus, bulkStatus, run, evt, cur, err,
                 dataVars, delivered, submitFailed>>

-----------------------------------------------------------------------------
(* ar2300_receiver::read and stop *)

OnlyMainMoves ==
  UNCHANGED <<toSubmit, usbVars, orbit, isoStatus, bulkStatus, run, evt, cur, err,
              dataVars, delivered, submitFailed>>

\* Mutant: read() does not look at the error.
ReadIgnoresError == MainAt("started", "pop") /\ OnlyMainMoves

\* read() stops the receiver (and then throws) once an error was reported.
Read ==
  /\ main = "started" /\ main' = IF err THEN "stopBulk" ELSE "pop"
  /\ OnlyMainMoves

PopTakes(n) ==
  /\ n \in 1..Len(queue)
  /\ MainAt("pop", "started")
  /\ delivered' = delivered \o SubSeq(queue, 1, n)
  /\ queue' = SubSeq(queue, n + 1, Len(queue))
  /\ UNCHANGED <<toSubmit, usbVars, orbit, isoStatus, bulkStatus, run, evt, cur, err,
                 received, submitFailed>>

PopTimesOut == MainAt("pop", "started") /\ queue = <<>> /\ OnlyMainMoves

\* The destructor of the block.
Stop == MainAt("started", "stopBulk") /\ OnlyMainMoves

\* ar2300_stop_transfer waits for the bulk transfer of the start and sends
\* the stop command; that the transfer was not submitted is kept for later.
StopBulk == MainAt("stopBulk", "stopIso") /\ SendBulk(TRUE)

StopBulkFails == MainAt("stopBulk", "stopIso") /\ SendBulk(FALSE)

SetCancelling ==
  /\ MainAt("stopIso", "cancelling")
  /\ isoStatus' = "cancelling"
  /\ UNCHANGED <<toSubmit, usbVars, orbit, bulkStatus, run, evt, cur, err, dataVars,
                 delivered, submitFailed>>

Flying == {t \in Transfers : transfer[t] = "flying"}

\* One round of the loop that cancels until everything has come back.
CancelTransfers ==
  /\ main = "cancelling"
  /\ bulkStatus # "idle" \/ orbit # 0
  /\ cancel' = Flying
  /\ UNCHANGED <<main, toSubmit, transfer, bulk, orbit, isoStatus, bulkStatus, run,
                 evt, cur, err, dataVars, delivered, submitFailed>>

\* Mutant: the loop ends when the stop command has been sent.
TransfersSent ==
  /\ MainAt("cancelling", "close") /\ bulkStatus = "idle"
  /\ OnlyMainMoves

TransfersStopped ==
  /\ MainAt("cancelling", "close")
  /\ bulkStatus = "idle" /\ orbit = 0
  /\ OnlyMainMoves

\* ar2300_close ends the event thread, and then frees the transfers.
Close ==
  /\ MainAt("close", "join")
  /\ run' = FALSE
  /\ UNCHANGED <<toSubmit, usbVars, orbit, isoStatus, bulkStatus, evt, cur, err,
                 dataVars, delivered, submitFailed>>

Free == MainAt("join", "stopped") /\ evt = "ended" /\ OnlyMainMoves

\* The receiver is destroyed: its stop() finds nothing to do.
Destroy == MainAt("stopped", "none") /\ OnlyMainMoves

-----------------------------------------------------------------------------
(* ar2300_libusb_event_thread and the callbacks it runs *)

EvtAt(from, to) == evt = from /\ evt' = to

\* A transfer has come back: callback_libusb_iso_done looks at its status.
IsoDone(t) ==
  /\ evt = "loop" /\ transfer[t] \in {"completed", "error"}
  /\ cur' = t
  /\ evt' = IF transfer[t] = "completed" THEN "packets" ELSE "reuse"
  /\ err' = (err \/ transfer[t] = "error")
  /\ UNCHANGED <<main, toSubmit, usbVars, orbit, isoStatus, bulkStatus, run,
                 dataVars, delivered, submitFailed>>

IsoCancelled(t) ==
  /\ evt = "loop" /\ transfer[t] = "cancelled"
  /\ transfer' = [transfer EXCEPT ![t] = "idle"]
  /\ orbit' = orbit - 1
  /\ UNCHANGED <<main, toSubmit, cancel, bulk, isoStatus, bulkStatus, run, evt, cur,
                 err, dataVars, delivered, submitFailed>>

\* iq_packet_write: what fits into the queue is pushed.  (A packet with an
\* error status of its own brings nothing and is not reported.)
WritePacket(n) ==
  LET fits == IF Capacity - Len(queue) < n THEN Capacity - Len(queue) ELSE n
  IN  /\ evt = "packets" /\ main # "leaked"
      /\ received + n <= MaxBytes
      /\ received' = received + n
      /\ queue' = queue \o [i \in 1..fits |-> received + i]
      /\ evt' = IF fits < n THEN "incomplete" ELSE "packets"
      /\ UNCHANGED <<main, toSubmit, usbVars, orbit, isoStatus, bulkStatus, run, cur,
                     err, delivered, submitFailed>>

\* The queue of a receiver that was destroyed is no more.
WriteUsesDestroyed ==
  /\ EvtAt("packets", "undefined") /\ main = "leaked"
  /\ UNCHANGED <<main, toSubmit, usbVars, orbit, isoStatus, bulkStatus, run, cur, err,
                 dataVars, delivered, submitFailed>>

\* err_callback with AR2300_ERR_INCOMPLETE_WRITE.
ReportIncomplete ==
  /\ EvtAt("incomplete", "packets")
  /\ err' = TRUE
  /\ UNCHANGED <<main, toSubmit, usbVars, orbit, isoStatus, bulkStatus, run, cur,
                 dataVars, delivered, submitFailed>>

PacketsDone ==
  /\ EvtAt("packets", "reuse")
  /\ UNCHANGED <<main, toSubmit, usbVars, orbit, isoStatus, bulkStatus, run, cur, err,
                 dataVars, delivered, submitFailed>>

\* Mutant: a transfer that comes back during the cancellation is not counted.
ReuseForgets ==
  /\ evt = "reuse"
  /\ evt' = IF isoStatus = "ready" THEN "resubmit" ELSE "loop"
  /\ transfer' = IF isoStatus = "ready" THEN transfer
                 ELSE [transfer EXCEPT ![cur] = "idle"]
  /\ UNCHANGED <<main, toSubmit, cancel, bulk, orbit, isoStatus, bulkStatus, run, cur,
                 err, dataVars, delivered, submitFailed>>

\* The end of the callback: the transfer is used again or leaves the orbit.
Reuse ==
  /\ evt = "reuse"
  /\ \/ /\ isoStatus = "ready"
        /\ evt' = "resubmit"
        /\ UNCHANGED <<transfer, orbit>>
     \/ /\ isoStatus = "cancelling"
        /\ evt' = "loop"
        /\ transfer' = [transfer EXCEPT ![cur] = "idle"]
        /\ orbit' = orbit - 1
  /\ UNCHANGED <<main, toSubmit, cancel, bulk, isoStatus, bulkStatus, run, cur, err,
                 dataVars, delivered, submitFailed>>

\* Mutant: every submission is counted.
ResubmitCounts ==
  /\ EvtAt("resubmit", "loop")
  /\ transfer' = [transfer EXCEPT ![cur] = "flying"]
  /\ cancel' = cancel \ {cur}
  /\ orbit' = orbit + 1
  /\ UNCHANGED <<main, toSubmit, bulk, isoStatus, bulkStatus, run, cur, err, dataVars,
                 delivered, submitFailed>>

Resubmit ==
  /\ EvtAt("resubmit", "loop")
  /\ transfer' = [transfer EXCEPT ![cur] = "flying"]
  /\ cancel' = cancel \ {cur}
  /\ UNCHANGED <<main, toSubmit, bulk, orbit, isoStatus, bulkStatus, run, cur, err,
                 dataVars, delivered, submitFailed>>

\* AR2300_ERR_USBISO_TRANSFER is reported; packets_in_orbit stays as it is.
ResubmitFails ==
  /\ EvtAt("resubmit", "loop")
  /\ transfer' = [transfer EXCEPT ![cur] = "idle"]
  /\ err' = TRUE /\ submitFailed' = TRUE
  /\ UNCHANGED <<main, toSubmit, cancel, bulk, orbit, isoStatus, bulkStatus, run, cur,
                 dataVars, delivered>>

\* callback_libusb_bulk_done; a bad status is not an error for the receiver.
BulkDone ==
  /\ evt = "loop" /\ bulk = "done"
  /\ bulk' = "idle" /\ bulkStatus' = "idle"
  /\ UNCHANGED <<main, toSubmit, transfer, cancel, orbit, isoStatus, run, evt, cur,
                 err, dataVars, delivered, submitFailed>>

EventThreadEnds ==
  /\ EvtAt("loop", "ended") /\ ~run
  /\ UNCHANGED <<main, toSubmit, usbVars, orbit, isoStatus, bulkStatus, run, cur, err,
                 dataVars, delivered, submitFailed>>

-----------------------------------------------------------------------------
(* libusb and the device *)

\* A submitted transfer comes back; a cancelled one may have been completed
\* before the cancellation reached it.
Complete(t, status) ==
  /\ transfer[t] = "flying"
  /\ status \in {"completed", "error"} \cup (IF t \in cancel THEN {"cancelled"} ELSE {})
  /\ transfer' = [transfer EXCEPT ![t] = status]
  /\ cancel' = cancel \ {t}
  /\ UNCHANGED <<main, toSubmit, bulk, orbit, isoStatus, bulkStatus, run, evt, cur, err,
                 dataVars, delivered, submitFailed>>

CompleteBulk ==
  /\ bulk = "flying" /\ bulk' = "done"
  /\ UNCHANGED <<main, toSubmit, transfer, cancel, orbit, isoStatus, bulkStatus, run,
                 evt, cur, err, dataVars, delivered, submitFailed>>

-----------------------------------------------------------------------------
Starting ==
  \/ Start \/ (\E t \in Transfers : SubmitIso(t)) \/ SubmitIsoFails
  \/ CreateThread \/ CreateThreadFails \/ StartBulk \/ StartBulkFails \/ DestroyFailed

Reading == Read \/ (\E n \in 1..Capacity : PopTakes(n)) \/ PopTimesOut

Stopping ==
  \/ StopBulk \/ StopBulkFails \/ SetCancelling \/ CancelTransfers \/ TransfersStopped
  \/ Close \/ Free

EventThread ==
  \/ \E t \in Transfers : IsoDone(t) \/ IsoCancelled(t)
  \/ (\E n \in 1..PacketLen : WritePacket(n)) \/ WriteUsesDestroyed \/ ReportIncomplete
  \/ PacketsDone \/ Reuse \/ Resubmit \/ ResubmitFails \/ BulkDone \/ EventThreadEnds

Libusb ==
  \/ \E t \in Transfers, s \in {"completed", "cancelled", "error"} : Complete(t, s)
  \/ CompleteBulk

Next == Starting \/ Reading \/ Stop \/ Stopping \/ Destroy \/ EventThread \/ Libusb

Spec == Init /\ [][Next]_vars

\* A stop() under way keeps running, and so does the event thread, which gets
\* to every callback that is due; libusb completes what was submitted: bulk
\* transfers have a time-out, isochronous ones are cancelled.
Fairness ==
  /\ WF_vars(Stopping) /\ WF_vars(EventThread)
  /\ SF_vars(BulkDone)
  /\ \A t \in Transfers :
       /\ WF_vars(\E s \in {"completed", "cancelled", "error"} : Complete(t, s))
       /\ SF_vars(IsoDone(t) \/ IsoCancelled(t))
  /\ WF_vars(CompleteBulk)

FairSpec == Spec /\ Fairness

-----------------------------------------------------------------------------
(* Properties *)

\* What libusb or its event thread still holds: submitted, or come back and
\* not yet through its callback.
InOrbit == {t \in Transfers : transfer[t] # "idle"}

Gap == \E i \in DOMAIN delivered : delivered[i] # i

\* When a packet did not fit into the queue, the read() that returns bytes
\* from behind the gap is the last one to return any: the error was reported
\* before those bytes could get into the queue, and read() throws from then on.
GapEndsReading == [][Gap => delivered' \in {delivered, <<>>}]_vars

\* The transfers and the handle are freed only when libusb holds none of them
\* and no callback can run any more, whatever transfers came back, were
\* reused or failed while stop() was cancelling them.
FreedWhenQuiet ==
  main = "stopped" => InOrbit = {} /\ bulk = "idle" /\ evt = "ended"

\* stop() returns, unless a transfer could not be submitted.
StopReturns == main = "stopBulk" ~> main = "stopped" \/ submitFailed

-----------------------------------------------------------------------------
(* The strengthening that makes the safety properties inductive. *)

\* packets_in_orbit may count too much (ResubmitFails), and never too little;
\* no transfer is submitted twice.
OrbitCovers ==
  /\ Cardinality(InOrbit) <= orbit
  /\ orbit + Cardinality(toSubmit) <= Cardinality(Transfers)

\* The callback's transfer is not in anybody else's hands.
CallbackOwns ==
  evt \in {"packets", "incomplete", "reuse", "resubmit"} =>
    cur \in Transfers /\ transfer[cur] \in {"completed", "error"}

BulkOwns == bulk # "idle" => bulkStatus = "sent"

\* Before the event thread is created, and from the end of the cancellation
\* to the next start.
QuietStages ==
  /\ main \in {"close", "join", "stopped", "none"} => InOrbit = {} /\ bulk = "idle"
  /\ main \in {"none", "submit", "thread"} => evt \in {"none", "ended"}
  /\ main = "stopped" => evt = "ended"

\* Until an error is reported the bytes in the reader's hands and in the queue
\* are the bytes received, but for the end of a packet that did not fit.
NothingMissing ==
  /\ ~err => \A i \in DOMAIN (delivered \o queue) : (delivered \o queue)[i] = i
  /\ ~err /\ evt # "incomplete" => Len(delivered) + Len(queue) = received
  /\ Gap => main # "pop"

IInv ==
  /\ TypeOK /\ OrbitCovers /\ CallbackOwns /\ BulkOwns /\ QuietStages
  /\ NothingMissing

=============================================================================
