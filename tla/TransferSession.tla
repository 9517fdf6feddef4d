--------------------------- MODULE TransferSession ---------------------------
(***************************************************************************)
(* A control-plane transfer over one Session: open_transfer_session parks  *)
(* the holder's end in the SessionManager and spawns the populator         *)
(* (stage_phase); pull_from of the remote search attaches, pulls what the  *)
(* holder committed (stage_from_session), and closes the holder's session. *)
(***************************************************************************)
EXTENDS Session

CONSTANTS
    Transfers             \* what the holder may find, in batches (G2, staged G1, staged G3), and
                          \* what the puller may ask: a selector, {} for None, {hashes} for
                          \* Some, and whether only the complete lineage is of use

TransferClosers == [populator |-> Holder, watcher |-> Holder, rpc |-> Holder, staging |-> Puller]

ASSUME TransferConstants ==
    /\ Closers = TransferClosers
    /\ Transfers \subseteq [find : Seq(SUBSET Hashes \ {{}}), selector : SUBSET SUBSET Hashes,
                            complete : BOOLEAN]
    /\ \A t \in Transfers : \A i, j \in DOMAIN t.find : i # j => t.find[i] \cap t.find[j] = {}

VARIABLES
    find,                 \* the batches the search of the holder found
    populator,            \* its next step: a batch, or one of the other calls
    watcher,              \* the manager's watcher of the session
    parked,               \* the manager's map has the session
    stage                 \* the pull transaction

transferVars == <<sessionVars, find, populator, watcher, parked, stage>>

Committed == UNION Range(find)

TransferInit ==
    /\ SessionInit
    /\ populator = [at |-> "commit", batch |-> 1]
    /\ watcher = "watching"
    /\ parked = TRUE
    /\ \E t \in Transfers :
         /\ find = t.find
         /\ stage = [at |-> "draining", complete |-> t.complete, selector |-> t.selector,
                     target |-> {}, seen |-> {}, pulled |-> {}, chunk |-> {}, pull_id |-> 0,
                     ok |-> FALSE]

----------------------------------------------------------------------------
\* The populator.

PopulatorAt(step, next, batch) ==
    /\ populator.at = step
    /\ populator' = [at |-> next, batch |-> batch]
    /\ UNCHANGED <<find, watcher, parked, stage>>

\* An error of any call ends the task with session.close.
PopulatorFails(step) == PopulatorAt(step, "failed", populator.batch) /\ CloseMark("populator")

stage_commit ==
    \/ /\ PopulatorAt("commit", "finish_commits", 1)
       /\ IF Committed = {} THEN UNCHANGED sessionVars ELSE commit(Holder, Committed)
    \/ Committed # {} /\ end[Holder].commits_closed /\ PopulatorFails("commit")

stage_finish_commits == PopulatorAt("finish_commits", "publish", 1) /\ finish_commits(Holder)

\* A batch is published once it is resident; staging it or its checksums may
\* fail, and so may the publication, after it took its pins.
stage_batch ==
    /\ populator.batch \in DOMAIN find
    /\ \/ /\ PopulatorAt("publish", IF CanEnqueue(Holder) THEN "publish" ELSE "refused",
                          populator.batch + 1)
          /\ publish_available(Holder, find[populator.batch])
       \/ PopulatorFails("publish")

stage_refused == PopulatorFails("refused")

stage_finish_availability ==
    /\ populator.batch > Len(find)
    /\ PopulatorAt("publish", "done", populator.batch)
    /\ finish_availability(Holder)

stage_phase ==
    \/ stage_commit \/ stage_finish_commits \/ stage_batch \/ stage_refused
    \/ stage_finish_availability

----------------------------------------------------------------------------
\* The manager: the watcher closes on a terminal lifecycle event or when its
\* watchdog expires, then keeps the session while a pull is in flight.

watcher_close ==
    /\ watcher = "watching"
    /\ CloseMark("watcher")
    /\ watcher' = "closing"
    /\ UNCHANGED <<find, populator, parked, stage>>

has_inflight_pulls == end[Holder].inbound_pulls # {}

watcher_evict ==
    /\ watcher = "closing" /\ closer["watcher"] = "done" /\ ~ has_inflight_pulls
    /\ watcher' = "evicted" /\ parked' = FALSE
    /\ UNCHANGED <<sessionVars, find, populator, stage>>

\* The puller asks the holder to close once its pull has returned.
close_transfer_session ==
    /\ stage.at = "returned" /\ parked /\ parked' = FALSE
    /\ CloseMark("rpc")
    /\ UNCHANGED <<find, populator, watcher, stage>>

----------------------------------------------------------------------------
\* The pull transaction.

StageAt(step, next) ==
    /\ stage.at = step
    /\ stage' = next
    /\ UNCHANGED <<find, populator, watcher, parked>>

To(step) == [stage EXCEPT !.at = step]
\* The transaction is over; an error drops what was pulled so far.
Over == [stage EXCEPT !.at = "ending", !.target = {}, !.seen = {}, !.chunk = {}]
Failed == [Over EXCEPT !.pulled = {}]
Succeeded == [Over EXCEPT !.ok = TRUE]

\* Mutant: the end of the commit stream is not awaited.
select_hashes_Early ==
    LET committed == end[Puller].peer_committed
        missing == \E h \in stage.selector : ~ (h \subseteq committed)
        target == IF stage.selector = {} THEN committed ELSE UNION stage.selector
    IN  /\ StageAt("draining",
                   IF missing \/ (target = {} /\ stage.complete) THEN Failed
                   ELSE IF target = {} THEN Succeeded
                   ELSE [To("waiting") EXCEPT !.target = target])
        /\ end' = [end EXCEPT ![Puller].avail_stream =
                       IF @ = << >> THEN @ ELSE <<UNION Range(@)>>]
        /\ UNCHANGED <<queue, sender, monitor, closer, lost>>

\* drain_committed and select_hashes, then the availability stream, whose
\* buffered deltas are coalesced.
select_hashes ==
    LET committed == end[Puller].peer_committed
        missing == \E h \in stage.selector : ~ (h \subseteq committed)
        target == IF stage.selector = {} THEN committed ELSE UNION stage.selector
    IN  /\ end[Puller].peer_commits_closed
        /\ StageAt("draining",
                   IF missing \/ (target = {} /\ stage.complete) THEN Failed
                   ELSE IF target = {} THEN Succeeded
                   ELSE [To("waiting") EXCEPT !.target = target])
        /\ end' = [end EXCEPT ![Puller].avail_stream =
                       IF @ = << >> THEN @ ELSE <<UNION Range(@)>>]
        /\ UNCHANGED <<queue, sender, monitor, closer, lost>>

\* A chunk of one delta, or the complete lineage when all of it was seen.
next_available ==
    /\ end[Puller].avail_stream # << >>
    /\ LET delta == Head(end[Puller].avail_stream) \cap stage.target
           seen == stage.seen \cup delta
           chunk == IF ~ stage.complete THEN delta \ stage.pulled
                    ELSE IF seen = stage.target THEN seen ELSE {}
       IN  StageAt("waiting", [To(IF chunk = {} THEN "waiting" ELSE "reserving")
                                   EXCEPT !.seen = seen, !.chunk = chunk])
    /\ end' = [end EXCEPT ![Puller].avail_stream = Tail(@)]
    /\ UNCHANGED <<queue, sender, monitor, closer, lost>>

availability_drained ==
    /\ end[Puller].avail_stream = << >> /\ end[Puller].peer_avail_drained
    /\ StageAt("waiting", Failed)
    /\ UNCHANGED sessionVars

reserve ==
    \/ /\ StageAt("reserving", [To("inserted") EXCEPT !.pull_id = @ + 1])
       /\ PullInsert(Puller, stage.pull_id + 1)
    \/ StageAt("reserving", Failed) /\ UNCHANGED sessionVars

pull_send ==
    \/ StageAt("inserted", To("sent")) /\ PullSend(Puller, stage.pull_id, stage.chunk)
    \/ StageAt("inserted", Failed) /\ PullRefused(Puller, stage.pull_id)

pull_reply ==
    /\ Replied(Puller, stage.pull_id)
    /\ StageAt("sent", IF Reply(Puller, stage.pull_id).ok THEN To("reading") ELSE Failed)
    /\ end' = [end EXCEPT ![Puller].replies = {}]
    /\ UNCHANGED <<queue, sender, monitor, closer, lost>>

\* The read is terminal; it, the acknowledgement, the verification and the
\* staging of the chunk may fail.
pull_ack ==
    LET pulled == stage.pulled \cup stage.chunk
    IN  /\ \/ StageAt("reading", Failed)
           \/ /\ CanEnqueue(Puller)
              /\ StageAt("reading", [(IF pulled = stage.target THEN Succeeded ELSE To("waiting"))
                                         EXCEPT !.pulled = pulled])
        /\ PullAcked(Puller, stage.pull_id)

stage_end ==
    /\ StageAt("ending", To("returned"))
    /\ IF stage.ok THEN finalize(Puller) ELSE CloseMark("staging")

stage_from_session ==
    \/ select_hashes \/ next_available \/ availability_drained \/ reserve
    \/ pull_send \/ pull_reply \/ pull_ack \/ stage_end

----------------------------------------------------------------------------

TransferNext ==
    \/ stage_phase \/ watcher_close \/ watcher_evict \/ close_transfer_session
    \/ stage_from_session
    \/ SessionStep /\ UNCHANGED <<find, populator, watcher, parked, stage>>

\* Every task runs, and none of them takes more than a bounded number of steps;
\* a connection need not break, and the request to close may be lost.
TaskNext ==
    \/ stage_phase \/ watcher_close \/ watcher_evict \/ stage_from_session
    \/ /\ UNCHANGED <<find, populator, watcher, parked, stage>>
       /\ \/ \E s \in Ends : TaskStep(s)
          \/ \E c \in DOMAIN Closers : CloseStep(c)

Fairness == WF_transferVars(TaskNext)

TransferSpec == TransferInit /\ [][TransferNext]_transferVars /\ Fairness

(***************************************************************************)
(* Properties                                                              *)
(***************************************************************************)

\* Every variable stays in its type.
TransferTypeOK ==
    /\ \A s \in Ends : LET e == end[s] IN
         /\ {e.committed, e.pins, e.peer_committed} \subseteq SUBSET Hashes
         /\ e.inbound_pulls \subseteq [id : Nat, hashes : SUBSET Hashes]
         /\ e.pending_pulls \subseteq Nat
    /\ sender \in [Ends -> {"pending", "running", "ended", "dropped"}]
    /\ monitor \in [Ends -> {"running", "exited"}]
    /\ closer \in [DOMAIN Closers -> {"idle", "marked", "sealed", "done"}]
    /\ populator.at \in {"commit", "finish_commits", "publish", "refused", "done", "failed"}
    /\ stage.at \in {"draining", "waiting", "reserving", "inserted", "sent", "reading", "ending",
                     "returned"}

\* A block is never read over RDMA after its pin at the holder is gone: close,
\* the watchdog, an acknowledgement and a broken connection leave the pins of
\* an authorized pull in place.
SourcePinned ==
    /\ stage.at = "reading" => stage.chunk \subseteq end[Holder].pins
    /\ \A p \in end[Holder].inbound_pulls : p.hashes \subseteq end[Holder].pins

\* A sealed snapshot of the peer's commits is the peer's whole committed set,
\* whichever of commit, close and the monitors ran first, unless the stream of
\* the peer broke: with the connection, or dropped by an attach that was given
\* up.
SealedIsWhole ==
    end[Puller].peer_commits_closed /\ ~ StreamBroken(Puller) =>
        end[Puller].peer_committed = end[Holder].committed

\* Once a close has reached its release and no pull is authorized, no pin is
\* left, however publication, acknowledgements and other closes interleave.
NoLeakedPins ==
    /\ \E c \in DOMAIN Closers : Closers[c] = Holder /\ closer[c] = "done"
    /\ ~ has_inflight_pulls
    => end[Holder].pins = {}

TransferInv == TransferTypeOK /\ SourcePinned /\ SealedIsWhole /\ NoLeakedPins

\* A pull that succeeds has pulled what was asked: the selected hashes, whatever
\* broke, or else every hash the puller heard of, which are all the holder
\* committed unless the holder's stream broke.
Asked == IF stage.selector = {} THEN end[Puller].peer_committed ELSE UNION stage.selector
PullIsCompleteUnlessBroken ==
    stage.at = "returned" /\ stage.ok =>
        /\ stage.pulled = Asked
        /\ StreamBroken(Puller) \/ stage.selector # {} \/ stage.pulled = end[Holder].committed

\* Once the holder has attached its stream the pull returns: no close, refusal,
\* failed attach or broken connection leaves it parked on a stream or a reply.
PullReturns ==
    (end[Holder].attach \in {"attached", "installed", "dropped"}) ~> (stage.at = "returned")

\* The watcher evicts the session with no pin left, unless the connection
\* broke: every authorized pull is acknowledged.
QuarantineEnds ==
    (watcher = "closing") ~> (lost \/ (watcher = "evicted" /\ end[Holder].pins = {}))
====
