------------------------------- MODULE Session -------------------------------
(***************************************************************************)
(* VeloSession of kvbm-engine: one P2P session between the instance that   *)
(* opened it (Holder) and the instance that attached to it (Puller).  Both *)
(* ends run the same code: an outbound sender, a monitor that dispatches   *)
(* the frames of the peer, and callers that publish, pull and close.       *)
(*                                                                         *)
(* A hash stands for the block that carries it, so block ids, destinations *)
(* and checksums are left out; the order of the hashes of a frame is too.  *)
(***************************************************************************)
EXTENDS Naturals, Sequences, FiniteSets, SequencesExt

CONSTANTS
    Hashes,
    Closers,              \* the callers of close, each with the end it closes
    MaxClosers            \* bound on the closes of one end under way at a time

ASSUME SessionConstants == IsFiniteSet(Hashes) /\ MaxClosers \in Nat

Holder == "holder"
Puller == "puller"
Ends == {Holder, Puller}
Peer(s) == CHOOSE e \in Ends : e # s

VARIABLES
    end,                  \* VeloSessionInner of each end
    queue,                \* frames enqueued and not yet dispatched by the peer
    sender,               \* the outbound sender task of each end
    monitor,              \* the monitor task of each end
    closer,               \* how far each caller of close is
    lost                  \* the connection broke

sessionVars == <<end, queue, sender, monitor, closer, lost>>

Frame(kind, id, hashes) == [kind |-> kind, id |-> id, hashes |-> hashes]
Signal(kind) == Frame(kind, 0, {})

\* new_inner; the attached end also installs its sender and enqueues Attach.
new_inner(s) ==
    [closed |-> FALSE, close_token |-> FALSE, attach |-> "none", installable |-> s = Holder,
     committed |-> {}, commits_closed |-> FALSE, pins |-> {}, avail_drained |-> FALSE,
     peer_committed |-> {}, peer_commits_closed |-> FALSE,
     peer_avail_drained |-> FALSE, avail_stream |-> << >>,
     inbound_pulls |-> {}, pending_pulls |-> {}, replies |-> {},
     local_finished |-> FALSE, peer_finished |-> FALSE, finalize_enqueued |-> FALSE]

SessionInit ==
    /\ end = [s \in Ends |-> new_inner(s)]
    /\ queue = [s \in Ends |-> IF s = Puller THEN <<Signal("Attach")>> ELSE << >>]
    /\ sender = [s \in Ends |-> IF s = Puller THEN "running" ELSE "pending"]
    /\ monitor = [s \in Ends |-> "running"]
    /\ closer = [c \in DOMAIN Closers |-> "idle"]
    /\ lost = FALSE

\* enqueue_frame fails once the sender task is gone; a frame enqueued on a broken
\* connection, or for a peer that no longer listens, goes nowhere.
CanEnqueue(s) == sender[s] \in {"pending", "running"}
Delivers(s) == CanEnqueue(s) /\ ~ lost /\ monitor[Peer(s)] = "running"
Enqueue(s, frames) ==
    queue' = IF Delivers(s) THEN [queue EXCEPT ![s] = @ \o frames] ELSE queue

\* The frames of a terminator that is still due, and of the velo finalize.
Due(done, kind) == IF done THEN << >> ELSE <<Signal(kind)>>
Finalize(e) == Due(e.finalize_enqueued, "Finalize")

----------------------------------------------------------------------------
\* The holder's side of the surface.

commit(s, hashes) ==
    /\ ~ end[s].commits_closed
    /\ end' = [end EXCEPT ![s].committed = @ \cup hashes]
    /\ Enqueue(s, IF hashes = {} THEN << >> ELSE <<Frame("Commit", 0, hashes)>>)
    /\ UNCHANGED <<sender, monitor, closer, lost>>

finish_commits(s) ==
    /\ end' = [end EXCEPT ![s].commits_closed = TRUE]
    /\ Enqueue(s, Due(end[s].commits_closed, "CommitsClosed"))
    /\ UNCHANGED <<sender, monitor, closer, lost>>

\* The pins are taken before the frame is enqueued, and stay when that fails.
publish_available(s, hashes) ==
    /\ ~ end[s].avail_drained
    /\ hashes \subseteq end[s].committed
    /\ end' = [end EXCEPT ![s].pins = @ \cup hashes]
    /\ Enqueue(s, <<Frame("Available", 0, hashes)>>)
    /\ UNCHANGED <<sender, monitor, closer, lost>>

finish_availability(s) ==
    /\ end' = [end EXCEPT ![s].avail_drained = TRUE]
    /\ Enqueue(s, Due(end[s].avail_drained, "Drained"))
    /\ UNCHANGED <<sender, monitor, closer, lost>>

\* Cooperative shutdown: the terminators, Finished, and the velo finalize when
\* the peer has finished as well.
finalize(s) ==
    LET e == end[s]
        meet == e.peer_finished
    IN  /\ end' = [end EXCEPT ![s].commits_closed = TRUE, ![s].avail_drained = TRUE,
                              ![s].local_finished = TRUE,
                              ![s].finalize_enqueued = @ \/ meet]
        /\ Enqueue(s, Due(e.commits_closed, "CommitsClosed") \o Due(e.avail_drained, "Drained")
                          \o Due(e.local_finished, "Finished")
                          \o (IF meet THEN Finalize(e) ELSE << >>))
        /\ UNCHANGED <<sender, monitor, closer, lost>>

----------------------------------------------------------------------------
\* The puller's side: a pull is inserted before closed is read, so that an
\* abort either finds it or is seen by it.

PullInsert(s, id) ==
    /\ end' = [end EXCEPT ![s].pending_pulls = @ \cup {id}]
    /\ UNCHANGED <<queue, sender, monitor, closer, lost>>

PullRefused(s, id) ==
    /\ end[s].closed \/ ~ CanEnqueue(s)
    /\ end' = [end EXCEPT ![s].pending_pulls = @ \ {id}]
    /\ UNCHANGED <<queue, sender, monitor, closer, lost>>

PullSend(s, id, hashes) ==
    /\ ~ end[s].closed /\ CanEnqueue(s)
    /\ Enqueue(s, <<Frame("Pull", id, hashes)>>)
    /\ UNCHANGED <<end, sender, monitor, closer, lost>>

\* The RDMA read is terminal, whatever its outcome.
PullAcked(s, id) ==
    /\ Enqueue(s, <<Frame("PullAck", id, {})>>)
    /\ UNCHANGED <<end, sender, monitor, closer, lost>>

Reply(s, id) == CHOOSE r \in end[s].replies : r.id = id
Replied(s, id) == \E r \in end[s].replies : r.id = id

\* Every parked pull is resolved with an error.
fail_pending_pulls(e) ==
    [e EXCEPT !.pending_pulls = {},
              !.replies = @ \cup {[id |-> p, ok |-> FALSE] : p \in e.pending_pulls}]

\* Both local streams get their terminator.
TerminateStreams(e) == [e EXCEPT !.peer_commits_closed = TRUE, !.peer_avail_drained = TRUE]

----------------------------------------------------------------------------
\* close, step by step: other callers and the monitor run between its locks.

Closing(c, from, to) == closer[c] = from /\ closer' = [closer EXCEPT ![c] = to]

\* The first close cancels close_token and drops a sender slot that no Attach
\* has taken, which ends the waiting sender task.
CloseMark(c) ==
    LET s == Closers[c]
        first == ~ end[s].closed
    IN  /\ Cardinality({d \in DOMAIN Closers : Closers[d] = s /\ closer[d] \in {"marked", "sealed"}})
              < MaxClosers
        /\ Closing(c, "idle", "marked")
        /\ end' = [end EXCEPT ![s].closed = TRUE, ![s].close_token = @ \/ first,
                              ![s].installable = @ /\ ~ first]
        /\ sender' = IF first /\ end[s].installable THEN [sender EXCEPT ![s] = "dropped"]
                     ELSE sender
        /\ UNCHANGED <<queue, monitor, lost>>

\* Both terminators.
CloseSeal(c) ==
    LET s == Closers[c]
    IN  /\ Closing(c, "marked", "sealed")
        /\ end' = [end EXCEPT ![s].commits_closed = TRUE, ![s].avail_drained = TRUE]
        /\ Enqueue(s, Due(end[s].commits_closed, "CommitsClosed")
                          \o Due(end[s].avail_drained, "Drained"))
        /\ UNCHANGED <<sender, monitor, lost>>

\* The pins go and the wire is finalized, unless a pull is authorized; then the
\* parked pulls fail and the local streams end.
Released(e) == [e EXCEPT !.pins = {}, !.finalize_enqueued = TRUE]

\* Mutant: the parked pulls are forgotten.
Aborted_Parked(e) == TerminateStreams(e)

Aborted(e) == TerminateStreams(fail_pending_pulls(e))

\* Mutant: the pins go at once.
CloseRelease_Eager(c) ==
    LET s == Closers[c]
    IN  /\ Closing(c, "sealed", "done")
        /\ end' = [end EXCEPT ![s] = Aborted(Released(@))]
        /\ Enqueue(s, Finalize(end[s]))
        /\ UNCHANGED <<sender, monitor, lost>>

CloseRelease(c) ==
    LET s == Closers[c]
        idle == end[s].inbound_pulls = {}
    IN  /\ Closing(c, "sealed", "done")
        /\ end' = [end EXCEPT ![s] = Aborted(IF idle THEN Released(@) ELSE @)]
        /\ Enqueue(s, IF idle THEN Finalize(end[s]) ELSE << >>)
        /\ UNCHANGED <<sender, monitor, lost>>

CloseStep(c) == CloseSeal(c) \/ CloseRelease(c)

----------------------------------------------------------------------------
\* dispatch_frame: the monitor of s takes the next frame of its peer.

Received(s) == Head(queue[Peer(s)])

Dispatch(s, kind, e, frames) ==
    /\ monitor[s] = "running" /\ sender[Peer(s)] \in {"running", "ended"}
    /\ queue[Peer(s)] # << >> /\ Received(s).kind = kind
    /\ end' = [end EXCEPT ![s] = e]
    /\ queue' = [queue EXCEPT ![Peer(s)] = Tail(@),
                              ![s] = IF Delivers(s) THEN @ \o frames ELSE @]
    /\ UNCHANGED <<sender, monitor, closer, lost>>

dispatch_Attach(s) ==
    Dispatch(s, "Attach", [end[s] EXCEPT !.attach = IF end[s].closed THEN @ ELSE "resolving"],
             << >>)

dispatch_Commit(s) ==
    Dispatch(s, "Commit",
             [end[s] EXCEPT !.peer_committed =
                 IF end[s].peer_commits_closed THEN @ ELSE @ \cup Received(s).hashes], << >>)

dispatch_CommitsClosed(s) ==
    Dispatch(s, "CommitsClosed", [end[s] EXCEPT !.peer_commits_closed = TRUE], << >>)

dispatch_Available(s) ==
    LET e == end[s]
    IN  Dispatch(s, "Available",
                 IF e.peer_avail_drained THEN e
                 ELSE [e EXCEPT !.avail_stream = Append(@, Received(s).hashes)], << >>)

dispatch_Drained(s) ==
    Dispatch(s, "Drained", [end[s] EXCEPT !.peer_avail_drained = TRUE], << >>)

\* Under the closed lock: a pull is authorized only while the session is open.
dispatch_Pull(s) ==
    LET admitted == ~ end[s].closed /\ CanEnqueue(s)
    IN  Dispatch(s, "Pull",
                 [end[s] EXCEPT !.inbound_pulls =
                     IF admitted THEN @ \cup {[id |-> Received(s).id, hashes |-> Received(s).hashes]} ELSE @],
                 IF admitted THEN <<Frame("PullComplete", Received(s).id, {})>> ELSE << >>)

dispatch_PullComplete(s) ==
    LET id == Received(s).id
        e == end[s]
    IN  Dispatch(s, "PullComplete",
                 IF id \notin e.pending_pulls THEN e
                 ELSE [e EXCEPT !.pending_pulls = @ \ {id},
                                !.replies = @ \cup {[id |-> id, ok |-> TRUE]}], << >>)

\* Under the closed lock: the pins of the pull go, but those another pull
\* still reads; the last one of a closed session completes the close.
Acknowledged(e, id) ==
    LET acked == {p \in e.inbound_pulls : p.id = id}
        left == e.inbound_pulls \ acked
        released == UNION {p.hashes : p \in acked} \ UNION {p.hashes : p \in left}
    IN  [e EXCEPT !.inbound_pulls = left, !.pins = @ \ released]

\* Mutant: the deferred close is never completed.
dispatch_PullAck_NoFinalize(s) ==
    Dispatch(s, "PullAck", Acknowledged(end[s], Received(s).id), << >>)

dispatch_PullAck(s) ==
    LET e == Acknowledged(end[s], Received(s).id)
        last == e.inbound_pulls = {} /\ e.closed
    IN  Dispatch(s, "PullAck", IF last THEN Released(e) ELSE e,
                 IF last THEN Finalize(e) ELSE << >>)

dispatch_Finished(s) ==
    LET meet == end[s].local_finished
    IN  Dispatch(s, "Finished",
                 [end[s] EXCEPT !.peer_finished = TRUE, !.finalize_enqueued = @ \/ meet],
                 IF meet THEN Finalize(end[s]) ELSE << >>)

dispatch_frame(s) ==
    \/ dispatch_Attach(s) \/ dispatch_Commit(s) \/ dispatch_CommitsClosed(s)
    \/ dispatch_Available(s) \/ dispatch_Drained(s) \/ dispatch_Pull(s)
    \/ dispatch_PullComplete(s) \/ dispatch_PullAck(s) \/ dispatch_Finished(s)

----------------------------------------------------------------------------
\* The tasks.

\* The spawned half of Frame::Attach: resolve the peer and attach a stream to
\* its anchor, exchange metadata, then install the stream unless the session
\* closed meanwhile.
Attaching(s, from, to) == end[s].attach = from /\ end' = [end EXCEPT ![s].attach = to]

attach_anchor(s) ==
    /\ Attaching(s, "resolving", "attached")
    /\ UNCHANGED <<queue, sender, monitor, closer, lost>>

attach_install(s) ==
    /\ end[s].attach = "attached" /\ ~ end[s].closed /\ end[s].installable
    /\ end' = [end EXCEPT ![s].attach = "installed", ![s].installable = FALSE]
    /\ sender' = [sender EXCEPT ![s] = "running"]
    /\ UNCHANGED <<queue, monitor, closer, lost>>

\* A step fails, or finds the session closed or the slot taken: a stream that
\* is attached already is dropped.
fail_attach(s) ==
    /\ Attaching(s, "resolving", "none") \/ Attaching(s, "attached", "dropped")
    /\ UNCHANGED <<queue, sender, monitor, closer, lost>>

\* The sender task stops at Finalize, or when a frame can no longer be sent.
SenderEnds(s) ==
    /\ sender[s] = "running"
    /\ \/ Contains(queue[s], Signal("Finalize"))
       \/ lost
       \/ monitor[Peer(s)] # "running"
    /\ sender' = [sender EXCEPT ![s] = "ended"]
    /\ UNCHANGED <<end, queue, monitor, closer, lost>>

\* The monitor leaves its loop: closed is published first, then the parked
\* pulls and the local streams are terminated, so a pull that is inserted in
\* between is refused like a later one.
MonitorExit(s) ==
    /\ monitor[s] = "running"
    /\ monitor' = [monitor EXCEPT ![s] = "exited"]
    /\ end' = [end EXCEPT ![s] = Aborted([@ EXCEPT !.closed = TRUE])]
    /\ queue' = [queue EXCEPT ![Peer(s)] = << >>]
    /\ UNCHANGED <<sender, closer, lost>>

MonitorFinalized(s) ==
    /\ sender[Peer(s)] = "ended"
    /\ queue[Peer(s)] # << >> /\ Received(s).kind = "Finalize"
    /\ MonitorExit(s)

MonitorStopped(s) ==
    /\ end[s].close_token /\ end[s].inbound_pulls = {}
    /\ MonitorExit(s)

\* The stream of the peer fails (SenderDropped, or a transport error).
StreamBroken(s) == lost \/ end[Peer(s)].attach = "dropped"

MonitorError(s) ==
    /\ StreamBroken(s)
    /\ MonitorExit(s)

\* Both streams break, and with them the frames not yet dispatched and the
\* senders: the peer crashed or its heartbeat was lost.
ConnectionLost ==
    /\ ~ lost /\ lost' = TRUE
    /\ queue' = [s \in Ends |-> << >>]
    /\ sender' = [s \in Ends |-> IF sender[s] = "running" THEN "ended" ELSE sender[s]]
    /\ UNCHANGED <<end, monitor, closer>>

TaskStep(s) ==
    \/ dispatch_frame(s) \/ attach_anchor(s) \/ attach_install(s) \/ fail_attach(s) \/ SenderEnds(s)
    \/ MonitorFinalized(s) \/ MonitorStopped(s) \/ MonitorError(s)

SessionStep ==
    \/ \E s \in Ends : TaskStep(s)
    \/ \E c \in DOMAIN Closers : CloseStep(c)
    \/ ConnectionLost
====
