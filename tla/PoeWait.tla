------------------------------ MODULE PoeWait ------------------------------
(***************************************************************************)
(* PoeNamespace.wait (client/poe_events.py): stream a record's status      *)
(* events until it reaches a target or fails, over a connection that       *)
(* drops, answers 429 or 5xx, or breaks the framing limits; each frame's   *)
(* id is a sequence number that a reconnect sends back as last-event-id.   *)
(***************************************************************************)
EXTENDS Naturals, Sequences

CONSTANTS
  Targets,      \* what a caller may wait for: "submitted", "confirmed"
  Lifecycle,    \* the status changes the gateway makes: pairs of raw statuses
  Ladder,       \* length of _BACKOFF_SECONDS
  HasDeadline,  \* does the caller pass a timeout?
  Cancellable,  \* may the caller's task be cancelled?
  MaxFaults     \* bound of the model

\* _normalize_status; an unknown status passes through.
Normalize(status) ==
  CASE status = "submitted"         -> "confirming"
    [] status = "permanent_failure" -> "failed"
    [] OTHER                        -> status

\* The statuses that satisfy a target.
Reaching(t) == IF t = "submitted" THEN {"confirming", "confirmed"} ELSE {"confirmed"}

ASSUME ConstantsAssumption ==
  /\ Targets \subseteq {"submitted", "confirmed"}
  /\ Lifecycle \subseteq STRING \X STRING
  /\ Ladder \in Nat \ {0} /\ MaxFaults \in Nat
  /\ HasDeadline \in BOOLEAN /\ Cancellable \in BOOLEAN

\* A publish goes forward: what has reached a target, or failed, does not go
\* back: "failed" and "confirmed" are terminal (types.py:23, poe_events.py:258).
ASSUME LifecycleAssumption ==
  \A change \in Lifecycle, t \in Targets :
    Normalize(change[1]) \in {"failed"} \cup Reaching(t)
      => Normalize(change[2]) \in {"failed"} \cup Reaching(t)

VARIABLES
  target,    \* the argument of wait
  pc,        \* where _wait_loop stands, or how the wait ended
  lastId,    \* last_event_id, 0 for None
  step,      \* ladder_idx, at its last step when it repeats
  delivered, \* has this connection delivered a frame?
  snapshot,  \* the status of state.last_snapshot, "none" before
  wire,      \* the frames on their way on the open connection
  log,       \* gateway: the record's raw statuses; its index is the event id
  faults     \* failures injected so far

clientVars == <<target, pc, lastId, step, delivered, snapshot>>
vars == <<clientVars, wire, log, faults>>

Awaiting == {"connecting", "streaming", "closing", "raising", "sleeping"}
Ended == {"returned", "failed", "rejected", "timeout", "cancelled"}

Init ==
  /\ target \in Targets
  /\ pc = "connecting" /\ lastId = 0 /\ step = 0
  /\ delivered = FALSE /\ snapshot = "none"
  /\ wire = <<>> /\ log = <<"submitting">> /\ faults = 0

Fault == faults < MaxFaults /\ faults' = faults + 1

-----------------------------------------------------------------------------
(* Statuses                                                                *)

\* Mutated form: confirming is enough for either target.
TargetReached_Weak(status) == status \in {"confirming", "confirmed"}

TargetReached(status) == status \in Reaching(target)

\* Does a snapshot with this status end the wait?
Decides(status) == status = "failed" \/ TargetReached(status)

-----------------------------------------------------------------------------
(* The gateway                                                             *)

Current == log[Len(log)]
Frame(id) == [id |-> id, status |-> log[id]]
Ping == [id |-> 0, status |-> "ping"]

\* The record's status changes; an open stream carries the event.
Advance ==
  \E change \in Lifecycle :
    /\ change[1] = Current
    /\ log' = Append(log, change[2])
    /\ wire' = IF pc = "streaming" THEN Append(wire, [id |-> Len(log) + 1, status |-> change[2]])
                                   ELSE wire
    /\ UNCHANGED <<clientVars, faults>>

\* A keepalive between two frames.
KeepAlive ==
  /\ pc = "streaming" /\ wire = <<>>
  /\ wire' = <<Ping>>
  /\ UNCHANGED <<clientVars, log, faults>>

\* What a new stream starts with: a state frame with the record's current
\* status (a gateway may leave its id out), and the events after the id the
\* client resumes from.
Opening ==
  LET state == {Frame(Len(log)), [Frame(Len(log)) EXCEPT !.id = 0]}
      newer == [k \in 1..(Len(log) - lastId) |-> Frame(lastId + k)]
  IN IF lastId = 0 THEN {<<f>> : f \in state}
                   ELSE {newer} \cup {<<f>> \o newer : f \in state}

-----------------------------------------------------------------------------
(* The client                                                              *)

\* The connection is gone: the next delay, on the first step of the ladder
\* after a connection that delivered a frame.
Backoff ==
  /\ pc' = "sleeping"
  /\ step' = LET s == IF delivered THEN 0 ELSE step IN IF s + 1 < Ladder THEN s + 1 ELSE s
  /\ wire' = <<>>
  /\ UNCHANGED <<target, lastId, delivered, snapshot, log>>

Connect ==
  /\ pc = "connecting"
  /\ pc' = "streaming"
  /\ wire' \in Opening
  /\ UNCHANGED <<target, lastId, step, delivered, snapshot, log, faults>>

\* Network failure, 5xx, or 429; all are retried.
ConnectFails == pc = "connecting" /\ Fault /\ Backoff

\* Any other 4xx is raised at once.
Rejected ==
  /\ pc = "connecting" /\ Fault
  /\ pc' = "rejected"
  /\ UNCHANGED <<target, lastId, step, delivered, snapshot, wire, log>>

Earliest(positions) == CHOOSE k \in positions : \A j \in positions : k <= j
Latest(positions)   == CHOOSE k \in positions : \A j \in positions : j <= k

\* The position of the frame of a chunk that ends the wait, or its length.
Examined(chunk) ==
  LET deciding == {k \in DOMAIN chunk : Decides(Normalize(chunk[k].status))}
  IN IF deciding = {} THEN Len(chunk) ELSE Earliest(deciding)

\* The last id, and the last status of a snapshot, among the frames read.
LastIdOf(frames) ==
  LET numbered == {k \in DOMAIN frames : frames[k].id # 0}
  IN IF numbered = {} THEN lastId ELSE frames[Latest(numbered)].id

LastSnapshotOf(frames) ==
  LET snaps == {k \in DOMAIN frames : frames[k] # Ping}
  IN IF snaps = {} THEN snapshot ELSE Normalize(frames[Latest(snaps)].status)

\* Mutated form: a frame without an id is taken for a keepalive.
Receive_OnlyChanges ==
  /\ pc = "streaming" /\ wire # <<>>
  /\ LET f == Head(wire) IN
       /\ lastId' = IF f.id # 0 THEN f.id ELSE lastId
       /\ snapshot' = IF f.id # 0 THEN Normalize(f.status) ELSE snapshot
       /\ pc' = CASE f.id # 0 /\ Normalize(f.status) = "failed"     -> "raising"
                  [] f.id # 0 /\ TargetReached(Normalize(f.status)) -> "closing"
                  [] OTHER -> pc
  /\ wire' = Tail(wire) /\ delivered' = TRUE
  /\ UNCHANGED <<target, step, log, faults>>

\* A chunk of the body completes one or more frames: each is taken in turn
\* until one ends the wait; then the response is closed.
Receive ==
  /\ pc = "streaming"
  /\ \E n \in 1..Len(wire) :
       LET frames == SubSeq(wire, 1, Examined(SubSeq(wire, 1, n)))
           status == Normalize(frames[Len(frames)].status)
       IN
       /\ lastId' = LastIdOf(frames)
       /\ snapshot' = LastSnapshotOf(frames)
       /\ pc' = CASE status = "failed"       -> "raising"
                  [] TargetReached(status)   -> "closing"
                  [] OTHER                   -> pc
       /\ wire' = SubSeq(wire, n + 1, Len(wire))
  /\ delivered' = TRUE
  /\ UNCHANGED <<target, step, log, faults>>

\* Mutated form: the ids of the frames before the violation are kept.
StreamBreaks_KeepsIds ==
  /\ pc = "streaming" /\ Fault
  /\ \E n \in 0..Len(wire) : lastId' = LastIdOf(SubSeq(wire, 1, n))
  /\ pc' = "sleeping" /\ wire' = <<>>
  /\ UNCHANGED <<target, step, delivered, snapshot, log>>

\* The stream drops or ends, within a frame or after one; or a chunk ends in a
\* line or an event over the limit: feed raises, and the frames that the same
\* chunk completed before it are not seen.
StreamBreaks == pc = "streaming" /\ Fault /\ Backoff

\* The backoff (and retry-after) is over.
Wake ==
  /\ pc = "sleeping"
  /\ pc' = "connecting" /\ delivered' = FALSE
  /\ UNCHANGED <<target, lastId, step, snapshot, wire, log, faults>>

\* The response is closed, and the wait returns or raises PoeFailedError.
Closed ==
  /\ pc \in {"closing", "raising"}
  /\ pc' = IF pc = "closing" THEN "returned" ELSE "failed"
  /\ UNCHANGED <<target, lastId, step, delivered, snapshot, wire, log, faults>>

\* asyncio.timeout cancels whatever is awaited; the error carries snapshot.
Deadline ==
  /\ HasDeadline /\ pc \in Awaiting
  /\ pc' = "timeout"
  /\ UNCHANGED <<target, lastId, step, delivered, snapshot, wire, log, faults>>

Cancelled ==
  /\ Cancellable /\ pc \in Awaiting
  /\ pc' = "cancelled"
  /\ UNCHANGED <<target, lastId, step, delivered, snapshot, wire, log, faults>>

Next ==
  \/ Advance \/ KeepAlive
  \/ Connect \/ ConnectFails \/ Rejected
  \/ Receive \/ StreamBreaks
  \/ Wake \/ Closed \/ Deadline \/ Cancelled

Spec == Init /\ [][Next]_vars

\* The client's own steps, and the gateway's frames, are not put off forever.
\* Nothing is assumed of when the record's status changes.
FairSpec ==
  /\ Spec
  /\ WF_vars(Connect) /\ WF_vars(Receive) /\ WF_vars(Wake) /\ WF_vars(Closed)

-----------------------------------------------------------------------------
(* Properties                                                              *)

\* What a raw or normalised status may be, and what stands for none.
Statuses == {"none", "ping", "submitting", "confirming", "confirmed", "failed"}
            \cup {change[1] : change \in Lifecycle} \cup {change[2] : change \in Lifecycle}

FrameType == [id : 0..Len(log), status : Statuses]

\* Every variable has its type.
TypeOK ==
  /\ target \in Targets
  /\ pc \in Awaiting \cup Ended
  /\ lastId \in 0..Len(log) /\ step \in 0..(Ladder - 1)
  /\ delivered \in BOOLEAN /\ snapshot \in Statuses
  /\ log \in Seq(Statuses) /\ wire \in Seq(FrameType)
  /\ faults \in 0..MaxFaults

Had(statuses) == \E k \in DOMAIN log : log[k] \in statuses

\* wait returns only for a record that has reached the target, and raises
\* PoeFailedError only for one that has failed.
OutcomeIsTrue ==
  /\ pc = "returned" => Had(IF target = "submitted" THEN {"submitted", "confirming", "confirmed"}
                                                   ELSE {"confirmed"})
  /\ pc = "failed" => Had({"failed", "permanent_failure"})

\* "No status change is lost across a drop": while the wait goes on, no event
\* at or before the id it would resume from was one to end it.
ResumePointSafe ==
  pc \in {"connecting", "streaming", "sleeping"} =>
    \A k \in 1..lastId : ~Decides(Normalize(log[k]))

\* The frames under way repeat the record's log.
Genuine(f) == f = Ping \/ \E j \in DOMAIN log : f.status = log[j] /\ f.id \in {0, j}

WireTrue == \A k \in DOMAIN wire : Genuine(wire[k])

\* Once the record has come to what ends the wait it does not go back.
Forward ==
  /\ log # <<>>
  /\ \A i, j \in DOMAIN log :
       i <= j /\ Decides(Normalize(log[i])) => Decides(Normalize(log[j]))

\* A wait ends for something the record has been.
Decided ==
  /\ pc \in {"closing", "returned"} => \E k \in DOMAIN log : TargetReached(Normalize(log[k]))
  /\ pc \in {"raising", "failed"} => \E k \in DOMAIN log : Normalize(log[k]) = "failed"

\* The inductive invariant: the types, a resume point that is safe, and what
\* they rest on, that what is read is what the record has been.
WaitInv == TypeOK /\ WireTrue /\ Forward /\ ResumePointSafe /\ Decided

\* A record that has reached the target or failed ends the wait, if the stream
\* does not fail forever.
EventuallyEnds == Decides(Normalize(Current)) ~> pc \in Ended

\* PoeWaitTimeoutError: the timeout elapsed "before the record reaches the
\* requested target (or a terminal state)". (The code awaits the closing of
\* the response between reading the deciding frame and returning.)
TimeoutMeansUndecided == pc = "timeout" => ~Decides(snapshot)
=============================================================================
