-------------------------- MODULE ResumableUpload --------------------------
(***************************************************************************)
(* upload_resumable (client/resumable_upload.py) for a file above the      *)
(* threshold: create or resume a session, PUT the missing chunks from      *)
(* parallel lanes, complete, poll the attempt; abandon when cancelled.     *)
(*                                                                         *)
(* asyncio.gather passes on the first exception of a lane and leaves the   *)
(* others running, so lanes are kept per call: those of a call that has    *)
(* returned are orphans that go on sending.                                *)
(*                                                                         *)
(* A request is served when its answer arrives, when it is lost, or when   *)
(* the client stops waiting for it; in the last two cases the gateway may  *)
(* or may not have acted on it.                                            *)
(***************************************************************************)
EXTENDS Naturals, Sequences

CONSTANTS
  K,                \* chunk_count; chunks are numbered from 1
  Parallelism,      \* lanes of one _upload_chunks
  MaxRetries,       \* max_chunk_retries
  CompleteRetries,  \* _COMPLETE_RETRIES
  PollMax,          \* _ATTEMPT_POLL_MAX_ATTEMPTS
  Cooperative,      \* does the caller pass a cancel callable?
  TaskCancels,      \* may the caller's task be cancelled?
  MaxCalls, MaxFaults   \* bounds of the model

Chunks == 1..K
Lanes  == 1..Parallelism
Calls  == 1..MaxCalls

ASSUME ConstantsAssumption ==
  /\ K \in Nat \ {0} /\ Parallelism \in Nat \ {0}
  /\ MaxRetries \in Nat /\ CompleteRetries \in Nat /\ PollMax \in Nat \ {0}
  /\ Cooperative \in BOOLEAN /\ TaskCancels \in BOOLEAN
  /\ MaxCalls \in Nat /\ MaxFaults \in Nat

VARIABLES
  pc,       \* where the current call stands, or how the last one ended
  call,     \* calls of upload_resumable so far
  saved,    \* caller: the id on_session_created reported last, 0 before
  errId,    \* the session_id the last error carried, 0 for None
  tries,    \* iteration of _finish_session's loop
  polls,    \* iteration of poll_attempt's loop
  target,   \* call -> active_session_id, 0 for None
  missing,  \* call -> the indices its _upload_chunks is to send
  cursor,   \* call -> position of the next index to claim
  lanes,    \* call -> lane -> what the worker is doing
  landed,   \* call -> the chunks its current _upload_chunks has sent
  sent,     \* call -> chunk -> how often bytes_sent counts its length
  asked,    \* call -> does its cancel callable return True?
  sessions, \* gateway: the upload sessions, by id
  faults    \* failures injected so far

workVars == <<target, missing, cursor, lanes, landed, sent>>
loopVars == <<tries, polls>>
vars == <<pc, call, saved, errId, loopVars, workVars, asked, sessions, faults>>

Idle == [st |-> "off", idx |-> 0, attempt |-> 0]

Running == {"hashing", "creating", "statusing", "chunks", "completing", "restatus",
            "polling", "pollwait"}
Resting == {"idle", "failed", "cancelled", "interrupted", "crashed"}

Init ==
  /\ pc = "idle" /\ call = 0 /\ saved = 0 /\ errId = 0
  /\ tries = 0 /\ polls = 0
  /\ target = [c \in Calls |-> 0]
  /\ missing = [c \in Calls |-> <<>>]
  /\ cursor = [c \in Calls |-> 1]
  /\ lanes = [c \in Calls |-> [l \in Lanes |-> Idle]]
  /\ landed = [c \in Calls |-> {}]
  /\ sent = [c \in Calls |-> [i \in Chunks |-> 0]]
  /\ asked = [c \in Calls |-> FALSE]
  /\ sessions = <<>> /\ faults = 0

\* The session the current call works on.
Active == target[call]

Fault ==
  /\ faults < MaxFaults
  /\ faults' = faults + 1

-----------------------------------------------------------------------------
(* The gateway                                                             *)

NewSession == [state |-> "pending", received |-> {}]

\* A chunk PUT the gateway accepts; a matching re-PUT changes nothing.
Receive(s, i) == [sessions EXCEPT ![s].received = @ \cup {i}]

SetState(s, state) == [sessions EXCEPT ![s].state = state]

Whole(s) == sessions[s].received = Chunks

\* What is left of the in-flight PUTs of the lanes ls (pairs of call and
\* lane) whose connections the client drops: any of them may still be served.
Dropped(ls) ==
  \E reached \in SUBSET {cl \in ls : /\ lanes[cl[1]][cl[2]].st = "put"
                                     /\ sessions[target[cl[1]]].state = "pending"} :
    sessions' = [s \in DOMAIN sessions |->
      [sessions[s] EXCEPT !.received =
         @ \cup {lanes[cl[1]][cl[2]].idx : cl \in {x \in reached : target[x[1]] = s}}]]

\* The gateway's own steps: an accepted completion commits or is released, a
\* session runs out, a chunk it had is gone.
CommitAttempt(s) ==
  /\ sessions[s].state = "assembling"
  /\ sessions' = SetState(s, "completed")
  /\ UNCHANGED <<pc, call, saved, errId, loopVars, workVars, asked, faults>>

GatewayFault(s) ==
  /\ Fault
  /\ \/ sessions[s].state = "assembling" /\ sessions' = SetState(s, "failed")
     \/ sessions[s].state = "pending" /\ sessions' = SetState(s, "expired")
     \/ /\ sessions[s].state = "pending"
        /\ \E i \in sessions[s].received :
             sessions' = [sessions EXCEPT ![s].received = @ \ {i}]
  /\ UNCHANGED <<pc, call, saved, errId, loopVars, workVars, asked>>

\* What the gateway may have done with the call's own request when its
\* answer is lost: a create or a complete leaves a trace.
Unanswered ==
  \/ UNCHANGED sessions
  \/ pc = "creating" /\ sessions' = Append(sessions, NewSession)
  \/ /\ pc = "completing" /\ sessions[Active].state = "pending" /\ Whole(Active)
     /\ \E state \in {"assembling", "completed"} : sessions' = SetState(Active, state)

-----------------------------------------------------------------------------
(* How a call goes on or ends                                              *)

Fail(id) == pc' = "failed" /\ errId' = id

\* UploadCancelledError reaches _run_session: abandon the session if there is
\* one; _abandon_quietly(None) is a success.
CancelCall ==
  IF Active = 0 THEN pc' = "cancelled" /\ errId' = 0
                ELSE pc' = "abandoning" /\ UNCHANGED errId

\* The next iteration of _finish_session's loop: check cancel, send complete.
TryComplete ==
  IF asked[call] THEN CancelCall
                 ELSE pc' = "completing" /\ UNCHANGED errId

\* _missing_indices / _server_missing: the indices not received, in order.
MissingIndices(received) ==
  LET upTo[i \in 0..K] ==
        IF i = 0 THEN <<>>
        ELSE IF i \in received THEN upTo[i - 1] ELSE Append(upTo[i - 1], i)
  IN upTo[K]

LanesFor(m) ==
  [l \in Lanes |-> IF l <= Len(m) THEN [Idle EXCEPT !.st = "next"] ELSE Idle]

\* _upload_chunks starts its lanes over the indices m.
StartLanes(m) ==
  /\ pc' = "chunks"
  /\ missing' = [missing EXCEPT ![call] = m]
  /\ cursor' = [cursor EXCEPT ![call] = 1]
  /\ lanes' = [lanes EXCEPT ![call] = LanesFor(m)]
  /\ landed' = [landed EXCEPT ![call] = {}]

-----------------------------------------------------------------------------
(* Entry, hashing, creating, resuming                                      *)

Enter(start) ==
  /\ pc \in Resting /\ call < MaxCalls
  /\ call' = call + 1 /\ tries' = 0 /\ polls' = 0 /\ errId' = 0
  /\ \/ pc' = start /\ UNCHANGED asked
     \/ /\ Cooperative /\ asked' = [asked EXCEPT ![call + 1] = TRUE]
        /\ pc' = "cancelled"
  /\ UNCHANGED <<saved, workVars, sessions, faults>>

\* A call without session_id.
UploadFresh == Enter("hashing")

\* A call with the session_id the caller persisted.
UploadResume == saved # 0 /\ Enter("statusing")

\* _hash_whole_file is through; the create request goes out.
Hashed ==
  /\ pc = "hashing"
  /\ IF asked[call] THEN CancelCall
                    ELSE pc' = "creating" /\ UNCHANGED errId
  /\ UNCHANGED <<call, saved, loopVars, workVars, asked, sessions, faults>>

\* The create answer: the bytes are known, or a session with every index
\* outstanding, whose id on_session_created reports before any chunk.
CreateAnswered ==
  /\ pc = "creating"
  /\ \/ /\ \E s \in DOMAIN sessions : sessions[s].state = "completed"
        /\ pc' = "done"
        /\ UNCHANGED <<saved, sessions, workVars>>
     \/ /\ \A s \in DOMAIN sessions : sessions[s].state # "completed"
        /\ sessions' = Append(sessions, NewSession)
        /\ saved' = Len(sessions) + 1
        /\ target' = [target EXCEPT ![call] = Len(sessions) + 1]
        /\ StartLanes(MissingIndices({}))
        /\ UNCHANGED sent
  /\ UNCHANGED <<call, errId, loopVars, asked, faults>>

\* The status of the session to resume.
StatusAnswered ==
  /\ pc = "statusing"
  /\ LET s == sessions[saved] IN
     \/ /\ s.state = "completed"
        /\ pc' = "done" /\ UNCHANGED <<errId, workVars>>
     \/ /\ s.state \in {"failed", "expired"}
        /\ Fail(saved) /\ UNCHANGED workVars
     \/ /\ s.state = "abandoned"
        /\ Fail(0) /\ UNCHANGED workVars
     \/ /\ s.state \in {"pending", "assembling"}
        /\ target' = [target EXCEPT ![call] = saved]
        /\ IF MissingIndices(s.received) # <<>>
           THEN StartLanes(MissingIndices(s.received)) /\ UNCHANGED <<errId, sent>>
           ELSE /\ IF asked[call] THEN pc' = "abandoning" ELSE pc' = "completing"
                /\ UNCHANGED <<errId, missing, cursor, lanes, landed, sent>>
  /\ UNCHANGED <<call, saved, loopVars, asked, sessions, faults>>

\* Reading the source, or a create, status, complete or poll request, fails.
RequestFails ==
  /\ pc \in {"hashing", "creating", "statusing", "completing", "restatus", "polling"}
  /\ Fault
  /\ Unanswered
  /\ Fail(0)
  /\ UNCHANGED <<call, saved, loopVars, workVars, asked>>

-----------------------------------------------------------------------------
(* Lanes                                                                   *)

SetLane(c, l, lane) == lanes' = [lanes EXCEPT ![c][l] = lane]

\* Mutated form: an exhausted chunk ends its worker without an exception.
Raise_Swallowed(c, l, how) ==
  /\ SetLane(c, l, Idle)
  /\ IF c = call /\ pc = "chunks"
     THEN CASE how = "cancelled" -> pc' = "abandoning" /\ UNCHANGED errId
            [] how = "http"      -> Fail(0)
            [] how = "exhausted" -> UNCHANGED <<pc, errId>>
     ELSE UNCHANGED <<pc, errId>>

\* A worker ends with an exception. If the call still awaits its gather, the
\* exception is the call's; its other lanes run on.
Raise(c, l, how) ==
  /\ SetLane(c, l, Idle)
  /\ IF c = call /\ pc = "chunks"
     THEN CASE how = "cancelled" -> pc' = "abandoning" /\ UNCHANGED errId
            [] how = "http"      -> Fail(0)
            [] how = "exhausted" -> Fail(Active)
     ELSE UNCHANGED <<pc, errId>>

Exhausted(c) == cursor[c] > Len(missing[c])

\* Mutated form: the claimed position is not passed.
Claim_Shared(c, l) ==
  /\ SetLane(c, l, [st |-> "put", idx |-> missing[c][cursor[c]], attempt |-> 0])
  /\ cursor' = [cursor EXCEPT ![c] =
       IF \E k \in Lanes : lanes[c][k].st = "put" THEN @ + 1 ELSE @]

\* The worker takes the next index under the lock, slices the source and
\* sends the chunk.
Claim(c, l) ==
  /\ SetLane(c, l, [st |-> "put", idx |-> missing[c][cursor[c]], attempt |-> 0])
  /\ cursor' = [cursor EXCEPT ![c] = @ + 1]

LaneNext(c, l) ==
  /\ lanes[c][l].st = "next"
  /\ \/ asked[c] /\ Raise(c, l, "cancelled") /\ UNCHANGED cursor
     \/ ~asked[c] /\ Exhausted(c) /\ SetLane(c, l, Idle) /\ UNCHANGED <<pc, errId, cursor>>
     \/ ~asked[c] /\ ~Exhausted(c) /\ Claim(c, l) /\ UNCHANGED <<pc, errId>>
  /\ UNCHANGED <<call, saved, loopVars, target, missing, landed, sent, asked, sessions, faults>>

\* The PUT is accepted: report_chunk counts the chunk's bytes.
PutAccepted(c, l) ==
  LET i == lanes[c][l].idx IN
  /\ lanes[c][l].st = "put"
  /\ sessions[target[c]].state = "pending"
  /\ sessions' = Receive(target[c], i)
  /\ SetLane(c, l, [Idle EXCEPT !.st = "next"])
  /\ landed' = [landed EXCEPT ![c] = @ \cup {i}]
  /\ sent' = [sent EXCEPT ![c][i] = @ + 1]
  /\ UNCHANGED <<pc, call, saved, errId, loopVars, target, missing, cursor, asked, faults>>

\* A definitive 4xx: the session is over, or the gateway refuses the request
\* (a fault). Not sent again; a pending cancel goes first.
PutRefused(c, l) ==
  /\ lanes[c][l].st = "put"
  /\ IF sessions[target[c]].state = "pending" THEN Fault ELSE UNCHANGED faults
  /\ Raise(c, l, IF asked[c] THEN "cancelled" ELSE "http")
  /\ UNCHANGED <<call, saved, loopVars, target, missing, cursor, landed, sent, asked, sessions>>

\* A lost request or answer, a 5xx, 408 or 429.
PutFails(c, l) ==
  LET w == lanes[c][l] IN
  /\ w.st = "put" /\ Fault
  /\ \/ UNCHANGED sessions
     \/ sessions[target[c]].state = "pending" /\ sessions' = Receive(target[c], w.idx)
  /\ \/ asked[c] /\ Raise(c, l, "cancelled")
     \/ ~asked[c] /\ w.attempt < MaxRetries
        /\ SetLane(c, l, [w EXCEPT !.st = "backoff"]) /\ UNCHANGED <<pc, errId>>
     \/ ~asked[c] /\ w.attempt >= MaxRetries /\ Raise(c, l, "exhausted")
  /\ UNCHANGED <<call, saved, loopVars, target, missing, cursor, landed, sent, asked>>

\* Mutated form: the time that is left of a backoff never shrinks.
LaneWakes_OnlyCancelled(c, l) ==
  /\ lanes[c][l].st = "backoff"
  /\ asked[c] /\ Raise(c, l, "cancelled")
  /\ UNCHANGED <<call, saved, loopVars, target, missing, cursor, landed, sent, asked, sessions, faults>>

\* The backoff is over, or a cancel interrupts it.
LaneWakes(c, l) ==
  LET w == lanes[c][l] IN
  /\ w.st = "backoff"
  /\ \/ asked[c] /\ Raise(c, l, "cancelled")
     \/ ~asked[c] /\ SetLane(c, l, [w EXCEPT !.st = "put", !.attempt = @ + 1])
        /\ UNCHANGED <<pc, errId>>
  /\ UNCHANGED <<call, saved, loopVars, target, missing, cursor, landed, sent, asked, sessions, faults>>

\* Every worker has returned, none with an exception.
ChunksDone ==
  /\ pc = "chunks"
  /\ \A l \in Lanes : lanes[call][l].st = "off"
  /\ TryComplete
  /\ UNCHANGED <<call, saved, loopVars, workVars, asked, sessions, faults>>

-----------------------------------------------------------------------------
(* Completing                                                              *)

\* The chunks the gateway holds are what complete is about: it answers 409
\* incomplete-upload without them, and may do so while it assembles.
CompleteAccepted ==
  /\ pc = "completing" /\ sessions[Active].state \in {"pending", "assembling", "completed"}
  /\ sessions[Active].state = "pending" => Whole(Active)
  /\ \/ /\ sessions[Active].state # "assembling"
        /\ sessions' = SetState(Active, "completed") /\ pc' = "done"
     \/ /\ sessions[Active].state # "completed"
        /\ sessions' = SetState(Active, "assembling")
        /\ pc' = IF asked[call] THEN "abandoning" ELSE "polling"
  /\ UNCHANGED <<call, saved, errId, loopVars, workVars, asked, faults>>

\* 409 incomplete-upload: another round, or the error itself is raised.
CompleteIncomplete ==
  /\ pc = "completing" /\ sessions[Active].state = "pending"
  /\ IF Whole(Active) THEN Fault ELSE UNCHANGED faults
  /\ IF tries < CompleteRetries
     THEN pc' = "restatus" /\ tries' = tries + 1 /\ UNCHANGED errId
     ELSE Fail(0) /\ UNCHANGED tries
  /\ UNCHANGED <<call, saved, polls, workVars, asked, sessions>>

\* The session is over: an HTTP error.
CompleteRefused ==
  /\ pc = "completing" /\ sessions[Active].state \in {"failed", "expired", "abandoned"}
  /\ Fail(0)
  /\ UNCHANGED <<call, saved, loopVars, workVars, asked, sessions, faults>>

\* The status after a 409: send what is missing, or only complete again. Its
\* state is not looked at.
RestatusAnswered ==
  /\ pc = "restatus"
  /\ LET m == MissingIndices(sessions[Active].received) IN
     \/ m # <<>> /\ StartLanes(m) /\ UNCHANGED <<errId, target, sent>>
     \/ m = <<>> /\ TryComplete /\ UNCHANGED workVars
  /\ UNCHANGED <<call, saved, loopVars, asked, sessions, faults>>

\* Mutated form: a released attempt is taken for a terminal success.
PollAnswered_AnyTerminal ==
  /\ pc = "polling"
  /\ sessions[Active].state # "assembling" /\ pc' = "done"
  /\ UNCHANGED <<call, saved, errId, loopVars, workVars, asked, sessions, faults>>

\* The attempt is committed, released, or still reserved; a cancel is looked
\* at before the wait and after it.
PollAnswered ==
  /\ pc = "polling"
  /\ \/ /\ sessions[Active].state = "completed"
        /\ pc' = "done" /\ UNCHANGED errId
     \/ /\ sessions[Active].state = "failed"
        /\ Fail(Active)
     \/ /\ sessions[Active].state = "assembling"
        /\ pc' = IF asked[call] THEN "abandoning" ELSE "pollwait"
        /\ UNCHANGED errId
  /\ UNCHANGED <<call, saved, loopVars, workVars, asked, sessions, faults>>

\* Mutated form: the polls are not counted.
PollAgain_Uncounted ==
  /\ pc = "pollwait"
  /\ pc' = IF asked[call] THEN "abandoning" ELSE "polling"
  /\ UNCHANGED <<call, saved, errId, loopVars, workVars, asked, sessions, faults>>

\* The wait between two polls is over, or a cancel interrupts it.
PollAgain ==
  /\ pc = "pollwait"
  /\ \/ asked[call] /\ pc' = "abandoning" /\ UNCHANGED <<polls, errId>>
     \/ ~asked[call] /\ polls + 1 < PollMax
        /\ pc' = "polling" /\ polls' = polls + 1 /\ UNCHANGED errId
     \/ ~asked[call] /\ polls + 1 >= PollMax
        /\ Fail(Active) /\ UNCHANGED polls
  /\ UNCHANGED <<call, saved, tries, workVars, asked, sessions, faults>>

-----------------------------------------------------------------------------
(* Cancelling and crashing                                                 *)

\* The callable the caller passed to call c starts to return True.
AskCancel(c) ==
  /\ Cooperative /\ ~asked[c]
  /\ asked' = [asked EXCEPT ![c] = TRUE]
  /\ UNCHANGED <<pc, call, saved, errId, loopVars, workVars, sessions, faults>>

\* Mutated form: the session is not abandoned on a task's cancellation.
TaskCancelled_NoAbandon ==
  /\ TaskCancels /\ pc \in Running
  /\ pc' = "cancelled" /\ errId' = 0
  /\ lanes' = [lanes EXCEPT ![call] = [l \in Lanes |-> Idle]]
  /\ Unanswered \/ Dropped({call} \X Lanes)
  /\ UNCHANGED <<call, saved, loopVars, target, missing, cursor, landed, sent, asked, faults>>

\* The caller's task is cancelled: gather cancels every lane of this call,
\* and the session is abandoned if there is one.
TaskCancelled ==
  /\ TaskCancels /\ pc \in Running
  /\ CancelCall
  /\ lanes' = [lanes EXCEPT ![call] = [l \in Lanes |-> Idle]]
  /\ Unanswered \/ Dropped({call} \X Lanes)
  /\ UNCHANGED <<call, saved, loopVars, target, missing, cursor, landed, sent, asked, faults>>

\* What DELETE does to the session; one that is over answers 404 or 410.
Discarded == IF sessions[Active].state \in {"pending", "assembling"}
             THEN SetState(Active, "abandoned") ELSE sessions

\* The DELETE is answered.
AbandonAnswered ==
  /\ pc = "abandoning"
  /\ sessions' = Discarded
  /\ pc' = "cancelled" /\ errId' = 0
  /\ UNCHANGED <<call, saved, loopVars, workVars, asked, faults>>

\* The DELETE fails or its answer is lost; the error names the session.
AbandonFails ==
  /\ pc = "abandoning" /\ Fault
  /\ sessions' \in {sessions, Discarded}
  /\ pc' = "cancelled" /\ errId' = Active
  /\ UNCHANGED <<call, saved, loopVars, workVars, asked>>

\* The caller's task is cancelled while the DELETE is awaited, after either kind
\* of cancel: _abandon_quietly catches no CancelledError, so it goes on to the
\* caller, the DELETE is dropped and nothing names the session.
AbandonInterrupted ==
  /\ TaskCancels /\ pc = "abandoning" /\ Fault
  /\ sessions' \in {sessions, Discarded}
  /\ pc' = "interrupted" /\ errId' = 0
  /\ UNCHANGED <<call, saved, loopVars, workVars, asked>>

\* The process dies: every lane of every call goes with it.
Crash ==
  /\ pc \in Running \cup {"abandoning"} /\ Fault
  /\ pc' = "crashed" /\ errId' = 0
  /\ lanes' = [c \in Calls |-> [l \in Lanes |-> Idle]]
  /\ Unanswered \/ Dropped(Calls \X Lanes)
  /\ UNCHANGED <<call, saved, loopVars, target, missing, cursor, landed, sent, asked>>

-----------------------------------------------------------------------------

\* What the call's own coroutine does next.
Main ==
  \/ Hashed \/ CreateAnswered \/ StatusAnswered
  \/ ChunksDone
  \/ CompleteAccepted \/ CompleteIncomplete \/ CompleteRefused
  \/ RestatusAnswered \/ PollAnswered \/ PollAgain
  \/ AbandonAnswered \/ AbandonFails

LaneStep(c, l) ==
  LaneNext(c, l) \/ PutAccepted(c, l) \/ PutRefused(c, l) \/ PutFails(c, l) \/ LaneWakes(c, l)

Next ==
  \/ UploadFresh \/ UploadResume
  \/ Main \/ RequestFails
  \/ \E c \in Calls, l \in Lanes : LaneStep(c, l)
  \/ \E c \in 1..call : AskCancel(c)
  \/ TaskCancelled \/ AbandonInterrupted \/ Crash
  \/ \E s \in DOMAIN sessions : CommitAttempt(s) \/ GatewayFault(s)

Spec == Init /\ [][Next]_vars

\* Every request is answered or fails (httpx times out), every wait ends, and
\* the event loop runs every task that is ready. Nothing is assumed of the
\* caller, and nothing of when an accepted completion commits.
FairSpec ==
  /\ Spec
  /\ WF_vars(Main \/ RequestFails)
  /\ \A c \in Calls, l \in Lanes : WF_vars(LaneStep(c, l))

-----------------------------------------------------------------------------
(* Properties                                                              *)

LaneType == [st : {"off", "next", "put", "backoff"}, idx : Chunks \cup {0}, attempt : 0..MaxRetries]

SessionType == [state : {"pending", "assembling", "completed", "failed", "expired", "abandoned"},
                received : SUBSET Chunks]

\* Every variable has its type; the retry, complete and poll loops stay
\* within their bounds.
TypeOK ==
  /\ pc \in Running \cup Resting \cup {"abandoning", "done"}
  /\ call \in 0..MaxCalls
  /\ sessions \in Seq(SessionType)
  /\ saved \in 0..Len(sessions) /\ errId \in 0..Len(sessions)
  /\ tries \in 0..CompleteRetries /\ polls \in 0..(PollMax - 1)
  /\ target \in [Calls -> 0..Len(sessions)]
  /\ missing \in [Calls -> Seq(Chunks)]
  /\ cursor \in [Calls -> 1..(K + 1)]
  /\ lanes \in [Calls -> [Lanes -> LaneType]]
  /\ landed \in [Calls -> SUBSET Chunks]
  /\ sent \in [Calls -> [Chunks -> Nat]]
  /\ asked \in [Calls -> BOOLEAN]
  /\ faults \in 0..MaxFaults

Holds(c, l, i) == lanes[c][l].st \in {"put", "backoff"} /\ lanes[c][l].idx = i

\* A chunk has one sender at a time: no two lanes of a call hold the same
\* index, an index in a lane is neither left to claim nor sent already, also
\* in the lanes a returned call has left behind (_upload_chunks.worker).
ClaimedOnce ==
  \A c \in Calls, l \in Lanes, i \in Chunks : Holds(c, l, i) =>
    /\ \A k \in Lanes : Holds(c, k, i) => k = l
    /\ \A p \in cursor[c]..Len(missing[c]) : missing[c][p] # i
    /\ i \notin landed[c]

\* While a call is in _upload_chunks every index it was given is left to
\* claim, in a lane, or sent; so when all lanes have returned and complete is
\* sent, each one was accepted.
NothingForgotten ==
  pc = "chunks" => \A p \in 1..Len(missing[call]) :
    \/ p >= cursor[call]
    \/ missing[call][p] \in landed[call]
    \/ \E l \in Lanes : Holds(call, l, missing[call][p])

\* bytes_sent counts a chunk at most once for each round of _upload_chunks
\* the call has begun, however lanes and retries interleave.
ProgressBounded ==
  \A i \in Chunks : call > 0 => sent[call][i] <= 1 + tries

\* Where a call has no session yet, where it has one, and where no lane of it
\* is at work.
Before == {"hashing", "creating", "statusing"}
After  == {"chunks", "completing", "restatus", "polling", "pollwait", "abandoning"}
Alone  == Running \ {"chunks"}

\* What a call knows at each place: it has a session from its first chunk on,
\* whose id the caller knows, and until then nothing of it has been sent.
CallInv ==
  /\ call = 0 <=> pc = "idle"
  /\ pc = "statusing" => saved # 0
  /\ pc \in After \cup {"interrupted"} => Active # 0
  /\ \A c \in Calls : c = call => target[c] \in {0, saved}
  /\ \A c \in Calls : c > call \/ (c = call /\ pc \in Before) =>
       /\ target[c] = 0
       /\ \A l \in Lanes : lanes[c][l].st = "off"
       /\ \A i \in Chunks : sent[c][i] = 0

\* A lane at work has a session and a retry left, and the call that awaits its
\* gather is in _upload_chunks.
LaneInv ==
  \A c \in Calls, l \in Lanes :
    /\ lanes[c][l].st # "off" => target[c] # 0
    /\ lanes[c][l].st \in {"put", "backoff"} => lanes[c][l].idx \in Chunks
    /\ lanes[c][l].st = "backoff" => lanes[c][l].attempt < MaxRetries
    /\ c = call /\ pc \in Alone => lanes[c][l].st = "off"

\* The indices of a round are all different, and those left to claim have not
\* been sent in it.
RoundInv ==
  \A c \in Calls :
    /\ Len(missing[c]) <= K
    /\ \A p, q \in 1..Len(missing[c]) : p # q => missing[c][p] # missing[c][q]
    /\ \A p \in cursor[c]..Len(missing[c]) : missing[c][p] \notin landed[c]

\* bytes_sent counts a chunk once for each earlier round at most, and once
\* more if this round has sent it.
CountInv ==
  call > 0 => \A i \in Chunks :
    sent[call][i] <= IF pc # "restatus" /\ i \in landed[call] THEN 1 + tries ELSE tries

\* A completion is accepted for a whole file only.
StoredInv ==
  \A s \in DOMAIN sessions : sessions[s].state \in {"assembling", "completed"} => Whole(s)

\* The inductive invariant: the types, one sender of a chunk at a time, a
\* count that goes on by rounds, and what these rest on.
IInv == /\ TypeOK /\ CallInv /\ LaneInv /\ ClaimedOnce /\ RoundInv /\ CountInv /\ ProgressBounded
        /\ StoredInv

\* upload_resumable returns a uri only for a file the gateway holds whole.
DoneMeansStored ==
  pc = "done" => \E s \in DOMAIN sessions : sessions[s].state = "completed" /\ Whole(s)

\* A cancelled call that had a session leaves it abandoned (or over), or its
\* error carries the session's id (_run_session, _abandon_quietly). A task
\* cancelled while that is under way may leave the session open and unnamed;
\* then the caller knows its id, from on_session_created or as the one to resume.
CancelReclaims ==
  /\ pc = "cancelled" /\ Active # 0 =>
       errId = Active \/ sessions[Active].state \notin {"pending", "assembling"}
  /\ pc = "interrupted" => Active # 0 /\ saved = Active

\* Every call returns, fails or is cancelled: retries, rounds of complete and
\* polls are all bounded.
CallReturns == pc \in Running \cup {"abandoning"} ~> pc \in Resting \cup {"done"}

\* A lane a call leaves behind comes to rest too.
OrphansRest == \A c \in Calls, l \in Lanes : lanes[c][l].st # "off" ~> lanes[c][l].st = "off"

\* The module's docstring: a cancel, once a session exists, abandons it before
\* the error propagates. (The code does not know the session it was asked to
\* resume until its status has been answered.)
CancelAbandons ==
  [][pc = "statusing" /\ pc' = "cancelled" =>
       errId' = saved \/ sessions'[saved].state # "pending"]_vars

=============================================================================
