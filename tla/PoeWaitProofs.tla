--------------------------- MODULE PoeWaitProofs ---------------------------
(***************************************************************************)
(* Proofs about PoeWait, for every lifecycle that goes forward, every      *)
(* backoff ladder and every number of failures.  And about SseFraming, the *)
(* parser of the stream it waits on, for any stream, limits and cutting.   *)
(***************************************************************************)
EXTENDS PoeWait, SequenceTheorems, SetInduction

CONSTANTS Letters, MaxLine, MaxEvent, MaxChunk, MaxStream
VARIABLES parser, out, fed
Framing == INSTANCE SseFraming

-----------------------------------------------------------------------------
(* Statuses and frames                                                     *)

LEMMA NormalizeType ==
  ASSUME NEW status \in Statuses
  PROVE  Normalize(status) \in Statuses
<1>1. CASE status \in {"submitted", "permanent_failure"}
  BY <1>1 DEF Normalize, Statuses
<1>2. CASE status \notin {"submitted", "permanent_failure"}
  BY <1>2 DEF Normalize
<1>3. QED
  BY <1>1, <1>2

LEMMA LogFacts ==
  ASSUME TypeOK, Forward
  PROVE  /\ Len(log) \in Nat \ {0} /\ DOMAIN log = 1..Len(log)
         /\ Len(log) \in DOMAIN log /\ \A j \in DOMAIN log : log[j] \in Statuses
  BY DEF TypeOK, Forward

\* The frames of an opening and a keepalive are genuine.
LEMMA FrameFacts ==
  ASSUME TypeOK, Forward
  PROVE  /\ Ping \in FrameType /\ Genuine(Ping)
         /\ \A j \in DOMAIN log : /\ Frame(j) \in FrameType /\ Genuine(Frame(j))
                                  /\ [Frame(j) EXCEPT !.id = 0] \in FrameType
                                  /\ Genuine([Frame(j) EXCEPT !.id = 0])
<1>1. Ping \in FrameType /\ Genuine(Ping)
  BY LogFacts DEF Ping, FrameType, Statuses, Genuine
<1>2. ASSUME NEW j \in DOMAIN log
      PROVE  /\ Frame(j) \in FrameType
             /\ [Frame(j) EXCEPT !.id = 0] \in FrameType
  BY <1>2, LogFacts DEF Frame, FrameType
<1>3. ASSUME NEW j \in DOMAIN log
      PROVE  Genuine(Frame(j)) /\ Genuine([Frame(j) EXCEPT !.id = 0])
  BY <1>3 DEF Frame, Genuine
<1>4. QED
  BY <1>1, <1>2, <1>3

\* A keepalive ends no wait.
LEMMA PingDecidesNothing == ~Decides(Normalize(Ping.status))
  BY DEF Decides, Normalize, Ping, TargetReached, Reaching

-----------------------------------------------------------------------------
(* Steps in which the client reads nothing                                 *)

Open == {"connecting", "streaming", "sleeping"}

\* The log stays, the wire stays or is dropped, and the wait goes on or ends
\* as it was to end.
Quiet ==
  /\ UNCHANGED <<target, lastId, snapshot, log>> /\ wire' \in {wire, <<>>}
  /\ pc' \in Awaiting \cup Ended /\ step' \in 0..(Ladder - 1)
  /\ delivered' \in BOOLEAN /\ faults' \in 0..MaxFaults
  /\ pc' \in Open => pc \in Open
  /\ pc' \in {"closing", "returned"} => pc \in {"closing", "returned"}
  /\ pc' \in {"raising", "failed"} => pc \in {"raising", "failed"}

LEMMA QuietStep ==
  ASSUME ConstantsAssumption, WaitInv, Quiet
  PROVE  WaitInv'
<1> USE DEF WaitInv
<1>1. wire' \in Seq(FrameType')
  <2>1. wire \in Seq(FrameType) /\ FrameType' = FrameType
    BY DEF TypeOK, FrameType, Quiet
  <2>2. CASE wire' = wire
    BY <2>1, <2>2
  <2>3. CASE wire' = <<>>
    BY <2>3
  <2>4. QED
    BY <2>2, <2>3 DEF Quiet
<1>2. TypeOK'
  BY <1>1 DEF TypeOK, Quiet
<1>3. WireTrue'
  BY DEF WireTrue, Genuine, Quiet
<1>4. Forward'
  BY DEF Forward, Decides, TargetReached, Quiet
<1>5. ResumePointSafe'
  BY DEF ResumePointSafe, Decides, TargetReached, Quiet, Open
<1>6. Decided'
  BY DEF Decided, TargetReached, Quiet
<1>7. QED
  BY <1>2, <1>3, <1>4, <1>5, <1>6

\* The frames a keepalive or an opening puts on the wire are genuine.
LEMMA WireStep ==
  ASSUME ConstantsAssumption, WaitInv, wire' \in Seq(FrameType),
         \A k \in DOMAIN wire' : Genuine(wire'[k]),
         UNCHANGED <<target, lastId, step, delivered, snapshot, log, faults>>,
         pc' = "streaming", pc \in Open
  PROVE  WaitInv'
<1> USE DEF WaitInv
<1>1. TypeOK'
  BY DEF TypeOK, FrameType, Awaiting
<1>2. WireTrue'
  BY DEF WireTrue, Genuine
<1>3. Forward' /\ Decided'
  BY DEF Forward, Decided, Decides, TargetReached
<1>4. ResumePointSafe'
  BY DEF ResumePointSafe, Decides, TargetReached, Open
<1>5. QED
  BY <1>1, <1>2, <1>3, <1>4

LEMMA OpeningFacts ==
  ASSUME ConstantsAssumption, TypeOK, Forward, NEW w \in Opening
  PROVE  w \in Seq(FrameType) /\ \A k \in DOMAIN w : Genuine(w[k])
<1> DEFINE state == {Frame(Len(log)), [Frame(Len(log)) EXCEPT !.id = 0]}
           newer == [k \in 1..(Len(log) - lastId) |-> Frame(lastId + k)]
<1>1. \A f \in state : f \in FrameType /\ Genuine(f)
  BY LogFacts, FrameFacts
<1>2. newer \in Seq(FrameType) /\ \A k \in DOMAIN newer : Genuine(newer[k])
  <2>1. Len(log) - lastId \in Nat
    BY LogFacts DEF TypeOK
  <2>2. ASSUME NEW k \in 1..(Len(log) - lastId)
        PROVE  lastId + k \in DOMAIN log
    BY <2>1, LogFacts DEF TypeOK
  <2>3. \A k \in 1..(Len(log) - lastId) : newer[k] \in FrameType /\ Genuine(newer[k])
    BY <2>2, FrameFacts
  <2>4. QED
    BY <2>1, <2>3
<1>3. w \in {<<f>> : f \in state} \cup {newer} \cup {<<f>> \o newer : f \in state}
  BY DEF Opening
<1> HIDE DEF state, newer
<1>4. CASE w \in {<<f>> : f \in state}
  <2>1. PICK f \in state : w = <<f>>
    BY <1>4
  <2>2. w \in Seq(FrameType) /\ DOMAIN w = {1} /\ w[1] = f
    BY <1>1, <2>1
  <2>3. QED
    BY <1>1, <2>2
<1>5. CASE w = newer
  BY <1>2, <1>5
<1>6. CASE w \in {<<f>> \o newer : f \in state}
  <2>1. PICK f \in state : w = <<f>> \o newer
    BY <1>6
  <2>2. <<f>> \in Seq(FrameType)
    BY <1>1
  <2>3. /\ w \in Seq(FrameType) /\ Len(w) = 1 + Len(newer)
        /\ w[1] = f /\ \A k \in 1..Len(newer) : w[k + 1] = newer[k]
    BY <1>2, <2>1, <2>2
  <2>4. ASSUME NEW k \in DOMAIN w, k # 1
        PROVE  k - 1 \in DOMAIN newer /\ w[k] = newer[k - 1]
    BY <1>2, <2>3, <2>4
  <2>5. QED
    BY <1>1, <1>2, <2>3, <2>4
<1>7. QED
  BY <1>3, <1>4, <1>5, <1>6

-----------------------------------------------------------------------------
(* The record goes on                                                      *)

LEMMA AdvanceStep ==
  ASSUME ConstantsAssumption, LifecycleAssumption, WaitInv, Advance
  PROVE  WaitInv'
<1> USE DEF WaitInv
<1>1. PICK change \in Lifecycle :
        /\ change[1] = Current /\ log' = Append(log, change[2])
        /\ wire' = IF pc = "streaming"
                   THEN Append(wire, [id |-> Len(log) + 1, status |-> change[2]]) ELSE wire
  BY DEF Advance
<1>2. UNCHANGED clientVars /\ UNCHANGED faults
  BY DEF Advance
<1>3. change[2] \in Statuses
  BY DEF Statuses
<1>4. /\ log' \in Seq(Statuses) /\ Len(log') = Len(log) + 1
      /\ DOMAIN log' = 1..(Len(log) + 1)
      /\ \A k \in 1..Len(log) : log'[k] = log[k]
      /\ log'[Len(log) + 1] = change[2]
  BY <1>1, <1>3, LogFacts DEF TypeOK
<1>5. WireTrue' /\ wire' \in Seq(FrameType')
  <2>1. FrameType \subseteq FrameType'
    BY <1>4, LogFacts DEF FrameType
  <2>2. wire \in Seq(FrameType')
    BY <2>1 DEF TypeOK
  <2>3. ASSUME NEW f, Genuine(f)
        PROVE  Genuine(f)'
    BY <1>4, <2>3, LogFacts DEF Genuine
  <2>4. CASE wire' = wire
    BY <2>2, <2>3, <2>4 DEF WireTrue
  <2>5. ASSUME NEW new, new = [id |-> Len(log) + 1, status |-> change[2]],
               wire' = Append(wire, new)
        PROVE  WireTrue' /\ wire' \in Seq(FrameType')
    <3>1. new \in FrameType'
      BY <1>3, <1>4, <2>5, LogFacts DEF FrameType
    <3>2. Genuine(new)'
      BY <1>4, <2>5, LogFacts DEF Genuine
    <3>3. /\ wire' \in Seq(FrameType') /\ DOMAIN wire = 1..Len(wire)
          /\ \A k \in DOMAIN wire' : \/ wire'[k] = new
                                     \/ k \in DOMAIN wire /\ wire'[k] = wire[k]
      BY <2>2, <2>5, <3>1
    <3>4. QED
      BY <2>3, <3>2, <3>3 DEF WireTrue
  <2>6. QED
    BY <1>1, <2>4, <2>5
<1>6. TypeOK'
  BY <1>2, <1>4, <1>5, LogFacts DEF TypeOK, clientVars
<1>7. Forward'
  <2>1. Decides(Normalize(Current)) => Decides(Normalize(change[2]))
    BY <1>1 DEF LifecycleAssumption, Decides, TargetReached, TypeOK
  <2>2. \A i \in 1..Len(log) : Decides(Normalize(log[i])) => Decides(Normalize(change[2]))
    BY <2>1, LogFacts DEF Forward, Current
  <2>3. \A status : Decides(status)' <=> Decides(status)
    BY <1>2 DEF Decides, TargetReached, clientVars
  <2>4. ASSUME NEW i \in DOMAIN log', NEW j \in DOMAIN log', i <= j, Decides(Normalize(log'[i]))
        PROVE  Decides(Normalize(log'[j]))
    <3>1. CASE j \in 1..Len(log)
      BY <1>4, <2>4, <3>1, LogFacts DEF Forward
    <3>2. CASE j = Len(log) + 1
      BY <1>4, <2>2, <2>4, <3>2, LogFacts
    <3>3. QED
      BY <1>4, <3>1, <3>2, LogFacts
  <2>5. log' # <<>>
    BY <1>4, LogFacts
  <2>6. QED
    BY <2>3, <2>4, <2>5 DEF Forward
<1>8. ResumePointSafe'
  <2>1. \A k \in 1..lastId : k \in 1..Len(log)
    BY LogFacts DEF TypeOK
  <2>2. QED
    BY <1>2, <1>4, <2>1 DEF ResumePointSafe, Decides, TargetReached, clientVars
<1>9. Decided'
  BY <1>2, <1>4, LogFacts DEF Decided, TargetReached, clientVars
<1>10. QED
  BY <1>5, <1>6, <1>7, <1>8, <1>9

-----------------------------------------------------------------------------
(* Reading frames                                                          *)

LEMMA EarliestFacts ==
  ASSUME NEW S \in SUBSET Nat, S # {}
  PROVE  Earliest(S) \in S /\ \A k \in S : Earliest(S) <= k
<1>1. \E k \in S : \A j \in S : k <= j
  BY SmallestMember
<1>2. QED
  BY <1>1, Zenon DEF Earliest

LEMMA LatestFacts ==
  ASSUME NEW n \in Nat, NEW S \in SUBSET (1..n), S # {}
  PROVE  Latest(S) \in S /\ \A k \in S : k <= Latest(S)
<1>1. S \in SUBSET (0..n)
  OBVIOUS
<1>2. \E k \in S : \A j \in S : j <= k
  BY <1>1, LargestMember
<1>3. QED
  BY <1>2, Zenon DEF Latest

\* The frames looked at are those before the first that decides, and it.
LEMMA ExaminedFacts ==
  ASSUME TypeOK, Forward, NEW chunk \in Seq(FrameType), chunk # <<>>
  PROVE  /\ Examined(chunk) \in 1..Len(chunk)
         /\ ~Decides(Normalize(chunk[Examined(chunk)].status)) =>
              \A k \in 1..Len(chunk) : ~Decides(Normalize(chunk[k].status))
<1> DEFINE deciding == {k \in DOMAIN chunk : Decides(Normalize(chunk[k].status))}
<1>1. Examined(chunk) = IF deciding = {} THEN Len(chunk) ELSE Earliest(deciding)
  BY DEF Examined
<1>2. Len(chunk) \in 1..Len(chunk) /\ DOMAIN chunk = 1..Len(chunk)
  OBVIOUS
<1>3. CASE deciding = {}
  BY <1>1, <1>2, <1>3
<1>4. CASE deciding # {}
  <2>1. deciding \in SUBSET Nat
    BY <1>2
  <2>2. Earliest(deciding) \in deciding
    BY <1>4, <2>1, EarliestFacts
  <2>3. QED
    BY <1>1, <1>2, <1>4, <2>2
<1>5. QED
  BY <1>3, <1>4

\* What the frames read leave behind comes from one of them.
LEMMA LastFacts ==
  ASSUME NEW frames \in Seq(FrameType)
  PROVE  /\ \/ LastIdOf(frames) = lastId
            \/ \E k \in 1..Len(frames) : frames[k].id # 0 /\ LastIdOf(frames) = frames[k].id
         /\ \/ LastSnapshotOf(frames) = snapshot
            \/ \E k \in 1..Len(frames) : LastSnapshotOf(frames) = Normalize(frames[k].status)
<1>1. Len(frames) \in Nat /\ DOMAIN frames = 1..Len(frames)
  OBVIOUS
<1> DEFINE numbered == {k \in DOMAIN frames : frames[k].id # 0}
           snaps == {k \in DOMAIN frames : frames[k] # Ping}
<1>2. numbered # {} => Latest(numbered) \in numbered
  BY <1>1, LatestFacts
<1>3. snaps # {} => Latest(snaps) \in snaps
  BY <1>1, LatestFacts
<1>4. QED
  BY <1>1, <1>2, <1>3 DEF LastIdOf, LastSnapshotOf

LEMMA ReceiveStep ==
  ASSUME ConstantsAssumption, WaitInv, Receive
  PROVE  WaitInv'
<1> USE DEF WaitInv
<1>1. PICK n \in 1..Len(wire) :
        LET frames == SubSeq(wire, 1, Examined(SubSeq(wire, 1, n)))
            status == Normalize(frames[Len(frames)].status)
        IN /\ lastId' = LastIdOf(frames)
           /\ snapshot' = LastSnapshotOf(frames)
           /\ pc' = CASE status = "failed"     -> "raising"
                      [] TargetReached(status) -> "closing"
                      [] OTHER                 -> pc
           /\ wire' = SubSeq(wire, n + 1, Len(wire))
  BY DEF Receive
<1>2. /\ pc = "streaming" /\ delivered' = TRUE
      /\ UNCHANGED <<target, step, log, faults>>
  BY DEF Receive
<1> DEFINE chunk == SubSeq(wire, 1, n)
           e == Examined(chunk)
           frames == SubSeq(wire, 1, e)
           status == Normalize(frames[Len(frames)].status)
<1>3. /\ wire \in Seq(FrameType) /\ DOMAIN wire = 1..Len(wire)
      /\ chunk \in Seq(FrameType) /\ Len(chunk) = n /\ n \in Nat \ {0}
      /\ \A k \in 1..n : chunk[k] = wire[k]
  BY DEF TypeOK
<1>4. /\ e \in 1..n
      /\ ~Decides(Normalize(wire[e].status)) => \A k \in 1..n : ~Decides(Normalize(wire[k].status))
  <2> HIDE DEF chunk
  <2>1. chunk # <<>>
    BY <1>3
  <2>2. QED
    BY <1>3, <2>1, ExaminedFacts
<1>5. /\ frames \in Seq(FrameType) /\ Len(frames) = e
      /\ \A k \in 1..e : frames[k] = wire[k] /\ k \in 1..n
  <2> HIDE DEF e
  <2>1. QED
    BY <1>3, <1>4
<1>6. /\ lastId' = LastIdOf(frames) /\ snapshot' = LastSnapshotOf(frames)
      /\ pc' = CASE status = "failed"     -> "raising"
                 [] TargetReached(status) -> "closing"
                 [] OTHER                 -> pc
      /\ wire' = SubSeq(wire, n + 1, Len(wire))
  BY <1>1
<1>7. status = Normalize(wire[e].status) /\ e \in DOMAIN wire
  BY <1>3, <1>4, <1>5
<1> HIDE DEF chunk, e, frames, status
<1>8. /\ wire' \in Seq(FrameType)
      /\ \A k \in DOMAIN wire' : k + n \in DOMAIN wire /\ wire'[k] = wire[k + n]
  BY <1>3, <1>6
<1>9. /\ \/ lastId' = lastId
         \/ \E k \in 1..e : wire[k].id # 0 /\ lastId' = wire[k].id
      /\ \/ snapshot' = snapshot
         \/ \E k \in 1..e : snapshot' = Normalize(wire[k].status)
  BY <1>5, <1>6, LastFacts
<1>10. \A k \in 1..e : wire[k] \in FrameType /\ Genuine(wire[k])
  BY <1>3, <1>5 DEF WireTrue
<1>11. TypeOK'
  <2>1. pc' \in {"raising", "closing", "streaming"}
    BY <1>2, <1>6
  <2>2. lastId' \in 0..Len(log)
    BY <1>9, <1>10 DEF TypeOK, FrameType
  <2>3. snapshot' \in Statuses
    BY <1>9, <1>10, NormalizeType DEF TypeOK, FrameType
  <2>4. FrameType' = FrameType
    BY <1>2 DEF FrameType
  <2>5. QED
    BY <1>2, <1>8, <2>1, <2>2, <2>3, <2>4 DEF TypeOK, Awaiting
<1>12. WireTrue'
  BY <1>2, <1>8 DEF WireTrue, Genuine
<1>13. Forward'
  BY <1>2 DEF Forward, Decides, TargetReached
<1>14. Decides(status) => \E k \in DOMAIN log : status = Normalize(log[k])
  <2>1. wire[e] = Ping \/ \E j \in DOMAIN log : wire[e].status = log[j]
    BY <1>4, <1>10 DEF Genuine
  <2>2. QED
    BY <1>7, <2>1, PingDecidesNothing
<1>15. ResumePointSafe'
  <2>1. SUFFICES ASSUME pc' \in Open
                 PROVE  \A k \in 1..lastId' : ~Decides(Normalize(log[k]))
    BY <1>2 DEF ResumePointSafe, Decides, TargetReached, Open
  <2>2. ~Decides(status)
    BY <1>6, <2>1 DEF Decides, Open
  <2>3. \A k \in 1..n : ~Decides(Normalize(wire[k].status))
    BY <1>4, <1>7, <2>2
  <2>4. CASE lastId' = lastId
    BY <1>2, <2>4 DEF ResumePointSafe
  <2>5. CASE \E k \in 1..e : wire[k].id # 0 /\ lastId' = wire[k].id
    <3>1. PICK k \in 1..e : wire[k].id # 0 /\ lastId' = wire[k].id
      BY <2>5
    <3>2. wire[k] # Ping
      BY <3>1 DEF Ping
    <3>3. lastId' \in DOMAIN log /\ wire[k].status = log[lastId']
      BY <1>10, <3>1, <3>2 DEF Genuine
    <3>4. ~Decides(Normalize(log[lastId']))
      BY <1>5, <2>3, <3>3
    <3>5. QED
      BY <3>3, <3>4, LogFacts DEF Forward
  <2>6. QED
    BY <1>9, <2>4, <2>5
<1>16. Decided'
  BY <1>2, <1>6, <1>14 DEF Decided, Decides, TargetReached
<1>17. QED
  BY <1>11, <1>12, <1>13, <1>15, <1>16

-----------------------------------------------------------------------------
(* The invariant                                                           *)

LEMMA InitWaitInv ==
  ASSUME ConstantsAssumption, Init
  PROVE  WaitInv
<1> USE DEF Init
<1>1. TypeOK
  <2>1. log \in Seq(Statuses) /\ Len(log) = 1 /\ wire \in Seq(FrameType)
    BY DEF Statuses
  <2>2. pc \in Awaiting /\ snapshot \in Statuses
    BY DEF Awaiting, Statuses
  <2>3. lastId \in 0..Len(log) /\ step \in 0..(Ladder - 1) /\ faults \in 0..MaxFaults
    BY <2>1 DEF ConstantsAssumption
  <2>4. QED
    BY <2>1, <2>2, <2>3 DEF TypeOK
<1>2. WireTrue /\ ResumePointSafe /\ Decided
  BY DEF WireTrue, ResumePointSafe, Decided
<1>3. Forward
  <2>1. DOMAIN log = {1} /\ log # <<>>
    OBVIOUS
  <2>2. QED
    BY <2>1 DEF Forward
<1>4. QED
  BY <1>1, <1>2, <1>3 DEF WaitInv

LEMMA NextWaitInv ==
  ASSUME ConstantsAssumption, LifecycleAssumption, WaitInv, [Next]_vars
  PROVE  WaitInv'
<1> USE DEF WaitInv
<1>1. CASE Advance
  BY <1>1, AdvanceStep
<1>2. CASE KeepAlive
  <2>1. /\ pc = "streaming" /\ wire' = <<Ping>>
        /\ UNCHANGED <<target, pc, lastId, step, delivered, snapshot, log, faults>>
    BY <1>2 DEF KeepAlive, clientVars
  <2>2. wire' \in Seq(FrameType) /\ \A k \in DOMAIN wire' : Genuine(wire'[k])
    BY <2>1, FrameFacts
  <2>3. QED
    BY <2>1, <2>2, WireStep DEF Open
<1>3. CASE Connect
  <2>1. wire' \in Seq(FrameType) /\ \A k \in DOMAIN wire' : Genuine(wire'[k])
    BY <1>3, OpeningFacts DEF Connect
  <2>2. QED
    BY <1>3, <2>1, WireStep DEF Connect, Open
<1>4. CASE Receive
  BY <1>4, ReceiveStep
<1>5. CASE ConnectFails \/ StreamBreaks
  <2>1. step' \in 0..(Ladder - 1)
    BY <1>5 DEF ConnectFails, StreamBreaks, Backoff, TypeOK, ConstantsAssumption
  <2>2. faults' \in 0..MaxFaults
    BY <1>5 DEF ConnectFails, StreamBreaks, Fault, TypeOK, ConstantsAssumption
  <2>3. Quiet
    BY <1>5, <2>1, <2>2 DEF ConnectFails, StreamBreaks, Backoff, Quiet, TypeOK, Open, Awaiting
  <2>4. QED
    BY <2>3, QuietStep
<1>6. CASE Rejected
  <2>1. faults' \in 0..MaxFaults
    BY <1>6 DEF Rejected, Fault, TypeOK, ConstantsAssumption
  <2>2. Quiet
    BY <1>6, <2>1 DEF Rejected, Quiet, TypeOK, Open, Ended
  <2>3. QED
    BY <2>2, QuietStep
<1>7. CASE Wake \/ Closed \/ Deadline \/ Cancelled
  <2>1. Quiet
    BY <1>7 DEF Wake, Closed, Deadline, Cancelled, Quiet, TypeOK, Open, Awaiting, Ended
  <2>2. QED
    BY <2>1, QuietStep
<1>8. CASE UNCHANGED vars
  <2>1. Quiet
    BY <1>8 DEF vars, clientVars, Quiet, TypeOK
  <2>2. QED
    BY <2>1, QuietStep
<1>9. QED
  BY <1>1, <1>2, <1>3, <1>4, <1>5, <1>6, <1>7, <1>8 DEF Next

\* A wait resumes only after events that were none to end it, and every frame
\* it reads and every outcome it reaches is something the record has been,
\* however often the connection drops (_wait_loop).
THEOREM WaitInvariant == Spec => []WaitInv
<1>1. Init => WaitInv
  BY ConstantsAssumption, InitWaitInv
<1>2. WaitInv /\ [Next]_vars => WaitInv'
  BY ConstantsAssumption, LifecycleAssumption, NextWaitInv
<1>3. QED
  BY <1>1, <1>2, PTL DEF Spec

\* wait returns only for a record that has reached the target, and raises
\* PoeFailedError only for one that has failed.
THEOREM OutcomesAreTrue == Spec => []OutcomeIsTrue
<1>1. ASSUME WaitInv
      PROVE  OutcomeIsTrue
  <2>1. target \in {"submitted", "confirmed"}
    BY <1>1, ConstantsAssumption DEF WaitInv, TypeOK, ConstantsAssumption
  <2>2. pc = "returned" => \E k \in DOMAIN log : TargetReached(Normalize(log[k]))
    BY <1>1 DEF WaitInv, Decided
  <2>3. pc = "failed" => \E k \in DOMAIN log : Normalize(log[k]) = "failed"
    BY <1>1 DEF WaitInv, Decided
  <2>4. ASSUME NEW status, TargetReached(Normalize(status))
        PROVE  status \in (IF target = "submitted" THEN {"submitted", "confirming", "confirmed"}
                                                   ELSE {"confirmed"})
    BY <2>1, <2>4 DEF TargetReached, Normalize, Reaching
  <2>5. ASSUME NEW status, Normalize(status) = "failed"
        PROVE  status \in {"failed", "permanent_failure"}
    BY <2>5 DEF Normalize
  <2>6. QED
    BY <2>2, <2>3, <2>4, <2>5 DEF OutcomeIsTrue, Had
<1>2. QED
  BY <1>1, WaitInvariant, PTL

-----------------------------------------------------------------------------
(* The stream a wait reads                                                 *)

\* The events and parsers there are.
EventShape == [name : Seq(Letters), data : Seq(Seq(Letters)), id : Seq(Letters)]
\* Parsers by their fields.
ParserShape ==
  [buffer : Seq(Letters), event : EventShape, bytes : Nat, raised : BOOLEAN, events : Seq(EventShape)]
\* Those there are: within the limit of an event, or failed.
Parsers == {p \in ParserShape : ~p.raised => p.bytes <= MaxEvent}

\* A parser that had returned these events before its own.
Under(events, p) ==
  [buffer |-> p.buffer, event |-> p.event, bytes |-> p.bytes, raised |-> p.raised,
   events |-> events \o p.events]

\* It is told by its fields.
LEMMA UnderFacts ==
  ASSUME NEW p \in ParserShape, NEW events \in Seq(EventShape)
  PROVE  LET q == Under(events, p)
         IN /\ q \in ParserShape /\ q.buffer = p.buffer /\ q.event = p.event /\ q.bytes = p.bytes
            /\ q.raised = p.raised /\ q.events = events \o p.events
            /\ events \o p.events \in Seq(EventShape)
<1>1. events \o p.events \in Seq(EventShape)
  BY DEF ParserShape
<1>2. QED
  BY <1>1 DEF Under, ParserShape

\* A parser is told by its fields.
LEMMA ToldByFields ==
  ASSUME NEW p \in ParserShape, NEW q \in ParserShape, p.buffer = q.buffer, p.event = q.event,
         p.bytes = q.bytes, p.raised = q.raised, p.events = q.events
  PROVE  p = q
  BY DEF ParserShape

\* A parser is one under earlier events when its fields say so.
LEMMA IsUnder ==
  ASSUME NEW p \in ParserShape, NEW q \in ParserShape, NEW events \in Seq(EventShape),
         p.buffer = q.buffer, p.event = q.event, p.bytes = q.bytes, p.raised = q.raised,
         q.events = events \o p.events
  PROVE  q = Under(events, p)
<1>1. PICK r : r = Under(events, p)
  OBVIOUS
<1>2. /\ r \in ParserShape /\ r.buffer = p.buffer /\ r.event = p.event /\ r.bytes = p.bytes
      /\ r.raised = p.raised /\ r.events = events \o p.events
  BY <1>1, UnderFacts
<1>3. QED
  BY <1>1, <1>2, ToldByFields

\* A parser that has read nothing.
LEMMA FreshParser ==
  ASSUME Framing!SizesAssumption
  PROVE  Framing!Fresh \in Parsers /\ Framing!Blank \in EventShape
<1>1. Framing!Blank \in EventShape
  BY DEF Framing!Blank, Framing!NoField, EventShape
<1>2. QED
  BY <1>1 DEF Framing!Fresh, Parsers, ParserShape, Framing!SizesAssumption

\* A line keeps its bytes but for the CR.
LEMMA StrippedFacts ==
  ASSUME NEW line \in Seq(Letters)
  PROVE  Framing!Stripped(line) \in Seq(Letters)
<1>1. CASE line # <<>>
  <2>1. Len(line) \in Nat /\ Len(line) >= 1
    BY <1>1
  <2>2. SubSeq(line, 1, Len(line) - 1) \in Seq(Letters)
    BY <2>1
  <2>3. QED
    BY <2>2 DEF Framing!Stripped, Framing!Front
<1>2. CASE line = <<>>
  BY <1>2 DEF Framing!Stripped
<1>3. QED
  BY <1>1, <1>2

\* A line leaves an event an event.
LEMMA WithLineFacts ==
  ASSUME NEW event \in EventShape, NEW line \in Seq(Letters)
  PROVE  Framing!WithLine(event, line) \in EventShape
<1>1. Append(event.data, line) \in Seq(Seq(Letters))
  BY DEF EventShape
<1>2. QED
  BY <1>1 DEF Framing!WithLine, EventShape

\* A line keeps a parser one, and what it does has nothing to do with the events
\* there are already.
LEMMA HandleLineFacts ==
  ASSUME NEW p \in Parsers, NEW raw \in Seq(Letters), NEW events \in Seq(EventShape),
         Framing!SizesAssumption, ~p.raised
  PROVE  Framing!HandleLine(p, raw) \in Parsers /\ Framing!HandleLine(Under(events, p), raw) = Under(events, Framing!HandleLine(p, raw))
<1>1. /\ p \in ParserShape /\ p.bytes <= MaxEvent /\ p.bytes \in Nat /\ p.event \in EventShape
      /\ p.events \in Seq(EventShape)
  BY DEF Parsers, ParserShape
<1>2. MaxEvent \in Nat /\ Len(raw) \in Nat /\ Framing!Blank \in EventShape /\ p.bytes + Len(raw) \in Nat
  BY <1>1, FreshParser DEF Framing!SizesAssumption
<1>3. PICK q : q = Under(events, p)
  OBVIOUS
<1>4. /\ q \in ParserShape /\ q.buffer = p.buffer /\ q.event = p.event /\ q.bytes = p.bytes
      /\ q.raised = p.raised /\ q.events = events \o p.events
      /\ events \o p.events \in Seq(EventShape)
  BY <1>1, <1>3, UnderFacts
<1>5. PICK u, v : u = Framing!HandleLine(p, raw) /\ v = Framing!HandleLine(q, raw)
  OBVIOUS
<1>6. SUFFICES u \in Parsers /\ v = Under(events, u)
  BY <1>3, <1>5
<1>7. CASE raw = <<>> /\ p.event = Framing!Blank
  <2>1. u = p /\ v = q
    BY <1>4, <1>5, <1>7 DEF Framing!HandleLine, Framing!Dispatch
  <2>2. QED
    BY <1>3, <2>1
<1>8. CASE raw = <<>> /\ p.event # Framing!Blank
  <2>1. PICK es \in Seq(EventShape), fs \in Seq(EventShape) :
          es = Append(p.events, p.event) /\ fs = Append(q.events, p.event) /\ fs = events \o es
    <3>1. PICK ds \in Seq(EventShape), e \in EventShape : ds = p.events /\ e = p.event
      BY <1>1
    <3>2. /\ Append(ds, e) \in Seq(EventShape) /\ Append(events \o ds, e) \in Seq(EventShape)
          /\ Append(events \o ds, e) = events \o Append(ds, e)
      OBVIOUS
    <3>3. QED
      BY <1>4, <3>1, <3>2
  <2>2. /\ u = [p EXCEPT !.events = es, !.event = Framing!Blank, !.bytes = 0]
        /\ v = [q EXCEPT !.events = fs, !.event = Framing!Blank, !.bytes = 0]
    BY <1>4, <1>5, <1>8, <2>1 DEF Framing!HandleLine, Framing!Dispatch
  <2>3. /\ u \in ParserShape /\ u.buffer = p.buffer /\ u.event = Framing!Blank /\ u.bytes = 0
        /\ u.raised = p.raised /\ u.events = es
    BY <1>1, <1>2, <2>1, <2>2 DEF ParserShape
  <2>4. /\ v \in ParserShape /\ v.buffer = q.buffer /\ v.event = Framing!Blank /\ v.bytes = 0
        /\ v.raised = q.raised /\ v.events = fs
    BY <1>2, <1>4, <2>1, <2>2 DEF ParserShape
  <2>5. u \in Parsers
    BY <1>2, <2>3 DEF Parsers
  <2>6. /\ u \in ParserShape /\ v \in ParserShape
        /\ u.buffer = v.buffer /\ u.event = v.event /\ u.bytes = v.bytes
        /\ u.raised = v.raised /\ v.events = events \o u.events
    BY <1>4, <2>1, <2>3, <2>4
  <2>7. v = Under(events, u)
    BY <2>6, IsUnder
  <2>8. QED
    BY <2>5, <2>7
<1>9. CASE raw # <<>> /\ p.bytes + Len(raw) > MaxEvent
  <2>1. /\ u = [p EXCEPT !.bytes = p.bytes + Len(raw), !.raised = TRUE]
        /\ v = [q EXCEPT !.bytes = p.bytes + Len(raw), !.raised = TRUE]
    BY <1>4, <1>5, <1>9 DEF Framing!HandleLine
  <2>2. /\ u \in ParserShape /\ u.buffer = p.buffer /\ u.event = p.event
        /\ u.bytes = p.bytes + Len(raw) /\ u.raised /\ u.events = p.events
    BY <1>1, <1>2, <2>1 DEF ParserShape
  <2>3. /\ v \in ParserShape /\ v.buffer = q.buffer /\ v.event = q.event
        /\ v.bytes = p.bytes + Len(raw) /\ v.raised /\ v.events = q.events
    BY <1>2, <1>4, <2>1 DEF ParserShape
  <2>4. u \in Parsers
    BY <2>2 DEF Parsers
  <2>5. /\ u \in ParserShape /\ v \in ParserShape
        /\ u.buffer = v.buffer /\ u.event = v.event /\ u.bytes = v.bytes
        /\ u.raised = v.raised /\ v.events = events \o u.events
    BY <1>4, <2>2, <2>3 DEF ParserShape
  <2>6. v = Under(events, u)
    BY <2>5, IsUnder
  <2>7. QED
    BY <2>4, <2>6
<1>10. CASE raw # <<>> /\ ~(p.bytes + Len(raw) > MaxEvent)
  <2>1. PICK e \in EventShape : e = Framing!WithLine(p.event, raw)
    BY <1>1, WithLineFacts
  <2>2. /\ u = [p EXCEPT !.bytes = p.bytes + Len(raw), !.event = e]
        /\ v = [q EXCEPT !.bytes = p.bytes + Len(raw), !.event = e]
    BY <1>4, <1>5, <1>10, <2>1 DEF Framing!HandleLine
  <2>3. /\ u \in ParserShape /\ u.buffer = p.buffer /\ u.event = e
        /\ u.bytes = p.bytes + Len(raw) /\ u.raised = p.raised /\ u.events = p.events
    BY <1>1, <1>2, <2>1, <2>2 DEF ParserShape
  <2>4. /\ v \in ParserShape /\ v.buffer = q.buffer /\ v.event = e
        /\ v.bytes = p.bytes + Len(raw) /\ v.raised = q.raised /\ v.events = q.events
    BY <1>2, <1>4, <2>1, <2>2 DEF ParserShape
  <2>5. u \in Parsers
    BY <1>2, <1>10, <2>3 DEF Parsers
  <2>6. /\ u \in ParserShape /\ v \in ParserShape
        /\ u.buffer = v.buffer /\ u.event = v.event /\ u.bytes = v.bytes
        /\ u.raised = v.raised /\ v.events = events \o u.events
    BY <1>4, <2>3, <2>4
  <2>7. v = Under(events, u)
    BY <2>6, IsUnder
  <2>8. QED
    BY <2>5, <2>7
<1>11. QED
  BY <1>7, <1>8, <1>9, <1>10

\* So does a byte.
LEMMA TakeFacts ==
  ASSUME NEW p \in Parsers, NEW byte \in Letters, NEW events \in Seq(EventShape), Framing!SizesAssumption
  PROVE  Framing!Take(p, byte) \in Parsers /\ Framing!Take(Under(events, p), byte) = Under(events, Framing!Take(p, byte))
<1>1. /\ p \in ParserShape /\ (~p.raised => p.bytes <= MaxEvent) /\ p.raised \in BOOLEAN
      /\ p.buffer \in Seq(Letters)
  BY DEF Parsers, ParserShape
<1>2. MaxLine \in Nat /\ Len(p.buffer) \in Nat
  BY <1>1 DEF Framing!SizesAssumption
<1>3. PICK q : q = Under(events, p)
  OBVIOUS
<1>4. /\ q \in ParserShape /\ q.buffer = p.buffer /\ q.event = p.event /\ q.bytes = p.bytes
      /\ q.raised = p.raised /\ q.events = events \o p.events
  BY <1>1, <1>3, UnderFacts
<1>5. PICK u, v : u = Framing!Take(p, byte) /\ v = Framing!Take(q, byte)
  OBVIOUS
<1>6. SUFFICES u \in Parsers /\ v = Under(events, u)
  BY <1>3, <1>5
<1>7. CASE p.raised
  <2>1. u = p /\ v = q
    BY <1>4, <1>5, <1>7 DEF Framing!Take
  <2>2. QED
    BY <1>3, <2>1
<1>8. CASE ~p.raised /\ byte # "LF"
  <2>1. PICK b \in Seq(Letters) : b = Append(p.buffer, byte)
    <3>1. Append(p.buffer, byte) \in Seq(Letters)
      BY <1>1
    <3>2. QED
      BY <3>1
  <2>2. u = [p EXCEPT !.buffer = b] /\ v = [q EXCEPT !.buffer = b]
    BY <1>4, <1>5, <1>8, <2>1 DEF Framing!Take
  <2>3. /\ u \in ParserShape /\ u.buffer = b /\ u.event = p.event
        /\ u.bytes = p.bytes /\ u.raised = p.raised /\ u.events = p.events
    BY <1>1, <2>1, <2>2 DEF ParserShape
  <2>4. /\ v \in ParserShape /\ v.buffer = b /\ v.event = q.event
        /\ v.bytes = q.bytes /\ v.raised = q.raised /\ v.events = q.events
    BY <1>4, <2>1, <2>2 DEF ParserShape
  <2>5. u \in Parsers
    BY <1>1, <2>3 DEF Parsers
  <2>6. /\ u \in ParserShape /\ v \in ParserShape
        /\ u.buffer = v.buffer /\ u.event = v.event /\ u.bytes = v.bytes
        /\ u.raised = v.raised /\ v.events = events \o u.events
    BY <1>4, <2>3, <2>4
  <2>7. v = Under(events, u)
    BY <2>6, IsUnder
  <2>8. QED
    BY <2>5, <2>7
<1>9. CASE ~p.raised /\ byte = "LF" /\ Len(p.buffer) > MaxLine
  <2>1. u = [p EXCEPT !.raised = TRUE] /\ v = [q EXCEPT !.raised = TRUE]
    BY <1>4, <1>5, <1>9 DEF Framing!Take
  <2>2. /\ u \in ParserShape /\ u.buffer = p.buffer /\ u.event = p.event
        /\ u.bytes = p.bytes /\ u.raised /\ u.events = p.events
    BY <1>1, <2>1 DEF ParserShape
  <2>3. /\ v \in ParserShape /\ v.buffer = q.buffer /\ v.event = q.event
        /\ v.bytes = q.bytes /\ v.raised /\ v.events = q.events
    BY <1>4, <2>1 DEF ParserShape
  <2>4. u \in Parsers
    BY <2>2 DEF Parsers
  <2>5. /\ u \in ParserShape /\ v \in ParserShape
        /\ u.buffer = v.buffer /\ u.event = v.event /\ u.bytes = v.bytes
        /\ u.raised = v.raised /\ v.events = events \o u.events
    BY <1>4, <2>2, <2>3 DEF ParserShape
  <2>6. v = Under(events, u)
    BY <2>5, IsUnder
  <2>7. QED
    BY <2>4, <2>6
<1>10. CASE ~p.raised /\ byte = "LF" /\ ~(Len(p.buffer) > MaxLine)
  <2>1. PICK line \in Seq(Letters) : line = Framing!Stripped(p.buffer)
    BY <1>1, StrippedFacts
  <2>2. PICK s, t : s = [p EXCEPT !.buffer = <<>>] /\ t = [q EXCEPT !.buffer = <<>>]
    OBVIOUS
  <2>3. u = Framing!HandleLine(s, line) /\ v = Framing!HandleLine(t, line)
    BY <1>4, <1>5, <1>10, <2>1, <2>2 DEF Framing!Take
  <2>4. <<>> \in Seq(Letters)
    OBVIOUS
  <2>5. /\ s \in ParserShape /\ s.buffer = <<>> /\ s.event = p.event
        /\ s.bytes = p.bytes /\ s.raised = p.raised /\ s.events = p.events
    BY <1>1, <2>2, <2>4 DEF ParserShape
  <2>6. /\ t \in ParserShape /\ t.buffer = <<>> /\ t.event = q.event
        /\ t.bytes = q.bytes /\ t.raised = q.raised /\ t.events = q.events
    BY <1>4, <2>2, <2>4 DEF ParserShape
  <2>7. s \in Parsers /\ ~s.raised
    BY <1>1, <1>10, <2>5 DEF Parsers
  <2>8. t = Under(events, s)
    <3>1. /\ s \in ParserShape /\ t \in ParserShape
          /\ s.buffer = t.buffer /\ s.event = t.event /\ s.bytes = t.bytes
          /\ s.raised = t.raised /\ t.events = events \o s.events
      BY <1>4, <2>5, <2>6 DEF ParserShape
    <3>2. QED
      BY <3>1, IsUnder
  <2>9. QED
    BY <2>1, <2>3, <2>7, <2>8, HandleLineFacts
<1>11. QED
  BY <1>7, <1>8, <1>9, <1>10

-----------------------------------------------------------------------------
(* A chunk byte by byte                                                    *)

\* f is the parser after each byte of a chunk.
Reads(f, p, chunk) ==
  /\ f \in [0..Len(chunk) -> Parsers] /\ f[0] = p
  /\ \A n \in 1..Len(chunk) : f[n] = Framing!Take(f[n - 1], chunk[n])

\* f is the function Swallow is defined by.
IsAfter(f, p, chunk) == f = [n \in 0..Len(chunk) |-> IF n = 0 THEN p ELSE Framing!Take(f[n - 1], chunk[n])]

\* Swallow reads a chunk to its end.
LEMMA SwallowReads ==
  ASSUME NEW p \in Parsers, NEW chunk \in Seq(Letters), Framing!SizesAssumption
  PROVE  \E f : Reads(f, p, chunk) /\ Framing!Swallow(p, chunk) = f[Len(chunk)]
<1> DEFINE L == Len(chunk)
           h == [x \in (1..L) \X Parsers |-> Framing!Take(x[2], chunk[x[1]])]
<1>1. L \in Nat /\ \A n \in 1..L : chunk[n] \in Letters
  OBVIOUS
<1>2. <<>> \in Seq(EventShape)
  OBVIOUS
<1>3. \A x \in Parsers, byte \in Letters : Framing!Take(x, byte) \in Parsers
  BY <1>2, TakeFacts
<1>4. h \in [(1..L) \X Parsers -> Parsers]
  <2>1. \A x \in (1..L) \X Parsers : x[1] \in 1..L /\ x[2] \in Parsers
    OBVIOUS
  <2> HIDE DEF L
  <2>2. \A x \in (1..L) \X Parsers : Framing!Take(x[2], chunk[x[1]]) \in Parsers
    BY <1>1, <1>3, <2>1
  <2>3. QED
    BY <2>2
<1>5. \A n \in 1..L, x \in Parsers : h[<<n, x>>] = Framing!Take(x, chunk[n])
  OBVIOUS
<1> HIDE DEF h
<1>6. PICK g \in [0..L -> Parsers] : Recurs(g, p, h, L)
  BY <1>1, <1>4, RecursionOnInterval
<1>7. ASSUME NEW n \in 1..L
      PROVE  g[n] = Framing!Take(g[n - 1], chunk[n])
  <2>1. n - 1 \in 0..L
    BY <1>1
  <2>2. g[n] = h[<<n, g[n - 1]>>] /\ g[n - 1] \in Parsers
    BY <2>1, <1>6 DEF Recurs
  <2>3. QED
    BY <2>2, <1>5
<1>8. g[0] = p
  BY <1>6 DEF Recurs
<1>9. IsAfter(g, p, chunk)
  <2>1. ASSUME NEW n \in 0..L
        PROVE  g[n] = IF n = 0 THEN p ELSE Framing!Take(g[n - 1], chunk[n])
    BY <1>1, <1>7, <1>8
  <2>2. QED
    BY <2>1, <1>6 DEF IsAfter
<1> DEFINE after[n \in 0..Len(chunk)] == IF n = 0 THEN p ELSE Framing!Take(after[n - 1], chunk[n])
<1>10. IsAfter(after, p, chunk)
  <2>1. \E f : f = [n \in 0..Len(chunk) |-> IF n = 0 THEN p ELSE Framing!Take(f[n - 1], chunk[n])]
    BY <1>9 DEF IsAfter
  <2>2. after = [n \in 0..Len(chunk) |-> IF n = 0 THEN p ELSE Framing!Take(after[n - 1], chunk[n])]
    BY <2>1, Zenon
  <2> HIDE DEF after
  <2>3. QED
    BY <2>2 DEF IsAfter
<1>11. Framing!Swallow(p, chunk) = after[L]
  BY DEF Framing!Swallow
<1> HIDE DEF after
<1>12. \A n \in 0..L : after[n] = IF n = 0 THEN p ELSE Framing!Take(after[n - 1], chunk[n])
  BY <1>10 DEF IsAfter
<1> DEFINE S == {n \in Nat : n <= L => after[n] = g[n]}
<1>13. 0 \in S
  <2>1. 0 \in 0..L
    BY <1>1
  <2>2. after[0] = IF 0 = 0 THEN p ELSE Framing!Take(after[0 - 1], chunk[0])
    BY <1>12, <2>1
  <2>3. QED
    BY <2>2, <1>8
<1>14. ASSUME NEW n \in Nat, n \in S
       PROVE  n + 1 \in S
  <2>1. SUFFICES ASSUME n + 1 <= L
                 PROVE  after[n + 1] = g[n + 1]
    OBVIOUS
  <2>2. PICK k \in 1..L : k = n + 1 /\ k - 1 = n /\ k \in 0..L
    BY <1>1, <2>1
  <2>3. after[n] = g[n]
    BY <1>14, <2>1, <1>1
  <2>4. after[k] = Framing!Take(after[k - 1], chunk[k]) /\ g[k] = Framing!Take(g[k - 1], chunk[k])
    BY <1>7, <1>12, <2>2
  <2>5. QED
    BY <2>2, <2>3, <2>4
<1>15. L \in S
  <2> HIDE DEF S
  <2>1. QED
    BY <1>1, <1>13, <1>14, SetInduction
<1>16. QED
  <2>1. Reads(g, p, chunk)
    BY <1>6, <1>7, <1>8 DEF Reads
  <2>2. Framing!Swallow(p, chunk) = g[L]
    BY <1>11, <1>15
  <2>3. QED
    BY <2>1, <2>2

\* It is the only way to read it.
LEMMA SwallowIs ==
  ASSUME NEW p \in Parsers, NEW chunk \in Seq(Letters), Framing!SizesAssumption, NEW f, Reads(f, p, chunk)
  PROVE  Framing!Swallow(p, chunk) = f[Len(chunk)] /\ Framing!Swallow(p, chunk) \in Parsers
<1>1. PICK g : Reads(g, p, chunk) /\ Framing!Swallow(p, chunk) = g[Len(chunk)]
  BY SwallowReads
<1> DEFINE L == Len(chunk)
           S == {n \in Nat : n <= L => f[n] = g[n]}
<1>2. 0 \in S
  BY <1>1 DEF Reads
<1>3. ASSUME NEW n \in Nat, n \in S
      PROVE  n + 1 \in S
  <2>1. SUFFICES ASSUME n + 1 <= L
                 PROVE  f[n + 1] = g[n + 1]
    OBVIOUS
  <2>2. PICK k \in 1..L : k = n + 1 /\ k - 1 = n
    BY <2>1
  <2>3. f[n] = g[n]
    BY <1>3, <2>1
  <2>4. f[k] = Framing!Take(f[k - 1], chunk[k]) /\ g[k] = Framing!Take(g[k - 1], chunk[k])
    BY <1>1 DEF Reads
  <2>5. QED
    BY <2>2, <2>3, <2>4
<1>4. L \in Nat
  OBVIOUS
<1>5. L \in S
  <2> HIDE DEF S, L
  <2>1. QED
    BY <1>2, <1>3, <1>4, SetInduction
<1>6. QED
  <2>1. f[L] \in Parsers
    BY <1>4 DEF Reads
  <2>2. QED
    BY <1>1, <1>5, <2>1

\* Nothing read, nothing changed.
LEMMA SwallowNothing ==
  ASSUME NEW p \in Parsers, Framing!SizesAssumption
  PROVE  Framing!Swallow(p, <<>>) = p
<1> DEFINE chunk == <<>>
           f == [n \in 0..0 |-> p]
<1>1. chunk \in Seq(Letters) /\ Len(chunk) = 0
  OBVIOUS
<1>2. Reads(f, p, chunk) /\ f[0] = p
  BY <1>1 DEF Reads
<1> HIDE DEF f
<1>3. Framing!Swallow(p, chunk) = f[Len(chunk)]
  BY <1>1, <1>2, SwallowIs
<1>4. QED
  BY <1>1, <1>2, <1>3

\* A chunk in two parts is read one part after the other.
LEMMA SwallowTwice ==
  ASSUME NEW p \in Parsers, NEW s \in Seq(Letters), NEW t \in Seq(Letters), Framing!SizesAssumption
  PROVE  Framing!Swallow(p, s \o t) = Framing!Swallow(Framing!Swallow(p, s), t)
<1>1. PICK f : Reads(f, p, s) /\ Framing!Swallow(p, s) = f[Len(s)]
  BY SwallowReads
<1>2. Framing!Swallow(p, s) \in Parsers
  BY <1>1, SwallowIs
<1>3. PICK q \in Parsers : q = Framing!Swallow(p, s)
  BY <1>2
<1>4. PICK g : Reads(g, q, t) /\ Framing!Swallow(q, t) = g[Len(t)]
  BY SwallowReads
<1>5. PICK m \in Nat, n \in Nat, u \in Seq(Letters) :
        m = Len(s) /\ n = Len(t) /\ u = s \o t /\ Len(u) = m + n
  <2>1. s \o t \in Seq(Letters) /\ Len(s \o t) = Len(s) + Len(t) /\ Len(s) \in Nat /\ Len(t) \in Nat
    OBVIOUS
  <2>2. QED
    BY <2>1
<1>6. /\ \A i \in 1..m : u[i] = s[i]
      /\ \A i \in 1..n : u[m + i] = t[i]
  BY <1>5
<1> DEFINE w == [i \in 0..(m + n) |-> IF i <= m THEN f[i] ELSE g[i - m]]
<1>7. w \in [0..(m + n) -> Parsers]
  <2>1. ASSUME NEW i \in 0..(m + n)
        PROVE  (IF i <= m THEN f[i] ELSE g[i - m]) \in Parsers
    <3>1. /\ i <= m => i \in 0..m
          /\ i > m => i - m \in 0..n
      OBVIOUS
    <3>2. \A k \in 0..m : f[k] \in Parsers
      BY <1>1, <1>5 DEF Reads
    <3>3. \A k \in 0..n : g[k] \in Parsers
      BY <1>4, <1>5 DEF Reads
    <3>4. QED
      BY <3>1, <3>2, <3>3
  <2>2. QED
    BY <2>1
<1>8. \A i \in 0..n : w[m + i] = g[i]
  <2>1. TAKE i \in 0..n
  <2>2. CASE i = 0
    BY <1>1, <1>3, <1>4, <1>5, <2>2 DEF Reads
  <2>3. CASE i # 0
    BY <2>3
  <2>4. QED
    BY <2>2, <2>3
<1>9. w[0] = p
  BY <1>1 DEF Reads
<1>10. ASSUME NEW i \in 1..(m + n)
       PROVE  w[i] = Framing!Take(w[i - 1], u[i])
  <2>1. CASE i <= m
    <3>1. i \in 1..m /\ w[i] = f[i] /\ w[i - 1] = f[i - 1]
      BY <2>1
    <3>2. QED
      BY <1>1, <1>5, <1>6, <3>1 DEF Reads
  <2>2. CASE i > m
    <3>1. PICK j \in 1..n : i = m + j /\ j - 1 \in 0..n /\ i - 1 = m + (j - 1) /\ j \in 0..n
      <4>1. i - m \in 1..n
        BY <2>2
      <4>2. QED
        BY <4>1
    <3>2. w[i] = g[j] /\ w[i - 1] = g[j - 1]
      <4> HIDE DEF w
      <4>1. QED
        BY <1>8, <3>1
    <3>3. g[j] = Framing!Take(g[j - 1], t[j]) /\ u[i] = t[j]
      BY <1>4, <1>5, <1>6, <3>1 DEF Reads
    <3>4. QED
      BY <3>2, <3>3
  <2>3. QED
    BY <2>1, <2>2
<1>11. Reads(w, p, u)
  <2> HIDE DEF w
  <2>1. QED
    BY <1>5, <1>7, <1>9, <1>10 DEF Reads
<1>12. w[m + n] = g[n]
  <2>1. n \in 0..n
    OBVIOUS
  <2> HIDE DEF w
  <2>2. QED
    BY <1>8, <2>1
<1> HIDE DEF w
<1>13. Framing!Swallow(p, u) = w[Len(u)]
  BY <1>11, SwallowIs
<1>14. QED
  BY <1>3, <1>4, <1>5, <1>12, <1>13

\* Events there are already stay in front of those of the chunk.
LEMMA SwallowUnder ==
  ASSUME NEW p \in Parsers, NEW events \in Seq(EventShape), Under(events, p) \in Parsers,
         NEW chunk \in Seq(Letters), Framing!SizesAssumption
  PROVE  Framing!Swallow(Under(events, p), chunk) = Under(events, Framing!Swallow(p, chunk))
<1>1. PICK f : Reads(f, p, chunk) /\ Framing!Swallow(p, chunk) = f[Len(chunk)]
  BY SwallowReads
<1>2. PICK L \in Nat : L = Len(chunk) /\ \A n \in 1..L : chunk[n] \in Letters
  OBVIOUS
<1> DEFINE w == [n \in 0..L |-> Under(events, f[n])]
<1>3. ASSUME NEW n \in 0..L
      PROVE  f[n] \in Parsers /\ Under(events, f[n]) \in Parsers
  <2>1. PICK q \in Parsers : q = f[n]
    BY <1>1, <1>2 DEF Reads
  <2>2. PICK r : r = Under(events, q)
    OBVIOUS
  <2>3. r \in ParserShape /\ r.bytes = q.bytes /\ r.raised = q.raised
    BY <2>2, UnderFacts DEF Parsers
  <2>4. QED
    BY <2>1, <2>2, <2>3 DEF Parsers
<1>4. ASSUME NEW n \in 1..L
      PROVE  w[n] = Framing!Take(w[n - 1], chunk[n])
  <2>1. n \in 0..L /\ n - 1 \in 0..L
    OBVIOUS
  <2>2. PICK q \in Parsers : q = f[n - 1]
    BY <1>3, <2>1
  <2>3. f[n] = Framing!Take(q, chunk[n])
    BY <1>1, <1>2, <2>2 DEF Reads
  <2>4. Framing!Take(Under(events, q), chunk[n]) = Under(events, Framing!Take(q, chunk[n]))
    BY <1>2, TakeFacts
  <2>5. QED
    BY <2>1, <2>2, <2>3, <2>4
<1>5. w[0] = Under(events, p) /\ w[L] = Under(events, f[L]) /\ w \in [0..L -> Parsers]
  BY <1>1, <1>3 DEF Reads
<1> HIDE DEF w
<1>6. Reads(w, Under(events, p), chunk)
  BY <1>2, <1>4, <1>5 DEF Reads
<1>7. QED
  BY <1>1, <1>2, <1>5, <1>6, SwallowIs
-----------------------------------------------------------------------------
(* A stream in chunks                                                      *)

\* What feed has made of the bytes so far: what one chunk of them would.
FramingInv ==
  /\ parser \in Parsers /\ out \in Seq(EventShape) /\ fed \in Seq(Letters)
  /\ LET whole == Framing!Swallow(Framing!Fresh, fed)
     IN IF parser.raised
        THEN /\ whole.raised \/ Len(whole.buffer) > MaxLine
             /\ Framing!IsPrefix(out, whole.events)
        ELSE /\ ~whole.raised /\ Len(whole.buffer) <= MaxLine /\ out = whole.events
             /\ parser.buffer = whole.buffer /\ parser.event = whole.event
             /\ parser.bytes = whole.bytes

\* A parser with no events of its own.
Cleared(p) == [p EXCEPT !.events = <<>>]

\* Clearing changes nothing but the events.
LEMMA ClearedFacts ==
  ASSUME NEW p \in Parsers
  PROVE  /\ Cleared(p) \in Parsers /\ Cleared(p).buffer = p.buffer /\ Cleared(p).event = p.event
         /\ Cleared(p).bytes = p.bytes /\ Cleared(p).raised = p.raised /\ Cleared(p).events = <<>>
<1>1. <<>> \in Seq(EventShape)
  OBVIOUS
<1>2. QED
  BY <1>1 DEF Cleared, Parsers, ParserShape

\* A parser is its cleared one under its events.
LEMMA UnderItsEvents ==
  ASSUME NEW p \in Parsers
  PROVE  p = Under(p.events, Cleared(p))
<1>1. p \in ParserShape /\ Cleared(p) \in ParserShape /\ p.events \in Seq(EventShape)
  BY ClearedFacts DEF Parsers, ParserShape
<1>2. PICK q : q = Cleared(p)
  OBVIOUS
<1>3. /\ q \in ParserShape /\ q.buffer = p.buffer /\ q.event = p.event
      /\ q.bytes = p.bytes /\ q.raised = p.raised /\ p.events = p.events \o q.events
  <2>1. p.events \o <<>> = p.events
    BY <1>1
  <2>2. q.events = <<>>
    BY <1>2, ClearedFacts
  <2>3. QED
    BY <1>1, <1>2, <2>1, <2>2, ClearedFacts
<1>4. QED
  BY <1>1, <1>2, <1>3, IsUnder

\* What feed returns, of the parser that has read its chunk.
LEMMA FeedFacts ==
  ASSUME NEW p \in Parsers, NEW chunk \in Seq(Letters), Framing!SizesAssumption
  PROVE  LET q == Framing!Swallow(Cleared(p), chunk)
             f == Framing!Feed(p, chunk)
         IN /\ q \in Parsers /\ f \in Parsers
            /\ f.buffer = q.buffer /\ f.event = q.event /\ f.bytes = q.bytes /\ f.events = q.events
            /\ f.raised <=> (q.raised \/ Len(q.buffer) > MaxLine)
<1>1. PICK c \in Parsers : c = Cleared(p)
  BY ClearedFacts
<1>2. PICK q : q = Framing!Swallow(c, chunk)
  OBVIOUS
<1>3. q \in Parsers
  BY <1>2, SwallowReads, SwallowIs
<1>4. PICK raised \in BOOLEAN : raised <=> (q.raised \/ Len(q.buffer) > MaxLine)
  OBVIOUS
<1>5. PICK f : f = Framing!Feed(p, chunk)
  OBVIOUS
<1>6. f = [q EXCEPT !.raised = @ \/ Len(q.buffer) > MaxLine]
  BY <1>1, <1>2, <1>5 DEF Framing!Feed, Cleared
<1>7. /\ f.buffer = q.buffer /\ f.event = q.event /\ f.bytes = q.bytes /\ f.events = q.events
      /\ (f.raised <=> (q.raised \/ Len(q.buffer) > MaxLine)) /\ f \in ParserShape
  BY <1>3, <1>6 DEF Parsers, ParserShape
<1>8. f \in Parsers
  BY <1>3, <1>7 DEF Parsers
<1>9. QED
  BY <1>1, <1>2, <1>3, <1>5, <1>7, <1>8

\* A stream begins in the invariant.
LEMMA InitFramingInv ==
  ASSUME Framing!Init, Framing!SizesAssumption
  PROVE  FramingInv
<1>1. Framing!Swallow(Framing!Fresh, <<>>) = Framing!Fresh
  BY FreshParser, SwallowNothing
<1>2. /\ Framing!Fresh \in Parsers /\ ~Framing!Fresh.raised /\ Framing!Fresh.events = <<>> /\ Len(Framing!Fresh.buffer) = 0
      /\ MaxLine \in Nat
  BY FreshParser DEF Framing!Fresh, Framing!SizesAssumption
<1>3. <<>> \in Seq(EventShape) /\ <<>> \in Seq(Letters)
  OBVIOUS
<1>4. QED
  BY <1>1, <1>2, <1>3 DEF Framing!Init, FramingInv

\* Feeding one chunk more keeps it.
LEMMA NextFramingInv ==
  ASSUME FramingInv, [Framing!FeedChunk]_(Framing!vars), Framing!SizesAssumption
  PROVE  FramingInv'
<1>1. CASE UNCHANGED Framing!vars
  BY <1>1 DEF Framing!vars, FramingInv
<1>2. CASE Framing!FeedChunk
  <2>1. PICK n \in Nat : \E chunk \in [1..n -> Letters] :
          /\ fed' = fed \o chunk /\ parser' = Framing!Feed(parser, chunk)
          /\ out' = IF parser'.raised THEN out ELSE out \o parser'.events
    BY <1>2 DEF Framing!FeedChunk, Framing!SizesAssumption
  <2>2. PICK chunk \in Seq(Letters) :
          /\ fed' = fed \o chunk /\ parser' = Framing!Feed(parser, chunk)
          /\ out' = IF parser'.raised THEN out ELSE out \o parser'.events
    BY <2>1
  <2>3. PICK p \in Parsers, bytes \in Seq(Letters), events \in Seq(EventShape) :
          p = parser /\ bytes = fed /\ events = out
    BY DEF FramingInv
  <2>4. PICK whole \in Parsers : whole = Framing!Swallow(Framing!Fresh, bytes)
    BY FreshParser, SwallowReads, SwallowIs
  <2>5. /\ ~p.raised /\ ~whole.raised /\ Len(whole.buffer) <= MaxLine /\ events = whole.events
        /\ p.buffer = whole.buffer /\ p.event = whole.event /\ p.bytes = whole.bytes
    BY <1>2, <2>3, <2>4 DEF FramingInv, Framing!FeedChunk
  <2>6. PICK c \in Parsers : c = Cleared(p) /\ c = Cleared(whole)
    <3>1. /\ Cleared(p) \in Parsers /\ Cleared(whole) \in Parsers
      BY ClearedFacts
    <3>2. PICK a \in ParserShape, b \in ParserShape : a = Cleared(p) /\ b = Cleared(whole)
      BY <3>1 DEF Parsers
    <3>3. p.raised = FALSE /\ whole.raised = FALSE
      BY <2>5 DEF Parsers, ParserShape
    <3>4. /\ a.buffer = b.buffer /\ a.event = b.event /\ a.bytes = b.bytes
          /\ a.raised = b.raised /\ a.events = b.events
      BY <2>5, <3>2, <3>3, ClearedFacts
    <3>5. a = b
      BY <3>4, ToldByFields
    <3>6. QED
      BY <3>1, <3>2, <3>5
  <2>7. PICK q \in Parsers, f \in Parsers :
          /\ q = Framing!Swallow(c, chunk) /\ f = parser'
          /\ f.buffer = q.buffer /\ f.event = q.event /\ f.bytes = q.bytes /\ f.events = q.events
          /\ f.raised <=> (q.raised \/ Len(q.buffer) > MaxLine)
    <3>1. PICK q, f : q = Framing!Swallow(c, chunk) /\ f = Framing!Feed(p, chunk)
      OBVIOUS
    <3>2. /\ q \in Parsers /\ f \in Parsers
          /\ f.buffer = q.buffer /\ f.event = q.event /\ f.bytes = q.bytes /\ f.events = q.events
          /\ f.raised <=> (q.raised \/ Len(q.buffer) > MaxLine)
      <4>1. LET r == Framing!Swallow(Cleared(p), chunk)
                g == Framing!Feed(p, chunk)
            IN /\ r \in Parsers /\ g \in Parsers
               /\ g.buffer = r.buffer /\ g.event = r.event /\ g.bytes = r.bytes /\ g.events = r.events
               /\ g.raised <=> (r.raised \/ Len(r.buffer) > MaxLine)
        BY FeedFacts
      <4>2. Framing!Swallow(Cleared(p), chunk) = q /\ Framing!Feed(p, chunk) = f
        BY <2>6, <3>1
      <4>3. QED
        BY <4>1, <4>2
    <3>3. f = parser'
      BY <2>2, <2>3, <3>1
    <3>4. QED
      BY <3>1, <3>2, <3>3
  <2>8. PICK next \in ParserShape :
          /\ next = Framing!Swallow(Framing!Fresh, fed') /\ next.buffer = q.buffer /\ next.event = q.event
          /\ next.bytes = q.bytes /\ next.raised = q.raised /\ next.events = events \o q.events
    <3>1. Framing!Swallow(Framing!Fresh, bytes \o chunk) = Framing!Swallow(whole, chunk)
      BY <2>4, FreshParser, SwallowTwice
    <3>2. whole = Under(events, c)
      BY <2>5, <2>6, UnderItsEvents
    <3>3. Framing!Swallow(Under(events, c), chunk) = Under(events, q)
      BY <2>7, <3>2, SwallowUnder
    <3>4. q \in ParserShape
      BY DEF Parsers
    <3>5. PICK next : next = Under(events, q)
      OBVIOUS
    <3>6. /\ next \in ParserShape /\ next.buffer = q.buffer /\ next.event = q.event
          /\ next.bytes = q.bytes /\ next.raised = q.raised /\ next.events = events \o q.events
      BY <3>4, <3>5, UnderFacts
    <3>7. next = Framing!Swallow(Framing!Fresh, fed')
      BY <2>2, <2>3, <3>1, <3>2, <3>3, <3>5
    <3>8. QED
      BY <3>6, <3>7
  <2>9. /\ Len(q.buffer) \in Nat /\ MaxLine \in Nat /\ q.events \in Seq(EventShape)
        /\ f.raised \in BOOLEAN /\ q.raised \in BOOLEAN
    BY DEF Framing!SizesAssumption, Parsers, ParserShape
  <2>10. fed' \in Seq(Letters) /\ events \o q.events \in Seq(EventShape)
    BY <2>2, <2>3, <2>9
  <2>11. CASE f.raised
    <3>1. out' = events
      BY <2>2, <2>3, <2>7, <2>11
    <3>2. Framing!IsPrefix(events, events \o q.events)
      <4>1. /\ Len(events) \in Nat /\ Len(events \o q.events) = Len(events) + Len(q.events)
            /\ Len(q.events) \in Nat
        BY <2>9
      <4>2. SubSeq(events, 1, Len(events)) = SubSeq(events \o q.events, 1, Len(events))
        BY <2>9, <4>1
      <4>3. QED
        BY <4>1, <4>2 DEF Framing!IsPrefix
    <3>3. next.raised \/ Len(next.buffer) > MaxLine
      BY <2>7, <2>8, <2>11
    <3>4. QED
      BY <2>7, <2>8, <2>10, <2>11, <3>1, <3>2, <3>3 DEF FramingInv
  <2>12. CASE ~f.raised
    <3>1. out' = events \o q.events
      BY <2>2, <2>3, <2>7, <2>12
    <3>2. ~next.raised /\ Len(next.buffer) <= MaxLine
      BY <2>7, <2>8, <2>9, <2>12
    <3>3. QED
      BY <2>7, <2>8, <2>10, <2>12, <3>1, <3>2 DEF FramingInv
  <2>13. QED
    BY <2>11, <2>12
<1>3. QED
  BY <1>1, <1>2

\* The invariant says what the property says.
LEMMA FramingInvImplies ==
  ASSUME FramingInv, Framing!SizesAssumption
  PROVE  Framing!TypeOK /\ Framing!AsFedAtOnce
<1>1. /\ parser \in Parsers /\ parser \in ParserShape /\ parser.raised \in BOOLEAN
      /\ parser.buffer \in Seq(Letters) /\ parser.bytes \in Nat
      /\ (~parser.raised => parser.bytes <= MaxEvent) /\ fed \in Seq(Letters)
  BY DEF FramingInv, Parsers, ParserShape
<1>2. Framing!TypeOK
  BY <1>1 DEF Framing!TypeOK, FramingInv
<1>3. PICK q \in Parsers, f \in Parsers :
        /\ q = Framing!Swallow(Cleared(Framing!Fresh), fed) /\ f = Framing!Feed(Framing!Fresh, fed)
        /\ f.buffer = q.buffer /\ f.event = q.event /\ f.bytes = q.bytes /\ f.events = q.events
        /\ f.raised <=> (q.raised \/ Len(q.buffer) > MaxLine)
  BY <1>1, FreshParser, FeedFacts
<1>4. q = Framing!Swallow(Framing!Fresh, fed)
  <2>1. Cleared(Framing!Fresh) = Framing!Fresh
    <3>1. /\ Framing!Fresh \in ParserShape /\ Cleared(Framing!Fresh) \in ParserShape
          /\ Framing!Fresh.events = <<>>
      BY FreshParser, ClearedFacts DEF Parsers, Framing!Fresh
    <3>2. PICK a \in ParserShape, b \in ParserShape : a = Cleared(Framing!Fresh) /\ b = Framing!Fresh
      BY <3>1
    <3>3. /\ a.buffer = b.buffer /\ a.event = b.event /\ a.bytes = b.bytes
          /\ a.raised = b.raised /\ a.events = b.events
      BY <3>1, <3>2, FreshParser, ClearedFacts
    <3>4. QED
      BY <3>2, <3>3, ToldByFields
  <2>2. QED
    BY <1>3, <2>1
<1>5. /\ f \in ParserShape /\ Len(q.buffer) \in Nat /\ MaxLine \in Nat /\ f.raised \in BOOLEAN
      /\ f.events \in Seq(EventShape)
  BY DEF Parsers, ParserShape, Framing!SizesAssumption
<1>6. parser.raised = f.raised
  <2>1. parser.raised <=> f.raised
    BY <1>3, <1>4, <1>5 DEF FramingInv
  <2>2. QED
    BY <1>1, <1>5, <2>1
<1>7. CASE parser.raised
  <2>1. Framing!IsPrefix(out, f.events)
    BY <1>3, <1>4, <1>7 DEF FramingInv
  <2>2. QED
    BY <1>2, <1>3, <1>6, <1>7, <2>1 DEF Framing!AsFedAtOnce
<1>8. CASE ~parser.raised
  <2>1. /\ out = f.events /\ parser.buffer = f.buffer /\ parser.event = f.event
        /\ parser.bytes = f.bytes
    BY <1>3, <1>4, <1>8 DEF FramingInv
  <2>2. PICK p : p = [parser EXCEPT !.events = f.events]
    OBVIOUS
  <2>3. /\ p \in ParserShape /\ p.buffer = parser.buffer /\ p.event = parser.event
        /\ p.bytes = parser.bytes /\ p.raised = parser.raised /\ p.events = f.events
    BY <1>1, <1>5, <2>2 DEF ParserShape
  <2>4. p = f
    BY <1>5, <1>6, <2>1, <2>3, ToldByFields
  <2>5. QED
    BY <1>2, <1>3, <1>6, <1>8, <2>1, <2>2, <2>4 DEF Framing!AsFedAtOnce
<1>9. QED
  BY <1>7, <1>8

\* For every stream, limits and cutting into chunks, feed returns the events it
\* would return had the stream come whole, and raises for the same streams; a
\* parser that has not raised keeps within its limits (_SseParser.feed).
THEOREM CuttingIsInvisible ==
  ASSUME Framing!SizesAssumption
  PROVE  Framing!Spec => [](Framing!TypeOK /\ Framing!AsFedAtOnce)
<1>1. Framing!Init => FramingInv
  BY InitFramingInv
<1>2. FramingInv /\ [Framing!FeedChunk]_(Framing!vars) => FramingInv'
  BY NextFramingInv
<1>3. FramingInv => Framing!TypeOK /\ Framing!AsFedAtOnce
  BY FramingInvImplies
<1>4. QED
  BY <1>1, <1>2, <1>3, PTL DEF Framing!Spec
=============================================================================
