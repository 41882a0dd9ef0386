----------------------- MODULE ResumableUploadProofs -----------------------
(***************************************************************************)
(* Proofs about ResumableUpload, for every number of chunks, lanes,        *)
(* retries, polls, calls and failures.                                     *)
(***************************************************************************)
EXTENDS ResumableUpload, SetInduction

-----------------------------------------------------------------------------
(* The indices a round is to send                                          *)

\* f is the function MissingIndices recurs to.
IsUpTo(f, received) ==
  f = [i \in 0..K |-> IF i = 0 THEN <<>>
                      ELSE IF i \in received THEN f[i - 1] ELSE Append(f[i - 1], i)]

LEMMA UpToIsDefined ==
  ASSUME ConstantsAssumption, NEW received
  PROVE  \E f : IsUpTo(f, received)
<1> DEFINE h == [x \in (1..K) \X Seq(Chunks) |->
                   IF x[1] \in received THEN x[2] ELSE Append(x[2], x[1])]
<1>1. K \in Nat
  BY DEF ConstantsAssumption
<1>2. h \in [(1..K) \X Seq(Chunks) -> Seq(Chunks)]
  <2>1. ASSUME NEW x \in (1..K) \X Seq(Chunks)
        PROVE  (IF x[1] \in received THEN x[2] ELSE Append(x[2], x[1])) \in Seq(Chunks)
    <3>1. x[1] \in Chunks /\ x[2] \in Seq(Chunks)
      BY DEF Chunks
    <3>2. QED
      BY <3>1
  <2>2. QED
    BY <2>1
<1>3. <<>> \in Seq(Chunks)
  OBVIOUS
<1>4. PICK f \in [0..K -> Seq(Chunks)] :
        f[0] = <<>> /\ \A i \in 1..K : f[i] = h[<<i, f[i - 1]>>]
  <2> DEFINE T == Seq(Chunks)
             none == <<>>
  <2>1. h \in [(1..K) \X T -> T] /\ none \in T
    BY <1>2, <1>3
  <2> HIDE DEF h, T, none
  <2>2. \E f \in [0..K -> T] : Recurs(f, none, h, K)
    BY <1>1, <2>1, RecursionOnInterval
  <2>3. QED
    BY <2>2 DEF Recurs, T, none
<1>5. ASSUME NEW i \in 0..K
      PROVE  f[i] = IF i = 0 THEN <<>>
                    ELSE IF i \in received THEN f[i - 1] ELSE Append(f[i - 1], i)
  <2>1. CASE i = 0
    BY <2>1, <1>4
  <2>2. CASE i # 0
    <3>1. i \in 1..K /\ i - 1 \in 0..K
      BY <2>2, <1>1
    <3>2. h[<<i, f[i - 1]>>] = IF i \in received THEN f[i - 1] ELSE Append(f[i - 1], i)
      BY <3>1, <1>4
    <3>3. QED
      BY <3>1, <3>2, <1>4, <2>2
  <2>3. QED
    BY <2>1, <2>2
<1>6. IsUpTo(f, received)
  BY <1>4, <1>5 DEF IsUpTo
<1>7. QED
  BY <1>6

\* The indices a round is to send are exactly those the gateway has not
\* received, each once and in ascending order (_missing_indices).
THEOREM MissingAreTheRest ==
  ASSUME ConstantsAssumption, NEW received
  PROVE  LET m == MissingIndices(received) IN
         /\ m \in Seq(Chunks) /\ Len(m) \in 0..K
         /\ \A p \in 1..Len(m) : m[p] \in Chunks \ received
         /\ \A p, q \in 1..Len(m) : p < q => m[p] < m[q]
         /\ \A p, q \in 1..Len(m) : p # q => m[p] # m[q]
         /\ \A i \in Chunks \ received : \E p \in 1..Len(m) : m[p] = i
<1> DEFINE upTo[i \in 0..K] ==
             IF i = 0 THEN <<>>
             ELSE IF i \in received THEN upTo[i - 1] ELSE Append(upTo[i - 1], i)
<1>1. K \in Nat
  BY DEF ConstantsAssumption
<1>2. \A i \in 0..K : upTo[i] = IF i = 0 THEN <<>>
           ELSE IF i \in received THEN upTo[i - 1] ELSE Append(upTo[i - 1], i)
  <2>1. \E f : f = [i \in 0..K |-> IF i = 0 THEN <<>>
                      ELSE IF i \in received THEN f[i - 1] ELSE Append(f[i - 1], i)]
    BY UpToIsDefined DEF IsUpTo
  <2>2. upTo = [i \in 0..K |-> IF i = 0 THEN <<>>
                  ELSE IF i \in received THEN upTo[i - 1] ELSE Append(upTo[i - 1], i)]
    BY <2>1, Zenon
  <2> HIDE DEF upTo
  <2>3. QED
    BY <2>2, Zenon
<1>3. MissingIndices(received) = upTo[K]
  BY DEF MissingIndices
<1> HIDE DEF upTo
<1> DEFINE Good(i) ==
      /\ upTo[i] \in Seq(Chunks)
      /\ Len(upTo[i]) \in 0..i
      /\ \A p \in 1..Len(upTo[i]) : upTo[i][p] \in (1..i) \ received
      /\ \A p, q \in 1..Len(upTo[i]) : p < q => upTo[i][p] < upTo[i][q]
      /\ \A p, q \in 1..Len(upTo[i]) : p # q => upTo[i][p] # upTo[i][q]
      /\ \A j \in (1..i) \ received : \E p \in 1..Len(upTo[i]) : upTo[i][p] = j
    S == {i \in Nat : i <= K => Good(i)}
<1>4. 0 \in S
  <2>1. 0 \in 0..K
    BY <1>1
  <2>2. upTo[0] = <<>>
    BY <1>2, <2>1
  <2>3. <<>> \in Seq(Chunks) /\ Len(<<>>) = 0
    OBVIOUS
  <2>4. Good(0)
    BY <2>2, <2>3
  <2>5. QED
    BY <2>4
<1>5. ASSUME NEW i \in Nat, i \in S
      PROVE  i + 1 \in S
  <2>1. SUFFICES ASSUME i + 1 <= K
                 PROVE  Good(i + 1)
    OBVIOUS
  <2>2. Good(i) /\ i + 1 \in Chunks
    BY <1>1, <1>2, <1>5, <2>1 DEF Chunks
  <2>3. upTo[i + 1] = IF i + 1 \in received THEN upTo[i] ELSE Append(upTo[i], i + 1)
    BY <1>1, <1>2, <2>1
  <2>4. CASE i + 1 \in received
    BY <2>2, <2>3, <2>4
  <2>5. CASE i + 1 \notin received
    <3>1. /\ upTo[i + 1] = Append(upTo[i], i + 1)
          /\ Len(upTo[i + 1]) = Len(upTo[i]) + 1
          /\ \A p \in 1..Len(upTo[i]) : upTo[i + 1][p] = upTo[i][p]
          /\ upTo[i + 1][Len(upTo[i]) + 1] = i + 1
      BY <2>2, <2>3, <2>5
    <3>2. QED
      BY <2>2, <2>5, <3>1
  <2>6. QED
    BY <2>4, <2>5
<1>6. K \in S
  <2> HIDE DEF S
  <2>1. QED
    BY <1>1, <1>4, <1>5, SetInduction
<1>7. Good(K)
  BY <1>1, <1>2, <1>6
<1>8. QED
  BY <1>3, <1>7 DEF Chunks

-----------------------------------------------------------------------------
(* The gateway's sessions                                                  *)

State == {"pending", "assembling", "completed", "failed", "expired", "abandoned"}
Over  == State \ {"pending", "assembling"}

LEMMA SessionFacts ==
  ASSUME TypeOK
  PROVE  /\ sessions \in Seq(SessionType) /\ Len(sessions) \in Nat
         /\ DOMAIN sessions = 1..Len(sessions)
         /\ \A s \in 1..Len(sessions) :
              /\ sessions[s] \in SessionType
              /\ sessions[s].state \in State /\ sessions[s].received \in SUBSET Chunks
<1>1. sessions \in Seq(SessionType)
  BY DEF TypeOK
<1>2. \A s \in 1..Len(sessions) : sessions[s] \in SessionType
  BY <1>1
<1>3. QED
  BY <1>1, <1>2 DEF SessionType, State

\* What a step does to the sessions: they stay in their list, one that is over
\* stays as it ended, and a completion is accepted for a whole file only.
StoreStep ==
  /\ sessions' \in Seq(SessionType)
  /\ Len(sessions') \in Nat /\ Len(sessions) <= Len(sessions')
  /\ StoredInv'
  /\ \A s \in 1..Len(sessions) :
       sessions[s].state \in Over => sessions'[s].state = sessions[s].state

LEMMA SameStore ==
  ASSUME TypeOK, StoredInv, UNCHANGED sessions
  PROVE  StoreStep
  BY SessionFacts DEF StoreStep, StoredInv, Whole

\* One session is replaced.
LEMMA ReplaceStep ==
  ASSUME TypeOK, StoredInv, NEW s \in 1..Len(sessions), NEW r \in SessionType,
         sessions' = [sessions EXCEPT ![s] = r],
         r.state \in {"assembling", "completed"} => r.received = Chunks,
         sessions[s].state \in Over => r.state = sessions[s].state
  PROVE  StoreStep
<1>1. /\ sessions' \in Seq(SessionType) /\ Len(sessions') = Len(sessions)
      /\ \A u \in 1..Len(sessions) : sessions'[u] = IF u = s THEN r ELSE sessions[u]
  BY SessionFacts
<1>2. DOMAIN sessions' = 1..Len(sessions)
  BY <1>1, SessionFacts
<1>3. StoredInv'
  BY <1>1, <1>2, SessionFacts DEF StoredInv, Whole
<1>4. QED
  BY <1>1, <1>3, SessionFacts DEF StoreStep

LEMMA SetStateStep ==
  ASSUME TypeOK, StoredInv, NEW s \in 1..Len(sessions), NEW state \in State,
         sessions' = SetState(s, state),
         state \in {"assembling", "completed"} => Whole(s),
         sessions[s].state \in Over => state = sessions[s].state
  PROVE  StoreStep /\ sessions'[s].state = state
<1> DEFINE r == [sessions[s] EXCEPT !.state = state]
<1>1. sessions[s] \in SessionType
  BY SessionFacts
<1>2. r \in SessionType /\ r.state = state /\ r.received = sessions[s].received
  BY <1>1 DEF SessionType, State
<1>3. sessions' = [sessions EXCEPT ![s] = r]
  BY DEF SetState
<1> HIDE DEF r
<1>4. StoreStep
  BY <1>2, <1>3, ReplaceStep DEF Whole
<1>5. QED
  BY <1>2, <1>3, <1>4, SessionFacts

LEMMA ReceivedStep ==
  ASSUME TypeOK, StoredInv, NEW s \in 1..Len(sessions), NEW received \in SUBSET Chunks,
         sessions' = [sessions EXCEPT ![s].received = received],
         sessions[s].state = "pending"
  PROVE  StoreStep
<1> DEFINE r == [sessions[s] EXCEPT !.received = received]
<1>1. sessions[s] \in SessionType
  BY SessionFacts
<1>2. r \in SessionType /\ r.state = "pending"
  BY <1>1 DEF SessionType
<1>3. sessions' = [sessions EXCEPT ![s] = r]
  OBVIOUS
<1> HIDE DEF r
<1>4. QED
  BY <1>2, <1>3, ReplaceStep DEF Over

LEMMA AppendStep ==
  ASSUME TypeOK, StoredInv, sessions' = Append(sessions, NewSession)
  PROVE  StoreStep /\ Len(sessions') = Len(sessions) + 1
<1>1. NewSession \in SessionType /\ NewSession.state = "pending"
  BY DEF NewSession, SessionType
<1>2. /\ sessions' \in Seq(SessionType) /\ Len(sessions') = Len(sessions) + 1
      /\ \A s \in 1..Len(sessions) : sessions'[s] = sessions[s]
      /\ sessions'[Len(sessions) + 1] = NewSession
  <2> HIDE DEF NewSession
  <2>1. QED
    BY <1>1, SessionFacts
<1>3. DOMAIN sessions' = 1..(Len(sessions) + 1)
  BY <1>2, SessionFacts
<1>4. StoredInv'
  <2>1. SUFFICES ASSUME NEW s \in 1..(Len(sessions) + 1),
                        sessions'[s].state \in {"assembling", "completed"}
                 PROVE  sessions'[s].received = Chunks
    BY <1>3 DEF StoredInv, Whole
  <2>2. s \in 1..Len(sessions)
    BY <1>1, <1>2, <2>1, SessionFacts
  <2>3. QED
    BY <1>2, <2>1, <2>2, SessionFacts DEF StoredInv, Whole
<1>5. QED
  BY <1>2, <1>4, SessionFacts DEF StoreStep

\* Connections that are dropped: what is served late is served to sessions
\* that still wait for chunks.
LEMMA DroppedStep ==
  ASSUME TypeOK, LaneInv, StoredInv, NEW ls \in SUBSET (Calls \X Lanes), Dropped(ls)
  PROVE  StoreStep
<1>1. PICK reached \in SUBSET {cl \in ls : /\ lanes[cl[1]][cl[2]].st = "put"
                                           /\ sessions[target[cl[1]]].state = "pending"} :
        sessions' = [s \in DOMAIN sessions |->
          [sessions[s] EXCEPT !.received =
             @ \cup {lanes[cl[1]][cl[2]].idx : cl \in {x \in reached : target[x[1]] = s}}]]
  BY DEF Dropped
<1> DEFINE late(s) == {lanes[cl[1]][cl[2]].idx : cl \in {x \in reached : target[x[1]] = s}}
<1>2. ASSUME NEW s \in 1..Len(sessions)
      PROVE  /\ late(s) \in SUBSET Chunks
             /\ sessions[s].state # "pending" => late(s) = {}
             /\ sessions[s] \in SessionType
  <2>1. \A cl \in reached : lanes[cl[1]][cl[2]].idx \in Chunks
    BY <1>1 DEF LaneInv
  <2>2. \A cl \in reached : sessions[target[cl[1]]].state = "pending"
    BY <1>1
  <2>3. QED
    BY <2>1, <2>2, SessionFacts
<1>3. \A s \in 1..Len(sessions) :
        sessions'[s] = [sessions[s] EXCEPT !.received = @ \cup late(s)]
  BY <1>1, SessionFacts
<1>4. ASSUME NEW s \in 1..Len(sessions)
      PROVE  /\ sessions'[s] \in SessionType /\ sessions'[s].state = sessions[s].state
             /\ sessions[s].state # "pending" => sessions'[s].received = sessions[s].received
  <2> DEFINE u == late(s)
  <2>1. u \in SUBSET Chunks /\ (sessions[s].state # "pending" => u = {})
    BY <1>2
  <2>2. sessions'[s] = [sessions[s] EXCEPT !.received = @ \cup u]
    BY <1>3
  <2> HIDE DEF late, u
  <2>3. QED
    BY <1>2, <2>1, <2>2 DEF SessionType
<1>5. sessions' \in [1..Len(sessions) -> SessionType]
  BY <1>1, <1>4, SessionFacts
<1>6. sessions' \in Seq(SessionType) /\ Len(sessions') = Len(sessions)
  BY <1>5, SessionFacts
<1>7. StoredInv'
  BY <1>4, <1>5, SessionFacts DEF StoredInv, Whole
<1>8. QED
  BY <1>4, <1>6, <1>7, SessionFacts DEF StoreStep

-----------------------------------------------------------------------------
(* The kinds of steps                                                      *)

\* Lane l of call c goes on to r: it leaves without a chunk or because its call
\* has an exception, keeps its chunk, claims one, or has sent it.
LaneMove(c, l, r) ==
  /\ lanes[c][l].st # "off" /\ r \in LaneType
  /\ lanes' = [lanes EXCEPT ![c][l] = r]
  /\ UNCHANGED <<call, saved, loopVars, target, missing, asked>>
  /\ \/ UNCHANGED <<pc, errId>>
     \/ /\ c = call /\ pc = "chunks" /\ pc' \in {"abandoning", "failed"}
        /\ errId' \in 0..Len(sessions)
  /\ \/ /\ r.st = "off" /\ (lanes[c][l].st = "next" \/ ~(c = call /\ pc' = "chunks"))
        /\ UNCHANGED <<cursor, landed, sent>>
     \/ /\ lanes[c][l].st \in {"put", "backoff"} /\ r.st \in {"put", "backoff"}
        /\ r.idx = lanes[c][l].idx
        /\ r.st = "backoff" => r.attempt < MaxRetries
        /\ UNCHANGED <<cursor, landed, sent>>
     \/ /\ lanes[c][l].st = "next" /\ cursor[c] <= Len(missing[c])
        /\ r.st = "put" /\ r.idx = missing[c][cursor[c]]
        /\ cursor' = [cursor EXCEPT ![c] = @ + 1]
        /\ UNCHANGED <<landed, sent>>
     \/ /\ lanes[c][l].st = "put" /\ r.st = "next"
        /\ landed' = [landed EXCEPT ![c] = @ \cup {lanes[c][l].idx}]
        /\ sent' = [sent EXCEPT ![c][lanes[c][l].idx] = @ + 1]
        /\ UNCHANGED cursor

\* The call starts a round over the indices that are not in received, for
\* session s.
RoundMove(s, received) ==
  /\ pc \in {"creating", "statusing", "restatus"} /\ call \in Calls
  /\ StartLanes(MissingIndices(received))
  /\ \A l \in Lanes : lanes[call][l].st = "off"
  /\ s \in 1..Len(sessions') /\ target' = [target EXCEPT ![call] = s]
  /\ UNCHANGED <<call, tries, sent>>

\* How the DELETE of a cancelled call ends.
Abandonment == AbandonAnswered \/ AbandonFails \/ AbandonInterrupted

\* Lanes are cancelled, with their call or with the process.
StopMove ==
  /\ lanes' \in [Calls -> [Lanes -> LaneType]]
  /\ \A c \in Calls, l \in Lanes : lanes'[c][l] = lanes[c][l] \/ lanes'[c][l].st = "off"
  /\ \A l \in Lanes : lanes'[call][l].st = "off"
  /\ pc' \in {"abandoning", "cancelled", "crashed"}
  /\ pc' = "abandoning" => Active # 0
  /\ UNCHANGED <<call, saved, loopVars, target, missing, cursor, landed, sent, asked>>

LEMMA LaneFacts ==
  ASSUME ConstantsAssumption, TypeOK, NEW c \in Calls, NEW l \in Lanes
  PROVE  /\ lanes[c][l] \in LaneType /\ Idle \in LaneType
         /\ lanes[c][l].st \in {"off", "next", "put", "backoff"}
         /\ lanes[c][l].attempt \in 0..MaxRetries /\ lanes[c][l].idx \in Chunks \cup {0}
         /\ target[c] \in 0..Len(sessions) /\ cursor[c] \in 1..(K + 1)
         /\ missing[c] \in Seq(Chunks) /\ landed[c] \in SUBSET Chunks
<1>1. lanes[c][l] \in LaneType
  BY DEF TypeOK
<1>2. Idle \in LaneType
  BY DEF Idle, LaneType, ConstantsAssumption
<1>3. QED
  BY <1>1, <1>2 DEF LaneType, TypeOK

\* The call's own session, once it has one.
LEMMA ActiveFacts ==
  ASSUME TypeOK, CallInv, pc # "idle"
  PROVE  call \in Calls /\ Active \in 0..Len(sessions)
  BY DEF TypeOK, CallInv, Calls, Active

LEMMA RaiseMove ==
  ASSUME ConstantsAssumption, TypeOK, CallInv, NEW c \in Calls, NEW l \in Lanes,
         NEW how \in {"cancelled", "http", "exhausted"}, Raise(c, l, how),
         lanes[c][l].st # "off", UNCHANGED <<call, saved, loopVars, target, missing, asked>>,
         UNCHANGED <<cursor, landed, sent>>
  PROVE  LaneMove(c, l, Idle)
<1>1. Idle \in LaneType /\ Idle.st = "off"
  BY LaneFacts DEF Idle
<1>2. lanes' = [lanes EXCEPT ![c][l] = Idle]
  BY DEF Raise, SetLane
<1>3. CASE c = call /\ pc = "chunks"
  <2>1. pc' \in {"abandoning", "failed"} /\ errId' \in 0..Len(sessions)
    <3>1. errId \in 0..Len(sessions) /\ Active \in 0..Len(sessions) /\ 0 \in 0..Len(sessions)
      <4>1. Len(sessions) \in Nat
        BY SessionFacts
      <4>2. pc # "idle"
        BY <1>3
      <4>3. Active \in 0..Len(sessions)
        BY <4>2, ActiveFacts
      <4>4. QED
        BY <4>1, <4>3 DEF TypeOK
    <3>2. CASE how = "cancelled"
      BY <1>3, <3>1, <3>2 DEF Raise
    <3>3. CASE how = "http"
      BY <1>3, <3>1, <3>3 DEF Raise, Fail
    <3>4. CASE how = "exhausted"
      BY <1>3, <3>1, <3>4 DEF Raise, Fail
    <3>5. QED
      BY <3>2, <3>3, <3>4
  <2>2. pc' # "chunks"
    BY <2>1
  <2>3. QED
    BY <1>1, <1>2, <1>3, <2>1, <2>2 DEF LaneMove
<1>4. CASE ~(c = call /\ pc = "chunks")
  <2>1. UNCHANGED <<pc, errId>>
    BY <1>4 DEF Raise
  <2>2. QED
    BY <1>1, <1>2, <1>4, <2>1 DEF LaneMove
<1>5. QED
  BY <1>3, <1>4

LEMMA LaneStepMove ==
  ASSUME ConstantsAssumption, TypeOK, CallInv, LaneInv, NEW c \in Calls, NEW l \in Lanes,
         LaneStep(c, l)
  PROVE  \E r \in LaneType : LaneMove(c, l, r)
<1> SUFFICES \E r : LaneMove(c, l, r)
  BY DEF LaneMove
<1>1. CASE LaneNext(c, l)
  <2>1. /\ lanes[c][l].st = "next"
        /\ UNCHANGED <<call, saved, loopVars, target, missing, landed, sent, asked>>
    BY <1>1 DEF LaneNext
  <2>2. CASE Raise(c, l, "cancelled") /\ UNCHANGED cursor
    BY <2>1, <2>2, RaiseMove
  <2>3. CASE SetLane(c, l, Idle) /\ UNCHANGED <<pc, errId, cursor>>
    <3>1. Idle \in LaneType /\ Idle.st = "off"
      BY LaneFacts DEF Idle
    <3>2. LaneMove(c, l, Idle)
      BY <2>1, <2>3, <3>1 DEF LaneMove, SetLane
    <3>3. QED
      BY <3>2
  <2>4. CASE ~Exhausted(c) /\ Claim(c, l) /\ UNCHANGED <<pc, errId>>
    <3> DEFINE r == [st |-> "put", idx |-> missing[c][cursor[c]], attempt |-> 0]
    <3>1. cursor[c] <= Len(missing[c]) /\ missing[c][cursor[c]] \in Chunks
      BY <2>4, LaneFacts DEF Exhausted, ConstantsAssumption
    <3>2. r \in LaneType /\ r.st = "put" /\ r.idx = missing[c][cursor[c]]
      BY <3>1 DEF LaneType, ConstantsAssumption
    <3>3. lanes' = [lanes EXCEPT ![c][l] = r] /\ cursor' = [cursor EXCEPT ![c] = @ + 1]
      BY <2>4 DEF Claim, SetLane
    <3> HIDE DEF r
    <3>4. LaneMove(c, l, r)
      BY <2>1, <2>4, <3>1, <3>2, <3>3 DEF LaneMove
    <3>5. QED
      BY <3>4
  <2>5. QED
    BY <1>1, <2>2, <2>3, <2>4 DEF LaneNext
<1>2. CASE PutAccepted(c, l)
  <2> DEFINE r == [Idle EXCEPT !.st = "next"]
  <2>1. r \in LaneType /\ r.st = "next"
    BY DEF Idle, LaneType, ConstantsAssumption
  <2>2. LaneMove(c, l, r)
    <3> HIDE DEF r
    <3>1. lanes' = [lanes EXCEPT ![c][l] = r]
      BY <1>2 DEF PutAccepted, SetLane, r
    <3>2. QED
      BY <1>2, <2>1, <3>1 DEF LaneMove, PutAccepted
  <2>3. QED
    BY <2>2
<1>3. CASE PutRefused(c, l)
  <2>1. /\ lanes[c][l].st = "put"
        /\ Raise(c, l, IF asked[c] THEN "cancelled" ELSE "http")
        /\ UNCHANGED <<call, saved, loopVars, target, missing, asked>>
        /\ UNCHANGED <<cursor, landed, sent>>
    BY <1>3 DEF PutRefused
  <2>2. (IF asked[c] THEN "cancelled" ELSE "http") \in {"cancelled", "http", "exhausted"}
    OBVIOUS
  <2>3. LaneMove(c, l, Idle)
    BY <2>1, <2>2, RaiseMove
  <2>4. QED
    BY <2>3
<1>4. CASE PutFails(c, l)
  <2>1. /\ lanes[c][l].st = "put"
        /\ UNCHANGED <<call, saved, loopVars, target, missing, asked>>
        /\ UNCHANGED <<cursor, landed, sent>>
    BY <1>4 DEF PutFails
  <2>2. CASE Raise(c, l, "cancelled") \/ Raise(c, l, "exhausted")
    BY <2>1, <2>2, RaiseMove
  <2>3. CASE /\ lanes[c][l].attempt < MaxRetries
             /\ SetLane(c, l, [lanes[c][l] EXCEPT !.st = "backoff"]) /\ UNCHANGED <<pc, errId>>
    <3> DEFINE r == [lanes[c][l] EXCEPT !.st = "backoff"]
    <3>1. /\ r \in LaneType /\ r.st = "backoff" /\ r.idx = lanes[c][l].idx
          /\ r.attempt = lanes[c][l].attempt
      BY LaneFacts DEF LaneType
    <3>2. lanes' = [lanes EXCEPT ![c][l] = r]
      BY <2>3 DEF SetLane
    <3> HIDE DEF r
    <3>3. LaneMove(c, l, r)
      BY <2>1, <2>3, <3>1, <3>2 DEF LaneMove
    <3>4. QED
      BY <3>3
  <2>4. QED
    BY <1>4, <2>2, <2>3 DEF PutFails
<1>5. CASE LaneWakes(c, l)
  <2>1. /\ lanes[c][l].st = "backoff"
        /\ UNCHANGED <<call, saved, loopVars, target, missing, asked>>
        /\ UNCHANGED <<cursor, landed, sent>>
    BY <1>5 DEF LaneWakes
  <2>2. CASE Raise(c, l, "cancelled")
    BY <2>1, <2>2, RaiseMove
  <2>3. CASE /\ SetLane(c, l, [lanes[c][l] EXCEPT !.st = "put", !.attempt = @ + 1])
             /\ UNCHANGED <<pc, errId>>
    <3> DEFINE r == [lanes[c][l] EXCEPT !.st = "put", !.attempt = @ + 1]
    <3>1. lanes[c][l].attempt + 1 \in 0..MaxRetries
      BY <2>1, LaneFacts DEF LaneInv, ConstantsAssumption
    <3>2. r \in LaneType /\ r.st = "put" /\ r.idx = lanes[c][l].idx
      BY <3>1, LaneFacts DEF LaneType
    <3>3. lanes' = [lanes EXCEPT ![c][l] = r]
      BY <2>3 DEF SetLane
    <3> HIDE DEF r
    <3>4. LaneMove(c, l, r)
      BY <2>1, <2>3, <3>2, <3>3 DEF LaneMove
    <3>5. QED
      BY <3>4
  <2>4. QED
    BY <1>5, <2>2, <2>3 DEF LaneWakes
<1>6. QED
  BY <1>1, <1>2, <1>3, <1>4, <1>5 DEF LaneStep

\* The call's own steps leave the lanes alone or start a round.
LEMMA StartMove ==
  ASSUME ConstantsAssumption, TypeOK, CallInv, LaneInv, StoredInv,
         CreateAnswered \/ StatusAnswered \/ RestatusAnswered
  PROVE  \/ /\ UNCHANGED workVars /\ pc' \in {"done", "failed", "abandoning", "completing"}
            /\ pc' \in {"abandoning", "completing"} => Active # 0
         \/ \E s, received : RoundMove(s, received)
         \/ /\ pc = "statusing" /\ pc' \in {"abandoning", "completing"}
            /\ target' = [target EXCEPT ![call] = saved] /\ saved \in 1..Len(sessions)
            /\ UNCHANGED <<call, missing, cursor, lanes, landed, sent>>
<1>1. ASSUME pc \in Alone
      PROVE  call \in Calls /\ \A l \in Lanes : lanes[call][l].st = "off"
  BY <1>1, ActiveFacts DEF Alone, Running, LaneInv
<1>2. CASE CreateAnswered
  <2>1. pc \in Alone
    BY <1>2 DEF CreateAnswered, Alone, Running
  <2>2. CASE pc' = "done" /\ UNCHANGED <<saved, sessions, workVars>>
    BY <2>2
  <2>3. CASE /\ sessions' = Append(sessions, NewSession)
             /\ target' = [target EXCEPT ![call] = Len(sessions) + 1]
             /\ StartLanes(MissingIndices({})) /\ UNCHANGED <<call, tries, sent>>
    <3>1. Len(sessions) + 1 \in 1..Len(sessions')
      BY <2>3, AppendStep, SessionFacts
    <3>2. RoundMove(Len(sessions) + 1, {})
      BY <1>1, <1>2, <2>1, <2>3, <3>1 DEF RoundMove, CreateAnswered
    <3>3. QED
      BY <3>2
  <2>4. QED
    BY <1>2, <2>2, <2>3 DEF CreateAnswered, loopVars
<1>3. CASE StatusAnswered
  <2>1. /\ pc = "statusing" /\ pc \in Alone /\ saved \in 1..Len(sessions)
        /\ UNCHANGED <<call, tries, sessions>>
    BY <1>3, SessionFacts DEF StatusAnswered, Alone, Running, CallInv, TypeOK, loopVars
  <2>2. CASE pc' \in {"done", "failed"} /\ UNCHANGED workVars
    BY <2>2
  <2>3. CASE /\ target' = [target EXCEPT ![call] = saved]
             /\ StartLanes(MissingIndices(sessions[saved].received)) /\ UNCHANGED sent
    <3>1. RoundMove(saved, sessions[saved].received)
      BY <1>1, <2>1, <2>3 DEF RoundMove
    <3>2. QED
      BY <3>1
  <2>4. CASE /\ target' = [target EXCEPT ![call] = saved]
             /\ pc' \in {"abandoning", "completing"}
             /\ UNCHANGED <<missing, cursor, lanes, landed, sent>>
    BY <2>1, <2>4
  <2>5. QED
    BY <1>3, <2>2, <2>3, <2>4 DEF StatusAnswered, Fail
<1>4. CASE RestatusAnswered
  <2>1. pc \in Alone /\ pc # "idle" /\ UNCHANGED <<call, tries, sessions>> /\ Active # 0
    BY <1>4 DEF RestatusAnswered, Alone, Running, After, CallInv, loopVars
  <2>2. Active \in 1..Len(sessions)
    BY <2>1, ActiveFacts, SessionFacts
  <2>3. CASE StartLanes(MissingIndices(sessions[Active].received)) /\ UNCHANGED <<target, sent>>
    <3>1. target' = [target EXCEPT ![call] = Active]
      BY <1>1, <2>1, <2>3 DEF TypeOK, Active
    <3>2. RoundMove(Active, sessions[Active].received)
      BY <1>1, <1>4, <2>1, <2>2, <2>3, <3>1 DEF RoundMove, RestatusAnswered
    <3>3. QED
      BY <3>2
  <2>4. CASE TryComplete /\ UNCHANGED workVars
    BY <2>1, <2>4 DEF TryComplete, CancelCall
  <2>5. QED
    BY <1>4, <2>3, <2>4 DEF RestatusAnswered
<1>5. QED
  BY <1>2, <1>3, <1>4

LEMMA StopStep ==
  ASSUME ConstantsAssumption, TypeOK, CallInv, TaskCancelled \/ Crash
  PROVE  StopMove
<1>1. pc # "idle" /\ (pc = "abandoning" => Active # 0)
  BY DEF TaskCancelled, Crash, Running, CallInv, After
<1>2. call \in Calls
  BY <1>1, ActiveFacts
<1>3. Idle \in LaneType /\ Idle.st = "off"
  BY DEF Idle, LaneType, ConstantsAssumption
<1>4. CASE TaskCancelled
  <2>1. lanes' = [lanes EXCEPT ![call] = [l \in Lanes |-> Idle]]
    BY <1>4 DEF TaskCancelled
  <2>2. lanes' \in [Calls -> [Lanes -> LaneType]]
    BY <1>3, <2>1 DEF TypeOK
  <2>3. pc' \in {"abandoning", "cancelled"} /\ (pc' = "abandoning" => Active # 0)
    BY <1>4 DEF TaskCancelled, CancelCall
  <2> HIDE DEF Idle
  <2>4. \A c \in Calls, l \in Lanes : lanes'[c][l] = IF c = call THEN Idle ELSE lanes[c][l]
    BY <1>2, <2>1 DEF TypeOK
  <2>5. QED
    BY <1>2, <1>3, <1>4, <2>2, <2>3, <2>4 DEF TaskCancelled, StopMove
<1>5. CASE Crash
  <2>1. lanes' = [c \in Calls |-> [l \in Lanes |-> Idle]]
    BY <1>5 DEF Crash
  <2>2. lanes' \in [Calls -> [Lanes -> LaneType]]
    BY <1>3, <2>1
  <2>3. QED
    BY <1>2, <1>3, <1>5, <2>1, <2>2 DEF Crash, StopMove
<1>6. QED
  BY <1>4, <1>5

\* Every step leaves the work alone, starts a round, sets a session only, moves
\* one lane, or stops lanes.
LEMMA NextMoves ==
  ASSUME ConstantsAssumption, TypeOK, CallInv, LaneInv, StoredInv, [Next]_vars
  PROVE  \/ UNCHANGED workVars
         \/ \E s, received : RoundMove(s, received)
         \/ /\ pc = "statusing" /\ pc' \in {"abandoning", "completing"}
            /\ target' = [target EXCEPT ![call] = saved] /\ saved \in 1..Len(sessions)
            /\ UNCHANGED <<call, missing, cursor, lanes, landed, sent>>
         \/ \E c \in Calls, l \in Lanes, r \in LaneType : LaneMove(c, l, r)
         \/ StopMove
<1>1. CASE CreateAnswered \/ StatusAnswered \/ RestatusAnswered
  BY <1>1, StartMove
<1>2. CASE \E c \in Calls, l \in Lanes : LaneStep(c, l)
  BY <1>2, LaneStepMove
<1>3. CASE TaskCancelled \/ Crash
  BY <1>3, StopStep
<1>4. CASE UploadFresh \/ UploadResume
  BY <1>4 DEF UploadFresh, UploadResume, Enter
<1>5. CASE Hashed \/ ChunksDone \/ CompleteAccepted \/ CompleteIncomplete \/ CompleteRefused
  BY <1>5 DEF Hashed, ChunksDone, CompleteAccepted, CompleteIncomplete, CompleteRefused
<1>6. CASE PollAnswered \/ PollAgain \/ RequestFails \/ Abandonment
  BY <1>6 DEF PollAnswered, PollAgain, RequestFails, Abandonment, AbandonAnswered, AbandonFails,
              AbandonInterrupted
<1>7. CASE \/ \E c \in 1..call : AskCancel(c)
           \/ \E s \in DOMAIN sessions : CommitAttempt(s) \/ GatewayFault(s)
  BY <1>7 DEF AskCancel, CommitAttempt, GatewayFault
<1>8. CASE UNCHANGED vars
  BY <1>8 DEF vars
<1>9. QED
  BY <1>1, <1>2, <1>3, <1>4, <1>5, <1>6, <1>7, <1>8 DEF Next, Main, Abandonment

\* A request whose answer is lost has done what it does or nothing.
LEMMA UnansweredStep ==
  ASSUME TypeOK, CallInv, StoredInv, Unanswered
  PROVE  StoreStep
<1>1. CASE UNCHANGED sessions
  BY <1>1, SameStore
<1>2. CASE pc = "creating" /\ sessions' = Append(sessions, NewSession)
  BY <1>2, AppendStep
<1>3. CASE /\ pc = "completing" /\ sessions[Active].state = "pending" /\ Whole(Active)
           /\ \E state \in {"assembling", "completed"} : sessions' = SetState(Active, state)
  <2>1. Active \in 1..Len(sessions)
    BY <1>3, ActiveFacts, SessionFacts DEF CallInv, After
  <2>2. PICK state \in {"assembling", "completed"} : sessions' = SetState(Active, state)
    BY <1>3
  <2>3. state \in State /\ sessions[Active].state \notin Over
    BY <1>3 DEF State, Over
  <2>4. QED
    BY <1>3, <2>1, <2>2, <2>3, SetStateStep
<1>4. QED
  BY <1>1, <1>2, <1>3 DEF Unanswered

LEMMA LaneStoreStep ==
  ASSUME ConstantsAssumption, TypeOK, CallInv, LaneInv, StoredInv,
         NEW c \in Calls, NEW l \in Lanes, LaneStep(c, l)
  PROVE  StoreStep
<1>1. CASE UNCHANGED sessions
  BY <1>1, SameStore
<1>2. CASE /\ lanes[c][l].st = "put" /\ sessions[target[c]].state = "pending"
           /\ sessions' = Receive(target[c], lanes[c][l].idx)
  <2>1. target[c] \in 1..Len(sessions)
    BY <1>2, LaneFacts, SessionFacts DEF LaneInv
  <2>2. sessions[target[c]].received \cup {lanes[c][l].idx} \in SUBSET Chunks
    BY <1>2, <2>1, SessionFacts DEF LaneInv
  <2>3. sessions' = [sessions EXCEPT ![target[c]].received =
                       sessions[target[c]].received \cup {lanes[c][l].idx}]
    BY <1>2 DEF Receive
  <2>4. QED
    BY <1>2, <2>1, <2>2, <2>3, ReceivedStep
<1>3. QED
  BY <1>1, <1>2 DEF LaneStep, LaneNext, PutAccepted, PutRefused, PutFails, LaneWakes

LEMMA DiscardedStep ==
  ASSUME TypeOK, CallInv, StoredInv, pc = "abandoning", sessions' = Discarded
  PROVE  StoreStep /\ sessions'[Active].state \in Over
<1>1. Active \in 1..Len(sessions)
  BY ActiveFacts, SessionFacts DEF CallInv, After
<1>2. CASE sessions[Active].state \in {"pending", "assembling"}
  <2>1. sessions' = SetState(Active, "abandoned")
    BY <1>2 DEF Discarded
  <2>2. "abandoned" \in State /\ "abandoned" \in Over /\ sessions[Active].state \notin Over
    BY <1>2 DEF State, Over
  <2>3. QED
    BY <1>1, <2>1, <2>2, SetStateStep
<1>3. CASE sessions[Active].state \notin {"pending", "assembling"}
  <2>1. UNCHANGED sessions
    BY <1>3 DEF Discarded
  <2>2. QED
    BY <1>1, <1>3, <2>1, SameStore, SessionFacts DEF Over
<1>4. QED
  BY <1>2, <1>3

LEMMA CompleteAcceptedStep ==
  ASSUME TypeOK, CallInv, StoredInv, CompleteAccepted
  PROVE  /\ StoreStep /\ Active \in 1..Len(sessions)
         /\ pc' = "done" => sessions'[Active].state = "completed"
<1>1. Active \in 1..Len(sessions)
  BY ActiveFacts, SessionFacts DEF CallInv, After, CompleteAccepted
<1>2. Whole(Active)
  BY <1>1, SessionFacts DEF CompleteAccepted, StoredInv
<1>3. CASE sessions' = SetState(Active, "completed") /\ sessions[Active].state # "assembling"
  <2>1. "completed" \in State /\ (sessions[Active].state \in Over => sessions[Active].state = "completed")
    BY DEF State, Over, CompleteAccepted
  <2>2. QED
    BY <1>1, <1>2, <1>3, <2>1, SetStateStep
<1>4. CASE sessions' = SetState(Active, "assembling") /\ sessions[Active].state # "completed" /\ pc' # "done"
  <2>1. "assembling" \in State /\ sessions[Active].state \notin Over
    BY <1>4 DEF State, Over, CompleteAccepted
  <2>2. QED
    BY <1>1, <1>2, <1>4, <2>1, SetStateStep
<1>5. QED
  BY <1>3, <1>4 DEF CompleteAccepted

LEMMA GatewayStep ==
  ASSUME TypeOK, StoredInv, NEW s \in DOMAIN sessions, CommitAttempt(s) \/ GatewayFault(s)
  PROVE  StoreStep
<1>1. s \in 1..Len(sessions)
  BY SessionFacts
<1>2. CASE sessions[s].state = "assembling" /\ sessions' \in {SetState(s, "completed"), SetState(s, "failed")}
  <2>1. Whole(s) /\ {"completed", "failed"} \subseteq State /\ sessions[s].state \notin Over
    BY <1>1, <1>2, SessionFacts DEF StoredInv, State, Over
  <2>2. QED
    BY <1>1, <1>2, <2>1, SetStateStep
<1>3. CASE sessions[s].state = "pending" /\ sessions' = SetState(s, "expired")
  <2>1. "expired" \in State /\ sessions[s].state \notin Over
    BY <1>3 DEF State, Over
  <2>2. QED
    BY <1>1, <1>3, <2>1, SetStateStep
<1>4. ASSUME sessions[s].state = "pending", NEW i \in sessions[s].received,
             sessions' = [sessions EXCEPT ![s].received = @ \ {i}]
      PROVE  StoreStep
  <2>1. sessions[s].received \ {i} \in SUBSET Chunks
    BY <1>1, SessionFacts
  <2>2. sessions' = [sessions EXCEPT ![s].received = sessions[s].received \ {i}]
    BY <1>4
  <2>3. QED
    BY <1>1, <1>4, <2>1, <2>2, ReceivedStep
<1>5. QED
  BY <1>2, <1>3, <1>4 DEF CommitAttempt, GatewayFault

\* What every step does to the sessions.
LEMMA NextStore ==
  ASSUME ConstantsAssumption, TypeOK, CallInv, LaneInv, StoredInv, [Next]_vars
  PROVE  StoreStep
<1>1. CASE UNCHANGED sessions
  BY <1>1, SameStore
<1>2. CASE CreateAnswered
  BY <1>1, <1>2, AppendStep DEF CreateAnswered
<1>3. CASE CompleteAccepted
  BY <1>3, CompleteAcceptedStep
<1>4. CASE Abandonment
  BY <1>1, <1>4, DiscardedStep DEF Abandonment, AbandonAnswered, AbandonFails, AbandonInterrupted
<1>5. CASE RequestFails
  BY <1>5, UnansweredStep DEF RequestFails
<1>6. CASE TaskCancelled \/ Crash
  <2>1. call \in Calls
    BY <1>6, ActiveFacts DEF TaskCancelled, Crash, Running, CallInv
  <2>2. {call} \X Lanes \in SUBSET (Calls \X Lanes)
    BY <2>1
  <2>3. CASE Unanswered
    BY <2>3, UnansweredStep
  <2>4. CASE Dropped({call} \X Lanes)
    BY <2>2, <2>4, DroppedStep
  <2>5. CASE Dropped(Calls \X Lanes)
    BY <2>5, DroppedStep
  <2>6. QED
    BY <1>6, <2>3, <2>4, <2>5 DEF TaskCancelled, Crash
<1>7. CASE \E c \in Calls, l \in Lanes : LaneStep(c, l)
  BY <1>7, LaneStoreStep
<1>8. CASE \E s \in DOMAIN sessions : CommitAttempt(s) \/ GatewayFault(s)
  BY <1>8, GatewayStep
<1>9. CASE Hashed \/ StatusAnswered \/ ChunksDone \/ CompleteIncomplete \/ CompleteRefused
  BY <1>1, <1>9 DEF Hashed, StatusAnswered, ChunksDone, CompleteIncomplete, CompleteRefused
<1>10. CASE RestatusAnswered \/ PollAnswered \/ PollAgain \/ (\E c \in 1..call : AskCancel(c))
  BY <1>1, <1>10 DEF RestatusAnswered, PollAnswered, PollAgain, AskCancel
<1>11. CASE UploadFresh \/ UploadResume
  BY <1>1, <1>11 DEF UploadFresh, UploadResume, Enter
<1>12. CASE UNCHANGED vars
  BY <1>1, <1>12 DEF vars
<1>13. QED
  BY <1>2, <1>3, <1>4, <1>5, <1>6, <1>7, <1>8, <1>9, <1>10, <1>11, <1>12 DEF Next, Main, Abandonment

-----------------------------------------------------------------------------
(* Types                                                                   *)

\* The two halves of the types: what the call's own coroutine keeps, and the
\* work of the lanes.
HeadType ==
  /\ pc \in Running \cup Resting \cup {"abandoning", "done"}
  /\ call \in 0..MaxCalls
  /\ saved \in 0..Len(sessions) /\ errId \in 0..Len(sessions)
  /\ tries \in 0..CompleteRetries /\ polls \in 0..(PollMax - 1)
  /\ asked \in [Calls -> BOOLEAN]
  /\ faults \in 0..MaxFaults

WorkType ==
  /\ target \in [Calls -> 0..Len(sessions)]
  /\ missing \in [Calls -> Seq(Chunks)]
  /\ cursor \in [Calls -> 1..(K + 1)]
  /\ lanes \in [Calls -> [Lanes -> LaneType]]
  /\ landed \in [Calls -> SUBSET Chunks]
  /\ sent \in [Calls -> [Chunks -> Nat]]

LEMMA InitTypeOK ==
  ASSUME ConstantsAssumption, Init
  PROVE  TypeOK
<1>1. Idle \in LaneType
  BY DEF Idle, LaneType, ConstantsAssumption
<1>2. sessions \in Seq(SessionType) /\ Len(sessions) = 0
  BY DEF Init
<1>3. 1 \in 1..(K + 1) /\ <<>> \in Seq(Chunks)
  BY DEF ConstantsAssumption
<1> HIDE DEF Idle
<1>4. QED
  BY <1>1, <1>2, <1>3 DEF Init, TypeOK, ConstantsAssumption, Resting

\* A round starts with typed work.
LEMMA RoundWork ==
  ASSUME ConstantsAssumption, TypeOK, NEW s, NEW received, RoundMove(s, received), StoreStep
  PROVE  WorkType'
<1> DEFINE m == MissingIndices(received)
<1>1. m \in Seq(Chunks) /\ 1 \in 1..(K + 1)
  BY MissingAreTheRest DEF ConstantsAssumption
<1>2. LanesFor(m) \in [Lanes -> LaneType]
  <2>1. Idle \in LaneType /\ [Idle EXCEPT !.st = "next"] \in LaneType
    BY DEF Idle, LaneType, ConstantsAssumption
  <2> HIDE DEF Idle
  <2>2. QED
    BY <2>1 DEF LanesFor
<1>3. /\ missing' = [missing EXCEPT ![call] = m] /\ cursor' = [cursor EXCEPT ![call] = 1]
      /\ lanes' = [lanes EXCEPT ![call] = LanesFor(m)] /\ landed' = [landed EXCEPT ![call] = {}]
      /\ target' = [target EXCEPT ![call] = s] /\ s \in 0..Len(sessions') /\ sent' = sent
  BY DEF RoundMove, StartLanes, StoreStep
<1> HIDE DEF m
<1>4. target \in [Calls -> 0..Len(sessions')]
  BY SessionFacts DEF TypeOK, StoreStep
<1>5. QED
  BY <1>1, <1>2, <1>3, <1>4 DEF WorkType, TypeOK

LEMMA LaneWork ==
  ASSUME ConstantsAssumption, TypeOK, LaneInv, RoundInv, StoreStep,
         NEW c \in Calls, NEW l \in Lanes, NEW r, LaneMove(c, l, r)
  PROVE  WorkType'
<1>1. target' \in [Calls -> 0..Len(sessions')] /\ missing' \in [Calls -> Seq(Chunks)]
  <2>1. target \in [Calls -> 0..Len(sessions')]
    BY SessionFacts DEF TypeOK, StoreStep
  <2>2. QED
    BY <2>1 DEF TypeOK, LaneMove
<1>2. lanes' \in [Calls -> [Lanes -> LaneType]]
  BY DEF LaneMove, TypeOK
<1>3. cursor' \in [Calls -> 1..(K + 1)]
  <2>1. CASE UNCHANGED cursor
    BY <2>1 DEF TypeOK
  <2>2. CASE cursor[c] <= Len(missing[c]) /\ cursor' = [cursor EXCEPT ![c] = @ + 1]
    <3>1. cursor[c] + 1 \in 1..(K + 1)
      BY <2>2, LaneFacts DEF RoundInv, ConstantsAssumption
    <3>2. QED
      BY <2>2, <3>1 DEF TypeOK
  <2>3. QED
    BY <2>1, <2>2 DEF LaneMove
<1>4. landed' \in [Calls -> SUBSET Chunks] /\ sent' \in [Calls -> [Chunks -> Nat]]
  <2>1. CASE UNCHANGED <<landed, sent>>
    BY <2>1 DEF TypeOK
  <2>2. CASE /\ lanes[c][l].st = "put"
             /\ landed' = [landed EXCEPT ![c] = @ \cup {lanes[c][l].idx}]
             /\ sent' = [sent EXCEPT ![c][lanes[c][l].idx] = @ + 1]
    <3>1. lanes[c][l].idx \in Chunks /\ sent[c][lanes[c][l].idx] + 1 \in Nat
      BY <2>2 DEF LaneInv, TypeOK
    <3>2. QED
      BY <2>2, <3>1 DEF TypeOK
  <2>3. QED
    BY <2>1, <2>2 DEF LaneMove
<1>5. QED
  BY <1>1, <1>2, <1>3, <1>4 DEF WorkType

LEMMA WorkStep ==
  ASSUME ConstantsAssumption, IInv, [Next]_vars
  PROVE  WorkType'
<1> USE DEF IInv
<1>1. StoreStep
  BY NextStore
<1>2. target \in [Calls -> 0..Len(sessions')]
  BY <1>1, SessionFacts DEF TypeOK, StoreStep
<1>3. CASE UNCHANGED workVars
  BY <1>2, <1>3 DEF TypeOK, WorkType, workVars
<1>4. CASE \E s, received : RoundMove(s, received)
  BY <1>1, <1>4, RoundWork
<1>5. CASE /\ target' = [target EXCEPT ![call] = saved] /\ saved \in 1..Len(sessions)
           /\ UNCHANGED <<missing, cursor, lanes, landed, sent>>
  <2>1. saved \in 0..Len(sessions')
    BY <1>1, <1>5, SessionFacts DEF StoreStep
  <2>2. QED
    BY <1>2, <1>5, <2>1 DEF TypeOK, WorkType
<1>6. CASE \E c \in Calls, l \in Lanes, r \in LaneType : LaneMove(c, l, r)
  BY <1>1, <1>6, LaneWork
<1>7. CASE StopMove
  BY <1>2, <1>7 DEF TypeOK, WorkType, StopMove
<1>8. QED
  BY <1>3, <1>4, <1>5, <1>6, <1>7, NextMoves

LEMMA HeadStep ==
  ASSUME ConstantsAssumption, IInv, [Next]_vars
  PROVE  HeadType'
<1> USE DEF IInv
<1>1. StoreStep /\ HeadType
  BY NextStore DEF TypeOK, HeadType
<1>2. \A u \in 0..Len(sessions) : u \in 0..Len(sessions')
  BY <1>1, SessionFacts DEF StoreStep
<1>3. saved \in 0..Len(sessions') /\ errId \in 0..Len(sessions') /\ 0 \in 0..Len(sessions')
  BY <1>1, <1>2, SessionFacts DEF HeadType, StoreStep
<1>4. pc # "idle" => Active \in 0..Len(sessions')
  BY <1>2, ActiveFacts
<1>5. Fault => faults' \in 0..MaxFaults
  BY DEF Fault, TypeOK, ConstantsAssumption
<1> USE DEF HeadType
<1>6. CASE UploadFresh \/ UploadResume
  <2>1. call + 1 \in 1..MaxCalls /\ call + 1 \in Calls
    BY <1>6 DEF UploadFresh, UploadResume, Enter, TypeOK, ConstantsAssumption, Calls
  <2>2. 0 \in 0..CompleteRetries /\ 0 \in 0..(PollMax - 1)
    BY DEF ConstantsAssumption
  <2>3. asked' \in [Calls -> BOOLEAN] /\ pc' \in {"hashing", "statusing", "cancelled"}
    BY <1>6, <2>1 DEF UploadFresh, UploadResume, Enter, TypeOK
  <2>4. /\ call' = call + 1 /\ tries' = 0 /\ polls' = 0 /\ errId' = 0
        /\ UNCHANGED <<saved, sessions, faults>>
    BY <1>6 DEF UploadFresh, UploadResume, Enter
  <2>5. QED
    BY <1>1, <1>3, <2>1, <2>2, <2>3, <2>4 DEF Running, Resting
<1>7. CASE Hashed
  <2>1. /\ pc' \in {"cancelled", "abandoning", "creating"} /\ errId' \in {0, errId}
        /\ UNCHANGED <<call, saved, loopVars, asked, sessions, faults>>
    BY <1>7 DEF Hashed, CancelCall
  <2>2. QED
    BY <1>1, <1>3, <2>1 DEF Running, Resting, loopVars
<1>8. CASE CreateAnswered
  <2>1. saved' \in 0..Len(sessions') /\ pc' \in {"done", "chunks"}
    BY <1>3, <1>8, AppendStep, SessionFacts DEF CreateAnswered, StartLanes
  <2>2. UNCHANGED <<call, errId, loopVars, asked, faults>>
    BY <1>8 DEF CreateAnswered
  <2>3. QED
    BY <1>1, <1>3, <2>1, <2>2 DEF Running, loopVars
<1>9. CASE StatusAnswered
  <2>1. /\ pc' \in {"done", "failed", "chunks", "abandoning", "completing"}
        /\ errId' \in {errId, saved, 0}
        /\ UNCHANGED <<call, saved, loopVars, asked, sessions, faults>>
    BY <1>9 DEF StatusAnswered, Fail, StartLanes
  <2>2. QED
    BY <1>1, <1>3, <2>1 DEF Running, Resting, loopVars
<1>10. CASE RequestFails
  BY <1>1, <1>3, <1>5, <1>10 DEF RequestFails, Fail, loopVars, Resting
<1>11. CASE ChunksDone \/ CompleteRefused \/ PollAnswered
  <2>1. pc # "idle"
    BY <1>11 DEF ChunksDone, CompleteRefused, PollAnswered
  <2>2. /\ pc' \in {"done", "failed", "abandoning", "completing", "cancelled", "pollwait"}
        /\ errId' \in {errId, Active, 0}
        /\ UNCHANGED <<call, saved, loopVars, asked, sessions, faults>>
    BY <1>11 DEF ChunksDone, CompleteRefused, PollAnswered, TryComplete, CancelCall, Fail
  <2>3. QED
    BY <1>1, <1>3, <1>4, <2>1, <2>2 DEF Running, Resting, loopVars
<1>12. CASE CompleteAccepted
  <2>1. /\ pc' \in {"done", "abandoning", "polling"}
        /\ UNCHANGED <<call, saved, errId, loopVars, asked, faults>>
    BY <1>12 DEF CompleteAccepted
  <2>2. QED
    BY <1>1, <1>3, <2>1 DEF Running, loopVars
<1>13. CASE CompleteIncomplete
  <2>1. faults' \in 0..MaxFaults
    BY <1>1, <1>5, <1>13 DEF CompleteIncomplete
  <2>2. tries' \in 0..CompleteRetries
    BY <1>13 DEF CompleteIncomplete, TypeOK, ConstantsAssumption
  <2>3. QED
    BY <1>1, <1>3, <1>13, <2>1, <2>2 DEF CompleteIncomplete, Fail, Running, Resting
<1>14. CASE RestatusAnswered
  <2>1. /\ pc' \in {"chunks", "completing", "abandoning", "cancelled"} /\ errId' \in {errId, 0}
        /\ UNCHANGED <<call, saved, loopVars, asked, sessions, faults>>
    BY <1>14 DEF RestatusAnswered, StartLanes, TryComplete, CancelCall
  <2>2. QED
    BY <1>1, <1>3, <2>1 DEF Running, Resting, loopVars
<1>15. CASE PollAgain
  <2>1. polls' \in 0..(PollMax - 1)
    BY <1>15 DEF PollAgain, TypeOK, ConstantsAssumption
  <2>2. pc # "idle" /\ pc' \in {"abandoning", "polling", "failed"} /\ errId' \in {errId, Active}
    BY <1>15 DEF PollAgain, Fail
  <2>3. QED
    BY <1>1, <1>3, <1>4, <1>15, <2>1, <2>2 DEF PollAgain, Running, Resting
<1>16. CASE Abandonment
  <2>1. /\ pc # "idle" /\ pc' \in {"cancelled", "interrupted"} /\ errId' \in {Active, 0}
        /\ UNCHANGED <<call, saved, loopVars, asked>> /\ (UNCHANGED faults \/ Fault)
    BY <1>16 DEF Abandonment, AbandonAnswered, AbandonFails, AbandonInterrupted
  <2>2. QED
    BY <1>1, <1>3, <1>4, <1>5, <2>1 DEF Resting, loopVars
<1>17. CASE \E c \in Calls, l \in Lanes : LaneStep(c, l)
  <2>1. PICK c \in Calls, l \in Lanes : LaneStep(c, l)
    BY <1>17
  <2>2. PICK r \in LaneType : LaneMove(c, l, r)
    BY <2>1, LaneStepMove
  <2>3. UNCHANGED faults \/ Fault
    BY <2>1 DEF LaneStep, LaneNext, PutAccepted, PutRefused, PutFails, LaneWakes
  <2>4. /\ pc' \in {pc, "abandoning", "failed"} /\ errId' \in 0..Len(sessions')
        /\ UNCHANGED <<call, saved, loopVars, asked>>
    BY <1>2, <1>3, <2>2 DEF LaneMove
  <2>5. QED
    BY <1>1, <1>3, <1>5, <2>3, <2>4 DEF Resting, loopVars
<1>18. CASE \E c \in 1..call : AskCancel(c)
  BY <1>1, <1>3, <1>18 DEF AskCancel, loopVars
<1>19. CASE TaskCancelled \/ Crash
  <2>1. /\ pc' \in {"cancelled", "abandoning", "crashed"} /\ errId' \in {0, errId}
        /\ UNCHANGED <<call, saved, loopVars, asked>> /\ (UNCHANGED faults \/ Fault)
    BY <1>19 DEF TaskCancelled, Crash, CancelCall
  <2>2. QED
    BY <1>1, <1>3, <1>5, <2>1 DEF Resting, loopVars
<1>20. CASE \E s \in DOMAIN sessions : CommitAttempt(s) \/ GatewayFault(s)
  BY <1>1, <1>3, <1>5, <1>20 DEF CommitAttempt, GatewayFault, loopVars
<1>21. CASE UNCHANGED vars
  BY <1>1, <1>3, <1>21 DEF vars, loopVars
<1>22. QED
  BY <1>6, <1>7, <1>8, <1>9, <1>10, <1>11, <1>12, <1>13, <1>14, <1>15, <1>16, <1>17, <1>18,
     <1>19, <1>20, <1>21 DEF Next, Main, Abandonment

LEMMA NextTypeOK ==
  ASSUME ConstantsAssumption, IInv, [Next]_vars
  PROVE  TypeOK'
<1>1. StoreStep
  BY NextStore DEF IInv
<1>2. QED
  BY <1>1, HeadStep, WorkStep DEF StoreStep, HeadType, WorkType, TypeOK

-----------------------------------------------------------------------------
(* Control                                                                 *)

\* A step begins a call, or goes on with the one there is.
BeginsCall ==
  /\ pc \in Resting /\ call' = call + 1 /\ tries' = 0 /\ errId' = 0
  /\ pc' \in {"hashing", "statusing", "cancelled"} /\ (pc' = "statusing" => saved # 0)
  /\ UNCHANGED <<saved, workVars, sessions>>

GoesOn ==
  /\ call' = call /\ (pc' = "idle" <=> pc = "idle")
  /\ pc' \in Before => pc \in Before /\ (pc' = "statusing" => pc = "statusing")
  /\ pc' \in After \cup {"interrupted"} =>
       pc \in After \cup {"interrupted"} \/ Active # 0 \/ target' # target
  /\ pc' \in Alone => pc \in Alone \/ \A l \in Lanes : lanes[call][l].st = "off"
  /\ saved' = 0 => saved = 0

LEMMA NextControl ==
  ASSUME ConstantsAssumption, TypeOK, CallInv, LaneInv, StoredInv, [Next]_vars
  PROVE  BeginsCall \/ GoesOn
<1> USE DEF Before, After, Alone, Running, GoesOn
<1>1. CASE UploadFresh \/ UploadResume
  BY <1>1 DEF UploadFresh, UploadResume, Enter, BeginsCall
<1>2. CASE Hashed
  BY <1>2 DEF Hashed, CancelCall
<1>3. CASE CreateAnswered
  <2>1. saved' = 0 => saved = 0
    BY <1>3, SessionFacts DEF CreateAnswered
  <2>2. CASE pc' = "done"
    BY <1>3, <2>1, <2>2 DEF CreateAnswered
  <2>3. CASE pc' = "chunks" /\ target' = [target EXCEPT ![call] = Len(sessions) + 1]
    <3>1. call \in Calls /\ target[call] = 0
      BY <1>3, ActiveFacts DEF CreateAnswered, CallInv
    <3>2. target' # target
      BY <2>3, <3>1, SessionFacts DEF TypeOK
    <3>3. QED
      BY <1>3, <2>1, <2>3, <3>2 DEF CreateAnswered
  <2>4. QED
    BY <1>3, <2>2, <2>3 DEF CreateAnswered, StartLanes
<1>4. CASE StatusAnswered
  <2>1. CASE pc' \in {"done", "failed"}
    BY <1>4, <2>1 DEF StatusAnswered
  <2>2. CASE pc' \in {"chunks", "abandoning", "completing"} /\ target' = [target EXCEPT ![call] = saved]
    <3>1. call \in Calls /\ target[call] = 0 /\ saved # 0
      BY <1>4, ActiveFacts DEF StatusAnswered, CallInv
    <3>2. target' # target
      BY <2>2, <3>1 DEF TypeOK
    <3>3. QED
      BY <1>4, <2>2, <3>2 DEF StatusAnswered
  <2>3. QED
    BY <1>4, <2>1, <2>2 DEF StatusAnswered, StartLanes, Fail
<1>5. CASE RequestFails
  BY <1>5 DEF RequestFails, Fail
<1>6. CASE ChunksDone
  BY <1>6 DEF ChunksDone, TryComplete, CancelCall
<1>7. CASE CompleteAccepted \/ CompleteIncomplete \/ CompleteRefused
  BY <1>7 DEF CompleteAccepted, CompleteIncomplete, CompleteRefused, Fail
<1>8. CASE RestatusAnswered
  BY <1>8 DEF RestatusAnswered, StartLanes, TryComplete, CancelCall
<1>9. CASE PollAnswered \/ PollAgain
  BY <1>9 DEF PollAnswered, PollAgain, Fail
<1>10. CASE Abandonment
  BY <1>10 DEF Abandonment, AbandonAnswered, AbandonFails, AbandonInterrupted
<1>11. CASE \E c \in Calls, l \in Lanes : LaneStep(c, l)
  <2>1. PICK c \in Calls, l \in Lanes, r \in LaneType : LaneMove(c, l, r)
    BY <1>11, LaneStepMove
  <2>2. QED
    BY <2>1 DEF LaneMove
<1>12. CASE TaskCancelled \/ Crash
  <2>1. StopMove
    BY <1>12, StopStep
  <2>2. pc # "idle"
    BY <1>12 DEF TaskCancelled, Crash
  <2>3. QED
    BY <2>1, <2>2 DEF StopMove
<1>13. CASE \E c \in 1..call : AskCancel(c)
  BY <1>13 DEF AskCancel
<1>14. CASE \E s \in DOMAIN sessions : CommitAttempt(s) \/ GatewayFault(s)
  BY <1>14 DEF CommitAttempt, GatewayFault
<1>15. CASE UNCHANGED vars
  BY <1>15 DEF vars
<1>16. QED
  BY <1>1, <1>2, <1>3, <1>4, <1>5, <1>6, <1>7, <1>8, <1>9, <1>10, <1>11, <1>12, <1>13, <1>14,
     <1>15 DEF Next, Main, Abandonment

\* A session is the call's own only with an id the caller knows.
LEMMA KnownStep ==
  ASSUME ConstantsAssumption, TypeOK, CallInv, LaneInv, StoredInv, [Next]_vars
  PROVE  \A c \in Calls : c = call' => target'[c] \in {0, saved'}
<1>1. CASE UploadFresh \/ UploadResume
  <2>1. call' > call /\ UNCHANGED target
    BY <1>1 DEF UploadFresh, UploadResume, Enter, workVars, TypeOK, ConstantsAssumption
  <2>2. QED
    BY <2>1 DEF CallInv
<1>2. CASE CreateAnswered \/ StatusAnswered
  BY <1>2 DEF CreateAnswered, StatusAnswered, StartLanes, CallInv, TypeOK, workVars
<1>3. CASE UNCHANGED <<call, saved, target>>
  BY <1>3 DEF CallInv
<1>4. CASE \E c \in Calls, l \in Lanes : LaneStep(c, l)
  BY <1>3, <1>4, LaneStepMove DEF LaneMove
<1>5. CASE TaskCancelled \/ Crash
  BY <1>3, <1>5, StopStep DEF StopMove
<1>6. CASE Hashed \/ ChunksDone \/ RequestFails \/ RestatusAnswered
  BY <1>3, <1>6 DEF Hashed, ChunksDone, RequestFails, RestatusAnswered, StartLanes, workVars
<1>7. CASE CompleteAccepted \/ CompleteIncomplete \/ CompleteRefused \/ PollAnswered \/ PollAgain
  BY <1>3, <1>7 DEF CompleteAccepted, CompleteIncomplete, CompleteRefused, PollAnswered, PollAgain,
                    workVars
<1>8. CASE Abandonment
  BY <1>3, <1>8 DEF Abandonment, AbandonAnswered, AbandonFails, AbandonInterrupted, workVars
<1>9. CASE \/ \E c \in 1..call : AskCancel(c)
           \/ \E s \in DOMAIN sessions : CommitAttempt(s) \/ GatewayFault(s)
           \/ UNCHANGED vars
  BY <1>3, <1>9 DEF AskCancel, CommitAttempt, GatewayFault, vars, workVars
<1>10. QED
  BY <1>1, <1>2, <1>4, <1>5, <1>6, <1>7, <1>8, <1>9 DEF Next, Main, Abandonment

\* A call that has not begun its work has no part in what moves.
LEMMA CallInvStep ==
  ASSUME ConstantsAssumption, IInv, [Next]_vars
  PROVE  CallInv'
<1> USE DEF IInv
<1>1. call \in 0..MaxCalls /\ call \in Nat
  BY DEF TypeOK, ConstantsAssumption
<1>2. \A c \in Calls : c = call' => target'[c] \in {0, saved'}
  BY KnownStep
<1>3. CASE BeginsCall
  <2>1. /\ (call' = 0 <=> pc' = "idle") /\ (pc' = "statusing" => saved' # 0)
        /\ pc' \notin After \cup {"interrupted"}
    BY <1>1, <1>3 DEF BeginsCall, After
  <2>2. ASSUME NEW c \in Calls, c > call' \/ (c = call' /\ pc' \in Before)
        PROVE  c > call /\ UNCHANGED <<target, lanes, sent>>
    BY <1>1, <1>3, <2>2 DEF BeginsCall, workVars, Calls
  <2>3. QED
    BY <1>2, <2>1, <2>2 DEF CallInv
<1>4. CASE GoesOn
  <2>1. (call' = 0 <=> pc' = "idle") /\ (pc' = "statusing" => saved' # 0)
    BY <1>4 DEF GoesOn, CallInv, Before
  <2>2. ASSUME pc' \in After \cup {"interrupted"}
        PROVE  target'[call'] # 0
    <3>1. call' = call /\ call \in Calls /\ pc' # "idle"
      BY <1>4, <2>2, ActiveFacts DEF GoesOn, After
    <3>2. CASE UNCHANGED target
      BY <1>4, <2>2, <3>1, <3>2 DEF GoesOn, CallInv, Active
    <3>3. CASE \E s, received : RoundMove(s, received)
      BY <3>1, <3>3, SessionFacts DEF RoundMove, TypeOK
    <3>4. CASE target' = [target EXCEPT ![call] = saved] /\ saved \in 1..Len(sessions)
      BY <3>1, <3>4 DEF TypeOK
    <3>5. QED
      BY <3>2, <3>3, <3>4, NextMoves DEF workVars, LaneMove, StopMove
  <2>3. ASSUME NEW c \in Calls, c > call' \/ (c = call' /\ pc' \in Before)
        PROVE  /\ target'[c] = 0
               /\ \A l \in Lanes : lanes'[c][l].st = "off"
               /\ \A i \in Chunks : sent'[c][i] = 0
    <3>1. c > call \/ (c = call /\ pc \in Before /\ pc' \in Before)
      BY <1>4, <2>3 DEF GoesOn
    <3>2. /\ target[c] = 0
          /\ \A l \in Lanes : lanes[c][l].st = "off"
          /\ \A i \in Chunks : sent[c][i] = 0
      BY <3>1 DEF CallInv
    <3>3. CASE UNCHANGED workVars
      BY <3>2, <3>3 DEF workVars
    <3>4. CASE \E s, received : RoundMove(s, received)
      <4>1. c # call
        BY <1>1, <3>1, <3>4 DEF RoundMove, StartLanes, Before, Calls
      <4>2. QED
        BY <3>2, <3>4, <4>1 DEF RoundMove, StartLanes, TypeOK
    <3>5. CASE /\ pc' \in {"abandoning", "completing"} /\ target' = [target EXCEPT ![call] = saved]
               /\ UNCHANGED <<lanes, sent>>
      <4>1. c # call
        BY <1>1, <3>1, <3>5 DEF Before, Calls
      <4>2. QED
        BY <3>2, <3>5, <4>1 DEF TypeOK
    <3>6. CASE \E d \in Calls, k \in Lanes, r \in LaneType : LaneMove(d, k, r)
      <4>1. PICK d \in Calls, k \in Lanes, r \in LaneType : LaneMove(d, k, r)
        BY <3>6
      <4>2. c # d
        BY <3>2, <4>1 DEF LaneMove
      <4>3. lanes'[c] = lanes[c] /\ sent'[c] = sent[c] /\ target' = target
        BY <4>1, <4>2 DEF LaneMove, TypeOK
      <4>4. QED
        BY <3>2, <4>3
    <3>7. CASE StopMove
      <4>1. \A l \in Lanes : lanes'[c][l].st = "off"
        BY <3>2, <3>7 DEF StopMove
      <4>2. QED
        BY <3>2, <3>7, <4>1 DEF StopMove
    <3>8. QED
      BY <3>3, <3>4, <3>5, <3>6, <3>7, NextMoves
  <2>4. QED
    BY <1>2, <2>1, <2>2, <2>3 DEF CallInv, Active
<1>5. QED
  BY <1>3, <1>4, NextControl

-----------------------------------------------------------------------------
(* Lanes                                                                   *)

\* Where lane k of call d moves, the other lanes stay.
LEMMA OtherLanes ==
  ASSUME TypeOK, NEW d \in Calls, NEW k \in Lanes, NEW r, LaneMove(d, k, r),
         NEW c \in Calls, NEW l \in Lanes
  PROVE  lanes'[c][l] = IF c = d /\ l = k THEN r ELSE lanes[c][l]
  BY DEF LaneMove, TypeOK

\* The lanes of a round that starts hold nothing yet.
LEMMA RoundLanes ==
  ASSUME TypeOK, NEW s, NEW received, RoundMove(s, received), NEW c \in Calls, NEW l \in Lanes
  PROVE  /\ c # call => lanes'[c][l] = lanes[c][l]
         /\ c = call => lanes'[c][l].st \in {"off", "next"}
<1>1. lanes' = [lanes EXCEPT ![call] = LanesFor(MissingIndices(received))]
  BY DEF RoundMove, StartLanes
<1>2. LanesFor(MissingIndices(received))[l].st \in {"off", "next"}
  BY DEF LanesFor, Idle
<1>3. QED
  BY <1>1, <1>2 DEF TypeOK

LEMMA LaneInvStep ==
  ASSUME ConstantsAssumption, IInv, [Next]_vars
  PROVE  LaneInv'
<1> USE DEF IInv
<1> SUFFICES ASSUME NEW c \in Calls, NEW l \in Lanes
             PROVE  /\ lanes'[c][l].st # "off" => target'[c] # 0
                    /\ lanes'[c][l].st \in {"put", "backoff"} => lanes'[c][l].idx \in Chunks
                    /\ lanes'[c][l].st = "backoff" => lanes'[c][l].attempt < MaxRetries
                    /\ c = call' /\ pc' \in Alone => lanes'[c][l].st = "off"
  BY DEF LaneInv
<1>1. c = call' /\ pc' \in Alone =>
        \/ lanes[c][l].st = "off" /\ (call' = call => pc \in Alone \/ \A k \in Lanes : lanes[c][k].st = "off")
  <2>1. CASE BeginsCall
    <3>1. c = call' => c > call
      BY <2>1 DEF BeginsCall, TypeOK, ConstantsAssumption
    <3>2. QED
      BY <2>1, <3>1 DEF BeginsCall, CallInv, TypeOK, ConstantsAssumption
  <2>2. CASE GoesOn
    BY <2>2 DEF GoesOn, LaneInv
  <2>3. QED
    BY <2>1, <2>2, NextControl
<1>2. CASE UNCHANGED workVars
  BY <1>1, <1>2 DEF workVars, LaneInv
<1>3. CASE \E s, received : RoundMove(s, received)
  <2>1. PICK s, received : RoundMove(s, received)
    BY <1>3
  <2>2. c = call => target'[c] # 0
    BY <2>1 DEF RoundMove, TypeOK
  <2>3. c # call => target'[c] = target[c]
    BY <2>1 DEF RoundMove, TypeOK
  <2>4. pc' \notin Alone /\ call' = call
    BY <2>1 DEF RoundMove, StartLanes, Alone
  <2>5. QED
    BY <2>1, <2>2, <2>3, <2>4, RoundLanes DEF LaneInv
<1>4. CASE /\ pc = "statusing" /\ target' = [target EXCEPT ![call] = saved] /\ saved \in 1..Len(sessions)
           /\ UNCHANGED lanes
  <2>1. target[c] # 0 => target'[c] # 0
    BY <1>4 DEF TypeOK
  <2>2. QED
    BY <1>1, <1>4, <2>1 DEF LaneInv
<1>5. CASE \E d \in Calls, k \in Lanes, r \in LaneType : LaneMove(d, k, r)
  <2>1. PICK d \in Calls, k \in Lanes, r \in LaneType : LaneMove(d, k, r)
    BY <1>5
  <2>2. UNCHANGED target /\ call' = call
    BY <2>1 DEF LaneMove
  <2>3. CASE ~(c = d /\ l = k)
    BY <1>1, <2>1, <2>2, <2>3, OtherLanes DEF LaneInv
  <2>4. CASE c = d /\ l = k
    <3>1. lanes'[c][l] = r /\ lanes[c][l].st # "off"
      <4>1. lanes[c][l].st # "off"
        BY <2>1, <2>4 DEF LaneMove
      <4>2. QED
        BY <2>1, <2>4, <4>1, OtherLanes
    <3>2. ~(c = call' /\ pc' \in Alone)
      BY <1>1, <3>1
    <3>3. r.st \in {"put", "backoff"} => r.idx \in Chunks
      <4>1. missing[c] \in Seq(Chunks) /\ cursor[c] \in 1..(K + 1)
        BY LaneFacts
      <4>2. cursor[c] <= Len(missing[c]) => missing[c][cursor[c]] \in Chunks
        BY <4>1 DEF ConstantsAssumption
      <4>3. lanes[c][l].st \in {"put", "backoff"} => lanes[c][l].idx \in Chunks
        BY DEF LaneInv
      <4>4. QED
        BY <2>1, <2>4, <4>2, <4>3 DEF LaneMove
    <3>4. r.st = "backoff" => r.attempt < MaxRetries
      BY <2>1 DEF LaneMove
    <3>5. target'[c] # 0
      BY <2>2, <3>1 DEF LaneInv
    <3>6. QED
      BY <3>1, <3>2, <3>3, <3>4, <3>5
  <2>5. QED
    BY <2>3, <2>4
<1>6. CASE StopMove
  <2>1. lanes'[c][l] = lanes[c][l] \/ lanes'[c][l].st = "off"
    BY <1>6 DEF StopMove
  <2>2. UNCHANGED target /\ call' = call /\ pc' \notin Alone
    BY <1>6 DEF StopMove, Alone, Running
  <2>3. QED
    BY <2>1, <2>2 DEF LaneInv
<1>7. QED
  BY <1>2, <1>3, <1>4, <1>5, <1>6, NextMoves

-----------------------------------------------------------------------------
(* One sender of a chunk at a time                                         *)

\* A chunk that lane k of call d holds after its move was its own before, or
\* the one it claims.
LEMMA HeldAfter ==
  ASSUME ConstantsAssumption, TypeOK, NEW d \in Calls, NEW k \in Lanes, NEW r, LaneMove(d, k, r),
         NEW c \in Calls, NEW l \in Lanes, NEW i \in Chunks, Holds(c, l, i)'
  PROVE  \/ Holds(c, l, i) /\ (c = d /\ l = k => UNCHANGED <<cursor, landed>>)
         \/ /\ c = d /\ l = k /\ cursor[d] <= Len(missing[d]) /\ missing[d][cursor[d]] = i
            /\ cursor' = [cursor EXCEPT ![d] = @ + 1] /\ UNCHANGED landed
<1>1. CASE ~(c = d /\ l = k)
  BY <1>1, OtherLanes DEF Holds
<1>2. CASE c = d /\ l = k
  <2>1. lanes'[c][l] = r
    BY <1>2, OtherLanes
  <2>2. QED
    BY <1>2, <2>1 DEF Holds, LaneMove
<1>3. QED
  BY <1>1, <1>2

LEMMA ClaimedOnceStep ==
  ASSUME ConstantsAssumption, IInv, [Next]_vars
  PROVE  ClaimedOnce' /\ RoundInv'
<1> USE DEF IInv
<1>1. CASE UNCHANGED <<missing, cursor, lanes, landed>>
  BY <1>1 DEF ClaimedOnce, RoundInv, Holds
<1>2. CASE \E s, received : RoundMove(s, received)
  <2>1. PICK s, received : RoundMove(s, received)
    BY <1>2
  <2> DEFINE m == MissingIndices(received)
  <2>2. /\ m \in Seq(Chunks) /\ Len(m) \in 0..K
        /\ \A p, q \in 1..Len(m) : p # q => m[p] # m[q]
    BY MissingAreTheRest
  <2>3. /\ missing' = [missing EXCEPT ![call] = m]
        /\ cursor' = [cursor EXCEPT ![call] = 1] /\ landed' = [landed EXCEPT ![call] = {}]
        /\ call \in Calls
    BY <2>1 DEF RoundMove, StartLanes
  <2> HIDE DEF m
  <2>4. ASSUME NEW c \in Calls, c # call
        PROVE  missing'[c] = missing[c] /\ cursor'[c] = cursor[c] /\ landed'[c] = landed[c]
    BY <2>3, <2>4 DEF TypeOK
  <2>5. missing'[call] = m /\ cursor'[call] = 1 /\ landed'[call] = {}
    BY <2>3 DEF TypeOK
  <2>6. RoundInv'
    BY <2>2, <2>4, <2>5 DEF RoundInv, ConstantsAssumption
  <2>7. ASSUME NEW c \in Calls, NEW l \in Lanes, NEW i \in Chunks, Holds(c, l, i)'
        PROVE  c # call /\ Holds(c, l, i)
    BY <2>1, <2>7, RoundLanes DEF Holds
  <2>8. ClaimedOnce'
    BY <2>4, <2>7 DEF ClaimedOnce
  <2>9. QED
    BY <2>6, <2>8
<1>3. CASE \E d \in Calls, k \in Lanes, r \in LaneType : LaneMove(d, k, r)
  <2>1. PICK d \in Calls, k \in Lanes, r \in LaneType : LaneMove(d, k, r)
    BY <1>3
  <2>2. UNCHANGED missing
    BY <2>1 DEF LaneMove
  <2>3. ASSUME NEW c \in Calls
        PROVE  /\ cursor[c] \in Nat /\ Len(missing[c]) \in Nat /\ cursor[c] >= 1
               /\ cursor'[c] \in Nat /\ cursor[c] <= cursor'[c]
               /\ landed'[c] = landed[c]
                  \/ \E i \in Chunks : Holds(c, k, i) /\ c = d /\ landed'[c] = landed[c] \cup {i}
                                        /\ lanes'[d][k].st = "next"
    <3>1. cursor[c] \in 1..(K + 1) /\ missing[c] \in Seq(Chunks)
      BY LaneFacts
    <3>2. cursor'[c] = cursor[c] \/ cursor'[c] = cursor[c] + 1
      BY <2>1 DEF LaneMove, TypeOK
    <3>3. CASE UNCHANGED landed
      BY <3>1, <3>2, <3>3 DEF ConstantsAssumption
    <3>4. CASE /\ lanes[d][k].st = "put" /\ r.st = "next"
               /\ landed' = [landed EXCEPT ![d] = @ \cup {lanes[d][k].idx}]
      <4>1. lanes[d][k].idx \in Chunks /\ Holds(d, k, lanes[d][k].idx)
        BY <3>4 DEF LaneInv, Holds
      <4>2. lanes'[d][k] = r
        BY <2>1, OtherLanes
      <4>3. landed'[c] = IF c = d THEN landed[c] \cup {lanes[d][k].idx} ELSE landed[c]
        BY <3>4 DEF TypeOK
      <4>4. QED
        BY <3>1, <3>2, <3>4, <4>1, <4>2, <4>3 DEF ConstantsAssumption
    <3>5. QED
      BY <2>1, <3>3, <3>4 DEF LaneMove
  <2>4. RoundInv'
    <3>1. ASSUME NEW c \in Calls, NEW p \in cursor'[c]..Len(missing[c])
          PROVE  missing[c][p] \notin landed'[c]
      <4>1. p \in cursor[c]..Len(missing[c])
        BY <2>3, <3>1
      <4>2. missing[c][p] \notin landed[c]
        BY <4>1 DEF RoundInv
      <4>3. \A i \in Chunks : Holds(c, k, i) => missing[c][p] # i
        BY <4>1 DEF ClaimedOnce
      <4>4. QED
        BY <2>3, <4>2, <4>3
    <3>2. QED
      BY <2>2, <3>1 DEF RoundInv
  <2>5. ASSUME NEW c \in Calls, NEW l \in Lanes, NEW i \in Chunks, Holds(c, l, i)'
        PROVE  /\ \A h \in Lanes : Holds(c, h, i)' => h = l
               /\ \A p \in cursor'[c]..Len(missing[c]) : missing[c][p] # i
               /\ i \notin landed'[c]
    <3>1. CASE Holds(c, l, i)
      <4>1. /\ \A h \in Lanes : Holds(c, h, i) => h = l
            /\ \A p \in cursor[c]..Len(missing[c]) : missing[c][p] # i
            /\ i \notin landed[c]
        BY <3>1 DEF ClaimedOnce
      <4>2. ASSUME NEW h \in Lanes, Holds(c, h, i)'
            PROVE  h = l
        <5>1. CASE Holds(c, h, i)
          BY <4>1, <5>1
        <5>2. CASE cursor[c] <= Len(missing[c]) /\ missing[c][cursor[c]] = i
          BY <2>3, <4>1, <5>2
        <5>3. QED
          BY <2>1, <4>2, <5>1, <5>2, HeldAfter
      <4>3. \A p \in cursor'[c]..Len(missing[c]) : missing[c][p] # i
        BY <2>3, <4>1
      <4>4. i \notin landed'[c]
        <5>1. SUFFICES ASSUME Holds(c, k, i), c = d, lanes'[d][k].st = "next"
                       PROVE  FALSE
          BY <2>3, <4>1 DEF Holds
        <5>2. k = l
          BY <4>1, <5>1
        <5>3. QED
          BY <2>5, <5>1, <5>2 DEF Holds
      <4>5. QED
        BY <4>2, <4>3, <4>4
    <3>2. CASE /\ c = d /\ l = k /\ cursor[d] <= Len(missing[d]) /\ missing[d][cursor[d]] = i
               /\ cursor' = [cursor EXCEPT ![d] = @ + 1] /\ UNCHANGED landed
      <4>1. cursor[c] \in 1..Len(missing[c]) /\ cursor'[c] = cursor[c] + 1
        BY <2>3, <3>2 DEF TypeOK
      <4>2. ASSUME NEW h \in Lanes
            PROVE  ~Holds(c, h, i)
        BY <2>3, <3>2, <4>1 DEF ClaimedOnce
      <4>3. \A h \in Lanes : Holds(c, h, i)' => h = l
        BY <2>1, <3>2, <4>2, HeldAfter
      <4>4. \A p \in cursor'[c]..Len(missing[c]) : missing[c][p] # i
        <5>1. ASSUME NEW p \in cursor'[c]..Len(missing[c])
              PROVE  p \in 1..Len(missing[c]) /\ p # cursor[c]
          BY <2>3, <4>1
        <5>2. QED
          BY <3>2, <4>1, <5>1 DEF RoundInv
      <4>5. i \notin landed'[c]
        BY <2>3, <3>2, <4>1 DEF RoundInv
      <4>6. QED
        BY <4>3, <4>4, <4>5
    <3>3. QED
      BY <2>1, <2>5, <3>1, <3>2, HeldAfter
  <2>6. ClaimedOnce'
    BY <2>2, <2>5 DEF ClaimedOnce
  <2>7. QED
    BY <2>4, <2>6
<1>4. CASE StopMove
  <2>1. ASSUME NEW c \in Calls, NEW l \in Lanes, NEW i \in Chunks, Holds(c, l, i)'
        PROVE  Holds(c, l, i)
    BY <1>4, <2>1 DEF StopMove, Holds
  <2>2. UNCHANGED <<missing, cursor, landed>>
    BY <1>4 DEF StopMove
  <2>3. QED
    BY <2>1, <2>2 DEF ClaimedOnce, RoundInv
<1>5. QED
  BY <1>1, <1>2, <1>3, <1>4, NextMoves DEF workVars

-----------------------------------------------------------------------------
(* Rounds                                                                  *)

\* The rounds of a call are counted where it is told that chunks are missing,
\* and a round is entered only by starting it.
LEMMA NextRounds ==
  ASSUME ConstantsAssumption, TypeOK, CallInv, LaneInv, StoredInv, [Next]_vars
  PROVE  /\ \/ BeginsCall
            \/ UNCHANGED <<call, tries>> /\ (pc' = "restatus" => pc = "restatus")
            \/ /\ pc = "completing" /\ pc' = "restatus" /\ tries' = tries + 1
               /\ UNCHANGED <<call, workVars>>
         /\ pc' = "chunks" =>
              \/ pc = "chunks" /\ UNCHANGED call
              \/ \E s, received : RoundMove(s, received)
<1> USE DEF loopVars
<1>1. CASE UploadFresh \/ UploadResume
  BY <1>1 DEF UploadFresh, UploadResume, Enter, BeginsCall
<1>2. CASE CreateAnswered \/ StatusAnswered \/ RestatusAnswered
  <2>1. UNCHANGED <<call, tries>>
    BY <1>2 DEF CreateAnswered, StatusAnswered, RestatusAnswered
  <2>2. pc' \in {"done", "failed", "abandoning", "completing", "cancelled", "chunks"}
    BY <1>2 DEF CreateAnswered, StatusAnswered, RestatusAnswered, StartLanes, Fail, TryComplete,
                CancelCall
  <2>3. pc' = "chunks" => \E s, received : RoundMove(s, received)
    BY <1>2, StartMove
  <2>4. QED
    BY <2>1, <2>2, <2>3
<1>3. CASE Hashed \/ RequestFails \/ ChunksDone
  BY <1>3 DEF Hashed, RequestFails, ChunksDone, TryComplete, CancelCall, Fail
<1>4. CASE CompleteAccepted \/ CompleteIncomplete \/ CompleteRefused
  BY <1>4 DEF CompleteAccepted, CompleteIncomplete, CompleteRefused, Fail
<1>5. CASE PollAnswered \/ PollAgain \/ Abandonment
  BY <1>5 DEF PollAnswered, PollAgain, Abandonment, AbandonAnswered, AbandonFails,
              AbandonInterrupted, Fail
<1>6. CASE \E c \in Calls, l \in Lanes : LaneStep(c, l)
  <2>1. PICK c \in Calls, l \in Lanes, r \in LaneType : LaneMove(c, l, r)
    BY <1>6, LaneStepMove
  <2>2. QED
    BY <2>1 DEF LaneMove
<1>7. CASE TaskCancelled \/ Crash
  <2>1. StopMove
    BY <1>7, StopStep
  <2>2. QED
    BY <2>1 DEF StopMove
<1>8. CASE \E c \in 1..call : AskCancel(c)
  BY <1>8 DEF AskCancel
<1>9. CASE \E s \in DOMAIN sessions : CommitAttempt(s) \/ GatewayFault(s)
  BY <1>9 DEF CommitAttempt, GatewayFault
<1>10. CASE UNCHANGED vars
  BY <1>10 DEF vars
<1>11. QED
  BY <1>1, <1>2, <1>3, <1>4, <1>5, <1>6, <1>7, <1>8, <1>9, <1>10 DEF Next, Main, Abandonment

LEMMA CountInvStep ==
  ASSUME ConstantsAssumption, IInv, [Next]_vars
  PROVE  CountInv'
<1> USE DEF IInv
<1> SUFFICES ASSUME call' > 0, NEW i \in Chunks
             PROVE  sent'[call'][i] <= IF pc' # "restatus" /\ i \in landed'[call'] THEN 1 + tries'
                                                                                  ELSE tries'
  BY DEF CountInv
<1>1. TypeOK' /\ tries \in Nat /\ tries' \in Nat
  BY NextTypeOK DEF TypeOK, ConstantsAssumption
<1>2. CASE BeginsCall
  <2>1. call' \in Calls /\ call' > call /\ tries' = 0 /\ UNCHANGED sent
    BY <1>1, <1>2 DEF BeginsCall, TypeOK, ConstantsAssumption, Calls, workVars
  <2>2. sent'[call'][i] = 0
    BY <2>1 DEF CallInv
  <2>3. QED
    BY <2>1, <2>2
<1>3. CASE /\ pc = "completing" /\ pc' = "restatus" /\ tries' = tries + 1
           /\ UNCHANGED <<call, workVars>>
  <2>1. call \in Calls /\ sent[call][i] \in Nat
    BY <1>3, ActiveFacts DEF TypeOK
  <2>2. sent[call][i] <= 1 + tries
    BY <1>1, <1>3, <2>1 DEF CountInv, Calls
  <2>3. QED
    BY <1>1, <1>3, <2>1, <2>2 DEF workVars
<1>4. CASE UNCHANGED <<call, tries>> /\ (pc' = "restatus" => pc = "restatus")
  <2>1. call \in Calls /\ sent[call][i] \in Nat
    BY <1>1, <1>4 DEF TypeOK, Calls, ConstantsAssumption
  <2>2. sent[call][i] <= IF pc # "restatus" /\ i \in landed[call] THEN 1 + tries ELSE tries
    BY <1>4 DEF CountInv
  <2>3. CASE UNCHANGED <<landed, sent>>
    BY <1>1, <1>4, <2>1, <2>2, <2>3
  <2>4. CASE \E s, received : RoundMove(s, received)
    <3>1. pc \in {"creating", "statusing", "restatus"} /\ UNCHANGED sent
      BY <2>4 DEF RoundMove
    <3>2. sent[call][i] <= tries
      BY <1>1, <2>1, <2>2, <3>1 DEF CallInv, Before
    <3>3. QED
      BY <1>1, <1>4, <2>1, <3>1, <3>2
  <2>5. CASE \E d \in Calls, k \in Lanes, r \in LaneType :
               /\ LaneMove(d, k, r) /\ lanes[d][k].st = "put"
               /\ landed' = [landed EXCEPT ![d] = @ \cup {lanes[d][k].idx}]
               /\ sent' = [sent EXCEPT ![d][lanes[d][k].idx] = @ + 1]
    <3>1. PICK d \in Calls, k \in Lanes, r \in LaneType :
               /\ LaneMove(d, k, r) /\ lanes[d][k].st = "put"
               /\ landed' = [landed EXCEPT ![d] = @ \cup {lanes[d][k].idx}]
               /\ sent' = [sent EXCEPT ![d][lanes[d][k].idx] = @ + 1]
      BY <2>5
    <3>2. CASE d = call /\ lanes[d][k].idx = i
      <4>1. pc # "restatus" /\ i \notin landed[call]
        BY <3>1, <3>2 DEF LaneInv, Alone, Running, ClaimedOnce, Holds
      <4>2. sent'[call][i] = sent[call][i] + 1 /\ i \in landed'[call]
        BY <2>1, <3>1, <3>2 DEF TypeOK
      <4>3. pc' # "restatus"
        BY <1>4, <4>1
      <4>4. QED
        BY <1>1, <1>4, <2>1, <2>2, <4>1, <4>2, <4>3
    <3>3. CASE ~(d = call /\ lanes[d][k].idx = i)
      <4>1. sent'[call][i] = sent[call][i] /\ (i \in landed'[call] <=> i \in landed[call])
        BY <2>1, <3>1, <3>3 DEF TypeOK
      <4>2. QED
        BY <1>1, <1>4, <2>1, <2>2, <4>1
    <3>4. QED
      BY <3>2, <3>3
  <2>6. QED
    BY <2>3, <2>4, <2>5, NextMoves DEF workVars, LaneMove, StopMove
<1>5. QED
  BY <1>2, <1>3, <1>4, NextRounds

-----------------------------------------------------------------------------
(* The inductive invariant                                                 *)

LEMMA InitIInv ==
  ASSUME ConstantsAssumption, Init
  PROVE  IInv
<1>1. TypeOK
  BY InitTypeOK
<1>2. CallInv
  BY DEF Init, CallInv, After, Before, Idle
<1>3. \A c \in Calls, l \in Lanes : lanes[c][l].st = "off"
  BY DEF Init, Idle
<1>4. LaneInv /\ ClaimedOnce
  BY <1>3 DEF LaneInv, ClaimedOnce, Holds
<1>5. RoundInv
  <2>1. \A c \in Calls : missing[c] = <<>> /\ Len(missing[c]) = 0 /\ cursor[c] = 1
    BY DEF Init
  <2>2. QED
    BY <2>1 DEF RoundInv, ConstantsAssumption
<1>6. CountInv /\ ProgressBounded
  BY DEF Init, CountInv, ProgressBounded
<1>7. StoredInv
  <2>1. DOMAIN sessions = {}
    BY <1>1, SessionFacts DEF Init
  <2>2. QED
    BY <2>1 DEF StoredInv
<1>8. QED
  BY <1>1, <1>2, <1>4, <1>5, <1>6, <1>7 DEF IInv

LEMMA NextIInv ==
  ASSUME ConstantsAssumption, IInv, [Next]_vars
  PROVE  IInv'
<1>1. TypeOK' /\ CountInv'
  BY NextTypeOK, CountInvStep
<1>2. StoredInv'
  BY NextStore DEF IInv, StoreStep
<1>3. ProgressBounded'
  <2>1. ASSUME call' > 0, NEW i \in Chunks
        PROVE  sent'[call'][i] <= 1 + tries'
    <3>1. call' \in Calls /\ sent'[call'][i] \in Nat /\ tries' \in Nat
      BY <1>1, <2>1 DEF TypeOK, ConstantsAssumption, Calls
    <3>2. QED
      BY <1>1, <2>1, <3>1 DEF CountInv
  <2>2. QED
    BY <2>1 DEF ProgressBounded
<1>4. QED
  BY <1>1, <1>2, <1>3, CallInvStep, LaneInvStep, ClaimedOnceStep DEF IInv

\* The inductive invariant of a call and its lanes: types, what a call knows
\* at each place, one sender of a chunk at a time, a count that goes on by
\* rounds, and completions of whole files only.
THEOREM InductiveInvariant == Spec => []IInv
<1>1. Init => IInv
  BY ConstantsAssumption, InitIInv
<1>2. IInv /\ [Next]_vars => IInv'
  BY ConstantsAssumption, NextIInv
<1>3. QED
  BY <1>1, <1>2, PTL DEF Spec

\* Every variable keeps its type, and the retry, complete and poll loops stay
\* within their bounds.
THEOREM TypeCorrect == Spec => []TypeOK
<1>1. IInv => TypeOK
  BY DEF IInv
<1>2. QED
  BY <1>1, InductiveInvariant, PTL

\* A chunk has one sender at a time, whatever the lanes of returned calls do
\* (_upload_chunks.worker).
THEOREM OneSender == Spec => []ClaimedOnce
<1>1. IInv => ClaimedOnce
  BY DEF IInv
<1>2. QED
  BY <1>1, InductiveInvariant, PTL

\* on_progress never counts a chunk more than once for each round.
THEOREM ProgressIsBounded == Spec => []ProgressBounded
<1>1. IInv => ProgressBounded
  BY DEF IInv
<1>2. QED
  BY <1>1, InductiveInvariant, PTL

-----------------------------------------------------------------------------
(* No index is forgotten                                                   *)

LEMMA NothingForgottenStep ==
  ASSUME ConstantsAssumption, IInv, NothingForgotten, [Next]_vars
  PROVE  NothingForgotten'
<1> USE DEF IInv
<1> SUFFICES ASSUME pc' = "chunks"
             PROVE  \A p \in 1..Len(missing'[call']) :
                      \/ p >= cursor'[call']
                      \/ missing'[call'][p] \in landed'[call']
                      \/ \E l \in Lanes : /\ lanes'[call'][l].st \in {"put", "backoff"}
                                          /\ lanes'[call'][l].idx = missing'[call'][p]
  BY DEF NothingForgotten, Holds
<1>1. CASE \E s, received : RoundMove(s, received)
  <2>1. UNCHANGED call /\ cursor'[call] = 1
    BY <1>1 DEF RoundMove, StartLanes, TypeOK
  <2>2. \A p \in 1..Len(missing'[call']) : p >= 1
    OBVIOUS
  <2>3. QED
    BY <2>1, <2>2
<1>2. CASE pc = "chunks" /\ UNCHANGED call
  <2>1. call \in Calls
    BY <1>2, ActiveFacts
  <2>2. ASSUME NEW p \in 1..Len(missing[call])
        PROVE  \/ p >= cursor[call]
               \/ missing[call][p] \in landed[call]
               \/ \E l \in Lanes : Holds(call, l, missing[call][p])
    BY <1>2 DEF NothingForgotten
  <2>3. CASE UNCHANGED <<missing, cursor, lanes, landed>>
    BY <1>2, <2>2, <2>3 DEF Holds
  <2>4. CASE \E d \in Calls, k \in Lanes, r \in LaneType : LaneMove(d, k, r)
    <3>1. PICK d \in Calls, k \in Lanes, r \in LaneType : LaneMove(d, k, r)
      BY <2>4
    <3>2. UNCHANGED missing
      BY <3>1 DEF LaneMove
    <3>3. lanes'[d][k] = r
      BY <3>1, OtherLanes
    <3>4. ASSUME NEW p \in 1..Len(missing[call])
          PROVE  \/ p >= cursor'[call]
                 \/ missing[call][p] \in landed'[call]
                 \/ \E l \in Lanes : Holds(call, l, missing[call][p])'
      <4>1. missing[call][p] \in landed[call] => missing[call][p] \in landed'[call]
        <5>1. landed' = landed \/ \E i : landed' = [landed EXCEPT ![d] = @ \cup {i}]
          BY <3>1 DEF LaneMove
        <5>2. QED
          BY <2>1, <5>1 DEF TypeOK
      <4>2. CASE p >= cursor[call]
        <5>1. CASE cursor'[call] = cursor[call]
          BY <4>2, <5>1
        <5>2. CASE /\ d = call /\ r.st = "put" /\ r.idx = missing[call][cursor[call]]
                   /\ cursor'[call] = cursor[call] + 1
          <6>1. p = cursor[call] => Holds(call, k, missing[call][p])'
            BY <1>2, <3>2, <3>3, <5>2 DEF Holds
          <6>2. p # cursor[call] => p >= cursor'[call]
            BY <2>1, <4>2, <5>2 DEF TypeOK, ConstantsAssumption
          <6>3. QED
            BY <6>1, <6>2
        <5>3. QED
          BY <2>1, <3>1, <5>1, <5>2 DEF LaneMove, TypeOK
      <4>3. ASSUME NEW l \in Lanes, Holds(call, l, missing[call][p])
            PROVE  \/ Holds(call, l, missing[call][p])'
                   \/ missing[call][p] \in landed'[call]
        <5>1. CASE ~(d = call /\ k = l)
          <6>1. lanes'[call][l] = lanes[call][l]
            BY <2>1, <3>1, <5>1, OtherLanes
          <6>2. QED
            BY <1>2, <3>2, <4>3, <6>1 DEF Holds
        <5>2. CASE d = call /\ k = l
          <6>1. /\ lanes[call][l].st \in {"put", "backoff"}
                /\ lanes[call][l].idx = missing[call][p]
            BY <4>3 DEF Holds
          <6>2. CASE r.st \in {"put", "backoff"} /\ r.idx = lanes[call][l].idx
            BY <1>2, <3>2, <3>3, <5>2, <6>1, <6>2 DEF Holds
          <6>3. CASE landed' = [landed EXCEPT ![call] = @ \cup {lanes[call][l].idx}]
            BY <2>1, <6>1, <6>3 DEF TypeOK
          <6>4. QED
            BY <3>1, <5>2, <6>1, <6>2, <6>3 DEF LaneMove
        <5>3. QED
          BY <5>1, <5>2
      <4>4. QED
        BY <2>2, <4>1, <4>2, <4>3
    <3>5. QED
      BY <1>2, <3>2, <3>4 DEF Holds
  <2>5. CASE StopMove
    BY <2>5 DEF StopMove
  <2>6. CASE \E s, received : RoundMove(s, received)
    BY <1>1, <2>6
  <2>7. QED
    BY <2>3, <2>4, <2>5, <2>6, NextMoves DEF workVars
<1>3. QED
  BY <1>1, <1>2, NextRounds

\* While a call awaits its lanes every index of the round is left to claim, in
\* a lane, or sent; so what complete is sent after has all been accepted.
THEOREM NoneForgotten == Spec => []NothingForgotten
<1>1. Init => NothingForgotten
  BY DEF Init, NothingForgotten
<1>2. IInv /\ NothingForgotten /\ [Next]_vars => NothingForgotten'
  BY ConstantsAssumption, NothingForgottenStep
<1>3. QED
  BY <1>1, <1>2, InductiveInvariant, PTL DEF Spec

-----------------------------------------------------------------------------
(* How a call ends                                                         *)

\* Who ends a call with a uri has seen a completed session.
LEMMA DoneStep ==
  ASSUME ConstantsAssumption, IInv, DoneMeansStored, [Next]_vars
  PROVE  DoneMeansStored'
<1> USE DEF IInv
<1> SUFFICES ASSUME pc' = "done"
             PROVE  \E s \in DOMAIN sessions' : sessions'[s].state = "completed" /\ Whole(s)'
  BY DEF DoneMeansStored
<1>1. /\ StoreStep /\ "completed" \in Over
      /\ \A s \in 1..Len(sessions) : s \in DOMAIN sessions'
  BY NextStore, SessionFacts DEF StoreStep, Over, State
<1>2. ASSUME NEW s \in 1..Len(sessions), sessions'[s].state = "completed"
      PROVE  \E u \in DOMAIN sessions' : sessions'[u].state = "completed" /\ Whole(u)'
  BY <1>1, <1>2 DEF StoreStep, StoredInv
<1>3. ASSUME NEW s \in 1..Len(sessions), sessions[s].state = "completed"
      PROVE  \E u \in DOMAIN sessions' : sessions'[u].state = "completed" /\ Whole(u)'
  BY <1>1, <1>2, <1>3 DEF StoreStep
<1>4. CASE pc = "done"
  BY <1>3, <1>4, SessionFacts DEF DoneMeansStored
<1>5. CASE CreateAnswered
  BY <1>3, <1>5, SessionFacts DEF CreateAnswered, StartLanes
<1>6. CASE StatusAnswered
  <2>1. saved \in 1..Len(sessions) /\ sessions[saved].state = "completed"
    BY <1>6, SessionFacts DEF StatusAnswered, StartLanes, Fail, CallInv, TypeOK
  <2>2. QED
    BY <1>3, <2>1
<1>7. CASE CompleteAccepted
  BY <1>2, <1>7, CompleteAcceptedStep
<1>8. CASE PollAnswered
  <2>1. Active \in 1..Len(sessions) /\ sessions[Active].state = "completed"
    BY <1>8, ActiveFacts, SessionFacts DEF PollAnswered, Fail, CallInv, After
  <2>2. QED
    BY <1>3, <2>1
<1>9. CASE \E c \in Calls, l \in Lanes : LaneStep(c, l)
  <2>1. pc = "done"
    BY <1>9, LaneStepMove DEF LaneMove
  <2>2. QED
    BY <1>4, <2>1
<1>10. CASE TaskCancelled \/ Crash
  BY <1>10, StopStep DEF StopMove
<1>11. CASE UploadFresh \/ UploadResume \/ Hashed \/ ChunksDone \/ RequestFails
  BY <1>11 DEF UploadFresh, UploadResume, Enter, Hashed, ChunksDone, TryComplete, CancelCall,
               RequestFails, Fail
<1>12. CASE CompleteIncomplete \/ CompleteRefused \/ RestatusAnswered
  BY <1>12 DEF CompleteIncomplete, CompleteRefused, RestatusAnswered, StartLanes, TryComplete,
               CancelCall, Fail
<1>13. CASE PollAgain \/ Abandonment
  BY <1>13 DEF PollAgain, Abandonment, AbandonAnswered, AbandonFails, AbandonInterrupted, Fail
<1>14. CASE \/ \E c \in 1..call : AskCancel(c)
            \/ \E s \in DOMAIN sessions : CommitAttempt(s) \/ GatewayFault(s)
            \/ UNCHANGED vars
  BY <1>4, <1>14 DEF AskCancel, CommitAttempt, GatewayFault, vars
<1>15. QED
  BY <1>5, <1>6, <1>7, <1>8, <1>9, <1>10, <1>11, <1>12, <1>13, <1>14 DEF Next, Main, Abandonment

\* upload_resumable returns a uri only for a file the gateway holds whole.
THEOREM ReturnMeansStored == Spec => []DoneMeansStored
<1>1. Init => DoneMeansStored
  BY DEF Init, DoneMeansStored
<1>2. IInv /\ DoneMeansStored /\ [Next]_vars => DoneMeansStored'
  BY ConstantsAssumption, DoneStep
<1>3. QED
  BY <1>1, <1>2, InductiveInvariant, PTL DEF Spec

\* How a call comes to be cancelled.
LEMMA NextCancelled ==
  ASSUME ConstantsAssumption, IInv, [Next]_vars, pc' = "cancelled"
  PROVE  \/ BeginsCall
         \/ pc = "cancelled" /\ UNCHANGED <<call, errId, target>>
         \/ Active = 0 /\ UNCHANGED <<call, target>>
         \/ AbandonAnswered \/ AbandonFails
<1> USE DEF IInv, loopVars, workVars
<1>1. CASE UploadFresh \/ UploadResume
  BY <1>1 DEF UploadFresh, UploadResume, Enter, BeginsCall
<1>2. CASE CreateAnswered \/ StatusAnswered
  BY <1>2 DEF CreateAnswered, StatusAnswered, StartLanes, Fail
<1>3. CASE Hashed \/ ChunksDone \/ RestatusAnswered
  BY <1>3 DEF Hashed, ChunksDone, RestatusAnswered, StartLanes, TryComplete, CancelCall
<1>4. CASE RequestFails \/ CompleteAccepted \/ CompleteIncomplete \/ CompleteRefused
  BY <1>4 DEF RequestFails, CompleteAccepted, CompleteIncomplete, CompleteRefused, Fail
<1>5. CASE PollAnswered \/ PollAgain
  BY <1>5 DEF PollAnswered, PollAgain, Fail
<1>6. CASE \E c \in Calls, l \in Lanes : LaneStep(c, l)
  BY <1>6, LaneStepMove DEF LaneMove
<1>7. CASE TaskCancelled \/ Crash
  BY <1>7 DEF TaskCancelled, Crash, CancelCall
<1>8. CASE AbandonInterrupted
  BY <1>8 DEF AbandonInterrupted
<1>9. CASE \/ \E c \in 1..call : AskCancel(c)
           \/ \E s \in DOMAIN sessions : CommitAttempt(s) \/ GatewayFault(s)
           \/ UNCHANGED vars
  BY <1>9 DEF AskCancel, CommitAttempt, GatewayFault, vars
<1>10. QED
  BY <1>1, <1>2, <1>3, <1>4, <1>5, <1>6, <1>7, <1>9, <1>8 DEF Next, Main

LEMMA CancelStep ==
  ASSUME ConstantsAssumption, IInv, CancelReclaims, [Next]_vars
  PROVE  CancelReclaims'
<1> USE DEF IInv
<1>1. CallInv' /\ TypeOK'
  BY NextIInv
<1>2. ASSUME pc' = "interrupted"
      PROVE  Active' # 0 /\ saved' = Active'
  <2>1. Active' # 0 /\ call' \in Calls
    BY <1>1, <1>2 DEF CallInv, TypeOK, Calls
  <2>2. QED
    BY <1>1, <2>1 DEF CallInv, Active
<1> SUFFICES ASSUME pc' = "cancelled", Active' # 0
             PROVE  errId' = Active' \/ sessions'[Active'].state \notin {"pending", "assembling"}
  BY <1>2 DEF CancelReclaims
<1>3. StoreStep
  BY NextStore
<1>4. CASE BeginsCall
  <2>1. call' = call + 1 /\ UNCHANGED target
    BY <1>4 DEF BeginsCall, workVars
  <2>2. call \in Nat /\ call' \in 0..MaxCalls
    BY NextTypeOK DEF TypeOK, ConstantsAssumption
  <2>3. call' \in Calls /\ call' > call
    BY <2>1, <2>2 DEF Calls, ConstantsAssumption
  <2>4. QED
    BY <2>1, <2>3 DEF CallInv, Active
<1>5. CASE pc = "cancelled" /\ UNCHANGED <<call, errId, target>>
  <2>1. Active' = Active /\ Active \in 1..Len(sessions)
    BY <1>5, ActiveFacts, SessionFacts DEF Active
  <2>2. errId = Active \/ sessions[Active].state \in Over
    BY <1>5, <2>1, SessionFacts DEF CancelReclaims, Over
  <2>3. QED
    BY <1>3, <1>5, <2>1, <2>2 DEF StoreStep, Over
<1>6. CASE Active = 0 /\ UNCHANGED <<call, target>>
  BY <1>6 DEF Active
<1>7. CASE AbandonAnswered
  <2>1. UNCHANGED <<call, target>> /\ sessions'[Active].state \in Over
    BY <1>7, DiscardedStep DEF AbandonAnswered, workVars
  <2>2. QED
    BY <2>1 DEF Active, Over
<1>8. CASE AbandonFails
  <2>1. UNCHANGED <<call, target>> /\ errId' = Active
    BY <1>8 DEF AbandonFails, workVars
  <2>2. QED
    BY <2>1 DEF Active
<1>9. QED
  BY <1>4, <1>5, <1>6, <1>7, <1>8, NextCancelled

\* A call that is cancelled with a session leaves it abandoned or over, or its
\* error names it (_run_session, _abandon_quietly); one whose task is cancelled
\* while it abandons leaves none that the caller does not know.
THEOREM CancelledReclaims == Spec => []CancelReclaims
<1>1. Init => CancelReclaims
  BY DEF Init, CancelReclaims
<1>2. IInv /\ CancelReclaims /\ [Next]_vars => CancelReclaims'
  BY ConstantsAssumption, CancelStep
<1>3. QED
  BY <1>1, <1>2, InductiveInvariant, PTL DEF Spec
=============================================================================
