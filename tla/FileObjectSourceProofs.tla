----------------------- MODULE FileObjectSourceProofs -----------------------
(***************************************************************************)
(* Proofs about FileObjectSource, for every chunk grid, every set of lanes *)
(* and every number of sources, when no lane of a failed call runs on.     *)
(***************************************************************************)
EXTENDS FileObjectSource, TLAPS

-----------------------------------------------------------------------------
(* The chunk grid                                                          *)

LEMMA ChunkFits ==
  ASSUME ConstantsAssumption, NEW i \in 1..K
  PROVE  /\ Total \in Nat /\ Width \in Nat \ {0} /\ Start(i) \in Nat
         /\ Start(i) + Width <= Total
<1>1. K \in Nat /\ Width \in Nat \ {0}
  BY DEF ConstantsAssumption
<1>2. \A a, b, w \in Nat : a * w \in Nat /\ (a <= b => a * w <= b * w)
  OBVIOUS
<1>3. i - 1 \in Nat /\ (i - 1) * Width + Width = i * Width
  BY <1>1
<1>4. QED
  BY <1>1, <1>2, <1>3 DEF Start, Total

-----------------------------------------------------------------------------
(* Slices                                                                  *)

LEMMA NoSliceType ==
  ASSUME ConstantsAssumption
  PROVE  NoSlice \in Slice /\ NoSlice.st = "idle"
<1>1. 1 \in 1..K /\ <<>> \in Seq(0..Total)
  BY DEF ConstantsAssumption
<1>2. QED
  BY <1>1 DEF NoSlice, Slice

LEMMA SetSliceFacts ==
  ASSUME SourceTypeOK, NEW s \in Sources, NEW l \in Lanes, NEW r \in Slice, SetSlice(s, l, r)
  PROVE  /\ slices' \in [Sources -> [Lanes -> Slice]]
         /\ \A t \in Sources, k \in Lanes :
              slices'[t][k] = IF t = s /\ k = l THEN r ELSE slices[t][k]
  BY DEF SourceTypeOK, SetSlice

-----------------------------------------------------------------------------
(* Building a source                                                       *)

LEMMA BuildStep ==
  ASSUME ConstantsAssumption, ~Orphans, SlicesReadTheirRanges,
         StartSource \/ SeekEnd \/ Measure \/ SeekBack
  PROVE  SlicesReadTheirRanges'
<1> USE DEF SlicesReadTheirRanges
<1>1. UNCHANGED <<slices, lock, retired>> /\ (building.st # "none" \/ StartSource)
  BY DEF StartSource, SeekEnd, Measure, SeekBack
<1>2. ASSUME NEW s \in Sources, NEW l \in Lanes
      PROVE  slices[s][l].st \in {"idle", "got"}
  <2>1. slices[s][l].st \in {"idle", "locking", "seek", "read", "got"}
    BY DEF SourceTypeOK, Slice
  <2>2. QED
    BY <1>1, <2>1 DEF LocksHeld, StartSource
<1>3. Total \in Nat /\ built \in Nat /\ MaxSources \in Nat
  <2>1. 1 \in 1..K
    BY DEF ConstantsAssumption
  <2>2. Total \in Nat
    BY <2>1, ChunkFits
  <2>3. QED
    BY <2>2 DEF ConstantsAssumption, SourceTypeOK
<1>4. SourceTypeOK' /\ BuildingKept' /\ SizeMeasured'
  <2>1. CASE StartSource
    BY <1>3, <2>1 DEF StartSource, SourceTypeOK, BuildingKept, SizeMeasured
  <2>2. CASE SeekEnd
    BY <1>3, <2>2 DEF SeekEnd, SourceTypeOK, BuildingKept, SizeMeasured
  <2>3. CASE Measure
    <3>1. built + 1 \in Sources /\ \A s \in 1..built : s # built + 1 /\ s \in Sources
      BY <1>3, <2>3 DEF Measure, BuildingKept, SourceTypeOK, Sources
    <3>2. QED
      BY <1>3, <2>3, <3>1 DEF Measure, SourceTypeOK, BuildingKept, SizeMeasured
  <2>4. CASE SeekBack
    <3>1. /\ building' = NotBuilding /\ built' = built + 1 /\ built' <= MaxSources
          /\ pos' \in 0..Total /\ NotBuilding.st = "none"
          /\ UNCHANGED <<size, retired, lock, slices>>
      BY <1>3, <2>4 DEF SeekBack, SourceTypeOK, BuildingKept, NotBuilding
    <3>2. NotBuilding \in [st : {"none", "end", "measure", "back"}, current : 0..Total]
      BY <1>3 DEF NotBuilding
    <3>3. SizeMeasured'
      BY <1>3, <2>4, <3>1 DEF SeekBack, BuildingKept, SizeMeasured
    <3>4. QED
      BY <1>3, <3>1, <3>2, <3>3 DEF SourceTypeOK, BuildingKept
  <2>5. QED
    BY <2>1, <2>2, <2>3, <2>4
<1>5. SliceReadsItsRange' /\ OneReader'
  BY <1>1 DEF SliceReadsItsRange, OneReader
<1>6. LocksHeld' /\ PositionKept'
  BY <1>1, <1>2 DEF LocksHeld, PositionKept
<1>7. QED
  BY <1>4, <1>5, <1>6

-----------------------------------------------------------------------------
(* Slicing                                                                 *)

\* A step of one slice, from a state in which it may be at work, that leaves
\* the sources as they are.
LEMMA SliceStep ==
  ASSUME ConstantsAssumption, SlicesReadTheirRanges,
         NEW s \in Sources, NEW l \in Lanes, NEW r \in Slice, SetSlice(s, l, r),
         UNCHANGED <<built, building, size, retired>>, building.st = "none", s = built,
         pos' \in 0..Total, lock' \in [Sources -> BOOLEAN],
         \A t \in Sources : lock'[t] # lock[t] => t = s,
         r.st = "got" => r.out = [n \in 1..Width |-> Start(r.chunk) + n - 1],
         r.st = "locking" => r.awaited /\ s \notin retired,
         r.st \in {"seek", "read"} => IF r.awaited THEN lock'[s] ELSE s \in retired,
         r.st \in {"locking", "seek"} => r.out = <<>>,
         r.st = "read" => /\ Len(r.out) < Width /\ pos' = Start(r.chunk) + Len(r.out)
                          /\ \A n \in 1..Len(r.out) : r.out[n] = Start(r.chunk) + n - 1,
         r.st \in {"seek", "read"} =>
           \A k \in Lanes \ {l} : slices[s][k].st \notin {"seek", "read"},
         lock'[s] # lock[s] \/ pos' # pos =>
           \A k \in Lanes \ {l} : slices[s][k].st \notin {"seek", "read"}
  PROVE  SlicesReadTheirRanges'
<1> USE DEF SlicesReadTheirRanges
<1>1. /\ slices' \in [Sources -> [Lanes -> Slice]]
      /\ \A t \in Sources, k \in Lanes :
           slices'[t][k] = IF t = s /\ k = l THEN r ELSE slices[t][k]
  BY SetSliceFacts
<1>2. SourceTypeOK'
  BY <1>1 DEF SourceTypeOK
<1>3. SizeMeasured' /\ BuildingKept'
  BY DEF SizeMeasured, BuildingKept
<1>4. ASSUME NEW t \in Sources, NEW k \in Lanes
      PROVE  \/ t = s /\ k = l /\ slices'[t][k] = r
             \/ ~(t = s /\ k = l) /\ slices'[t][k] = slices[t][k]
  BY <1>1
<1>9. SliceReadsItsRange'
  <2>1. ASSUME NEW t \in Sources, NEW k \in Lanes, slices'[t][k].st = "got"
        PROVE  slices'[t][k].out = [n \in 1..Width |-> Start(slices'[t][k].chunk) + n - 1]
    <3>1. CASE slices'[t][k] = r
      BY <2>1, <3>1
    <3>2. CASE slices'[t][k] = slices[t][k]
      BY <2>1, <3>2 DEF SliceReadsItsRange
    <3>3. QED
      BY <1>4, <3>1, <3>2
  <2>2. QED
    BY <2>1 DEF SliceReadsItsRange
<1>5. LocksHeld'
  <2>1. ASSUME NEW t \in Sources, NEW k \in Lanes
        PROVE  LET w == slices'[t][k] IN
               /\ w.st \in {"locking", "seek", "read"} => t = built /\ building.st = "none"
               /\ w.st = "locking" => w.awaited /\ t \notin retired
               /\ w.st \in {"seek", "read"} => IF w.awaited THEN lock'[t] ELSE t \in retired
    <3>1. CASE t = s /\ k = l /\ slices'[t][k] = r
      BY <3>1
    <3>2. CASE ~(t = s /\ k = l) /\ slices'[t][k] = slices[t][k]
      BY <3>2 DEF LocksHeld
    <3>3. QED
      BY <1>4, <3>1, <3>2
  <2>2. QED
    BY <2>1 DEF LocksHeld
<1>6. OneReader'
  BY <1>1 DEF OneReader, LocksHeld
<1>7. PositionKept'
  <2>1. ASSUME NEW t \in Sources, NEW k \in Lanes, ~(t = s /\ k = l)
        PROVE  /\ slices'[t][k] = slices[t][k]
               /\ slices[t][k].st = "read" => t = s /\ pos' = pos
    BY <1>1, <2>1 DEF LocksHeld
  <2>2. slices'[s][l] = r
    BY <1>1
  <2>3. ASSUME NEW t \in Sources, NEW k \in Lanes
        PROVE  LET w == slices'[t][k] IN
               /\ w.st \in {"locking", "seek"} => w.out = <<>>
               /\ w.st = "read" => /\ Len(w.out) < Width /\ pos' = Start(w.chunk) + Len(w.out)
                                   /\ \A n \in 1..Len(w.out) : w.out[n] = Start(w.chunk) + n - 1
    <3>1. CASE t = s /\ k = l
      BY <2>2, <3>1
    <3>2. CASE ~(t = s /\ k = l)
      <4>1. LET w == slices[t][k] IN
            /\ w.st \in {"locking", "seek"} => w.out = <<>>
            /\ w.st = "read" => /\ Len(w.out) < Width /\ pos = Start(w.chunk) + Len(w.out)
                                /\ \A n \in 1..Len(w.out) : w.out[n] = Start(w.chunk) + n - 1
        BY DEF PositionKept
      <4>2. slices'[t][k] = slices[t][k] /\ (slices[t][k].st = "read" => pos' = pos)
        BY <2>1, <3>2
      <4>3. QED
        BY <4>1, <4>2
    <3>3. QED
      BY <3>1, <3>2
  <2>4. QED
    BY <2>3 DEF PositionKept
<1>8. QED
  BY <1>2, <1>3, <1>5, <1>6, <1>7, <1>9

\* While one thread is at work the others of its source are not.
LEMMA Others ==
  ASSUME SlicesReadTheirRanges, NEW s \in Sources, NEW l \in Lanes,
         slices[s][l].st \in {"seek", "read"}
  PROVE  /\ s = built /\ building.st = "none"
         /\ \A k \in Lanes \ {l} : slices[s][k].st \notin {"seek", "read"}
  BY DEF SlicesReadTheirRanges, LocksHeld, OneReader

LEMMA RequestStep ==
  ASSUME ConstantsAssumption, ~Orphans, SlicesReadTheirRanges,
         NEW s \in Sources, NEW l \in Lanes, RequestSlice(s, l)
  PROVE  SlicesReadTheirRanges'
<1>1. PICK i \in 1..K :
        SetSlice(s, l, [st |-> "locking", chunk |-> i, out |-> <<>>, awaited |-> TRUE])
  BY DEF RequestSlice
<1> DEFINE r == [st |-> "locking", chunk |-> i, out |-> <<>>, awaited |-> TRUE]
<1>2. <<>> \in Seq(0..Total)
  OBVIOUS
<1>3. r \in Slice /\ r.st = "locking" /\ r.out = <<>> /\ r.awaited
  BY <1>2 DEF Slice
<1>4. SetSlice(s, l, r)
  BY <1>1
<1> HIDE DEF r
<1>5. /\ UNCHANGED <<pos, lock, built, building, size, retired>>
      /\ building.st = "none" /\ s = built /\ s \notin retired
  BY DEF RequestSlice
<1>6. pos \in 0..Total /\ lock \in [Sources -> BOOLEAN]
  BY DEF SlicesReadTheirRanges, SourceTypeOK
<1>7. QED
  BY <1>3, <1>4, <1>5, <1>6, SliceStep

LEMMA LockStep ==
  ASSUME ConstantsAssumption, SlicesReadTheirRanges,
         NEW s \in Sources, NEW l \in Lanes, TakeLock(s, l)
  PROVE  SlicesReadTheirRanges'
<1> DEFINE w == slices[s][l]
           r == [w EXCEPT !.st = "seek"]
<1>1. /\ w \in Slice /\ w.st = "locking" /\ w.out = <<>> /\ w.awaited /\ s \notin retired
      /\ s = built /\ building.st = "none" /\ ~lock[s]
  BY DEF SlicesReadTheirRanges, SourceTypeOK, LocksHeld, PositionKept, TakeLock
<1>2. r \in Slice /\ r.st = "seek" /\ r.out = <<>> /\ r.awaited
  BY <1>1 DEF Slice
<1>3. SetSlice(s, l, r)
  BY DEF TakeLock
<1> HIDE DEF r, w
<1>4. /\ UNCHANGED <<pos, built, building, size, retired>>
      /\ lock' = [lock EXCEPT ![s] = TRUE]
  BY DEF TakeLock
<1>5. pos \in 0..Total /\ lock \in [Sources -> BOOLEAN]
  BY DEF SlicesReadTheirRanges, SourceTypeOK
<1>6. /\ lock' \in [Sources -> BOOLEAN] /\ lock'[s]
      /\ \A t \in Sources : lock'[t] # lock[t] => t = s
  BY <1>4, <1>5
<1>7. \A k \in Lanes \ {l} : slices[s][k].st \notin {"seek", "read"}
  BY <1>1 DEF SlicesReadTheirRanges, LocksHeld
<1>8. QED
  BY <1>1, <1>2, <1>3, <1>4, <1>5, <1>6, <1>7, SliceStep

LEMMA SeekStep ==
  ASSUME ConstantsAssumption, SlicesReadTheirRanges,
         NEW s \in Sources, NEW l \in Lanes, Seek(s, l)
  PROVE  SlicesReadTheirRanges'
<1> DEFINE w == slices[s][l]
           r == [w EXCEPT !.st = "read"]
<1>1. /\ w \in Slice /\ w.st = "seek" /\ w.out = <<>>
      /\ IF w.awaited THEN lock[s] ELSE s \in retired
  BY DEF SlicesReadTheirRanges, SourceTypeOK, LocksHeld, PositionKept, Seek
<1>2. /\ r \in Slice /\ r.st = "read" /\ r.out = <<>> /\ r.awaited = w.awaited
      /\ r.chunk = w.chunk /\ w.chunk \in 1..K
  BY <1>1 DEF Slice
<1>3. SetSlice(s, l, r) /\ pos' = Start(w.chunk)
  BY DEF Seek
<1>4. s = built /\ building.st = "none" /\ \A k \in Lanes \ {l} : slices[s][k].st \notin {"seek", "read"}
  BY <1>1, Others
<1> HIDE DEF r, w
<1>5. UNCHANGED <<built, building, size, retired, lock>>
  BY DEF Seek
<1>6. lock \in [Sources -> BOOLEAN]
  BY DEF SlicesReadTheirRanges, SourceTypeOK
<1>7. pos' \in 0..Total /\ pos' = Start(r.chunk) + Len(r.out) /\ Len(r.out) < Width
  BY <1>2, <1>3, ChunkFits
<1>8. \A n \in 1..Len(r.out) : r.out[n] = Start(r.chunk) + n - 1
  BY <1>2
<1>9. QED
  BY <1>1, <1>2, <1>3, <1>4, <1>5, <1>6, <1>7, <1>8, SliceStep

LEMMA ReadStep ==
  ASSUME ConstantsAssumption, SlicesReadTheirRanges,
         NEW s \in Sources, NEW l \in Lanes, ReadUnits(s, l)
  PROVE  SlicesReadTheirRanges'
<1> DEFINE w == slices[s][l]
           out == IF pos < Total THEN Append(w.out, pos) ELSE w.out
           finished == Len(out) = Width \/ pos >= Total
<1>1. /\ w \in Slice /\ w.st = "read" /\ w.chunk \in 1..K /\ w.out \in Seq(0..Total)
      /\ IF w.awaited THEN lock[s] ELSE s \in retired
      /\ Len(w.out) < Width /\ pos = Start(w.chunk) + Len(w.out)
      /\ \A n \in 1..Len(w.out) : w.out[n] = Start(w.chunk) + n - 1
  BY DEF SlicesReadTheirRanges, SourceTypeOK, LocksHeld, PositionKept, ReadUnits, Slice
<1>2. /\ UNCHANGED <<built, building, size, retired>>
      /\ pos' = IF pos < Total THEN pos + 1 ELSE pos
      /\ \/ ~finished /\ SetSlice(s, l, [w EXCEPT !.out = out]) /\ UNCHANGED lock
         \/ /\ finished /\ w.awaited
            /\ SetSlice(s, l, [w EXCEPT !.st = "got", !.out = out])
            /\ lock' = [lock EXCEPT ![s] = FALSE]
         \/ finished /\ ~w.awaited /\ SetSlice(s, l, NoSlice) /\ UNCHANGED lock
  BY DEF ReadUnits
<1>3. s = built /\ building.st = "none" /\ \A k \in Lanes \ {l} : slices[s][k].st \notin {"seek", "read"}
  BY <1>1, Others
<1> HIDE DEF w
\* The read is within the file: the chunk has a unit left.
<1>4. /\ Total \in Nat /\ Width \in Nat \ {0} /\ Start(w.chunk) \in Nat
      /\ Start(w.chunk) + Width <= Total /\ Len(w.out) \in Nat
  BY <1>1, ChunkFits
<1>5. pos < Total /\ pos \in Nat
  BY <1>1, <1>4
<1>6. /\ out \in Seq(0..Total) /\ Len(out) = Len(w.out) + 1 /\ Len(out) <= Width
      /\ \A n \in 1..Len(out) : out[n] = Start(w.chunk) + n - 1
      /\ pos' = Start(w.chunk) + Len(out) /\ pos' \in 0..Total
  <2>1. out = Append(w.out, pos) /\ pos \in 0..Total
    BY <1>4, <1>5
  <2>2. pos' = pos + 1
    BY <1>2, <1>5
  <2> HIDE DEF out
  <2>3. /\ out \in Seq(0..Total) /\ Len(out) = Len(w.out) + 1
        /\ \A n \in 1..Len(w.out) : out[n] = w.out[n]
        /\ out[Len(w.out) + 1] = pos
    BY <1>1, <2>1
  <2>4. ASSUME NEW n \in 1..Len(out)
        PROVE  out[n] = Start(w.chunk) + n - 1
    <3>1. CASE n \in 1..Len(w.out)
      BY <1>1, <2>3, <3>1
    <3>2. CASE n = Len(w.out) + 1
      BY <1>1, <1>4, <2>3, <3>2
    <3>3. QED
      BY <1>4, <2>3, <3>1, <3>2
  <2>5. Len(out) <= Width
    BY <1>1, <1>4, <2>3
  <2>6. pos' = Start(w.chunk) + Len(out)
    <3>1. pos = Start(w.chunk) + Len(w.out) /\ Len(out) = Len(w.out) + 1
      BY <1>1, <2>3
    <3>2. \A a, b \in Nat : (a + b) + 1 = a + (b + 1)
      OBVIOUS
    <3>3. QED
      BY <1>4, <2>2, <3>1, <3>2
  <2>7. pos' \in 0..Total
    BY <1>4, <1>5, <2>2
  <2>8. QED
    BY <2>3, <2>4, <2>5, <2>6, <2>7
<1>7. finished <=> Len(out) = Width
  BY <1>4, <1>5
<1>8. lock \in [Sources -> BOOLEAN]
  BY DEF SlicesReadTheirRanges, SourceTypeOK
<1> HIDE DEF out, finished
<1>9. CASE ~finished /\ SetSlice(s, l, [w EXCEPT !.out = out]) /\ UNCHANGED lock
  <2> DEFINE r == [w EXCEPT !.out = out]
  <2>1. /\ r \in Slice /\ r.st = "read" /\ r.out = out /\ r.chunk = w.chunk
        /\ r.awaited = w.awaited
    BY <1>1, <1>6 DEF Slice
  <2>2. SetSlice(s, l, r)
    BY <1>9
  <2>3. Len(out) < Width
    BY <1>4, <1>6, <1>7, <1>9
  <2> HIDE DEF r
  <2>4. QED
    BY <1>1, <1>2, <1>3, <1>6, <1>8, <1>9, <2>1, <2>2, <2>3, SliceStep
<1>10. CASE /\ finished /\ w.awaited
            /\ SetSlice(s, l, [w EXCEPT !.st = "got", !.out = out])
            /\ lock' = [lock EXCEPT ![s] = FALSE]
  <2> DEFINE r == [w EXCEPT !.st = "got", !.out = out]
  <2>1. r \in Slice /\ r.st = "got" /\ r.out = out /\ r.chunk = w.chunk
    BY <1>1, <1>6 DEF Slice
  <2>2. SetSlice(s, l, r)
    BY <1>10
  <2>3. out = [n \in 1..Width |-> Start(w.chunk) + n - 1]
    BY <1>6, <1>7, <1>10
  <2>4. lock' \in [Sources -> BOOLEAN] /\ \A t \in Sources : lock'[t] # lock[t] => t = s
    BY <1>8, <1>10
  <2> HIDE DEF r
  <2>5. QED
    BY <1>2, <1>3, <1>6, <2>1, <2>2, <2>3, <2>4, SliceStep
<1>11. CASE finished /\ ~w.awaited /\ SetSlice(s, l, NoSlice) /\ UNCHANGED lock
  BY <1>2, <1>3, <1>6, <1>8, <1>11, NoSliceType, SliceStep
<1>12. QED
  BY <1>2, <1>9, <1>10, <1>11

LEMMA CancelStep ==
  ASSUME ConstantsAssumption, SlicesReadTheirRanges, CancelLanes
  PROVE  SlicesReadTheirRanges'
<1> USE DEF SlicesReadTheirRanges
<1>1. PICK running \in {{"read"}, {"seek", "read"}} :
        slices' = [slices EXCEPT ![built] = [l \in Lanes |->
          IF slices[built][l].st \in running THEN [slices[built][l] EXCEPT !.awaited = FALSE]
                                             ELSE NoSlice]]
  BY DEF CancelLanes
<1>2. /\ lock' = [lock EXCEPT ![built] = FALSE] /\ retired' = retired \cup {built}
      /\ building.st = "none" /\ UNCHANGED <<pos, built, building, size>>
      /\ built \in Sources
  BY DEF CancelLanes, SourceTypeOK, Sources, ConstantsAssumption
<1>3. ASSUME NEW l \in Lanes
      PROVE  LET w == slices[built][l]
                 r == [w EXCEPT !.awaited = FALSE]
             IN /\ w \in Slice /\ r \in Slice /\ r.st = w.st /\ r.out = w.out /\ r.chunk = w.chunk
                /\ ~r.awaited
  <2>1. slices[built][l] \in Slice
    BY <1>2 DEF SourceTypeOK
  <2>2. ASSUME NEW w \in Slice
        PROVE  LET r == [w EXCEPT !.awaited = FALSE]
               IN r \in Slice /\ r.st = w.st /\ r.out = w.out /\ r.chunk = w.chunk /\ ~r.awaited
    BY DEF Slice
  <2>3. QED
    BY <2>1, <2>2
<1>4. ASSUME NEW s \in Sources, NEW l \in Lanes
      PROVE  /\ slices'[s][l] \in Slice
             /\ \/ s # built /\ slices'[s][l] = slices[s][l]
                \/ s = built /\ slices'[s][l] = NoSlice
                \/ /\ s = built /\ slices[s][l].st \in {"seek", "read"}
                   /\ slices'[s][l].st = slices[s][l].st /\ slices'[s][l].out = slices[s][l].out
                   /\ slices'[s][l].chunk = slices[s][l].chunk /\ ~slices'[s][l].awaited
  <2>1. CASE s # built
    BY <1>1, <1>2, <2>1 DEF SourceTypeOK
  <2>2. CASE s = built
    <3>1. slices'[s][l] = IF slices[s][l].st \in running
                          THEN [slices[s][l] EXCEPT !.awaited = FALSE] ELSE NoSlice
      BY <1>1, <1>2, <2>2 DEF SourceTypeOK
    <3>2. CASE slices[s][l].st \in running
      BY <1>3, <2>2, <3>1, <3>2
    <3>3. CASE slices[s][l].st \notin running
      BY <2>2, <3>1, <3>3, NoSliceType
    <3>4. QED
      BY <3>2, <3>3
  <2>3. QED
    BY <2>1, <2>2
<1>5. SourceTypeOK'
  <2>1. slices' \in [Sources -> [Lanes -> Slice]]
    <3>1. slices' = [s \in Sources |-> slices'[s]] /\ \A s \in Sources : slices'[s] = [l \in Lanes |-> slices'[s][l]]
      BY <1>1, <1>2 DEF SourceTypeOK
    <3>2. QED
      BY <1>4, <3>1
  <2>2. QED
    BY <1>2, <2>1 DEF SourceTypeOK
<1>6. SizeMeasured' /\ BuildingKept'
  BY <1>2 DEF SizeMeasured, BuildingKept
<1>7. SliceReadsItsRange'
  BY <1>4, NoSliceType DEF SliceReadsItsRange
<1>8. LocksHeld'
  <2>1. ASSUME NEW s \in Sources, NEW l \in Lanes
        PROVE  LET w == slices'[s][l] IN
               /\ w.st \in {"locking", "seek", "read"} => s = built /\ building.st = "none"
               /\ w.st = "locking" => w.awaited /\ s \notin retired'
               /\ w.st \in {"seek", "read"} => IF w.awaited THEN lock'[s] ELSE s \in retired'
    BY <1>2, <1>4, NoSliceType DEF LocksHeld
  <2>2. QED
    BY <1>2, <2>1 DEF LocksHeld
<1>9. OneReader'
  BY <1>4, NoSliceType DEF OneReader
<1>10. PositionKept'
  <2>1. ASSUME NEW s \in Sources, NEW l \in Lanes
        PROVE  LET w == slices'[s][l] IN
               /\ w.st \in {"locking", "seek"} => w.out = <<>>
               /\ w.st = "read" => /\ Len(w.out) < Width /\ pos = Start(w.chunk) + Len(w.out)
                                   /\ \A n \in 1..Len(w.out) : w.out[n] = Start(w.chunk) + n - 1
    BY <1>4, NoSliceType DEF PositionKept
  <2>2. QED
    BY <1>2, <2>1 DEF PositionKept
<1>11. QED
  BY <1>5, <1>6, <1>7, <1>8, <1>9, <1>10

-----------------------------------------------------------------------------
(* The invariant                                                           *)

LEMMA InitSlices ==
  ASSUME ConstantsAssumption, SourceInit
  PROVE  SlicesReadTheirRanges
<1> USE DEF SourceInit
<1>1. Total \in Nat
  <2>1. 1 \in 1..K
    BY DEF ConstantsAssumption
  <2>2. QED
    BY <2>1, ChunkFits
<1>2. \A s \in Sources, l \in Lanes : slices[s][l] = NoSlice
  OBVIOUS
<1>3. building.st = "none" /\ building \in [st : {"none", "end", "measure", "back"}, current : 0..Total]
  BY <1>1 DEF NotBuilding
<1>4. SourceTypeOK
  BY <1>1, <1>3, NoSliceType DEF SourceTypeOK, ConstantsAssumption
<1>5. SliceReadsItsRange /\ LocksHeld /\ OneReader /\ PositionKept
  BY <1>2, NoSliceType DEF SliceReadsItsRange, LocksHeld, OneReader, PositionKept
<1>6. SizeMeasured /\ BuildingKept
  BY <1>3 DEF SizeMeasured, BuildingKept
<1>7. QED
  BY <1>4, <1>5, <1>6 DEF SlicesReadTheirRanges

LEMMA NextSlices ==
  ASSUME ConstantsAssumption, ~Orphans, SlicesReadTheirRanges, [SourceNext]_sourceVars
  PROVE  SlicesReadTheirRanges'
<1>1. CASE StartSource \/ SeekEnd \/ Measure \/ SeekBack
  BY <1>1, BuildStep
<1>2. ASSUME NEW s \in Sources, NEW l \in Lanes,
             RequestSlice(s, l) \/ TakeLock(s, l) \/ Seek(s, l) \/ ReadUnits(s, l)
      PROVE  SlicesReadTheirRanges'
  BY <1>2, RequestStep, LockStep, SeekStep, ReadStep
<1>3. CASE CancelLanes
  BY <1>3, CancelStep
<1>4. CASE UNCHANGED sourceVars
  BY <1>4 DEF sourceVars, SlicesReadTheirRanges, SourceTypeOK, SliceReadsItsRange, SizeMeasured, LocksHeld,
              OneReader, PositionKept, BuildingKept
<1>5. QED
  BY <1>1, <1>2, <1>3, <1>4 DEF SourceNext

\* Without lanes of an earlier call, a lane gets the bytes of its own range
\* whatever the other lanes and a cancelled call's threads do
\* (_FileObjectSource.slice, _read_range).
THEOREM SlicesAreTheirOwn == ~Orphans => (SourceSpec => []SlicesReadTheirRanges)
<1> SUFFICES ASSUME ~Orphans
             PROVE  SourceSpec => []SlicesReadTheirRanges
  OBVIOUS
<1>1. SourceInit => SlicesReadTheirRanges
  BY ConstantsAssumption, InitSlices
<1>2. SlicesReadTheirRanges /\ [SourceNext]_sourceVars => SlicesReadTheirRanges'
  BY ConstantsAssumption, NextSlices
<1>3. QED
  BY <1>1, <1>2, PTL DEF SourceSpec
=============================================================================
