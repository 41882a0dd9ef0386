-------------------------- MODULE FileObjectSource --------------------------
(***************************************************************************)
(* _FileObjectSource (client/resumable_source.py): the lanes of an upload  *)
(* slice one open file. A slice seeks and reads on a worker thread while   *)
(* the coroutine holds the source's asyncio.Lock; cancelling the coroutine *)
(* releases the lock and leaves the thread running. Every                  *)
(* call of upload_resumable builds a source of its own over the handle it  *)
(* is given, so the lanes that a failed call leaves behind and those of    *)
(* the retry hold different locks.                                         *)
(*                                                                         *)
(* Positions are counted in units of one OS read; a chunk is Width units.  *)
(***************************************************************************)
EXTENDS Naturals, Sequences

CONSTANTS
  K, Width,   \* chunks of the file, reads a chunk takes
  Lanes,      \* the workers of one call
  MaxSources, \* sources built over the handle
  Orphans     \* may a call be retried while lanes of it still run?

Total   == K * Width
Sources == 1..MaxSources

ASSUME ConstantsAssumption ==
  /\ K \in Nat \ {0} /\ Width \in Nat \ {0} /\ MaxSources \in Nat \ {0}
  /\ Orphans \in BOOLEAN

VARIABLES
  pos,      \* the position of the shared handle
  built,    \* sources built so far
  building, \* where __init__ of the next source stands
  size,     \* source -> the size it measured, 0 before
  retired,  \* sources of calls whose task was cancelled
  lock,     \* source -> is its lock taken?
  slices    \* source -> lane -> its slice call

sourceVars == <<pos, built, building, size, retired, lock, slices>>

\* Lane l of source s: slicing chunk `chunk`, with the units `out` read so far;
\* `awaited` while a coroutine still waits for it.
Slice == [st : {"idle", "locking", "seek", "read", "got"},
          chunk : 1..K, out : Seq(0..Total), awaited : BOOLEAN]
NoSlice == [st |-> "idle", chunk |-> 1, out |-> <<>>, awaited |-> FALSE]

NotBuilding == [st |-> "none", current |-> 0]

SourceInit ==
  /\ pos = 0 /\ built = 0
  /\ building = NotBuilding
  /\ size = [s \in Sources |-> 0] /\ retired = {}
  /\ lock = [s \in Sources |-> FALSE]
  /\ slices = [s \in Sources |-> [l \in Lanes |-> NoSlice]]

-----------------------------------------------------------------------------
(* Building a source: tell, seek to the end, tell, seek back               *)

\* An upload starts, or is retried with the same handle. The event loop runs
\* __init__ without a break, but a worker thread does not wait for it.
StartSource ==
  /\ built < MaxSources /\ building.st = "none"
  /\ Orphans \/ \A s \in Sources, l \in Lanes : slices[s][l].st \in {"idle", "got"}
  /\ building' = [st |-> "end", current |-> pos]
  /\ UNCHANGED <<pos, built, size, retired, lock, slices>>

SeekEnd ==
  /\ building.st = "end"
  /\ pos' = Total
  /\ building' = [building EXCEPT !.st = "measure"]
  /\ UNCHANGED <<built, size, retired, lock, slices>>

Measure ==
  /\ building.st = "measure"
  /\ size' = [size EXCEPT ![built + 1] = pos]
  /\ building' = [building EXCEPT !.st = "back"]
  /\ UNCHANGED <<pos, built, retired, lock, slices>>

SeekBack ==
  /\ building.st = "back"
  /\ pos' = building.current
  /\ built' = built + 1
  /\ building' = NotBuilding
  /\ UNCHANGED <<size, retired, lock, slices>>

-----------------------------------------------------------------------------
(* Slicing                                                                 *)

\* Where chunk i begins.
Start(i) == (i - 1) * Width

SetSlice(s, l, r) == slices' = [slices EXCEPT ![s][l] = r]

\* A lane asks for a chunk. Lanes of an earlier source ask only as orphans.
RequestSlice(s, l) ==
  /\ building.st = "none" /\ s <= built
  /\ s = built \/ Orphans
  /\ s \notin retired
  /\ slices[s][l].st \in {"idle", "got"}
  /\ \E i \in 1..K :
       SetSlice(s, l, [st |-> "locking", chunk |-> i, out |-> <<>>, awaited |-> TRUE])
  /\ UNCHANGED <<pos, built, building, size, retired, lock>>

\* Mutated form: the lock is not taken.
TakeLock_Unguarded(s, l) ==
  /\ building.st = "none" /\ slices[s][l].st = "locking"
  /\ SetSlice(s, l, [slices[s][l] EXCEPT !.st = "seek"])
  /\ UNCHANGED <<pos, built, building, size, retired, lock>>

\* async with self._lock; the read goes to a worker thread.
TakeLock(s, l) ==
  /\ building.st = "none" /\ slices[s][l].st = "locking" /\ ~lock[s]
  /\ lock' = [lock EXCEPT ![s] = TRUE]
  /\ SetSlice(s, l, [slices[s][l] EXCEPT !.st = "seek"])
  /\ UNCHANGED <<pos, built, building, size, retired>>

\* The thread: self._fileobj.seek(start).
Seek(s, l) ==
  /\ slices[s][l].st = "seek"
  /\ pos' = Start(slices[s][l].chunk)
  /\ SetSlice(s, l, [slices[s][l] EXCEPT !.st = "read"])
  /\ UNCHANGED <<built, building, size, retired, lock>>

\* The thread: one self._fileobj.read of the loop; at the end of the file it
\* returns nothing and the loop stops. A finished slice is handed over and
\* its lock released, if anyone still waits for it.
ReadUnits(s, l) ==
  LET r == slices[s][l]
      out == IF pos < Total THEN Append(r.out, pos) ELSE r.out
      finished == Len(out) = Width \/ pos >= Total
  IN
  /\ r.st = "read"
  /\ pos' = IF pos < Total THEN pos + 1 ELSE pos
  /\ \/ ~finished /\ SetSlice(s, l, [r EXCEPT !.out = out]) /\ UNCHANGED lock
     \/ finished /\ r.awaited
        /\ SetSlice(s, l, [r EXCEPT !.st = "got", !.out = out])
        /\ lock' = [lock EXCEPT ![s] = FALSE]
     \/ finished /\ ~r.awaited
        /\ SetSlice(s, l, NoSlice) /\ UNCHANGED lock
  /\ UNCHANGED <<built, building, size, retired>>

\* The task is cancelled and gather cancels every lane of the newest source:
\* the lock is released, a thread that has begun to run goes on unawaited
\* (one still queued is dropped). The source is not used again.
CancelLanes ==
  /\ building.st = "none" /\ built > 0 /\ built \notin retired
  /\ \E running \in {{"read"}, {"seek", "read"}} :
       slices' = [slices EXCEPT ![built] = [l \in Lanes |->
         IF slices[built][l].st \in running THEN [slices[built][l] EXCEPT !.awaited = FALSE]
                                            ELSE NoSlice]]
  /\ lock' = [lock EXCEPT ![built] = FALSE]
  /\ retired' = retired \cup {built}
  /\ UNCHANGED <<pos, built, building, size>>

SourceNext ==
  \/ StartSource \/ SeekEnd \/ Measure \/ SeekBack
  \/ \E s \in Sources, l \in Lanes :
       RequestSlice(s, l) \/ TakeLock(s, l) \/ Seek(s, l) \/ ReadUnits(s, l)
  \/ CancelLanes

SourceSpec == SourceInit /\ [][SourceNext]_sourceVars

-----------------------------------------------------------------------------
(* Properties                                                              *)

\* Every variable has its type.
SourceTypeOK ==
  /\ pos \in 0..Total /\ built \in 0..MaxSources
  /\ building \in [st : {"none", "end", "measure", "back"}, current : 0..Total]
  /\ size \in [Sources -> 0..Total]
  /\ retired \subseteq Sources
  /\ lock \in [Sources -> BOOLEAN]
  /\ slices \in [Sources -> [Lanes -> Slice]]

\* _FileObjectSource: slices are lock-guarded, "since a shared handle's
\* position is not safe under the driver's parallel chunk reads": a lane that
\* gets a slice gets the bytes of its own range.
SliceReadsItsRange ==
  \A s \in Sources, l \in Lanes : slices[s][l].st = "got" =>
    slices[s][l].out = [n \in 1..Width |-> Start(slices[s][l].chunk) + n - 1]

\* A source knows the size of the file, which the chunk grid is drawn from.
SizeMeasured == \A s \in 1..built : size[s] = Total

\* Only the newest source is at work, and never while the next is built; its
\* thread runs under the lock, or outlives a call that was cancelled.
LocksHeld ==
  \A s \in Sources, l \in Lanes :
    /\ slices[s][l].st \in {"locking", "seek", "read"} => s = built /\ building.st = "none"
    /\ slices[s][l].st = "locking" => slices[s][l].awaited /\ s \notin retired
    /\ slices[s][l].st \in {"seek", "read"} =>
         IF slices[s][l].awaited THEN lock[s] ELSE s \in retired

\* One thread at a time moves the handle.
OneReader ==
  \A s \in Sources, l, k \in Lanes :
    slices[s][l].st \in {"seek", "read"} /\ slices[s][k].st \in {"seek", "read"} => l = k

\* The thread that reads finds the handle where its last read left it.
PositionKept ==
  \A s \in Sources, l \in Lanes :
    LET r == slices[s][l] IN
    /\ r.st \in {"locking", "seek"} => r.out = <<>>
    /\ r.st = "read" => /\ Len(r.out) < Width /\ pos = Start(r.chunk) + Len(r.out)
                        /\ \A n \in 1..Len(r.out) : r.out[n] = Start(r.chunk) + n - 1

\* The constructor measures the end of the file.
BuildingKept ==
  /\ building.st # "none" => built < MaxSources
  /\ building.st = "measure" => pos = Total
  /\ building.st = "back" => size[built + 1] = Total

\* The inductive invariant without orphans: every slice is its own range and
\* every size the file's, because one thread at a time moves the handle.
SlicesReadTheirRanges ==
  /\ SourceTypeOK /\ SliceReadsItsRange /\ SizeMeasured
  /\ LocksHeld /\ OneReader /\ PositionKept /\ BuildingKept
=============================================================================
