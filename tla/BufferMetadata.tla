--------------------------- MODULE BufferMetadata ---------------------------
(***************************************************************************)
(* The metadata of working buffers together with the tracking heap block   *)
(* provider: steam/engine/buffer-metadata.hpp, buffer-provider.cpp and     *)
(* tracking-heap-block-provider.cpp.                                       *)
(*                                                                         *)
(* The operations are functions of the provider's state p, a record:       *)
(*   table     the metadata of the concrete buffers (entries_); the        *)
(*             entries of type keys are constant and left out.  A block    *)
(*             names its entry, as the hash covers type and address.       *)
(*   pool      the Blocks still in a BlockPool                             *)
(*   outSeq    the emitted Blocks, in order                                *)
(*   released  the Blocks with was_released_                               *)
(*   object    what the TypeHandler's functors made of the storage; not a  *)
(*             field of the program but the state of the embedded object.  *)
(* An operation that throws leaves what it did not get to.                 *)
(***************************************************************************)
EXTENDS Naturals, SequencesExt

CONSTANT MaxBlocks    \* bound: blocks created

ASSUME MaxBlocksAssumption == MaxBlocks \in Nat

Blocks == 1..MaxBlocks

BufferState == {"FREE", "LOCKED", "EMITTED", "BLOCKED"}

\* The TypeHandler of a type or entry: none, or constructor and destructor.
Handler == {"RAW", "Object"}

Entry == [state : BufferState, buffer : BOOLEAN, instanceFunc : Handler]

\* "wrecked": the destructor ran where no object lived, or the constructor
\* over a living one.
ObjectState == {"raw", "live", "gone", "wrecked"}

\* The type of a provider's state p.
ProviderType ==
  [table : UNION {[S -> Entry] : S \in SUBSET Blocks}, pool : SUBSET Blocks,
   outSeq : Seq(Blocks), released : SUBSET Blocks, object : [Blocks -> ObjectState]]

NoProvider == [table |-> [b \in {} |-> 0], pool |-> {}, outSeq |-> << >>,
               released |-> {}, object |-> [b \in Blocks |-> "raw"]]

Created(p) == p.pool \union Range(p.outSeq)

\* BufferMetadata::isKnown, Entry::isLocked
Known(p, b) == b \in DOMAIN p.table
Locked(p, b) == Known(p, b) /\ p.table[b].buffer

-----------------------------------------------------------------------------

InvokeCtor(p, b) ==
  IF p.table[b].instanceFunc = "RAW" THEN p
  ELSE [p EXCEPT !.object[b] = IF @ = "live" THEN "wrecked" ELSE "live"]

InvokeDtor(p, b) ==
  IF p.table[b].instanceFunc = "RAW" THEN p
  ELSE [p EXCEPT !.object[b] = IF @ = "live" THEN "gone" ELSE "wrecked"]

\* The transitions Entry::mark() allows; all others throw.
MayMark(old, new) ==
  <<old, new>> \in {<<"FREE", "LOCKED">>, <<"LOCKED", "EMITTED">>,
                    <<"LOCKED", "BLOCKED">>, <<"LOCKED", "FREE">>,
                    <<"EMITTED", "BLOCKED">>, <<"EMITTED", "FREE">>,
                    <<"BLOCKED", "FREE">>}

\* Entry::mark(EMITTED) and Entry::mark(FREE) of an entry that allows it.
MarkEmitted(p, b) == [p EXCEPT !.table[b] = [@ EXCEPT !.state = "EMITTED"]]

\* Entry::invalidate(false)
Freed(e) == [state |-> "FREE", buffer |-> FALSE, instanceFunc |-> e.instanceFunc]
Invalidate(p, b) == [p EXCEPT !.table[b] = Freed(@)]

MarkFree(p, b) == Invalidate(InvokeDtor(p, b), b)

\* BufferMetadata::release(entry)
ForgetEntry(p, b) ==
  [p EXCEPT !.table = [c \in DOMAIN @ \ {b} |-> @[c]]]

\* markLocked() -> lock(onlyNew) -> store_as_locked() for a new block; ok is
\* FALSE when the embedded constructor throws, which marks the entry FREE.
StoreAsLocked(p, b, func, ok) ==
  LET entry == [state |-> "LOCKED", buffer |-> TRUE, instanceFunc |-> func]
      stored == [p EXCEPT !.table = [c \in DOMAIN @ \union {b} |->
                                       IF c = b THEN entry ELSE @[c]]]
  IN  IF ok THEN InvokeCtor(stored, b) ELSE MarkFree(stored, b)

-----------------------------------------------------------------------------
(* The operations of the provider.                                         *)

\* The heap provides a block at an address not in use; no block is freed
\* before the provider itself.
CanCreate(p) == \E b \in Blocks : b \notin Created(p)

\* Mutant: detached blocks are used again, under the same address and entry.
NextBlockReused(p) ==
  IF p.released # {} THEN CHOOSE b \in p.released : TRUE
  ELSE CHOOSE b \in Blocks : b \notin Created(p)

NextBlock(p) == CHOOSE b \in Blocks : b \notin Created(p)

\* lockBuffer() -> provideLockedBuffer(): a new block in the pool.
LockBuffer(p, func, ok) ==
  LET b == NextBlock(p)
  IN  StoreAsLocked([p EXCEPT !.pool = @ \union {b}], b, func, ok)

\* emitBuffer(): the block moves to the output sequence, then the metadata
\* is marked, which throws unless the buffer was LOCKED.
EmitBuffer(p, b) ==
  LET moved == IF b \in p.pool
               THEN [p EXCEPT !.pool = @ \ {b}, !.outSeq = Append(@, b)]
               ELSE p
  IN  IF ~ Known(p, b) THEN p
      ELSE IF MayMark(p.table[b].state, "EMITTED") THEN MarkEmitted(moved, b)
           ELSE moved

\* detachBuffer() of the tracking provider
DetachBuffer(p, b) == [p EXCEPT !.released = @ \union {b}]

\* Mutant: the metadata entry is not purged.
ReleaseBufferKeep(p, b) ==
  IF Known(p, b) /\ MayMark(p.table[b].state, "FREE")
  THEN DetachBuffer(MarkFree(p, b), b)
  ELSE p

\* releaseBuffer(): mark FREE, detach, drop the entry; errors are ignored.
ReleaseBuffer(p, b) ==
  IF Known(p, b) /\ MayMark(p.table[b].state, "FREE")
  THEN ForgetEntry(DetachBuffer(MarkFree(p, b), b), b)
  ELSE p

\* attachTypeHandler(): throws unless locked and without a handler.
CanAttach(p, b) == Locked(p, b) /\ p.table[b].instanceFunc = "RAW"
AttachTypeHandler(p, b) == [p EXCEPT !.table[b] = [@ EXCEPT !.instanceFunc = "Object"]]

\* Mutant: the cleanup invokes the destructor.
EmergencyCleanupDtor(p, b) ==
  IF ~ Known(p, b) THEN p
  ELSE ForgetEntry(DetachBuffer(MarkFree(p, b), b), b)

\* emergencyCleanup(invokeDtor = false): invalidate, detach, drop the entry.
EmergencyCleanup(p, b) ==
  IF ~ Known(p, b) THEN p
  ELSE ForgetEntry(DetachBuffer(Invalidate(p, b), b), b)

-----------------------------------------------------------------------------
(* A BuffHandle: a copyable value, the block it stands for and whether it  *)
(* still has its pointer.                                                  *)

Handle == [block : Blocks \union {0}, ptr : BOOLEAN]
NullHandle == [block |-> 0, ptr |-> FALSE]

IsValid(p, h) == h.ptr /\ Locked(p, h.block)

-----------------------------------------------------------------------------
(* What the provider's state p should satisfy at any time.                 *)

\* Every block has one owner, pool or output sequence, and is emitted once.
OwnedOnce(p) ==
  /\ IsInjective(p.outSeq)
  /\ p.pool \intersect Range(p.outSeq) = {}

\* The metadata knows exactly the blocks not released yet, and those emitted
\* are the ones in the output sequence.
MetadataMatches(p) ==
  /\ DOMAIN p.table = Created(p) \ p.released
  /\ \A b \in DOMAIN p.table : p.table[b].state = "EMITTED" <=> b \in Range(p.outSeq)

\* The constructor threw on typed locking: mark(FREE) has run the destructor
\* where no object was built, and the entry stays behind.
BrokenOnLock(p, b) == Known(p, b) /\ p.table[b].state = "FREE"

\* An object lives in a buffer exactly while the buffer is locked with a
\* TypeHandler; it is built once and destroyed once.
ObjectsBalanced(p) ==
  \A b \in Blocks : ~ BrokenOnLock(p, b) =>
     /\ p.object[b] # "wrecked"
     /\ p.object[b] = "live" <=> Locked(p, b) /\ p.table[b].instanceFunc = "Object"
=============================================================================
