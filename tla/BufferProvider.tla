--------------------------- MODULE BufferProvider ---------------------------
(***************************************************************************)
(* Clients of one buffer provider, which work with copyable BuffHandles:   *)
(* steam/engine/buffhandle.hpp, buffhandle-attach.hpp and the handle       *)
(* operations of buffer-provider.cpp.  A client keeps the contract the     *)
(* code states with REQUIRE(isValid()).                                    *)
(***************************************************************************)
EXTENDS BufferMetadata

CONSTANTS Handles,        \* the client's handle variables
          CtorMayFail     \* an embedded object's constructor may throw on lock

ASSUME ClientAssumption == CtorMayFail \in BOOLEAN

VARIABLES bp,             \* the provider's state
          handle          \* [Handles -> Handle]

vars == <<bp, handle>>

Valid(h) == IsValid(bp, handle[h])

Init == bp = NoProvider /\ handle = [h \in Handles |-> NullHandle]

\* BuffDescr::lockBuffer(); on failure the client gets no handle.
Lock(h, func, ok) ==
  /\ CanCreate(bp)
  /\ ok \/ (CtorMayFail /\ func = "Object")
  /\ bp' = LockBuffer(bp, func, ok)
  /\ handle' = IF ok THEN [handle EXCEPT ![h] = [block |-> NextBlock(bp), ptr |-> TRUE]]
               ELSE handle

\* Handles are plain values.
Copy(h, g) ==
  /\ handle[h].ptr
  /\ handle' = [handle EXCEPT ![g] = handle[h]]
  /\ UNCHANGED bp

\* BuffHandle::create(): take ownership, then build the object in place; when
\* its constructor throws, cleanup and reset the handle.
Create(h, ok) ==
  /\ Valid(h) /\ CanAttach(bp, handle[h].block)
  /\ LET b == handle[h].block
         owned == AttachTypeHandler(bp, b)
     IN  IF ok THEN bp' = InvokeCtor(owned, b) /\ UNCHANGED handle
         ELSE /\ bp' = EmergencyCleanup(owned, b)
              /\ handle' = [handle EXCEPT ![h].ptr = FALSE]

Emit(h) ==
  /\ Valid(h)
  /\ bp' = EmitBuffer(bp, handle[h].block)
  /\ UNCHANGED handle

Release(h) ==
  /\ Valid(h)
  /\ bp' = ReleaseBuffer(bp, handle[h].block)
  /\ handle' = [handle EXCEPT ![h].ptr = FALSE]

Next ==
  \/ \E h \in Handles, func \in Handler, ok \in BOOLEAN : Lock(h, func, ok)
  \/ \E h, g \in Handles : Copy(h, g)
  \/ \E h \in Handles, ok \in BOOLEAN : Create(h, ok)
  \/ \E h \in Handles : Emit(h) \/ Release(h)

Spec == Init /\ [][Next]_vars

-----------------------------------------------------------------------------

\* All metadata, blocks and handles have their types.
TypeOK == bp \in ProviderType /\ handle \in [Handles -> Handle]

\* Every block has one owner and is emitted at most once, whatever copies of
\* its handle are emitted again (mark_emitted moves the block before the
\* state transition is verified); and the metadata table and the blocks agree
\* on what is in use and what was emitted, over any sequence of client calls.
MetadataMatchesBlocks == OwnedOnce(bp) /\ MetadataMatches(bp)

\* Objects embedded in buffers are constructed and destroyed in pairs, by
\* typed locking or by create(), also when create() fails.  The one exception
\* is a buffer whose constructor threw out of lockBuffer(): store_as_locked()
\* marks it FREE, which runs the destructor on an object never built; its
\* entry is left FREE and neither locked nor released ever after.
ObjectLifecycle == ObjectsBalanced(bp)

\* A handle that has become invalid, because its buffer was released or
\* cleaned up through another copy, does not become valid later on, whatever
\* buffers are locked next: the accident the warning of releaseBuffer() tells
\* of does not happen with the tracking provider, which uses no block twice.
NeverRevived ==
  [][\A h \in Handles : handle'[h] = handle[h] /\ ~ Valid(h) => ~ Valid(h)']_vars
=============================================================================
