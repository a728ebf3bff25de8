------------------------------ MODULE Weaving ------------------------------
(***************************************************************************)
(* Invocation of the render node network: Turnout::weave() with the media  *)
(* and the parameter weaving pattern, by several workers over one buffer   *)
(* provider (steam/engine/turnout.hpp, media-weaving-pattern.hpp,          *)
(* param-weaving-pattern.hpp, turnout-system.hpp, lib/hetero-data.hpp).    *)
(*                                                                         *)
(* The recursive calls become a stack of frames per worker, the outermost  *)
(* first; a frame is the Feed on the C++ stack plus the place in the call. *)
(* The chain of parameter blocks in a TurnoutSystem is a sequence of the   *)
(* frames (by depth) that hold the block.  A step makes at most one call   *)
(* into the provider, which "is assumed to run within a threadsafe         *)
(* environment" (buffer-provider.hpp).                                     *)
(***************************************************************************)
EXTENDS BufferMetadata

CONSTANTS Workers,
          Ports,
          Kind,        \* [Ports -> {"media", "param"}]
          Lead,        \* [Ports -> Seq(Ports)]: leadPort_; of "param": the delegate
          Outs,        \* [Ports -> Nat]: outTypes_.size()
          ResultSlot,  \* [Ports -> Nat]: resultSlot_, counted from 1
          Segment,     \* [Ports -> Nat]: position of the param block, by its type
          Root,        \* the port pulled
          MayFail,     \* processing and parameter functions, allocation may throw
          MaxCalls     \* bound: top-level calls of all workers

ASSUME WeavingAssumption ==
  /\ Kind \in [Ports -> {"media", "param"}] /\ Lead \in [Ports -> Seq(Ports)]
  /\ Outs \in [Ports -> Nat] /\ ResultSlot \in [Ports -> Nat]
  /\ Segment \in [Ports -> Nat] /\ Root \in Ports
  /\ \A p \in Ports : IF Kind[p] = "media" THEN ResultSlot[p] \in 1..Outs[p]
                      ELSE Lead[p] # << >>
  /\ MayFail \in BOOLEAN /\ MaxCalls \in Nat

VARIABLES bp,          \* the provider
          stack,       \* [Workers -> Seq(frame)]: active weave() calls
          chain,       \* [Workers -> Seq(Nat)]: param blocks of the TurnoutSystem
          given,       \* [Workers -> Handle]: outBuff of the top-level call
          result,      \* [Workers -> Handle]: what the last call returned
          outcome,     \* [Workers -> ...]: of the last call
          lost,        \* history: buffers in the slots of unwound frames
          calls

vars == <<bp, stack, chain, given, result, outcome, lost, calls>>

\* Mount: the Feed of a new weave() call.
Feed(port, out) == [port |-> port, phase |-> "pull", in |-> << >>,
                    out |-> << >>, outBuff |-> out, freed |-> 0, emitted |-> 0]

Depth(w) == Len(stack[w])
Top(w) == stack[w][Depth(w)]
Active(w) == outcome[w] = "running"
At(w, kind, phase) == Active(w) /\ Kind[Top(w).port] = kind /\ Top(w).phase = phase

SetTop(w, f) == stack' = [stack EXCEPT ![w][Depth(w)] = f]
Call(w, f) == stack' = [stack EXCEPT ![w] = Append(@, f)]

NewBuff == [block |-> NextBlock(bp), ptr |-> TRUE]

Init ==
  /\ bp = NoProvider
  /\ stack = [w \in Workers |-> << >>] /\ chain = [w \in Workers |-> << >>]
  /\ given = [w \in Workers |-> NullHandle]
  /\ result = [w \in Workers |-> NullHandle]
  /\ outcome = [w \in Workers |-> "idle"]
  /\ lost = {} /\ calls = 0

-----------------------------------------------------------------------------

\* A new TurnoutSystem and a call of Port::weave().  ProcNode::pull() passes
\* the output buffer the caller has locked; without one, weave() is called
\* directly.  (An invalid handle would be used by the code and fail later; a
\* caller gives none.)
Pull(w, withBuff) ==
  /\ outcome[w] = "idle" /\ calls < MaxCalls
  /\ withBuff => CanCreate(bp)
  /\ LET out == IF withBuff THEN NewBuff ELSE NullHandle
     IN  /\ bp' = IF withBuff THEN LockBuffer(bp, "RAW", TRUE) ELSE bp
         /\ given' = [given EXCEPT ![w] = out]
         /\ stack' = [stack EXCEPT ![w] = <<Feed(Root, out)>>]
  /\ chain' = [chain EXCEPT ![w] = << >>]
  /\ outcome' = [outcome EXCEPT ![w] = "running"]
  /\ calls' = calls + 1
  /\ UNCHANGED <<result, lost>>

\* The caller releases the result, or after a failure the buffer it gave.
Conclude(w) ==
  LET h == IF outcome[w] = "done" THEN result[w] ELSE given[w]
  IN  /\ outcome[w] \in {"done", "failed"}
      /\ bp' = IF h.ptr THEN ReleaseBuffer(bp, h.block) ELSE bp
      /\ result' = [result EXCEPT ![w] = NullHandle]
      /\ given' = [given EXCEPT ![w] = NullHandle]
      /\ outcome' = [outcome EXCEPT ![w] = "idle"]
      /\ UNCHANGED <<stack, chain, lost, calls>>

\* Return of weave() with handle h: to the caller's frame, or to the outside.
Return(w, h) ==
  IF Depth(w) = 1
  THEN /\ stack' = [stack EXCEPT ![w] = << >>]
       /\ result' = [result EXCEPT ![w] = h]
       /\ outcome' = [outcome EXCEPT ![w] = "done"]
  ELSE LET caller == stack[w][Depth(w) - 1]
           got == IF Kind[caller.port] = "media"
                  THEN [caller EXCEPT !.in = Append(@, h)]
                  ELSE [caller EXCEPT !.outBuff = h, !.phase = "fix"]
       IN  /\ stack' = [stack EXCEPT ![w] = Append(SubSeq(@, 1, Depth(w) - 2), got)]
           /\ UNCHANGED <<result, outcome>>

-----------------------------------------------------------------------------
(* The media weaving pattern.                                              *)

\* pull(): weave the next lead port.
PullLead(w) ==
  /\ At(w, "media", "pull") /\ Len(Top(w).in) < Len(Lead[Top(w).port])
  /\ Call(w, Feed(Lead[Top(w).port][Len(Top(w).in) + 1], NullHandle))
  /\ UNCHANGED <<bp, chain, given, result, outcome, lost, calls>>

\* Is the given buffer used for the next output slot of frame f?
TakesGiven(f) == Len(f.out) + 1 = ResultSlot[f.port] /\ f.outBuff.ptr

\* shed(): the next output slot; after the last one, connect().
Shed(w) ==
  LET f == Top(w)
      buff == IF TakesGiven(f) THEN f.outBuff ELSE NewBuff
  IN  /\ At(w, "media", "pull")
      /\ Len(f.in) = Len(Lead[f.port])
      /\ TakesGiven(f) \/ CanCreate(bp)
      /\ bp' = IF TakesGiven(f) THEN bp ELSE LockBuffer(bp, "RAW", TRUE)
      /\ SetTop(w, [f EXCEPT !.out = Append(@, buff),
                             !.phase = IF Len(f.out) + 1 = Outs[f.port]
                                       THEN "weft" ELSE "pull"])
      /\ UNCHANGED <<chain, given, result, outcome, lost, calls>>

\* weft(): the processing function reads the inputs, writes the outputs.
Weft(w) ==
  /\ At(w, "media", "weft")
  /\ SetTop(w, [Top(w) EXCEPT !.phase = "fix"])
  /\ UNCHANGED <<bp, chain, given, result, outcome, lost, calls>>

\* Mutant: the inputs are not released.
KeepInput(w) ==
  LET f == Top(w)
  IN  /\ At(w, "media", "fix") /\ f.freed < Len(f.in)
      /\ SetTop(w, [f EXCEPT !.freed = @ + 1])
      /\ UNCHANGED <<bp, chain, given, result, outcome, lost, calls>>

\* fix(): release the next input, after the last one turn to the outputs.
ReleaseInput(w) ==
  LET f == Top(w)
  IN  /\ At(w, "media", "fix") /\ f.freed < Len(f.in)
      /\ bp' = ReleaseBuffer(bp, f.in[f.freed + 1].block)
      /\ SetTop(w, [f EXCEPT !.freed = @ + 1])
      /\ UNCHANGED <<chain, given, result, outcome, lost, calls>>

\* Mutant: all outputs but the result are emitted.
EmitOthers(w) ==
  LET f == Top(w)
      i == f.emitted + 1
  IN  /\ At(w, "media", "fix") /\ f.freed = Len(f.in) /\ i <= Len(f.out)
      /\ bp' = IF i = ResultSlot[f.port] THEN bp ELSE EmitBuffer(bp, f.out[i].block)
      /\ SetTop(w, IF i = ResultSlot[f.port] THEN [f EXCEPT !.emitted = i]
                   ELSE [f EXCEPT !.phase = "drop"])
      /\ UNCHANGED <<chain, given, result, outcome, lost, calls>>

\* emit the next output, to be released unless it is the result.
EmitOutput(w) ==
  LET f == Top(w)
      i == f.emitted + 1
  IN  /\ At(w, "media", "fix") /\ f.freed = Len(f.in) /\ i <= Len(f.out)
      /\ bp' = EmitBuffer(bp, f.out[i].block)
      /\ SetTop(w, IF i = ResultSlot[f.port] THEN [f EXCEPT !.emitted = i]
                   ELSE [f EXCEPT !.phase = "drop"])
      /\ UNCHANGED <<chain, given, result, outcome, lost, calls>>

ReleaseOutput(w) ==
  LET f == Top(w)
      i == f.emitted + 1
  IN  /\ At(w, "media", "drop")
      /\ bp' = ReleaseBuffer(bp, f.out[i].block)
      /\ SetTop(w, [f EXCEPT !.emitted = i, !.phase = "fix"])
      /\ UNCHANGED <<chain, given, result, outcome, lost, calls>>

\* return the result's handle.
FixReturn(w) ==
  /\ At(w, "media", "fix")
  /\ Top(w).freed = Len(Top(w).in) /\ Top(w).emitted = Len(Top(w).out)
  /\ Return(w, Top(w).out[ResultSlot[Top(w).port]])
  /\ UNCHANGED <<bp, chain, given, lost, calls>>

-----------------------------------------------------------------------------
(* The parameter weaving pattern.                                          *)

\* pull() and shed(): evaluate the parameters and link the block into the
\* chain; checkedTraversal() asserts that the block is the next segment, as
\* the types of a well-formed network demand: the MC network complies.  The
\* post-processing, which changes parameter data only, belongs to this step.
Attach(w) ==
  /\ At(w, "param", "pull")
  /\ Segment[Top(w).port] = Len(chain[w]) + 1
  /\ chain' = [chain EXCEPT ![w] = Append(@, Depth(w))]
  /\ SetTop(w, [Top(w) EXCEPT !.phase = "weft"])
  /\ UNCHANGED <<bp, given, result, outcome, lost, calls>>

\* Mutant: the output buffer is not handed on to the delegate.
DelegateFresh(w) ==
  /\ At(w, "param", "weft")
  /\ Call(w, Feed(Lead[Top(w).port][1], NullHandle))
  /\ UNCHANGED <<bp, chain, given, result, outcome, lost, calls>>

\* weft(): weave the delegate, handing on the output buffer.
Delegate(w) ==
  /\ At(w, "param", "weft")
  /\ Call(w, Feed(Lead[Top(w).port][1], Top(w).outBuff))
  /\ UNCHANGED <<bp, chain, given, result, outcome, lost, calls>>

\* Mutant: the chain stays as it is.
KeepLinked(w) == chain[w]

\* checkedDetach(): sever the chain at the link to this frame's block.
Severed(w) == SubSeq(chain[w], 1, Segment[Top(w).port] - 1)

\* fix(): detach the block, return the delegate's result.
Detach(w) ==
  /\ At(w, "param", "fix")
  /\ chain' = [chain EXCEPT ![w] = Severed(w)]
  /\ Return(w, Top(w).outBuff)
  /\ UNCHANGED <<bp, given, lost, calls>>

\* The buffers in the slots of a frame.
Slots(f) == {h.block : h \in Range(f.in) \union Range(f.out)}

\* An exception leaves all frames, none of which handles it: thrown by the
\* parameter functors in mount() or pull(), the post-processing in shed(), the
\* processing function, or because a buffer can not be had.
Throw(w) ==
  /\ MayFail
  /\ \/ At(w, "param", "pull") \/ At(w, "param", "weft")
     \/ At(w, "media", "weft")
     \/ At(w, "media", "pull") /\ Len(Top(w).in) \in {0, Len(Lead[Top(w).port])}
  /\ stack' = [stack EXCEPT ![w] = << >>]
  /\ outcome' = [outcome EXCEPT ![w] = "failed"]
  /\ lost' = lost \union ((UNION {Slots(stack[w][k]) : k \in 1..Depth(w)})
                            \ {given[w].block})
  /\ UNCHANGED <<bp, chain, given, result, calls>>

Step(w) ==
  \/ PullLead(w) \/ Shed(w) \/ Weft(w)
  \/ ReleaseInput(w) \/ EmitOutput(w) \/ ReleaseOutput(w) \/ FixReturn(w)
  \/ Attach(w) \/ Delegate(w) \/ Detach(w)

Next ==
  \E w \in Workers :
     (\E b \in BOOLEAN : Pull(w, b)) \/ Conclude(w) \/ Step(w) \/ Throw(w)

Spec == Init /\ [][Next]_vars

-----------------------------------------------------------------------------

\* All buffers worker w refers to.
Held(w) ==
  (UNION {Slots(stack[w][k]) \union {stack[w][k].outBuff.block} : k \in 1..Depth(w)})
     \union {result[w].block, given[w].block}

\* The processing function gets usable buffers only: each input was emitted
\* by the port that calculated it and is not released, each output is locked,
\* and no buffer is also in a slot of another active frame, of this or of
\* another worker (media-weaving-pattern.hpp pull, shed and weft).
ReadyToProcess ==
  \A w \in Workers : At(w, "media", "weft") =>
     LET f == Top(w) IN
     /\ \A h \in Range(f.in) : IsValid(bp, h) /\ bp.table[h.block].state = "EMITTED"
     /\ \A h \in Range(f.out) : IsValid(bp, h) /\ bp.table[h.block].state = "LOCKED"
     /\ IsInjective(f.in \o f.out)
     /\ \A v \in Workers : \A k \in 1..Depth(v) :
           v # w \/ k # Depth(w) => Slots(stack[v][k]) \intersect Slots(f) = {}

\* What is locked belongs to an active call or is a result not consumed yet:
\* when a call returns, all other buffers are released (buffer-provider.cpp:
\* "Client code is required to release each previously locked buffer
\* eventually").  Only an exception leaves buffers behind: nobody releases
\* those in the slots of the frames it unwinds (feed-manifold.hpp: "nothing
\* will be done for the BuffHandle elements").
NothingLeaked == DOMAIN bp.table \subseteq (UNION {Held(w) : w \in Workers}) \union lost

\* A caller that passes an output buffer gets the result in that buffer, and
\* in emitted state, also through parameter nodes.
ResultInGivenBuffer ==
  \A w \in Workers : outcome[w] = "done" =>
     /\ IsValid(bp, result[w]) /\ bp.table[result[w].block].state = "EMITTED"
     /\ given[w].ptr => result[w] = given[w]

\* The parameter blocks linked into a TurnoutSystem are those of the frames
\* that evaluate their delegate, in call order: no accessor reaches a block
\* that is out of scope.
ChainInScope ==
  \A w \in Workers : Active(w) =>
     /\ Range(chain[w]) = {k \in 1..Depth(w) : Kind[stack[w][k].port] = "param"
                                               /\ stack[w][k].phase # "pull"}
     /\ \A i, j \in DOMAIN chain[w] : i < j => chain[w][i] < chain[w][j]
=============================================================================
