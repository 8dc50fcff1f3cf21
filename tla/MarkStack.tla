------------------------------ MODULE MarkStack ------------------------------
(***************************************************************************)
(* How marking ends in the concurrent copying collector                    *)
(* (runtime/gc/collector/concurrent_copying.cc), with the processing of    *)
(* java.lang.ref.References that follows it (runtime/gc/                   *)
(* reference_processor.cc, reference_queue.cc).                            *)
(*                                                                         *)
(* Mutators mark what they read out of gray objects and push it onto mark  *)
(* stacks: thread-local ones first, then the shared one, then none, when   *)
(* the mark stack belongs to the collector alone.                          *)
(*                                                                         *)
(* Objects are in unevacuated regions, so the gray bit of the lock word    *)
(* and the mark bitmap together say whether one is marked.  An object has  *)
(* one field.  There is one soft or weak Reference, reachable by every     *)
(* mutator, whose field is its referent, and one FinalizerReference.  A    *)
(* checkpoint reaches a mutator between its operations: Checkpoints and    *)
(* EmptyCheckpoint model how.  A scan is one step: what a mutator does     *)
(* between its accesses commutes with it.                                  *)
(***************************************************************************)
EXTENDS Naturals, FiniteSets, Functions

CONSTANTS
  Mutators,    \* the mutator threads
  Objects      \* the objects of the heap, the Reference apart

Null == "null"
Reference == "reference"
Heap == Objects \cup {Reference}

\* Null is no object, and the Reference is not counted among them.
ASSUME ObjectsAssumption == Null \notin Objects /\ Reference \notin Objects

VARIABLES
  field,       \* the field of each object, the referent of the Reference
  roots,       \* what each mutator holds
  gray,        \* the objects whose read barrier state is gray
  marked,      \* the objects set in the mark bitmap
  mode,        \* mark_stack_mode_
  local,       \* the thread-local mark stacks
  revoked,     \* what is on revoked_mark_stacks_
  gcStack,     \* gc_mark_stack_
  enabled,     \* the mutators with weak_ref_access_enabled
  marking,     \* the mutators with is_gc_marking
  pc, ref,     \* where each mutator is, and the reference its read is about
  soft,        \* is the Reference a SoftReference to preserve
  pending,     \* is it on a reference queue (pendingNext # null)
  finalizee,   \* the referent of the FinalizerReference
  processing,  \* ReferenceProcessor: collector_ # nullptr
  preserving,  \* preserving_references_
  phase,       \* what the collector is processing the mark stack for
  gc,          \* where it is
  todo, hand,  \* what it has taken from the stacks, what it is scanning
  counted,     \* ProcessMarkStackOnce: count # 0
  emptyPrev,   \* ProcessMarkStack: empty_prev
  awaited      \* the mutators a checkpoint has not reached yet

heap == <<field, roots>>
colours == <<gray, marked>>
stacks == <<mode, local, revoked, gcStack>>
flags == <<enabled, marking>>
mutators == <<pc, ref>>
references == <<soft, pending, finalizee, processing, preserving>>
pass == <<todo, hand, counted, emptyPrev>>
collector == <<phase, gc, pass, awaited>>
vars == <<heap, colours, stacks, flags, mutators, references, collector>>

Marked(o) == o \in gray \/ o \in marked

\* The thread flip has marked the roots of the mutators.
Init ==
  /\ field \in [Heap -> Objects \cup {Null}]
  /\ roots \in [Mutators -> SUBSET Objects]
  /\ gray = (UNION Range(roots)) \cup {Reference} /\ marked = {}
  /\ mode = "ThreadLocal"
  /\ local = [t \in Mutators |-> {}] /\ revoked = {} /\ gcStack = gray
  /\ enabled = Mutators /\ marking = Mutators
  /\ pc = [t \in Mutators |-> "run"] /\ ref = [t \in Mutators |-> Null]
  /\ soft \in BOOLEAN /\ pending = FALSE /\ finalizee \in Objects \cup {Null}
  /\ processing = FALSE /\ preserving = FALSE
  /\ phase = "local" /\ gc = "pass" /\ todo = {} /\ hand = Null
  /\ counted = FALSE /\ emptyPrev = FALSE /\ awaited = {}

-----------------------------------------------------------------------------
(* Mutators                                                                *)

At(t, label, o) == pc' = [pc EXCEPT ![t] = label] /\ ref' = [ref EXCEPT ![t] = o]

\* The reference is the mutator's.
Got(t, o) ==
  /\ roots' = [roots EXCEPT ![t] = @ \cup {o}]
  /\ At(t, "run", Null)
  /\ UNCHANGED field

\* A read begins with the read barrier state of the holder, and of a Reference
\* only with weak reference access.
ReadState(t) ==
  /\ pc[t] = "run"
  /\ \E o \in roots[t] \cup (IF t \in enabled THEN {Reference} ELSE {}) :
       At(t, IF o \in gray /\ t \in marking THEN "loadMark" ELSE "load", o)
  /\ UNCHANGED <<heap, colours, stacks, flags, references, collector>>

Load(t) ==
  /\ pc[t] \in {"load", "loadMark"}
  /\ LET o == field[ref[t]]
     IN  \/ o = Null /\ At(t, "run", Null) /\ UNCHANGED heap
         \/ o # Null /\ pc[t] = "load" /\ Got(t, o)
         \/ o # Null /\ pc[t] = "loadMark" /\ At(t, "test", o) /\ UNCHANGED heap
  /\ UNCHANGED <<colours, stacks, flags, references, collector>>

\* MarkUnevacFromSpaceRegion: the bitmap, then the gray bit, then the stack.
TestBitmap(t) ==
  /\ pc[t] = "test"
  /\ IF ref[t] \in marked THEN Got(t, ref[t]) ELSE At(t, "gray", ref[t]) /\ UNCHANGED heap
  /\ UNCHANGED <<colours, stacks, flags, references, collector>>

\* Mutant: the object is pushed whether or not this thread made it gray.
SetGrayAlways(t) ==
  /\ pc[t] = "gray"
  /\ At(t, "push", ref[t])
  /\ gray' = gray \cup {ref[t]}
  /\ UNCHANGED <<heap, marked, stacks, flags, references, collector>>

\* AtomicSetReadBarrierState; the thread it succeeds for pushes.
SetGray(t) ==
  /\ pc[t] = "gray"
  /\ IF ref[t] \in gray THEN Got(t, ref[t]) ELSE At(t, "push", ref[t]) /\ UNCHANGED heap
  /\ gray' = gray \cup {ref[t]}
  /\ UNCHANGED <<marked, stacks, flags, references, collector>>

\* PushOntoMarkStack reads the mode, then pushes.
ReadMode(t) ==
  /\ pc[t] = "push" /\ mode \in {"ThreadLocal", "Shared"}
  /\ At(t, mode, ref[t])
  /\ UNCHANGED <<heap, colours, stacks, flags, references, collector>>

\* A full thread-local mark stack joins the revoked ones, and a new one takes
\* its place: any that is not empty may be full.
PushOntoMarkStack(t) ==
  /\ \/ /\ pc[t] = "ThreadLocal"
        /\ local' = [local EXCEPT ![t] = @ \cup {ref[t]}] /\ UNCHANGED <<revoked, gcStack>>
     \/ /\ pc[t] = "ThreadLocal" /\ local[t] # {}
        /\ revoked' = revoked \cup local[t]
        /\ local' = [local EXCEPT ![t] = {ref[t]}] /\ UNCHANGED gcStack
     \/ /\ pc[t] = "Shared"
        /\ gcStack' = gcStack \cup {ref[t]} /\ UNCHANGED <<local, revoked>>
  /\ Got(t, ref[t])
  /\ UNCHANGED <<colours, mode, flags, references, collector>>

\* Mutant: a referent that is being preserved is returned while its own
\* referents may not be marked yet.
GetReferentPreserved(t) ==
  /\ pc[t] = "run" /\ t \notin enabled
  /\ field[Reference] # Null /\ processing /\ Marked(field[Reference])
  /\ Got(t, field[Reference])
  /\ UNCHANGED <<colours, stacks, flags, references, collector>>

\* ReferenceProcessor::GetReferent without weak reference access: the referent
\* is returned once it is known to stay; the other cases return null or wait.
GetReferent(t) ==
  /\ pc[t] = "run" /\ t \notin enabled
  /\ field[Reference] # Null /\ processing /\ Marked(field[Reference])
  /\ preserving => ~pending
  /\ Got(t, field[Reference])
  /\ UNCHANGED <<colours, stacks, flags, references, collector>>

\* Reference.clear waits for weak reference access.
ClearReferent(t) ==
  /\ pc[t] = "run" /\ t \in enabled
  /\ field' = [field EXCEPT ![Reference] = Null]
  /\ UNCHANGED <<roots, colours, stacks, flags, mutators, references, collector>>

\* A mutator writes one of its references, or null.  What it holds it keeps.
Write(t) ==
  /\ pc[t] = "run"
  /\ \E o \in roots[t], r \in roots[t] \cup {Null} : field' = [field EXCEPT ![o] = r]
  /\ UNCHANGED <<roots, colours, stacks, flags, mutators, references, collector>>

-----------------------------------------------------------------------------
(* Checkpoints: the collector asks, then waits for every mutator           *)

Ask(label) == gc' = label /\ awaited' = Mutators

Answer(t, labels) ==
  /\ gc \in labels /\ t \in awaited /\ pc[t] = "run"
  /\ awaited' = awaited \ {t}
  /\ UNCHANGED <<heap, colours, mode, gcStack, mutators, references, phase, gc, pass>>

\* RevokeThreadLocalMarkStackCheckpoint.
Revoke(t) ==
  /\ Answer(t, {"revoke", "revokeWeak"})
  /\ revoked' = revoked \cup local[t]
  /\ local' = [local EXCEPT ![t] = {}]
  /\ enabled' = IF gc = "revokeWeak" THEN enabled \ {t} ELSE enabled
  /\ UNCHANGED marking

EmptyCheckpoint(t) ==
  /\ Answer(t, {"empty"})
  /\ UNCHANGED <<local, revoked, flags>>

\* DisableMarkingCheckpoint.
DisableMarkingCheckpoint(t) ==
  /\ Answer(t, {"disable"})
  /\ marking' = marking \ {t}
  /\ UNCHANGED <<local, revoked, enabled>>

-----------------------------------------------------------------------------
(* The collector: the mark stack                                           *)

AllAnswered == awaited = {}
mutatorState == <<heap, flags, mutators>>

\* Mark on the collector's thread, which pushes onto its own stack.
Mark(o) ==
  IF o = Null \/ Marked(o) THEN UNCHANGED <<gray, gcStack>>
  ELSE gray' = gray \cup {o} /\ gcStack' = gcStack \cup {o}

\* Mutant: no empty checkpoint in the shared mode.
StartPassUnchecked ==
  /\ gc = "pass"
  /\ counted' = FALSE
  /\ IF mode = "ThreadLocal" THEN Ask("revoke") ELSE gc' = "drain" /\ UNCHANGED awaited
  /\ UNCHANGED <<mutatorState, colours, stacks, references, phase, todo, hand, emptyPrev>>

\* ProcessMarkStackOnce: what it does first depends on the mode.
StartPass ==
  /\ gc = "pass"
  /\ counted' = FALSE
  /\ CASE mode = "ThreadLocal" -> Ask("revoke")
       [] mode = "Shared" -> Ask("empty")
       [] mode = "GcExclusive" -> gc' = "drain" /\ UNCHANGED awaited
  /\ UNCHANGED <<mutatorState, colours, stacks, references, phase, todo, hand, emptyPrev>>

\* ProcessThreadLocalMarkStacks, after the checkpoint.
TakeRevoked ==
  /\ gc \in {"revoke", "revokeWeak"} /\ AllAnswered
  /\ gc' = "drain" /\ todo' = revoked /\ revoked' = {}
  /\ UNCHANGED <<mutatorState, colours, mode, local, gcStack, references, phase, hand, counted,
                 emptyPrev, awaited>>

EmptyCheckpointDone ==
  /\ gc = "empty" /\ AllAnswered
  /\ gc' = "drain"
  /\ UNCHANGED <<mutatorState, colours, stacks, references, phase, pass, awaited>>

\* The next object: one already taken, or popped off the collector's stack.
\* The shared stack is taken whole, under its lock.
TakeNext(o) == gc' = "scan" /\ hand' = o /\ counted' = TRUE
Pop ==
  /\ gc = "drain"
  /\ \/ \E o \in todo : TakeNext(o) /\ todo' = todo \ {o} /\ UNCHANGED gcStack
     \/ /\ todo = {} /\ phase # "switch" /\ mode # "Shared"
        /\ \E o \in gcStack : TakeNext(o) /\ gcStack' = gcStack \ {o} /\ UNCHANGED todo
     \/ /\ todo = {} /\ phase # "switch" /\ mode = "Shared" /\ gcStack # {}
        /\ todo' = gcStack /\ gcStack' = {} /\ UNCHANGED <<gc, hand, counted>>
  /\ UNCHANGED <<mutatorState, colours, mode, local, revoked, references, phase, emptyPrev, awaited>>

\* Mutant: the object is changed to non-gray before its field is marked.
ScanNonGray ==
  /\ gc = "scan"
  /\ marked' = marked \cup {hand}
  /\ gray' = gray \ {hand}
  /\ IF hand # Reference /\ hand \notin marked /\ field[hand] # Null
     THEN todo' = todo \cup {field[hand]} ELSE UNCHANGED todo
  /\ gc' = "ungray"
  /\ UNCHANGED <<mutatorState, stacks, references, phase, hand, counted, emptyPrev, awaited>>

\* A Reference with an unmarked referent is put on a reference queue.
DelayReferenceReferent(o) == pending' = (o # Null /\ ~Marked(o))

\* ProcessMarkStackRef sets the bitmap and scans, unless the object was scanned
\* before.  The referent of a Reference is not marked but delayed.
Scan ==
  /\ gc = "scan" /\ gc' = "ungray"
  /\ marked' = marked \cup {hand}
  /\ LET o == field[hand]
     IN  \/ hand \in marked /\ UNCHANGED <<gray, gcStack, pending>>
         \/ hand \notin marked /\ hand # Reference /\ Mark(o) /\ UNCHANGED pending
         \/ hand \notin marked /\ hand = Reference /\ DelayReferenceReferent(o)
                               /\ UNCHANGED <<gray, gcStack>>
  /\ UNCHANGED <<mutatorState, mode, local, revoked, soft, finalizee, processing, preserving,
                 phase, pass, awaited>>

\* The object becomes non-gray, except a Reference with an unmarked referent:
\* it stays gray, so that reading it marks the referent.
Ungray ==
  /\ gc = "ungray" /\ gc' = "drain"
  /\ gray' = IF hand = Reference /\ field[hand] # Null /\ ~Marked(field[hand])
             THEN gray ELSE gray \ {hand}
  /\ hand' = Null
  /\ UNCHANGED <<mutatorState, marked, stacks, references, phase, todo, counted, emptyPrev, awaited>>

\* ProcessMarkStack ends after two empty passes in a row.
EndPass ==
  /\ gc = "drain" /\ todo = {} /\ gcStack = {} /\ phase # "switch"
  /\ IF emptyPrev /\ ~counted THEN gc' = "processed" /\ emptyPrev' = FALSE
     ELSE gc' = "pass" /\ emptyPrev' = ~counted
  /\ UNCHANGED <<mutatorState, colours, stacks, references, phase, todo, hand, counted, awaited>>

SwitchToSharedMarkStackMode ==
  /\ gc = "processed" /\ phase = "local" /\ phase' = "switch"
  /\ mode' = "Shared"
  /\ Ask("revokeWeak")
  /\ UNCHANGED <<mutatorState, colours, local, revoked, gcStack, references, pass>>

SwitchedToSharedMarkStackMode ==
  /\ gc = "drain" /\ phase = "switch" /\ todo = {}
  /\ gc' = "pass" /\ phase' = "shared"
  /\ UNCHANGED <<mutatorState, colours, stacks, references, pass, awaited>>

SwitchToGcExclusiveMarkStackMode ==
  /\ gc = "processed" /\ phase = "shared" /\ phase' = "soft" /\ gc' = "start"
  /\ mode' = "GcExclusive"
  /\ UNCHANGED <<mutatorState, colours, local, revoked, gcStack, references, pass, awaited>>

-----------------------------------------------------------------------------
(* The collector: reference processing                                     *)

\* The collector is set and preserving begins under reference_processor_lock_,
\* but not in one critical section: GetReferent may run in between.
ProcessReferences ==
  /\ gc = "start" /\ gc' = "preserve"
  /\ processing' = TRUE
  /\ UNCHANGED <<mutatorState, colours, stacks, soft, pending, finalizee, preserving, phase, pass, awaited>>

StartPreservingReferences ==
  /\ gc = "preserve" /\ gc' = "keep"
  /\ preserving' = TRUE
  /\ UNCHANGED <<mutatorState, colours, stacks, soft, pending, finalizee, processing, phase, pass, awaited>>

\* clear_soft_references: nothing is preserved, soft references are weak ones.
ClearSoftReferences ==
  /\ gc = "preserve" /\ phase = "soft" /\ ~soft /\ gc' = "clear"
  /\ UNCHANGED <<mutatorState, colours, stacks, references, phase, pass, awaited>>

\* The referents kept: those of soft references, then the finalizable ones.
ForwardSoftReferences ==
  /\ gc = "keep" /\ phase = "soft" /\ gc' = "pass"
  /\ IF soft /\ pending THEN Mark(field[Reference]) ELSE UNCHANGED <<gray, gcStack>>
  /\ UNCHANGED <<mutatorState, marked, mode, local, revoked, references, phase, pass, awaited>>

EnqueueFinalizerReferences ==
  /\ gc = "keep" /\ phase = "finalizer" /\ gc' = "pass"
  /\ Mark(finalizee)
  /\ finalizee' = IF Marked(finalizee) THEN finalizee ELSE Null
  /\ UNCHANGED <<mutatorState, marked, mode, local, revoked, soft, pending, processing, preserving,
                 phase, pass, awaited>>

\* Mutant: soft references are preserved, and finalizable objects enqueued
\* before white references are cleared.
StopPreservingUncleared ==
  /\ gc = "processed" /\ phase \in {"soft", "finalizer"}
  /\ preserving' = FALSE
  /\ IF phase = "soft" THEN gc' = "preserve" /\ phase' = "finalizer" ELSE gc' = "clear" /\ UNCHANGED phase
  /\ UNCHANGED <<mutatorState, colours, stacks, soft, pending, finalizee, processing, pass, awaited>>

StopPreservingReferences ==
  /\ gc = "processed" /\ phase \in {"soft", "finalizer"} /\ gc' = "clear"
  /\ preserving' = FALSE
  /\ UNCHANGED <<mutatorState, colours, stacks, soft, pending, finalizee, processing, phase, pass, awaited>>

\* ReferenceQueue::ClearWhiteReferences: the Reference leaves its queue, and
\* goes to the cleared references if its referent is white.
ClearWhiteReferences ==
  /\ gc = "clear" /\ gc' = "disableBarrier"
  /\ LET white == pending /\ field[Reference] # Null /\ ~Marked(field[Reference])
     IN  /\ field' = IF white THEN [field EXCEPT ![Reference] = Null] ELSE field
         /\ pending' = IF phase = "soft" THEN white ELSE pending
  /\ UNCHANGED <<roots, flags, mutators, colours, stacks, soft, finalizee, processing, preserving,
                 phase, pass, awaited>>

\* DisableReadBarrierForReference; then finalizers, or the end of processing
\* and SweepSystemWeaks.
DisableReadBarrierForReference ==
  /\ gc = "disableBarrier"
  /\ gray' = gray \ {Reference}
  /\ IF phase = "soft" THEN phase' = "finalizer" /\ gc' = "preserve" /\ UNCHANGED processing
     ELSE phase' = "last" /\ gc' = "pass" /\ processing' = FALSE
  /\ UNCHANGED <<mutatorState, marked, stacks, soft, pending, finalizee, preserving, pass, awaited>>

\* The last ProcessMarkStack; then ReenableWeakRefAccess, thread by thread.
ReenableWeakRefAccess ==
  /\ gc = "processed" /\ phase = "last"
  /\ \/ \E t \in Mutators \ enabled : enabled' = enabled \cup {t} /\ UNCHANGED <<gc, awaited>>
     \/ enabled = Mutators /\ Ask("disable") /\ UNCHANGED enabled
  /\ UNCHANGED <<heap, marking, mutators, colours, stacks, references, phase, pass>>

\* DisableMarking, after its checkpoint.
DisableMarking ==
  /\ gc = "disable" /\ AllAnswered /\ gc' = "done"
  /\ mode' = "Off"
  /\ UNCHANGED <<mutatorState, colours, local, revoked, gcStack, references, phase, pass, awaited>>

-----------------------------------------------------------------------------
Read(t) ==
  \/ Load(t) \/ TestBitmap(t) \/ SetGray(t) \/ ReadMode(t) \/ PushOntoMarkStack(t)

Checkpoint(t) == Revoke(t) \/ EmptyCheckpoint(t) \/ DisableMarkingCheckpoint(t)

Collect ==
  \/ StartPass \/ TakeRevoked \/ EmptyCheckpointDone \/ Pop \/ Scan \/ Ungray \/ EndPass
  \/ SwitchToSharedMarkStackMode \/ SwitchedToSharedMarkStackMode
  \/ SwitchToGcExclusiveMarkStackMode
  \/ ProcessReferences \/ StartPreservingReferences \/ ClearSoftReferences
  \/ ForwardSoftReferences \/ EnqueueFinalizerReferences
  \/ StopPreservingReferences \/ ClearWhiteReferences \/ DisableReadBarrierForReference
  \/ ReenableWeakRefAccess \/ DisableMarking

Next ==
  \/ Collect
  \/ \E t \in Mutators :
       \/ ReadState(t) \/ Read(t) \/ GetReferent(t) \/ ClearReferent(t)
       \/ Write(t) \/ Checkpoint(t)

Spec == Init /\ [][Next]_vars

-----------------------------------------------------------------------------
(* Properties                                                              *)

\* The types of the heap, the colours, the mark stack mode and the threads' flags.
TypeOK ==
  /\ field \in [Heap -> Objects \cup {Null}] /\ roots \in [Mutators -> SUBSET Objects]
  /\ gray \subseteq Heap /\ marked \subseteq Heap
  /\ mode \in {"ThreadLocal", "Shared", "GcExclusive", "Off"}
  /\ enabled \subseteq Mutators /\ marking \subseteq Mutators /\ awaited \subseteq Mutators

\* Pushing: a mutator that has made an object gray and has not pushed it yet.
Pushing == {t \in Mutators : pc[t] \in {"push", "ThreadLocal", "Shared"}}

\* The CHECKs of PushOntoMarkStack: once the mark stack belongs to the collector
\* alone, and after marking, no mutator comes to push, whatever it had begun to
\* read before the mode changed and whatever GetReferent gives it since.
OnlyCollectorPushes == mode \in {"GcExclusive", "Off"} => Pushing = {}

\* Every gray object waits on exactly one mark stack, or in the hands of the
\* thread that is pushing or scanning it, so no gray object is forgotten and
\* ProcessMarkStackRef only meets gray ones.  (A delayed Reference is gray and
\* on no stack.)
Waiting == <<gcStack, revoked, todo, {hand} \ {Null}>>
GrayIsOnOneStack ==
  LET held(o) == Cardinality({i \in 1 .. 4 : o \in Waiting[i]})
                 + Cardinality({t \in Mutators : o \in local[t]})
                 + Cardinality({t \in Pushing : ref[t] = o})
  IN  /\ \A o \in Objects : held(o) = IF o \in gray THEN 1 ELSE 0
      /\ held(Reference) <= 1

\* The CHECKs of CheckEmptyMarkStack, and more: once the shared mark stack is
\* exhausted, and from then on after each ProcessMarkStack, no mutator has
\* anything left to push and nothing is gray but a delayed Reference.
MarkingConverges ==
  gc = "processed" /\ phase # "local" =>
    /\ gcStack = {} /\ revoked = {} /\ \A t \in Mutators : local[t] = {}
    /\ Pushing = {} /\ gray \subseteq {Reference}

\* The to-space invariant: what a mutator holds is marked, and so is what it
\* can read without a read barrier, in the face of writes, references cleared
\* by the collector and referents returned while weak access is disabled.
ToSpaceInvariant ==
  /\ \A t \in Mutators : \A o \in roots[t] : Marked(o)
  /\ \A o \in marked \ gray : field[o] = Null \/ Marked(field[o])

\* References to an object are cleared before it is handed to its finalizer:
\* an object first marked for finalization is not the referent of a soft or
\* weak Reference any more.
FinalizedAfterClearing ==
  [][phase = "finalizer" =>
       \A o \in Objects : Marked(o)' /\ ~Marked(o) => field'[Reference] # o]_vars

==============================================================================
