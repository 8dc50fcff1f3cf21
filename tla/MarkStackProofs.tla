--------------------------- MODULE MarkStackProofs ---------------------------
(***************************************************************************)
(* How marking ends, for any number of mutators and objects: every gray    *)
(* object is on one mark stack, ProcessMarkStack returns only when nothing *)
(* is left to mark, what mutators hold is marked, and references to an     *)
(* object are cleared before it goes to its finalizer.                     *)
(*                                                                         *)
(* None of this is inductive.  MarkInv adds, to types and labels: StackInv *)
(* says where gray objects are.  SwitchInv says what the checkpoint that   *)
(* revokes the thread-local stacks leaves behind: nobody pushes locally    *)
(* any more, and weak access is disabled until the end.  PassInv is why    *)
(* two passes are enough in the shared mode: in a pass that has scanned    *)
(* nothing yet, whatever is gray is still on its way from a mutator that   *)
(* the empty checkpoint waits for.  ColourInv and ReferenceInv are the     *)
(* to-space invariant with the places where the Reference is an exception  *)
(* to it.  ExclusiveInv says that while the mark stack is the collector's  *)
(* alone the mutators stay within a set of scanned objects, although the   *)
(* collector marks more for soft references and finalizers.                *)
(*                                                                         *)
(* The steps of a mutator are first reduced to what they do                *)
(* (MutatorEffects).  Then there is, for each part, one lemma for the      *)
(* mutators, one for the checkpoints and one for the collector.            *)
(***************************************************************************)
EXTENDS MarkStack, TLAPS

\* The prover of every leaf that names none.
USE ZenonT(60)

-----------------------------------------------------------------------------
(* The invariant                                                           *)

\* Where a mutator can be.
MutatorLabels == {"run", "load", "loadMark", "test", "gray", "push", "ThreadLocal", "Shared"}

\* The labels at which a mutator has nothing to mark.
Idle(t) == pc[t] \in {"run", "load"}

\* TypeOK, the types of the stacks and labels, and what each thread is busy with: a
\* mutator with a reference exactly while it reads, the collector with an object exactly
\* while it scans it.
Types ==
  /\ TypeOK
  /\ pc \in [Mutators -> MutatorLabels] /\ ref \in [Mutators -> Heap \cup {Null}]
  /\ \A t \in Mutators : ref[t] = Null <=> pc[t] = "run"
  /\ hand \in Heap \cup {Null} /\ (hand = Null <=> gc \notin {"scan", "ungray"})
  /\ local \in [Mutators -> SUBSET Objects] /\ revoked \subseteq Objects
  /\ gcStack \subseteq Heap /\ todo \subseteq Heap
  /\ finalizee \in Objects \cup {Null}

\* What a mutator reads from it holds, and what it marks is an object.
ReadAt(t) ==
  /\ pc[t] \in {"load", "loadMark"} => ref[t] \in roots[t] \cup {Reference}
  /\ pc[t] \in {"test", "gray", "push", "ThreadLocal", "Shared"} => ref[t] \in Objects
  /\ ref[t] = Reference => t \in enabled

\* The phases in which the mark stack is the collector's alone, and where it is while it
\* processes the mark stack.
Exclusive == {"soft", "finalizer", "last"}
Passing == {"pass", "drain", "scan", "ungray", "processed"}

\* Which mode and label go with which phase, and where the collector's locals are in use.
PhaseAt ==
  /\ phase \in {"local", "switch", "shared"} \cup Exclusive
  /\ phase = "local" => mode = "ThreadLocal" /\ gc \in Passing \cup {"revoke"}
  /\ phase = "switch" => mode = "Shared" /\ gc \in {"revokeWeak", "drain", "scan", "ungray"}
  /\ phase = "shared" => mode = "Shared" /\ gc \in Passing \cup {"empty"}
  /\ phase \in {"soft", "finalizer"} =>
       mode = "GcExclusive" /\ gc \in Passing \cup {"start", "preserve", "keep", "clear", "disableBarrier"}
  /\ phase = "last" =>
       /\ gc \in Passing \cup {"disable", "done"}
       /\ gc # "done" => mode = "GcExclusive"
       /\ gc = "done" => mode = "Off"
  /\ todo # {} => gc \in {"drain", "scan", "ungray"}
  /\ gc \in {"scan", "ungray"} => counted
  /\ awaited # {} => gc \in {"revoke", "revokeWeak", "empty", "disable"}
  /\ marking # Mutators => gc \in {"disable", "done"}
  /\ phase = "soft" /\ gc \in Passing \cup {"keep"} => preserving

\* A mutator has a gray object on its stack or is pushing it; the collector has it.
Pushes(t, o) == pc[t] \in {"push", "ThreadLocal", "Shared"} /\ ref[t] = o
MutatorHas(t, o) == o \in local[t] \/ Pushes(t, o)
CollectorHas(o) == o \in gcStack \/ o \in revoked \/ o \in todo \/ o = hand

\* Nobody has an object twice, and no two have it.
OnOneStack(o) ==
  /\ o \in gcStack => o \notin revoked /\ o \notin todo /\ o # hand
  /\ o \in revoked => o \notin todo /\ o # hand
  /\ o \in todo => o # hand
  /\ \A t \in Mutators : MutatorHas(t, o) =>
       /\ ~CollectorHas(o)
       /\ ~(o \in local[t] /\ Pushes(t, o))
       /\ \A u \in Mutators : MutatorHas(u, o) => u = t

\* The gray objects are those that someone has.
StackInv ==
  /\ \A o \in Heap : OnOneStack(o)
  /\ \A o \in Objects : o \in gray <=> CollectorHas(o) \/ \E t \in Mutators : MutatorHas(t, o)

\* A mutator has left the thread-local mode behind.
Left(t) == local[t] = {} /\ pc[t] # "ThreadLocal"

\* The switch to the shared mode: who has answered the checkpoint, and then everyone.
SwitchInv ==
  /\ gc = "revokeWeak" => \A t \in Mutators \ awaited : Left(t) /\ t \notin enabled
  /\ phase # "local" /\ gc # "revokeWeak" =>
       /\ revoked = {}
       /\ \A t \in Mutators : Left(t)
       /\ phase # "last" \/ gc \notin {"processed", "disable", "done"} => enabled = {}

\* What an object refers to is marked.
FieldMarked(x) == field[x] = Null \/ Marked(field[x])

\* What is held, scanned or about to be read without marking.
ColourInv ==
  /\ \A t \in Mutators : \A o \in roots[t] : Marked(o)
  /\ \A o \in marked \cap Objects : FieldMarked(o)
  /\ \A t \in Mutators : pc[t] = "load" => FieldMarked(ref[t])
  /\ gc = "ungray" => hand \in marked

\* The Reference: scanned before references are processed, gray while its referent may be
\* white, and cleared or with a marked referent once the barrier for it is disabled.
ReferenceInv ==
  /\ Reference \in gray \cup marked
  /\ Reference \in marked \/ Reference \in gcStack \/ Reference \in todo \/ Reference = hand
  /\ Reference \in marked /\ (Reference \notin gray \/ ~pending) => FieldMarked(Reference)
  /\ gc = "disableBarrier" => FieldMarked(Reference)
  /\ phase \in Exclusive => Reference \in marked
  /\ phase \in {"finalizer", "last"} => Reference \notin gray

\* Nothing is left to mark and nobody is about to mark anything.
Drained ==
  /\ gcStack = {} /\ gray \subseteq {Reference}
  /\ \A t \in Mutators : Idle(t)

\* What a pass over the shared mark stack knows, and what ProcessMarkStack leaves.
PassInv ==
  /\ phase = "shared" /\ gc \in {"empty", "drain"} /\ ~counted =>
       \/ gcStack # {} \/ todo # {}
       \/ awaited \cap Pushing # {}
       \/ gray \subseteq {Reference} /\ \A t \in Mutators \ awaited : Idle(t)
  /\ phase # "local" /\ gc \in {"processed", "start", "preserve", "clear", "disableBarrier",
                               "disable", "done"} => Drained

\* The mutators hold objects of S, and find objects of S in them: scanned ones.  The
\* referent is one of them too, or GetReferent does not return it yet.
Settled(S) ==
  /\ S \subseteq marked \ gray
  /\ \A o \in S : field[o] \in S \cup {Null}
  /\ \A t \in Mutators : roots[t] \subseteq S /\ Idle(t)
  /\ \/ field[Reference] \in S \cup {Null}
     \/ phase = "soft" /\ pending /\ (preserving \/ ~Marked(field[Reference]))

\* There is such a set while references are processed.
ExclusiveInv == phase \in Exclusive => \E S \in SUBSET Objects : Settled(S)

\* The inductive invariant.
MarkInv ==
  /\ Types /\ PhaseAt /\ StackInv /\ SwitchInv /\ ColourInv /\ ReferenceInv /\ PassInv
  /\ ExclusiveInv /\ \A t \in Mutators : ReadAt(t)

-----------------------------------------------------------------------------
(* What a step of a mutator does                                           *)

\* A mutator reads, writes or marks: every step of it but its checkpoints.
MutatorStep(t) ==
  \/ ReadState(t) \/ Read(t) \/ GetReferent(t) \/ ClearReferent(t) \/ Write(t)

\* What no such step changes.
MutatorFrame ==
  UNCHANGED <<marked, mode, enabled, marking, soft, pending, finalizee, processing,
              preserving, phase, gc, todo, hand, counted, emptyPrev, awaited>>

\* The mutator is at the label, with the reference; the others are where they were.
Moved(t, label, o) ==
  /\ pc' \in [Mutators -> MutatorLabels] /\ ref' \in [Mutators -> Heap \cup {Null}]
  /\ pc'[t] = label /\ ref'[t] = o
  /\ \A u \in Mutators \ {t} : pc'[u] = pc[u] /\ ref'[u] = ref[u]

\* It is back between its operations and holds one object more.
Gained(t, o) ==
  /\ Moved(t, "run", Null)
  /\ roots' \in [Mutators -> SUBSET Objects]
  /\ roots'[t] = roots[t] \cup {o}
  /\ \A u \in Mutators \ {t} : roots'[u] = roots[u]
  /\ UNCHANGED field

\* It starts a read, of what it holds or of the Reference, gray or not ...
Starts(t) ==
  /\ pc[t] = "run"
  /\ \E o \in Heap :
       /\ o \in roots[t] \/ (o = Reference /\ t \in enabled)
       /\ \/ o \in gray /\ Moved(t, "loadMark", o)
          \/ (o \notin gray \/ t \notin marking) /\ Moved(t, "load", o)
  /\ UNCHANGED <<field, roots, gray, local, revoked, gcStack>>

\* ... reads null ...
Drops(t) ==
  /\ pc[t] \in {"load", "loadMark"} /\ Moved(t, "run", Null)
  /\ UNCHANGED <<field, roots, gray, local, revoked, gcStack>>

\* ... goes on in the slow path of the read barrier ...
Advances(t) ==
  /\ \/ pc[t] = "loadMark" /\ \E o \in Objects : Moved(t, "test", o)
     \/ pc[t] = "test" /\ Moved(t, "gray", ref[t])
  /\ UNCHANGED <<field, roots, gray, local, revoked, gcStack>>

\* ... reads the mode of the mark stack ...
Chooses(t) ==
  /\ pc[t] = "push" /\ mode \in {"ThreadLocal", "Shared"} /\ Moved(t, mode, ref[t])
  /\ UNCHANGED <<field, roots, gray, local, revoked, gcStack>>

\* ... gets what it read, what it found marked, or the referent of the Reference ...
Gets(t) ==
  /\ \E o \in Objects :
       /\ \/ pc[t] = "load" /\ o = field[ref[t]]
          \/ pc[t] \in {"test", "gray"} /\ o = ref[t] /\ Marked(o)
          \/ /\ pc[t] = "run" /\ t \notin enabled /\ o = field[Reference] /\ Marked(o)
             /\ processing /\ (preserving => ~pending)
       /\ Gained(t, o)
  /\ UNCHANGED <<gray, local, revoked, gcStack>>

\* ... makes it gray ...
Grays(t) ==
  /\ pc[t] = "gray" /\ ref[t] \notin gray
  /\ Moved(t, "push", ref[t])
  /\ gray' = gray \cup {ref[t]}
  /\ UNCHANGED <<field, roots, local, revoked, gcStack>>

\* ... pushes it on its own stack, a new one if that is full, or on the shared one ...
PushesLocally(t) ==
  /\ pc[t] = "ThreadLocal" /\ Gained(t, ref[t])
  /\ local' \in [Mutators -> SUBSET Objects]
  /\ \/ local'[t] = local[t] \cup {ref[t]} /\ UNCHANGED revoked
     \/ local'[t] = {ref[t]} /\ revoked' = revoked \cup local[t]
  /\ \A u \in Mutators \ {t} : local'[u] = local[u]
  /\ UNCHANGED <<gray, gcStack>>

PushesShared(t) ==
  /\ pc[t] = "Shared" /\ Gained(t, ref[t])
  /\ gcStack' = gcStack \cup {ref[t]}
  /\ UNCHANGED <<gray, local, revoked>>

\* ... or writes one of its objects, or clears the Reference.
Stores(t) ==
  /\ pc[t] = "run"
  /\ field' \in [Heap -> Objects \cup {Null}]
  /\ \E o \in Heap :
       /\ \/ o \in roots[t] /\ field'[o] \in roots[t] \cup {Null}
          \/ o = Reference /\ t \in enabled /\ field'[o] = Null
       /\ \A x \in Heap \ {o} : field'[x] = field[x]
  /\ UNCHANGED <<roots, gray, local, revoked, gcStack, pc, ref>>

\* A step of a mutator, by what it does.
MutatorEffect(t) ==
  /\ MutatorFrame
  /\ \/ Starts(t) \/ Drops(t) \/ Advances(t) \/ Chooses(t) \/ Gets(t) \/ Grays(t)
     \/ PushesLocally(t) \/ PushesShared(t) \/ Stores(t)

\* The label and the reference of a thread are all that its next stop changes.
LEMMA AtMoves ==
  ASSUME Types, NEW t \in Mutators, NEW label \in MutatorLabels, NEW o \in Heap \cup {Null},
         At(t, label, o)
  PROVE  Moved(t, label, o)
  BY DEF At, Moved, Types, TypeOK

\* A read that ends adds one object to what the thread holds.
LEMMA GotGains ==
  ASSUME Types, NEW t \in Mutators, NEW o \in Objects, Got(t, o)
  PROVE  Gained(t, o)
  <1>1. "run" \in MutatorLabels /\ Null \in Heap \cup {Null}
    BY DEF MutatorLabels
  <1>2. At(t, "run", Null)
    BY DEF Got
  <1>3. Moved(t, "run", Null)
    BY <1>1, <1>2, AtMoves
  <1>4. roots \in [Mutators -> SUBSET Objects]
    BY DEF Types, TypeOK
  <1>5. roots' = [roots EXCEPT ![t] = @ \cup {o}] /\ UNCHANGED field
    BY DEF Got
  <1>6. roots[t] \cup {o} \in SUBSET Objects
    BY <1>4
  <1> QED
    BY <1>3, <1>4, <1>5, <1>6 DEF Gained

\* Every step of a mutator is one of these: the read barrier, GetReferent, clear
\* and the writes.
LEMMA MutatorEffects ==
  ASSUME Types, NEW t \in Mutators, ReadAt(t), MutatorStep(t)
  PROVE  MutatorEffect(t)
  <1>t. /\ field \in [Heap -> Objects \cup {Null}] /\ roots \in [Mutators -> SUBSET Objects]
        /\ local \in [Mutators -> SUBSET Objects]
        /\ ref \in [Mutators -> Heap \cup {Null}]
        /\ ref[t] = Null <=> pc[t] = "run"
    BY DEF Types, TypeOK
  <1>l. /\ "run" \in MutatorLabels /\ "load" \in MutatorLabels /\ "loadMark" \in MutatorLabels
        /\ "test" \in MutatorLabels /\ "gray" \in MutatorLabels /\ "push" \in MutatorLabels
        /\ "ThreadLocal" \in MutatorLabels /\ "Shared" \in MutatorLabels
    BY DEF MutatorLabels
  <1>n. /\ Null \in Heap \cup {Null} /\ Objects \subseteq Heap /\ Reference \in Heap
        /\ Heap \subseteq Heap \cup {Null} /\ Null \notin Objects
    BY ObjectsAssumption DEF Heap
  <1>o. pc[t] \in {"test", "gray", "push", "ThreadLocal", "Shared"} => ref[t] \in Objects
    BY DEF ReadAt
  <1>f. MutatorFrame
    <2> USE DEF MutatorFrame, heap, colours, stacks, flags, mutators, references, pass, collector
    <2>1. CASE ReadState(t)
      BY <2>1 DEF ReadState
    <2>2. CASE Load(t)
      BY <2>2 DEF Load
    <2>3. CASE TestBitmap(t)
      BY <2>3 DEF TestBitmap
    <2>4. CASE SetGray(t)
      BY <2>4 DEF SetGray
    <2>5. CASE ReadMode(t)
      BY <2>5 DEF ReadMode
    <2>6. CASE PushOntoMarkStack(t)
      BY <2>6 DEF PushOntoMarkStack
    <2>7. CASE GetReferent(t)
      BY <2>7 DEF GetReferent
    <2>8. CASE ClearReferent(t)
      BY <2>8 DEF ClearReferent
    <2>9. CASE Write(t)
      BY <2>9 DEF Write
    <2> QED
      BY <2>1, <2>2, <2>3, <2>4, <2>5, <2>6, <2>7, <2>8, <2>9 DEF MutatorStep, Read
  <1>1. CASE ReadState(t)
    <2>1. PICK o \in roots[t] \cup (IF t \in enabled THEN {Reference} ELSE {}) :
            At(t, IF o \in gray /\ t \in marking THEN "loadMark" ELSE "load", o)
      BY <1>1 DEF ReadState
    <2>2. o \in Heap /\ (o \in roots[t] \/ (o = Reference /\ t \in enabled))
      BY <1>t, <1>n, <2>1
    <2>3. o \in Heap \cup {Null}
      BY <2>2
    <2>4. CASE o \in gray /\ t \in marking
      <3>1. At(t, "loadMark", o)
        BY <2>1, <2>4
      <3>2. Moved(t, "loadMark", o)
        BY <1>l, <2>3, <3>1, AtMoves
      <3> QED
        BY <1>1, <1>f, <2>2, <2>4, <3>2
           DEF ReadState, MutatorEffect, Starts, heap, colours, stacks
    <2>5. CASE ~(o \in gray /\ t \in marking)
      <3>1. At(t, "load", o)
        BY <2>1, <2>5
      <3>2. Moved(t, "load", o)
        BY <1>l, <2>3, <3>1, AtMoves
      <3> QED
        BY <1>1, <1>f, <2>2, <2>5, <3>2
           DEF ReadState, MutatorEffect, Starts, heap, colours, stacks
    <2> QED
      BY <2>4, <2>5
  <1>2. CASE Load(t)
    <2>1. pc[t] \in {"load", "loadMark"} /\ UNCHANGED <<gray, local, revoked, gcStack>>
      BY <1>2 DEF Load, colours, stacks
    <2>2. CASE At(t, "run", Null) /\ UNCHANGED heap
      <3>1. Moved(t, "run", Null)
        BY <1>l, <1>n, <2>2, AtMoves
      <3> QED
        BY <1>f, <2>1, <2>2, <3>1 DEF MutatorEffect, Drops, heap
    <2>3. CASE pc[t] = "load" /\ field[ref[t]] # Null /\ Got(t, field[ref[t]])
      <3>1. ref[t] \in Heap
        BY <1>t, <2>3
      <3>2. field[ref[t]] \in Objects
        BY <1>t, <2>3, <3>1
      <3>3. Gained(t, field[ref[t]])
        BY <2>3, <3>2, GotGains
      <3> QED
        BY <1>f, <2>1, <2>3, <3>2, <3>3 DEF MutatorEffect, Gets
    <2>4. CASE /\ pc[t] = "loadMark" /\ field[ref[t]] # Null
               /\ At(t, "test", field[ref[t]]) /\ UNCHANGED heap
      <3>1. ref[t] \in Heap
        BY <1>t, <2>4
      <3>2. field[ref[t]] \in Objects
        BY <1>t, <2>4, <3>1
      <3>3. field[ref[t]] \in Heap \cup {Null}
        BY <1>n, <3>2
      <3>4. Moved(t, "test", field[ref[t]])
        BY <1>l, <2>4, <3>3, AtMoves
      <3> QED
        BY <1>f, <2>1, <2>4, <3>2, <3>4 DEF MutatorEffect, Advances, heap
    <2> QED
      BY <1>2, <2>2, <2>3, <2>4 DEF Load
  <1>3. CASE TestBitmap(t)
    <2>1. /\ pc[t] = "test" /\ ref[t] \in Objects /\ ref[t] \in Heap \cup {Null}
          /\ UNCHANGED <<gray, local, revoked, gcStack>>
      BY <1>3, <1>o, <1>n DEF TestBitmap, colours, stacks
    <2>2. CASE ref[t] \in marked
      <3>1. Got(t, ref[t])
        BY <1>3, <2>2 DEF TestBitmap
      <3>2. Gained(t, ref[t])
        BY <2>1, <3>1, GotGains
      <3> QED
        BY <1>f, <2>1, <2>2, <3>2 DEF MutatorEffect, Gets, Marked
    <2>3. CASE ref[t] \notin marked
      <3>1. At(t, "gray", ref[t]) /\ UNCHANGED <<field, roots>>
        BY <1>3, <2>3 DEF TestBitmap, heap
      <3>2. Moved(t, "gray", ref[t])
        BY <1>l, <2>1, <3>1, AtMoves
      <3> QED
        BY <1>f, <2>1, <3>1, <3>2 DEF MutatorEffect, Advances
    <2> QED
      BY <2>2, <2>3
  <1>4. CASE SetGray(t)
    <2>1. /\ pc[t] = "gray" /\ ref[t] \in Objects /\ ref[t] \in Heap \cup {Null}
          /\ gray' = gray \cup {ref[t]} /\ UNCHANGED <<local, revoked, gcStack>>
      BY <1>4, <1>o, <1>n DEF SetGray, stacks
    <2>2. CASE ref[t] \in gray
      <3>1. Got(t, ref[t])
        BY <1>4, <2>2 DEF SetGray
      <3>2. Gained(t, ref[t])
        BY <2>1, <3>1, GotGains
      <3>3. UNCHANGED gray
        BY <2>1, <2>2
      <3> QED
        BY <1>f, <2>1, <2>2, <3>2, <3>3 DEF MutatorEffect, Gets, Marked
    <2>3. CASE ref[t] \notin gray
      <3>1. At(t, "push", ref[t]) /\ UNCHANGED <<field, roots>>
        BY <1>4, <2>3 DEF SetGray, heap
      <3>2. Moved(t, "push", ref[t])
        BY <1>l, <2>1, <3>1, AtMoves
      <3> QED
        BY <1>f, <2>1, <2>3, <3>1, <3>2 DEF MutatorEffect, Grays
    <2> QED
      BY <2>2, <2>3
  <1>5. CASE ReadMode(t)
    <2>1. /\ pc[t] = "push" /\ mode \in {"ThreadLocal", "Shared"} /\ At(t, mode, ref[t])
          /\ UNCHANGED <<field, roots, gray, local, revoked, gcStack>>
      BY <1>5 DEF ReadMode, heap, colours, stacks
    <2>2. mode \in MutatorLabels /\ ref[t] \in Heap \cup {Null}
      BY <1>l, <1>t, <2>1
    <2>3. Moved(t, mode, ref[t])
      BY <2>1, <2>2, AtMoves
    <2> QED
      BY <1>f, <2>1, <2>3 DEF MutatorEffect, Chooses
  <1>6. CASE PushOntoMarkStack(t)
    <2>1. /\ pc[t] \in {"ThreadLocal", "Shared"} /\ ref[t] \in Objects /\ Got(t, ref[t])
          /\ UNCHANGED gray
      BY <1>6, <1>o DEF PushOntoMarkStack, colours
    <2>2. Gained(t, ref[t])
      BY <2>1, GotGains
    <2>3. CASE pc[t] = "ThreadLocal"
      <3>1. /\ \/ local' = [local EXCEPT ![t] = local[t] \cup {ref[t]}] /\ UNCHANGED revoked
               \/ local' = [local EXCEPT ![t] = {ref[t]}] /\ revoked' = revoked \cup local[t]
            /\ UNCHANGED gcStack
        BY <1>6, <2>3 DEF PushOntoMarkStack
      <3>2. local[t] \cup {ref[t]} \in SUBSET Objects /\ {ref[t]} \in SUBSET Objects
        BY <1>t, <2>1
      <3>3. ASSUME NEW S \in SUBSET Objects, local' = [local EXCEPT ![t] = S]
            PROVE  /\ local' \in [Mutators -> SUBSET Objects] /\ local'[t] = S
                   /\ \A u \in Mutators \ {t} : local'[u] = local[u]
        BY <1>t, <3>3
      <3>4. /\ local' \in [Mutators -> SUBSET Objects]
            /\ \/ local'[t] = local[t] \cup {ref[t]} /\ UNCHANGED revoked
               \/ local'[t] = {ref[t]} /\ revoked' = revoked \cup local[t]
            /\ \A u \in Mutators \ {t} : local'[u] = local[u]
        BY <3>1, <3>2, <3>3
      <3> QED
        BY <1>f, <2>1, <2>2, <2>3, <3>1, <3>4 DEF MutatorEffect, PushesLocally
    <2>4. CASE pc[t] = "Shared"
      <3>1. gcStack' = gcStack \cup {ref[t]} /\ UNCHANGED <<local, revoked>>
        BY <1>6, <2>4 DEF PushOntoMarkStack
      <3> QED
        BY <1>f, <2>1, <2>2, <2>4, <3>1 DEF MutatorEffect, PushesShared
    <2> QED
      BY <2>1, <2>3, <2>4
  <1>7. CASE GetReferent(t)
    <2>1. field[Reference] \in Objects
      BY <1>7, <1>t, <1>n DEF GetReferent
    <2>2. Gained(t, field[Reference])
      BY <1>7, <2>1, GotGains DEF GetReferent
    <2> QED
      BY <1>7, <1>f, <2>1, <2>2 DEF GetReferent, MutatorEffect, Gets, colours, stacks
  <1>8. CASE ClearReferent(t)
    <2>1. /\ pc[t] = "run" /\ t \in enabled /\ field' = [field EXCEPT ![Reference] = Null]
          /\ UNCHANGED <<roots, gray, local, revoked, gcStack, pc, ref>>
      BY <1>8 DEF ClearReferent, colours, stacks, mutators
    <2>2. /\ field' \in [Heap -> Objects \cup {Null}] /\ field'[Reference] = Null
          /\ \A x \in Heap \ {Reference} : field'[x] = field[x]
      BY <1>t, <1>n, <2>1
    <2> QED
      BY <1>f, <1>n, <2>1, <2>2 DEF MutatorEffect, Stores
  <1>9. CASE Write(t)
    <2>1. PICK o \in roots[t], r \in roots[t] \cup {Null} : field' = [field EXCEPT ![o] = r]
      BY <1>9 DEF Write
    <2>2. pc[t] = "run" /\ UNCHANGED <<roots, gray, local, revoked, gcStack, pc, ref>>
      BY <1>9 DEF Write, colours, stacks, mutators
    <2>3. o \in Heap /\ r \in Objects \cup {Null}
      BY <1>t, <1>n, <2>1
    <2>4. /\ field' \in [Heap -> Objects \cup {Null}] /\ field'[o] = r
          /\ \A x \in Heap \ {o} : field'[x] = field[x]
      BY <1>t, <2>1, <2>3
    <2> QED
      BY <1>f, <2>1, <2>2, <2>3, <2>4 DEF MutatorEffect, Stores
  <1> QED
    BY <1>1, <1>2, <1>3, <1>4, <1>5, <1>6, <1>7, <1>8, <1>9 DEF MutatorStep, Read

-----------------------------------------------------------------------------
(* Types, and where the collector is                                       *)

\* A step of a mutator keeps the types, and what its reads and those of the other
\* mutators are about.
LEMMA MutatorTypes ==
  ASSUME Types, NEW t \in Mutators, ReadAt(t), MutatorEffect(t)
  PROVE  Types' /\ \A u \in Mutators : ReadAt(u) => ReadAt(u)'
  <1>f. MutatorFrame
    BY DEF MutatorEffect
  <1>n. Null \notin Heap /\ Objects \subseteq Heap /\ Reference \notin Objects
    BY ObjectsAssumption DEF Heap, Null, Reference
  <1>1. ASSUME NEW label \in MutatorLabels, NEW o \in Heap \cup {Null}, Moved(t, label, o),
               o = Null <=> label = "run"
        PROVE  \A u \in Mutators : ref'[u] = Null <=> pc'[u] = "run"
    BY <1>1 DEF Moved, Types, TypeOK
  <1>2. ASSUME NEW label \in MutatorLabels, NEW o \in Heap \cup {Null}, Moved(t, label, o),
               o = Null <=> label = "run", UNCHANGED <<field, roots, local, revoked>>,
               gray' \subseteq Heap, UNCHANGED gcStack
        PROVE  Types'
    BY <1>f, <1>1, <1>2 DEF Types, TypeOK, MutatorFrame, Moved
  <1>3. ASSUME NEW o \in Objects, Gained(t, o), UNCHANGED gray, gcStack' \subseteq Heap,
               local' \in [Mutators -> SUBSET Objects], revoked' \subseteq Objects
        PROVE  Types'
    <2>1. \A u \in Mutators : ref'[u] = Null <=> pc'[u] = "run"
      BY <1>1, <1>3 DEF Gained, MutatorLabels
    <2> QED
      BY <1>f, <1>3, <2>1 DEF Types, TypeOK, MutatorFrame, Gained, Moved
  <1>4. ASSUME NEW label, NEW o, Moved(t, label, o), UNCHANGED roots, ReadAt(t)'
        PROVE  \A u \in Mutators : ReadAt(u) => ReadAt(u)'
    BY <1>f, <1>4 DEF ReadAt, Moved, MutatorFrame
  <1>5. ASSUME NEW o, Gained(t, o)
        PROVE  \A u \in Mutators : ReadAt(u) => ReadAt(u)'
    <2>1. pc'[t] = "run" /\ ref'[t] = Null /\ Null # Reference
      BY <1>5 DEF Gained, Moved, Null, Reference
    <2>2. ReadAt(t)'
      BY <2>1 DEF ReadAt
    <2> QED
      BY <1>f, <1>5, <2>2 DEF ReadAt, Gained, Moved, MutatorFrame
  <1>6. CASE Starts(t)
    <2>1. UNCHANGED <<field, roots, gray, local, revoked, gcStack>> /\ gray' \subseteq Heap
      BY <1>6 DEF Starts, Types, TypeOK
    <2>2. PICK o \in Heap :
            /\ o \in roots[t] \/ (o = Reference /\ t \in enabled)
            /\ Moved(t, "loadMark", o) \/ Moved(t, "load", o)
      BY <1>6 DEF Starts
    <2>3. PICK label \in {"load", "loadMark"} : Moved(t, label, o)
      BY <2>2
    <2>4. /\ label \in MutatorLabels /\ o \in Heap \cup {Null} /\ (o = Null <=> label = "run")
          /\ label \notin {"test", "gray", "push", "ThreadLocal", "Shared"}
      BY <1>n, <2>3 DEF MutatorLabels
    <2>5. ref'[t] = o /\ pc'[t] = label
      BY <2>3 DEF Moved
    <2>6. ReadAt(t)'
      <3>1. o \in roots[t] => o # Reference
        BY <1>n DEF Types, TypeOK
      <3> QED
        BY <1>f, <2>1, <2>2, <2>4, <2>5, <3>1 DEF ReadAt, MutatorFrame
    <2> QED
      BY <1>2, <1>4, <2>1, <2>3, <2>4, <2>6
  <1>7. CASE Drops(t)
    <2>1. UNCHANGED <<field, roots, gray, local, revoked, gcStack>> /\ gray' \subseteq Heap
      BY <1>7 DEF Drops, Types, TypeOK
    <2>2. /\ Moved(t, "run", Null) /\ "run" \in MutatorLabels /\ Null \in Heap \cup {Null}
          /\ Null # Reference
      BY <1>7 DEF Drops, MutatorLabels, Null, Reference
    <2>3. ReadAt(t)'
      BY <2>2 DEF ReadAt, Moved
    <2> QED
      BY <1>2, <1>4, <2>1, <2>2, <2>3
  <1>8. CASE Advances(t)
    <2>1. UNCHANGED <<field, roots, gray, local, revoked, gcStack>> /\ gray' \subseteq Heap
      BY <1>8 DEF Advances, Types, TypeOK
    <2>2. PICK label \in {"test", "gray"}, o \in Objects : Moved(t, label, o)
      BY <1>8 DEF Advances, ReadAt
    <2>3. /\ label \in MutatorLabels /\ o \in Heap \cup {Null} /\ o # Null /\ o # Reference
          /\ label # "run" /\ label \notin {"load", "loadMark"}
      BY <1>n, <2>2 DEF MutatorLabels
    <2>4. ReadAt(t)'
      BY <2>2, <2>3 DEF ReadAt, Moved
    <2> QED
      BY <1>2, <1>4, <2>1, <2>2, <2>3, <2>4
  <1>9. CASE Chooses(t) \/ Grays(t)
    <2>1. UNCHANGED <<field, roots, local, revoked, gcStack>> /\ gray' \subseteq Heap
      BY <1>9, <1>n DEF Chooses, Grays, Types, TypeOK, ReadAt
    <2>2. PICK label \in {"push", "ThreadLocal", "Shared"} : Moved(t, label, ref[t])
      BY <1>9 DEF Chooses, Grays
    <2>3. ref[t] \in Objects
      BY <1>9 DEF Chooses, Grays, ReadAt
    <2>4. /\ label \in MutatorLabels /\ ref[t] \in Heap \cup {Null} /\ ref[t] # Null
          /\ ref[t] # Reference /\ label # "run" /\ label \notin {"load", "loadMark"}
      BY <1>n, <2>2, <2>3 DEF MutatorLabels
    <2>5. ReadAt(t)'
      BY <2>2, <2>3, <2>4 DEF ReadAt, Moved
    <2> QED
      BY <1>2, <1>4, <2>1, <2>2, <2>4, <2>5
  <1>10. CASE Gets(t)
    BY <1>3, <1>5, <1>10 DEF Gets, Types, TypeOK
  <1>11. CASE PushesLocally(t) \/ PushesShared(t)
    <2>1. ref[t] \in Objects
      BY <1>11 DEF PushesLocally, PushesShared, ReadAt
    <2>2. /\ Gained(t, ref[t]) /\ UNCHANGED gray /\ gcStack' \subseteq Heap
          /\ local' \in [Mutators -> SUBSET Objects] /\ revoked' \subseteq Objects
      BY <1>11, <1>n, <2>1 DEF PushesLocally, PushesShared, Types
    <2> QED
      BY <1>3, <1>5, <2>1, <2>2
  <1>12. CASE Stores(t)
    BY <1>12, <1>f DEF Stores, Types, TypeOK, ReadAt, MutatorFrame
  <1> QED
    BY <1>6, <1>7, <1>8, <1>9, <1>10, <1>11, <1>12 DEF MutatorEffect

\* What no step of the collector changes: what the mutators do and hold.
CollectorFrame ==
  /\ UNCHANGED <<roots, pc, ref, local, marking, soft>>
  /\ enabled \subseteq enabled'

\* The collector leaves the mutators alone, and only enables weak reference access.
LEMMA CollectorFrames ==
  ASSUME Collect
  PROVE  CollectorFrame
  <1> USE DEF CollectorFrame, heap, colours, stacks, flags, mutators, references, pass,
          mutatorState
  <1>1. CASE StartPass
    BY <1>1 DEF StartPass, Ask
  <1>2. CASE TakeRevoked
    BY <1>2 DEF TakeRevoked, AllAnswered
  <1>3. CASE EmptyCheckpointDone
    BY <1>3 DEF EmptyCheckpointDone, AllAnswered
  <1>4. CASE Pop
    BY <1>4 DEF Pop, TakeNext
  <1>5. CASE Scan
    BY <1>5 DEF Scan, Mark, DelayReferenceReferent
  <1>6. CASE Ungray
    BY <1>6 DEF Ungray
  <1>7. CASE EndPass
    BY <1>7 DEF EndPass
  <1>8. CASE SwitchToSharedMarkStackMode
    BY <1>8 DEF SwitchToSharedMarkStackMode, Ask
  <1>9. CASE SwitchedToSharedMarkStackMode
    BY <1>9 DEF SwitchedToSharedMarkStackMode
  <1>10. CASE SwitchToGcExclusiveMarkStackMode
    BY <1>10 DEF SwitchToGcExclusiveMarkStackMode
  <1>20. CASE ProcessReferences
    BY <1>20 DEF ProcessReferences
  <1>11. CASE StartPreservingReferences
    BY <1>11 DEF StartPreservingReferences
  <1>12. CASE ClearSoftReferences
    BY <1>12 DEF ClearSoftReferences
  <1>13. CASE ForwardSoftReferences
    BY <1>13 DEF ForwardSoftReferences, Mark
  <1>14. CASE EnqueueFinalizerReferences
    BY <1>14 DEF EnqueueFinalizerReferences, Mark
  <1>15. CASE StopPreservingReferences
    BY <1>15 DEF StopPreservingReferences
  <1>16. CASE ClearWhiteReferences
    BY <1>16 DEF ClearWhiteReferences
  <1>17. CASE DisableReadBarrierForReference
    BY <1>17 DEF DisableReadBarrierForReference
  <1>18. CASE ReenableWeakRefAccess
    BY <1>18 DEF ReenableWeakRefAccess, Ask
  <1>19. CASE DisableMarking
    BY <1>19 DEF DisableMarking, AllAnswered
  <1> QED
    BY <1>1, <1>2, <1>3, <1>4, <1>5, <1>6, <1>7, <1>8, <1>9, <1>10, <1>11, <1>12, <1>13, <1>14,
       <1>15, <1>16, <1>17, <1>18, <1>19, <1>20 DEF Collect

\* Mark on the collector's thread keeps what is gray and on its stack in the heap.
LEMMA MarkTypes ==
  ASSUME Types, NEW o \in Objects \cup {Null}, Mark(o)
  PROVE  gray' \subseteq Heap /\ gcStack' \subseteq Heap
  BY DEF Mark, Types, TypeOK, Heap

\* Every step of the collector keeps the types.
LEMMA CollectorTypes ==
  ASSUME Types, PhaseAt, Collect
  PROVE  Types'
  <1>f. CollectorFrame
    BY CollectorFrames
  <1>n. Null \notin Heap /\ Objects \subseteq Heap
    BY ObjectsAssumption DEF Heap, Null, Reference
  <1>t. /\ field \in [Heap -> Objects \cup {Null}] /\ gray \subseteq Heap /\ marked \subseteq Heap
        /\ mode \in {"ThreadLocal", "Shared", "GcExclusive", "Off"}
        /\ enabled \subseteq Mutators /\ awaited \subseteq Mutators
        /\ hand \in Heap \cup {Null} /\ (hand = Null <=> gc \notin {"scan", "ungray"})
        /\ revoked \subseteq Objects /\ gcStack \subseteq Heap /\ todo \subseteq Heap
        /\ finalizee \in Objects \cup {Null}
    BY DEF Types, TypeOK
  <1> SUFFICES
        /\ field' \in [Heap -> Objects \cup {Null}] /\ gray' \subseteq Heap /\ marked' \subseteq Heap
        /\ mode' \in {"ThreadLocal", "Shared", "GcExclusive", "Off"}
        /\ enabled' \subseteq Mutators /\ awaited' \subseteq Mutators
        /\ hand' \in Heap \cup {Null} /\ (hand' = Null <=> gc' \notin {"scan", "ungray"})
        /\ revoked' \subseteq Objects /\ gcStack' \subseteq Heap /\ todo' \subseteq Heap
        /\ finalizee' \in Objects \cup {Null}
    BY <1>f DEF Types, TypeOK, CollectorFrame
  <1> USE <1>t DEF heap, colours, stacks, flags, mutators, references, pass, mutatorState
  <1>1. CASE StartPass
    <2>1. mode \in {"ThreadLocal", "Shared", "GcExclusive"} /\ gc = "pass"
      BY <1>1 DEF StartPass, PhaseAt, Exclusive, Passing
    <2>2. gc' \in {"revoke", "empty", "drain"} /\ awaited' \in {awaited, Mutators}
      BY <1>1, <2>1 DEF StartPass, Ask
    <2>3. gc' \notin {"scan", "ungray"} /\ awaited' \subseteq Mutators /\ hand = Null
      BY <2>1, <2>2
    <2> QED
      BY <1>1, <2>3 DEF StartPass
  <1>2. CASE TakeRevoked
    <2>1. gc \notin {"scan", "ungray"} /\ gc' \notin {"scan", "ungray"}
      BY <1>2 DEF TakeRevoked
    <2>2. todo' \subseteq Heap /\ revoked' \subseteq Objects
      BY <1>2, <1>n DEF TakeRevoked
    <2> QED
      BY <1>2, <2>1, <2>2 DEF TakeRevoked
  <1>3. CASE EmptyCheckpointDone
    BY <1>3 DEF EmptyCheckpointDone, AllAnswered
  <1>4. CASE Pop
    <2>1. todo' \subseteq Heap /\ gcStack' \subseteq Heap
      BY <1>4 DEF Pop
    <2>2. hand' \in Heap \cup {Null} /\ (hand' = Null <=> gc' \notin {"scan", "ungray"})
      BY <1>4, <1>n DEF Pop, TakeNext
    <2> QED
      BY <1>4, <2>1, <2>2 DEF Pop
  <1>5. CASE Scan
    <2>1. hand \in Heap
      BY <1>5 DEF Scan
    <2>2. field[hand] \in Objects \cup {Null}
      BY <2>1
    <2>3. gray' \subseteq Heap /\ gcStack' \subseteq Heap
      BY <1>5, <2>2, MarkTypes DEF Scan
    <2>4. marked' \subseteq Heap
      BY <1>5, <2>1 DEF Scan
    <2>5. hand' = Null <=> gc' \notin {"scan", "ungray"}
      BY <1>5 DEF Scan
    <2> QED
      BY <1>5, <2>3, <2>4, <2>5 DEF Scan
  <1>6. CASE Ungray
    BY <1>6 DEF Ungray
  <1>7. CASE EndPass
    BY <1>7 DEF EndPass
  <1>8. CASE SwitchToSharedMarkStackMode
    BY <1>8 DEF SwitchToSharedMarkStackMode, Ask
  <1>9. CASE SwitchedToSharedMarkStackMode
    BY <1>9 DEF SwitchedToSharedMarkStackMode
  <1>10. CASE SwitchToGcExclusiveMarkStackMode
    BY <1>10 DEF SwitchToGcExclusiveMarkStackMode
  <1>20. CASE ProcessReferences
    BY <1>20 DEF ProcessReferences
  <1>11. CASE StartPreservingReferences
    BY <1>11 DEF StartPreservingReferences
  <1>12. CASE ClearSoftReferences
    BY <1>12 DEF ClearSoftReferences
  <1>13. CASE ForwardSoftReferences
    <2>1. field[Reference] \in Objects \cup {Null}
      BY DEF Heap
    <2>2. gray' \subseteq Heap /\ gcStack' \subseteq Heap
      BY <1>13, <2>1, MarkTypes DEF ForwardSoftReferences
    <2>3. gc \notin {"scan", "ungray"} /\ gc' \notin {"scan", "ungray"}
      BY <1>13 DEF ForwardSoftReferences
    <2> QED
      BY <1>13, <2>2, <2>3 DEF ForwardSoftReferences
  <1>14. CASE EnqueueFinalizerReferences
    <2>1. gray' \subseteq Heap /\ gcStack' \subseteq Heap
      BY <1>14, MarkTypes DEF EnqueueFinalizerReferences
    <2>2. gc \notin {"scan", "ungray"} /\ gc' \notin {"scan", "ungray"}
      BY <1>14 DEF EnqueueFinalizerReferences
    <2>3. finalizee' \in Objects \cup {Null}
      BY <1>14 DEF EnqueueFinalizerReferences
    <2> QED
      BY <1>14, <2>1, <2>2, <2>3 DEF EnqueueFinalizerReferences
  <1>15. CASE StopPreservingReferences
    BY <1>15 DEF StopPreservingReferences
  <1>16. CASE ClearWhiteReferences
    BY <1>16 DEF ClearWhiteReferences
  <1>17. CASE DisableReadBarrierForReference
    BY <1>17 DEF DisableReadBarrierForReference
  <1>18. CASE ReenableWeakRefAccess
    BY <1>18 DEF ReenableWeakRefAccess, Ask
  <1>19. CASE DisableMarking
    BY <1>19 DEF DisableMarking, AllAnswered
  <1> QED
    BY <1>1, <1>2, <1>3, <1>4, <1>5, <1>6, <1>7, <1>8, <1>9, <1>10, <1>11, <1>12, <1>13, <1>14,
       <1>15, <1>16, <1>17, <1>18, <1>19, <1>20 DEF Collect

\* The steps of the collector keep its phase, the mark stack mode and its place in
\* ProcessMarkStack in step.
LEMMA CollectorPhases ==
  ASSUME PhaseAt, Collect
  PROVE  PhaseAt'
  <1> USE DEF PhaseAt, Exclusive, Passing, heap, colours, stacks, flags, mutators, references,
          pass, mutatorState
  <1>1. CASE StartPass
    BY <1>1 DEF StartPass, Ask
  <1>2. CASE TakeRevoked
    BY <1>2 DEF TakeRevoked, AllAnswered
  <1>3. CASE EmptyCheckpointDone
    BY <1>3 DEF EmptyCheckpointDone, AllAnswered
  <1>4. CASE Pop
    BY <1>4 DEF Pop, TakeNext
  <1>5. CASE Scan
    BY <1>5 DEF Scan, Mark, DelayReferenceReferent
  <1>6. CASE Ungray
    BY <1>6 DEF Ungray
  <1>7. CASE EndPass
    BY <1>7 DEF EndPass
  <1>8. CASE SwitchToSharedMarkStackMode
    BY <1>8 DEF SwitchToSharedMarkStackMode, Ask
  <1>9. CASE SwitchedToSharedMarkStackMode
    BY <1>9 DEF SwitchedToSharedMarkStackMode
  <1>10. CASE SwitchToGcExclusiveMarkStackMode
    BY <1>10 DEF SwitchToGcExclusiveMarkStackMode
  <1>20. CASE ProcessReferences
    BY <1>20 DEF ProcessReferences
  <1>11. CASE StartPreservingReferences
    BY <1>11 DEF StartPreservingReferences
  <1>12. CASE ClearSoftReferences
    BY <1>12 DEF ClearSoftReferences
  <1>13. CASE ForwardSoftReferences
    BY <1>13 DEF ForwardSoftReferences, Mark
  <1>14. CASE EnqueueFinalizerReferences
    BY <1>14 DEF EnqueueFinalizerReferences, Mark
  <1>15. CASE StopPreservingReferences
    BY <1>15 DEF StopPreservingReferences
  <1>16. CASE ClearWhiteReferences
    BY <1>16 DEF ClearWhiteReferences
  <1>17. CASE DisableReadBarrierForReference
    BY <1>17 DEF DisableReadBarrierForReference
  <1>18. CASE ReenableWeakRefAccess
    BY <1>18 DEF ReenableWeakRefAccess, Ask
  <1>19. CASE DisableMarking
    BY <1>19 DEF DisableMarking, AllAnswered
  <1> QED
    BY <1>1, <1>2, <1>3, <1>4, <1>5, <1>6, <1>7, <1>8, <1>9, <1>10, <1>11, <1>12, <1>13, <1>14,
       <1>15, <1>16, <1>17, <1>18, <1>19, <1>20 DEF Collect

\* A checkpoint reaches one mutator, between its reads, and waits for it no more.
LEMMA CheckpointTypes ==
  ASSUME Types, PhaseAt, NEW t \in Mutators, Checkpoint(t)
  PROVE  Types' /\ PhaseAt' /\ \A u \in Mutators : ReadAt(u) => ReadAt(u)'
  <1> USE DEF heap, colours, stacks, flags, mutators, references, pass
  <1>1. PICK labels : Answer(t, labels)
    BY DEF Checkpoint, Revoke, EmptyCheckpoint, DisableMarkingCheckpoint
  <1>2. /\ UNCHANGED <<field, roots, gray, marked, mode, gcStack, pc, ref, soft, pending,
                        finalizee, processing, preserving, phase, gc, todo, hand, counted>>
        /\ awaited' \subseteq awaited /\ pc[t] = "run"
    BY <1>1 DEF Answer
  <1>3. local' \in [Mutators -> SUBSET Objects] /\ revoked' \subseteq Objects
    <2>1. local \in [Mutators -> SUBSET Objects] /\ revoked \subseteq Objects
      BY DEF Types
    <2>2. CASE Revoke(t)
      BY <2>1, <2>2 DEF Revoke
    <2>3. CASE EmptyCheckpoint(t) \/ DisableMarkingCheckpoint(t)
      BY <2>1, <2>3 DEF EmptyCheckpoint, DisableMarkingCheckpoint
    <2> QED
      BY <2>2, <2>3 DEF Checkpoint
  <1>4. /\ enabled' \subseteq enabled /\ \A u \in Mutators \ {t} : u \in enabled => u \in enabled'
        /\ marking' \subseteq marking /\ (gc # "disable" => UNCHANGED marking)
    BY DEF Checkpoint, Revoke, EmptyCheckpoint, DisableMarkingCheckpoint, Answer
  <1>5. Types'
    BY <1>2, <1>3, <1>4 DEF Types, TypeOK
  <1>6. PhaseAt'
    BY <1>2, <1>4 DEF PhaseAt
  <1>7. \A u \in Mutators : ReadAt(u) => ReadAt(u)'
    BY <1>2, <1>4 DEF ReadAt, Types, TypeOK, Null, Reference
  <1> QED
    BY <1>5, <1>6, <1>7

-----------------------------------------------------------------------------
(* Every gray object is on one stack                                       *)

\* An object that no one moves stays where it is.
LEMMA StaysOnStack ==
  ASSUME NEW o, OnOneStack(o),
         o \in gcStack' <=> o \in gcStack, o \in revoked' <=> o \in revoked,
         o \in todo' <=> o \in todo, o = hand' <=> o = hand,
         \A t \in Mutators : (o \in local'[t] <=> o \in local[t]) /\ (Pushes(t, o)' <=> Pushes(t, o))
  PROVE  /\ OnOneStack(o)'
         /\ CollectorHas(o)' <=> CollectorHas(o)
         /\ \A t \in Mutators : MutatorHas(t, o)' <=> MutatorHas(t, o)
  BY DEF OnOneStack, CollectorHas, MutatorHas

\* The steps of a mutator keep every gray object on one stack: it pushes what it
\* has made gray, and only that.
LEMMA MutatorStacks ==
  ASSUME Types, StackInv, NEW t \in Mutators, ReadAt(t), MutatorEffect(t)
  PROVE  StackInv'
  <1>f. UNCHANGED <<todo, hand>>
    BY DEF MutatorEffect, MutatorFrame
  <1>n. Objects \subseteq Heap
    BY DEF Heap
  <1>1. ASSUME UNCHANGED <<gray, gcStack, local, revoked>>,
               \A u \in Mutators, o \in Heap : Pushes(u, o)' <=> Pushes(u, o)
        PROVE  StackInv'
    <2>1. ASSUME NEW o \in Heap
          PROVE  /\ OnOneStack(o)'
                 /\ CollectorHas(o)' <=> CollectorHas(o)
                 /\ \A u \in Mutators : MutatorHas(u, o)' <=> MutatorHas(u, o)
      <3>1. OnOneStack(o)
        BY DEF StackInv
      <3> QED
        BY <1>f, <1>1, <3>1, StaysOnStack
    <2> QED
      BY <1>1, <1>n, <2>1 DEF StackInv
  <1>2. ASSUME NEW label, NEW r, Moved(t, label, r),
               pc[t] \notin {"push", "ThreadLocal", "Shared"},
               label \notin {"push", "ThreadLocal", "Shared"}
        PROVE  \A u \in Mutators, o \in Heap : Pushes(u, o)' <=> Pushes(u, o)
    BY <1>2 DEF Pushes, Moved
  <1>3. CASE Starts(t) \/ Drops(t) \/ Advances(t)
    <2>1. UNCHANGED <<gray, gcStack, local, revoked>> /\ pc[t] \notin {"push", "ThreadLocal", "Shared"}
      BY <1>3 DEF Starts, Drops, Advances
    <2>2. PICK label \in {"load", "loadMark", "run", "test", "gray"} : \E r : Moved(t, label, r)
      BY <1>3 DEF Starts, Drops, Advances
    <2>3. label \notin {"push", "ThreadLocal", "Shared"}
      BY <2>2
    <2> QED
      BY <1>1, <1>2, <2>1, <2>2, <2>3
  <1>4. CASE Chooses(t)
    <2>1. \A u \in Mutators, o \in Heap : Pushes(u, o)' <=> Pushes(u, o)
      BY <1>4 DEF Pushes, Chooses, Moved
    <2> QED
      BY <1>1, <1>4, <2>1 DEF Chooses
  <1>5. CASE Gets(t)
    <2>1. UNCHANGED <<gray, gcStack, local, revoked>> /\ pc[t] \notin {"push", "ThreadLocal", "Shared"}
      BY <1>5 DEF Gets
    <2>2. Moved(t, "run", Null) /\ "run" \notin {"push", "ThreadLocal", "Shared"}
      BY <1>5 DEF Gets, Gained
    <2> QED
      BY <1>1, <1>2, <2>1, <2>2
  <1>6. CASE Grays(t)
    <2> PICK r \in Objects : r = ref[t]
      BY <1>6 DEF Grays, ReadAt
    <2>1. /\ r \notin gray /\ gray' = gray \cup {r}
          /\ UNCHANGED <<gcStack, local, revoked>> /\ pc[t] \notin {"push", "ThreadLocal", "Shared"}
          /\ pc'[t] = "push" /\ ref'[t] = r
          /\ \A u \in Mutators \ {t} : pc'[u] = pc[u] /\ ref'[u] = ref[u]
      BY <1>6 DEF Grays, Moved
    <2>2. ~CollectorHas(r) /\ \A u \in Mutators : ~MutatorHas(u, r)
      BY <2>1 DEF StackInv
    <2>3. ASSUME NEW o \in Heap, o # r
          PROVE  /\ OnOneStack(o)'
                 /\ CollectorHas(o)' <=> CollectorHas(o)
                 /\ \A u \in Mutators : MutatorHas(u, o)' <=> MutatorHas(u, o)
      <3>1. OnOneStack(o) /\ \A u \in Mutators : Pushes(u, o)' <=> Pushes(u, o)
        BY <2>1, <2>3 DEF StackInv, Pushes
      <3> QED
        BY <1>f, <2>1, <3>1, StaysOnStack
    <2>4. /\ ~CollectorHas(r)' /\ MutatorHas(t, r)'
          /\ \A u \in Mutators : MutatorHas(u, r)' => u = t
          /\ \A u \in Mutators : r \notin local'[u]
      BY <1>f, <2>1, <2>2 DEF CollectorHas, MutatorHas, Pushes
    <2>5. OnOneStack(r)'
      BY <2>4 DEF OnOneStack, CollectorHas
    <2> QED
      BY <1>n, <2>1, <2>3, <2>4, <2>5 DEF StackInv
  <1>7. CASE PushesLocally(t) /\ UNCHANGED revoked /\ local'[t] = local[t] \cup {ref[t]}
    <2>1. /\ UNCHANGED <<gray, gcStack, revoked>> /\ pc[t] = "ThreadLocal" /\ pc'[t] = "run"
          /\ local'[t] = local[t] \cup {ref[t]}
          /\ \A u \in Mutators \ {t} : local'[u] = local[u] /\ pc'[u] = pc[u] /\ ref'[u] = ref[u]
      BY <1>7 DEF PushesLocally, Gained, Moved
    <2>2. ASSUME NEW o \in Heap
          PROVE  /\ CollectorHas(o)' <=> CollectorHas(o)
                 /\ \A u \in Mutators : MutatorHas(u, o)' <=> MutatorHas(u, o)
      BY <1>f, <2>1 DEF CollectorHas, MutatorHas, Pushes
    <2>3. ASSUME NEW o \in Heap
          PROVE  OnOneStack(o)'
      <3>1. OnOneStack(o)
        BY DEF StackInv
      <3>2. ~Pushes(t, o)' /\ \A u \in Mutators \ {t} :
              (o \in local'[u] <=> o \in local[u]) /\ (Pushes(u, o)' <=> Pushes(u, o))
        BY <2>1 DEF Pushes
      <3> QED
        BY <1>f, <2>1, <2>2, <3>1, <3>2 DEF OnOneStack
    <2> QED
      BY <1>n, <2>1, <2>2, <2>3 DEF StackInv
  <1>10. CASE PushesLocally(t) /\ local'[t] = {ref[t]} /\ revoked' = revoked \cup local[t]
    <2> PICK r \in Objects : r = ref[t]
      BY <1>10 DEF PushesLocally, ReadAt
    <2>1. /\ UNCHANGED <<gray, gcStack>> /\ pc[t] = "ThreadLocal" /\ pc'[t] = "run"
          /\ local'[t] = {r} /\ revoked' = revoked \cup local[t]
          /\ \A u \in Mutators \ {t} : local'[u] = local[u] /\ pc'[u] = pc[u] /\ ref'[u] = ref[u]
      BY <1>10 DEF PushesLocally, Gained, Moved
    <2>2. \A o \in Heap : ~Pushes(t, o)' /\ \A u \in Mutators \ {t} : Pushes(u, o)' <=> Pushes(u, o)
      BY <2>1 DEF Pushes
    <2>3. MutatorHas(t, r) /\ Pushes(t, r) /\ OnOneStack(r) /\ r \in gray
      BY <1>n, <2>1 DEF StackInv, MutatorHas, Pushes
    <2>4. /\ ~CollectorHas(r) /\ r \notin local[t]
          /\ \A u \in Mutators : MutatorHas(u, r) => u = t
      BY <2>3 DEF OnOneStack
    <2>5. /\ ~CollectorHas(r)' /\ MutatorHas(t, r)' /\ ~Pushes(t, r)'
          /\ \A u \in Mutators : MutatorHas(u, r)' => u = t
      BY <1>f, <1>n, <2>1, <2>2, <2>4 DEF CollectorHas, MutatorHas
    <2>6. OnOneStack(r)'
      BY <2>5 DEF OnOneStack, CollectorHas
    <2>7. ASSUME NEW o \in Heap, o \in local[t]
          PROVE  OnOneStack(o)' /\ CollectorHas(o)' /\ MutatorHas(t, o)
      <3>1. OnOneStack(o) /\ MutatorHas(t, o) /\ o # r
        BY <2>4, <2>7 DEF StackInv, MutatorHas
      <3>2. ~CollectorHas(o) /\ \A u \in Mutators : MutatorHas(u, o) => u = t
        BY <3>1 DEF OnOneStack
      <3>3. /\ o \in revoked' /\ o \notin gcStack' /\ o \notin todo' /\ o # hand'
            /\ \A u \in Mutators : ~MutatorHas(u, o)'
        BY <1>f, <2>1, <2>2, <2>7, <3>1, <3>2 DEF CollectorHas, MutatorHas
      <3> QED
        BY <3>1, <3>3 DEF OnOneStack, CollectorHas
    <2>8. ASSUME NEW o \in Heap, o \notin local[t], o # r
          PROVE  /\ OnOneStack(o)'
                 /\ CollectorHas(o)' <=> CollectorHas(o)
                 /\ \A u \in Mutators : MutatorHas(u, o)' <=> MutatorHas(u, o)
      <3>1. OnOneStack(o) /\ ~Pushes(t, o)
        BY <2>8 DEF StackInv, Pushes
      <3>2. /\ o \in revoked' <=> o \in revoked
            /\ \A u \in Mutators : (o \in local'[u] <=> o \in local[u]) /\ (Pushes(u, o)' <=> Pushes(u, o))
        BY <2>1, <2>2, <2>8, <3>1
      <3> QED
        BY <1>f, <2>1, <3>1, <3>2, StaysOnStack
    <2> QED
      BY <1>n, <2>1, <2>3, <2>5, <2>6, <2>7, <2>8 DEF StackInv
  <1>8. CASE PushesShared(t)
    <2> PICK r \in Objects : r = ref[t]
      BY <1>8 DEF PushesShared, ReadAt
    <2>1. /\ UNCHANGED <<gray, local, revoked>> /\ pc[t] = "Shared" /\ pc'[t] = "run"
          /\ gcStack' = gcStack \cup {r}
          /\ \A u \in Mutators \ {t} : pc'[u] = pc[u] /\ ref'[u] = ref[u]
      BY <1>8 DEF PushesShared, Gained, Moved
    <2>2. ASSUME NEW o \in Heap, o # r
          PROVE  /\ OnOneStack(o)'
                 /\ CollectorHas(o)' <=> CollectorHas(o)
                 /\ \A u \in Mutators : MutatorHas(u, o)' <=> MutatorHas(u, o)
      <3>1. OnOneStack(o) /\ \A u \in Mutators : Pushes(u, o)' <=> Pushes(u, o)
        BY <2>1, <2>2 DEF StackInv, Pushes
      <3>2. o \in gcStack' <=> o \in gcStack
        BY <2>1, <2>2
      <3> QED
        BY <1>f, <2>1, <3>1, <3>2, StaysOnStack
    <2>3. MutatorHas(t, r) /\ Pushes(t, r) /\ OnOneStack(r) /\ r \in gray
      BY <1>n, <2>1 DEF StackInv, MutatorHas, Pushes
    <2>4. /\ ~CollectorHas(r) /\ r \notin local[t]
          /\ \A u \in Mutators : MutatorHas(u, r) => u = t
      BY <2>3 DEF OnOneStack
    <2>5. /\ CollectorHas(r)' /\ \A u \in Mutators : ~MutatorHas(u, r)'
          /\ r \notin revoked' /\ r \notin todo' /\ r # hand'
      BY <1>f, <2>1, <2>4 DEF CollectorHas, MutatorHas, Pushes
    <2>6. OnOneStack(r)'
      BY <2>5 DEF OnOneStack
    <2> QED
      BY <1>n, <2>1, <2>2, <2>3, <2>5, <2>6 DEF StackInv
  <1>9. CASE Stores(t)
    BY <1>1, <1>9 DEF Stores, Pushes
  <1> QED
    BY <1>3, <1>4, <1>5, <1>6, <1>7, <1>8, <1>9, <1>10 DEF MutatorEffect, PushesLocally

\* The steps of the collector that move no object and change no colour.
Quiet ==
  \/ StartPass \/ EmptyCheckpointDone \/ EndPass \/ SwitchToSharedMarkStackMode
  \/ SwitchedToSharedMarkStackMode \/ SwitchToGcExclusiveMarkStackMode
  \/ ProcessReferences \/ StartPreservingReferences \/ ClearSoftReferences
  \/ StopPreservingReferences \/ ClearWhiteReferences \/ ReenableWeakRefAccess \/ DisableMarking

\* They leave the stacks and the colours as they are.
LEMMA QuietFrame ==
  ASSUME Quiet
  PROVE  UNCHANGED <<gray, marked, gcStack, revoked, local, todo, hand>>
  <1> USE DEF heap, colours, stacks, flags, mutators, references, pass, mutatorState
  <1>1. CASE StartPass
    BY <1>1 DEF StartPass
  <1>2. CASE EmptyCheckpointDone
    BY <1>2 DEF EmptyCheckpointDone
  <1>3. CASE EndPass
    BY <1>3 DEF EndPass
  <1>4. CASE SwitchToSharedMarkStackMode
    BY <1>4 DEF SwitchToSharedMarkStackMode
  <1>5. CASE SwitchedToSharedMarkStackMode
    BY <1>5 DEF SwitchedToSharedMarkStackMode
  <1>6. CASE SwitchToGcExclusiveMarkStackMode
    BY <1>6 DEF SwitchToGcExclusiveMarkStackMode
  <1>13. CASE ProcessReferences
    BY <1>13 DEF ProcessReferences
  <1>7. CASE StartPreservingReferences
    BY <1>7 DEF StartPreservingReferences
  <1>8. CASE ClearSoftReferences
    BY <1>8 DEF ClearSoftReferences
  <1>9. CASE StopPreservingReferences
    BY <1>9 DEF StopPreservingReferences
  <1>10. CASE ClearWhiteReferences
    BY <1>10 DEF ClearWhiteReferences
  <1>11. CASE ReenableWeakRefAccess
    BY <1>11 DEF ReenableWeakRefAccess
  <1>12. CASE DisableMarking
    BY <1>12 DEF DisableMarking
  <1> QED
    BY <1>1, <1>2, <1>3, <1>4, <1>5, <1>6, <1>7, <1>8, <1>9, <1>10, <1>11, <1>12, <1>13 DEF Quiet

\* Mark on the collector's thread puts what it makes gray on the collector's stack.
LEMMA MarkStacks ==
  ASSUME StackInv, NEW o \in Objects \cup {Null}, Mark(o), UNCHANGED <<revoked, todo, hand>>,
         CollectorFrame
  PROVE  StackInv'
  <1>n. Objects \subseteq Heap
    BY DEF Heap
  <1>p. ASSUME NEW x \in Heap, x \in gcStack' <=> x \in gcStack
        PROVE  /\ OnOneStack(x)'
               /\ CollectorHas(x)' <=> CollectorHas(x)
               /\ \A u \in Mutators : MutatorHas(u, x)' <=> MutatorHas(u, x)
    <2>1. OnOneStack(x) /\ \A u \in Mutators :
            (x \in local'[u] <=> x \in local[u]) /\ (Pushes(u, x)' <=> Pushes(u, x))
      BY DEF StackInv, CollectorFrame, Pushes
    <2> QED
      BY <1>p, <2>1, StaysOnStack
  <1>1. CASE o = Null \/ Marked(o)
    <2>1. UNCHANGED <<gray, gcStack>>
      BY <1>1 DEF Mark
    <2> QED
      BY <1>n, <1>p, <2>1 DEF StackInv
  <1>2. CASE ~(o = Null \/ Marked(o))
    <2>1. /\ o \in Objects /\ o \notin gray /\ gray' = gray \cup {o}
          /\ gcStack' = gcStack \cup {o}
      BY <1>2 DEF Mark, Marked
    <2>2. ~CollectorHas(o) /\ \A u \in Mutators : ~MutatorHas(u, o)
      BY <2>1 DEF StackInv
    <2>3. ASSUME NEW x \in Heap, x # o
          PROVE  /\ OnOneStack(x)'
                 /\ CollectorHas(x)' <=> CollectorHas(x)
                 /\ \A u \in Mutators : MutatorHas(u, x)' <=> MutatorHas(u, x)
      BY <1>p, <2>1, <2>3
    <2>4. /\ CollectorHas(o)' /\ \A u \in Mutators : ~MutatorHas(u, o)'
          /\ o \notin revoked' /\ o \notin todo' /\ o # hand'
      BY <2>1, <2>2 DEF CollectorHas, MutatorHas, Pushes, CollectorFrame
    <2>5. OnOneStack(o)'
      BY <2>4 DEF OnOneStack
    <2> QED
      BY <1>n, <2>1, <2>3, <2>4, <2>5 DEF StackInv
  <1> QED
    BY <1>1, <1>2

\* The collector takes an object from one stack at a time, and takes it out of its
\* hand when the object is no longer gray.
LEMMA CollectorStacks ==
  ASSUME Types, PhaseAt, StackInv, Collect
  PROVE  StackInv'
  <1>f. CollectorFrame
    BY CollectorFrames
  <1>n. Objects \subseteq Heap /\ Null \notin Heap /\ Reference \notin Objects
    BY ObjectsAssumption DEF Heap, Null, Reference
  <1>m. \A u \in Mutators, o \in Heap :
          /\ o \in local'[u] <=> o \in local[u]
          /\ Pushes(u, o)' <=> Pushes(u, o)
          /\ MutatorHas(u, o)' <=> MutatorHas(u, o)
    BY <1>f DEF CollectorFrame, Pushes, MutatorHas
  <1>1. ASSUME UNCHANGED gray,
               \A o \in Heap : (CollectorHas(o)' <=> CollectorHas(o)) /\ (OnOneStack(o) => OnOneStack(o)')
        PROVE  StackInv'
    BY <1>1, <1>m, <1>n DEF StackInv
  <1>s. ASSUME UNCHANGED <<gcStack, revoked, todo, hand>>, NEW o \in Heap
        PROVE  (CollectorHas(o)' <=> CollectorHas(o)) /\ (OnOneStack(o) => OnOneStack(o)')
    BY <1>m, <1>s DEF CollectorHas, OnOneStack
  <1>2. CASE Quiet
    <2>1. UNCHANGED <<gray, gcStack, revoked, todo, hand>>
      BY <1>2, QuietFrame
    <2>2. \A o \in Heap : (CollectorHas(o)' <=> CollectorHas(o)) /\ (OnOneStack(o) => OnOneStack(o)')
      BY <1>s, <2>1
    <2> QED
      BY <1>1, <2>1, <2>2
  <1>3. CASE TakeRevoked
    <2>1. todo = {} /\ todo' = revoked /\ revoked' = {} /\ UNCHANGED <<gray, gcStack, hand>>
      BY <1>3 DEF TakeRevoked, PhaseAt, colours
    <2>2. \A o \in Heap : CollectorHas(o)' <=> CollectorHas(o)
      BY <2>1 DEF CollectorHas
    <2>3. ASSUME NEW o \in Heap, OnOneStack(o)
          PROVE  OnOneStack(o)'
      BY <1>m, <2>1, <2>2, <2>3 DEF OnOneStack
    <2> QED
      BY <1>1, <2>1, <2>2, <2>3
  <1>4. CASE Pop
    <2>1. hand = Null /\ UNCHANGED <<gray, revoked>>
      BY <1>4 DEF Pop, Types, TypeOK, colours
    <2>2. CASE UNCHANGED hand
      <3>1. todo = {} /\ todo' = gcStack /\ gcStack' = {}
        BY <1>4, <1>n, <2>1, <2>2 DEF Pop, TakeNext, Types
      <3>2. \A o \in Heap : CollectorHas(o)' <=> CollectorHas(o)
        BY <2>1, <2>2, <3>1 DEF CollectorHas
      <3>3. ASSUME NEW o \in Heap, OnOneStack(o)
            PROVE  OnOneStack(o)'
        BY <1>m, <2>1, <2>2, <3>1, <3>2, <3>3 DEF OnOneStack
      <3> QED
        BY <1>1, <2>1, <3>2, <3>3
    <2>3. CASE hand' \in todo /\ todo' = todo \ {hand'} /\ UNCHANGED gcStack
      <3>1. \A o \in Heap : CollectorHas(o)' <=> CollectorHas(o)
        BY <1>n, <2>1, <2>3 DEF CollectorHas
      <3>2. ASSUME NEW o \in Heap, OnOneStack(o)
            PROVE  OnOneStack(o)'
        BY <1>m, <2>1, <2>3, <3>1, <3>2 DEF OnOneStack
      <3> QED
        BY <1>1, <2>1, <3>1, <3>2
    <2>4. CASE hand' \in gcStack /\ gcStack' = gcStack \ {hand'} /\ UNCHANGED todo
      <3>1. \A o \in Heap : CollectorHas(o)' <=> CollectorHas(o)
        BY <1>n, <2>1, <2>4 DEF CollectorHas
      <3>2. ASSUME NEW o \in Heap, OnOneStack(o)
            PROVE  OnOneStack(o)'
        BY <1>m, <2>1, <2>4, <3>1, <3>2 DEF OnOneStack
      <3> QED
        BY <1>1, <2>1, <3>1, <3>2
    <2> QED
      BY <1>4, <2>2, <2>3, <2>4 DEF Pop, TakeNext
  <1>5. CASE Scan
    <2>1. UNCHANGED <<revoked, todo, hand>>
      BY <1>5 DEF Scan, pass
    <2>2. CASE UNCHANGED <<gray, gcStack>>
      <3>1. \A o \in Heap : (CollectorHas(o)' <=> CollectorHas(o)) /\ (OnOneStack(o) => OnOneStack(o)')
        BY <1>s, <2>1, <2>2
      <3> QED
        BY <1>1, <2>2, <3>1
    <2>3. CASE Mark(field[hand])
      <3>1. hand \in Heap
        BY <1>5 DEF Scan, Types, TypeOK
      <3>2. field[hand] \in Objects \cup {Null}
        BY <3>1 DEF Types, TypeOK
      <3> QED
        BY <1>f, <2>1, <2>3, <3>2, MarkStacks
    <2> QED
      BY <1>5, <2>2, <2>3 DEF Scan
  <1>6. CASE Ungray
    <2> PICK h \in Heap : h = hand
      BY <1>6 DEF Ungray, Types, TypeOK
    <2>1. hand' = Null /\ UNCHANGED <<gcStack, revoked, todo>>
      BY <1>6 DEF Ungray, stacks
    <2>2. /\ \A o \in Heap : o # h => (o \in gray' <=> o \in gray)
          /\ h # Reference => h \notin gray'
      BY <1>6 DEF Ungray
    <2>3. OnOneStack(h)
      BY DEF StackInv
    <2>4. ASSUME NEW o \in Heap, o # h
          PROVE  OnOneStack(o)' /\ (CollectorHas(o)' <=> CollectorHas(o))
      <3>1. OnOneStack(o) /\ (o = hand' <=> o = hand)
        BY <1>n, <2>1, <2>4 DEF StackInv
      <3> QED
        BY <1>m, <2>1, <3>1, StaysOnStack
    <2>5. ~CollectorHas(h) \/ \A u \in Mutators : ~MutatorHas(u, h)
      BY <2>3 DEF OnOneStack
    <2>6. CollectorHas(h) /\ ~CollectorHas(h)'
      BY <1>n, <2>1, <2>3 DEF OnOneStack, CollectorHas
    <2>7. \A u \in Mutators : ~MutatorHas(u, h)'
      BY <1>m, <2>5, <2>6
    <2>8. OnOneStack(h)'
      BY <1>m, <2>6, <2>7 DEF OnOneStack, CollectorHas
    <2>9. ASSUME NEW o \in Objects
          PROVE  (o \in gray <=> CollectorHas(o) \/ \E u \in Mutators : MutatorHas(u, o))'
      <3>1. CASE o = h
        BY <1>n, <2>2, <2>6, <2>7, <3>1
      <3>2. CASE o # h
        BY <1>m, <1>n, <2>2, <2>4, <3>2 DEF StackInv
      <3> QED
        BY <3>1, <3>2
    <2> QED
      BY <2>4, <2>8, <2>9 DEF StackInv
  <1>7. CASE ForwardSoftReferences
    <2>1. /\ UNCHANGED <<revoked, todo, hand>>
          /\ Mark(field[Reference]) \/ UNCHANGED <<gray, gcStack>>
      BY <1>7 DEF ForwardSoftReferences, pass
    <2>2. field[Reference] \in Objects \cup {Null}
      BY DEF Types, TypeOK, Heap
    <2>3. CASE UNCHANGED <<gray, gcStack>>
      <3>1. \A o \in Heap : (CollectorHas(o)' <=> CollectorHas(o)) /\ (OnOneStack(o) => OnOneStack(o)')
        BY <1>s, <2>1, <2>3
      <3> QED
        BY <1>1, <2>3, <3>1
    <2> QED
      BY <1>f, <2>1, <2>2, <2>3, MarkStacks
  <1>8. CASE EnqueueFinalizerReferences
    <2>1. UNCHANGED <<revoked, todo, hand>> /\ Mark(finalizee)
      BY <1>8 DEF EnqueueFinalizerReferences, pass
    <2>2. finalizee \in Objects \cup {Null}
      BY DEF Types
    <2> QED
      BY <1>f, <2>1, <2>2, MarkStacks
  <1>9. CASE DisableReadBarrierForReference
    <2>1. UNCHANGED <<gcStack, revoked, todo, hand>> /\ gray' = gray \ {Reference}
      BY <1>9 DEF DisableReadBarrierForReference, stacks, pass
    <2>2. \A o \in Heap : (CollectorHas(o)' <=> CollectorHas(o)) /\ (OnOneStack(o) => OnOneStack(o)')
      BY <1>s, <2>1
    <2> QED
      BY <1>m, <1>n, <2>1, <2>2 DEF StackInv
  <1> QED
    BY <1>2, <1>3, <1>4, <1>5, <1>6, <1>7, <1>8, <1>9 DEF Collect, Quiet

\* A checkpoint moves the thread-local mark stack of a thread to the revoked ones.
LEMMA CheckpointStacks ==
  ASSUME Types, StackInv, NEW t \in Mutators, Checkpoint(t)
  PROVE  StackInv'
  <1>1. UNCHANGED <<gray, gcStack, todo, hand, pc, ref>>
    BY DEF Checkpoint, Revoke, EmptyCheckpoint, DisableMarkingCheckpoint, Answer, colours,
       mutators, pass
  <1>n. Objects \subseteq Heap
    BY DEF Heap
  <1>p. \A u \in Mutators, o \in Heap : Pushes(u, o)' <=> Pushes(u, o)
    BY <1>1 DEF Pushes
  <1>2. CASE UNCHANGED <<local, revoked>>
    <2>1. ASSUME NEW o \in Heap
          PROVE  /\ OnOneStack(o)'
                 /\ CollectorHas(o)' <=> CollectorHas(o)
                 /\ \A u \in Mutators : MutatorHas(u, o)' <=> MutatorHas(u, o)
      <3>1. OnOneStack(o)
        BY DEF StackInv
      <3> QED
        BY <1>1, <1>p, <1>2, <3>1, StaysOnStack
    <2> QED
      BY <1>1, <1>n, <2>1 DEF StackInv
  <1>3. CASE Revoke(t)
    <2>1. /\ revoked' = revoked \cup local[t] /\ local'[t] = {}
          /\ \A u \in Mutators \ {t} : local'[u] = local[u]
          /\ pc[t] = "run"
      BY <1>3 DEF Revoke, Answer, Types
    <2>2. ASSUME NEW o \in Heap, o \notin local[t]
          PROVE  /\ OnOneStack(o)'
                 /\ CollectorHas(o)' <=> CollectorHas(o)
                 /\ \A u \in Mutators : MutatorHas(u, o)' <=> MutatorHas(u, o)
      <3>1. OnOneStack(o) /\ (o \in revoked' <=> o \in revoked)
        BY <2>1, <2>2 DEF StackInv
      <3>2. \A u \in Mutators : o \in local'[u] <=> o \in local[u]
        BY <2>1, <2>2
      <3> QED
        BY <1>1, <1>p, <3>1, <3>2, StaysOnStack
    <2>3. ASSUME NEW o \in Heap, o \in local[t]
          PROVE  OnOneStack(o)' /\ CollectorHas(o)' /\ MutatorHas(t, o)
      <3>1. OnOneStack(o) /\ MutatorHas(t, o)
        BY <2>3 DEF StackInv, MutatorHas
      <3>2. /\ ~CollectorHas(o) /\ ~Pushes(t, o)
            /\ \A u \in Mutators : MutatorHas(u, o) => u = t
        BY <2>3, <3>1 DEF OnOneStack
      <3>3. /\ \A u \in Mutators : ~MutatorHas(u, o)'
            /\ o \in revoked' /\ o \notin gcStack' /\ o \notin todo' /\ o # hand'
        BY <1>1, <1>p, <2>1, <2>3, <3>2 DEF MutatorHas, CollectorHas
      <3> QED
        BY <3>1, <3>3 DEF OnOneStack, CollectorHas
    <2>4. ASSUME NEW o \in Objects
          PROVE  (o \in gray <=> CollectorHas(o) \/ \E u \in Mutators : MutatorHas(u, o))'
      <3>1. o \in gray' <=> o \in gray
        BY <1>1
      <3>2. CASE o \in local[t]
        BY <1>n, <2>3, <3>1, <3>2 DEF StackInv
      <3>3. CASE o \notin local[t]
        BY <1>n, <2>2, <3>1, <3>3 DEF StackInv
      <3> QED
        BY <3>2, <3>3
    <2> QED
      BY <2>2, <2>3, <2>4 DEF StackInv
  <1> QED
    BY <1>2, <1>3 DEF Checkpoint, EmptyCheckpoint, DisableMarkingCheckpoint

-----------------------------------------------------------------------------
(* Leaving the thread-local mode                                           *)

\* After SwitchToSharedMarkStackMode a mutator reads the shared mode: it has left its
\* thread-local mark stack for good.
LEMMA MutatorLeaves ==
  ASSUME PhaseAt, SwitchInv, NEW t \in Mutators, MutatorEffect(t)
  PROVE  SwitchInv'
  <1>f. UNCHANGED <<mode, enabled, phase, gc, awaited>>
    BY DEF MutatorEffect, MutatorFrame
  <1>1. ASSUME NEW u \in Mutators, Left(u), phase # "local"
        PROVE  Left(u)'
    <2>m. mode # "ThreadLocal"
      BY <1>1 DEF PhaseAt, Exclusive, Passing
    <2>1. CASE u = t
      <3>1. pc[t] # "ThreadLocal" /\ local[t] = {}
        BY <1>1, <2>1 DEF Left
      <3>2. local'[t] = {}
        BY <3>1 DEF MutatorEffect, Starts, Drops, Advances, Chooses, Gets, Grays, PushesLocally,
                    PushesShared, Stores
      <3>3. pc'[t] # "ThreadLocal"
        BY <2>m, <3>1 DEF MutatorEffect, Starts, Drops, Advances, Chooses, Gets, Grays,
           PushesLocally,
                    PushesShared, Stores, Gained, Moved
      <3> QED
        BY <2>1, <3>2, <3>3 DEF Left
    <2>2. CASE u # t
      <3>1. local'[u] = local[u]
        BY <2>2 DEF MutatorEffect, Starts, Drops, Advances, Chooses, Gets, Grays, PushesLocally,
                    PushesShared, Stores
      <3>2. pc'[u] = pc[u]
        BY <2>2 DEF MutatorEffect, Starts, Drops, Advances, Chooses, Gets, Grays, PushesLocally,
                    PushesShared, Stores, Gained, Moved
      <3> QED
        BY <1>1, <3>1, <3>2 DEF Left
    <2> QED
      BY <2>1, <2>2
  <1>2. gc = "revokeWeak" => phase # "local"
    BY DEF PhaseAt, Exclusive, Passing
  <1>3. Left(t) => UNCHANGED revoked
    BY DEF Left, MutatorEffect, Starts, Drops, Advances, Chooses, Gets, Grays, PushesLocally,
           PushesShared, Stores
  <1> QED
    BY <1>f, <1>1, <1>2, <1>3 DEF SwitchInv

\* RevokeThreadLocalMarkStackCheckpoint takes the thread-local mark stack of a thread,
\* and with it weak reference access.
LEMMA CheckpointLeaves ==
  ASSUME Types, PhaseAt, SwitchInv, NEW t \in Mutators, Checkpoint(t)
  PROVE  SwitchInv'
  <1>1. UNCHANGED <<phase, gc, pc>> /\ awaited' = awaited \ {t} /\ pc[t] = "run"
    BY DEF Checkpoint, Revoke, EmptyCheckpoint, DisableMarkingCheckpoint, Answer, mutators
  <1>2. gc \in {"revoke", "revokeWeak", "empty", "disable"}
    BY DEF Checkpoint, Revoke, EmptyCheckpoint, DisableMarkingCheckpoint, Answer
  <1>3. CASE Revoke(t)
    <2>1. /\ local'[t] = {} /\ \A u \in Mutators \ {t} : local'[u] = local[u]
          /\ gc = "revokeWeak" => enabled' = enabled \ {t}
      BY <1>3 DEF Revoke, Types
    <2>2. gc = "revoke" => phase = "local"
      BY DEF PhaseAt, Exclusive, Passing
    <2>3. gc = "revoke" \/ gc = "revokeWeak"
      BY <1>3 DEF Revoke, Answer
    <2> QED
      BY <1>1, <2>1, <2>2, <2>3 DEF SwitchInv, Left
  <1>4. CASE EmptyCheckpoint(t) \/ DisableMarkingCheckpoint(t)
    <2>1. UNCHANGED <<local, revoked, enabled>> /\ gc # "revokeWeak"
      BY <1>4 DEF EmptyCheckpoint, DisableMarkingCheckpoint, Answer, flags
    <2> QED
      BY <1>1, <2>1 DEF SwitchInv, Left
  <1> QED
    BY <1>3, <1>4 DEF Checkpoint

\* The collector leaves the thread-local mode once every mutator has.
LEMMA CollectorLeaves ==
  ASSUME Types, PhaseAt, SwitchInv, Collect
  PROVE  SwitchInv'
  <1>f. CollectorFrame
    BY CollectorFrames
  <1>1. \A t \in Mutators : Left(t)' <=> Left(t)
    BY <1>f DEF CollectorFrame, Left
  <1>2. CASE SwitchToSharedMarkStackMode
    BY <1>2 DEF SwitchToSharedMarkStackMode, Ask, SwitchInv
  <1>3. CASE TakeRevoked
    <2>1. /\ gc' = "drain" /\ revoked' = {} /\ awaited = {} /\ UNCHANGED <<phase, enabled>>
          /\ gc \in {"revoke", "revokeWeak"}
      BY <1>3 DEF TakeRevoked, AllAnswered, mutatorState, flags
    <2>2. gc = "revoke" => phase = "local"
      BY DEF PhaseAt, Exclusive, Passing
    <2>3. gc = "revokeWeak" => enabled = {} /\ \A t \in Mutators : Left(t)
      BY <2>1 DEF SwitchInv, Types, TypeOK
    <2> QED
      BY <1>1, <2>1, <2>2, <2>3 DEF SwitchInv
  <1>4. CASE ReenableWeakRefAccess
    <2>1. /\ phase = "last" /\ gc = "processed" /\ gc' \in {"processed", "disable"}
          /\ UNCHANGED <<phase, revoked>>
      BY <1>4 DEF ReenableWeakRefAccess, Ask, stacks
    <2> QED
      BY <1>1, <2>1 DEF SwitchInv
  <1>5. ASSUME UNCHANGED <<revoked, enabled>>, gc' # "revokeWeak",
               phase' # "local" => phase # "local" /\ gc # "revokeWeak",
               phase = "last" /\ gc \in {"processed", "disable", "done"} =>
                 phase' = "last" /\ gc' \in {"processed", "disable", "done"}
        PROVE  SwitchInv'
    BY <1>1, <1>5 DEF SwitchInv
  <1> USE DEF heap, colours, stacks, flags, mutators, references, pass, mutatorState, PhaseAt,
         Exclusive, Passing
  <1>6. CASE StartPass
    <2>1. gc = "pass" /\ mode \in {"ThreadLocal", "Shared", "GcExclusive"}
      BY <1>6 DEF StartPass
    <2>2. gc' \in {"revoke", "empty", "drain"}
      BY <1>6, <2>1 DEF StartPass, Ask
    <2> QED
      BY <1>5, <1>6, <2>1, <2>2 DEF StartPass
  <1>7. CASE EmptyCheckpointDone
    BY <1>7, <1>5 DEF EmptyCheckpointDone
  <1>8. CASE Pop
    <2>1. gc = "drain" /\ gc' \in {"drain", "scan"} /\ UNCHANGED <<phase, revoked, enabled>>
      BY <1>8 DEF Pop, TakeNext
    <2> QED
      BY <1>5, <2>1
  <1>9. CASE Scan
    BY <1>9, <1>5 DEF Scan
  <1>10. CASE Ungray
    BY <1>10, <1>5 DEF Ungray
  <1>11. CASE EndPass
    BY <1>11, <1>5 DEF EndPass
  <1>12. CASE SwitchedToSharedMarkStackMode
    BY <1>12, <1>5 DEF SwitchedToSharedMarkStackMode
  <1>13. CASE SwitchToGcExclusiveMarkStackMode
    BY <1>13, <1>5 DEF SwitchToGcExclusiveMarkStackMode
  <1>22. CASE ProcessReferences
    BY <1>22, <1>5 DEF ProcessReferences
  <1>14. CASE StartPreservingReferences
    BY <1>14, <1>5 DEF StartPreservingReferences
  <1>15. CASE ClearSoftReferences
    BY <1>15, <1>5 DEF ClearSoftReferences
  <1>16. CASE ForwardSoftReferences
    BY <1>16, <1>5 DEF ForwardSoftReferences
  <1>17. CASE EnqueueFinalizerReferences
    BY <1>17, <1>5 DEF EnqueueFinalizerReferences
  <1>18. CASE StopPreservingReferences
    BY <1>18, <1>5 DEF StopPreservingReferences
  <1>19. CASE ClearWhiteReferences
    BY <1>19, <1>5 DEF ClearWhiteReferences
  <1>20. CASE DisableReadBarrierForReference
    BY <1>20, <1>5 DEF DisableReadBarrierForReference
  <1>21. CASE DisableMarking
    BY <1>21, <1>5 DEF DisableMarking
  <1> QED
    BY <1>2, <1>3, <1>4, <1>6, <1>7, <1>8, <1>9, <1>10, <1>11, <1>12, <1>13, <1>14, <1>15, <1>16,
       <1>17, <1>18, <1>19, <1>20, <1>21, <1>22 DEF Collect

-----------------------------------------------------------------------------
(* Colours                                                                 *)

\* What is marked stays marked, and a field that is null or leads to a marked object
\* goes on to do so: no step stores a reference to a white object.
Stable ==
  /\ \A o \in Heap : Marked(o) => Marked(o)'
  /\ \A o \in Heap : FieldMarked(o) => FieldMarked(o)'

\* A mutator stores only what it holds, and marks before it holds.
LEMMA MutatorColours ==
  ASSUME Types, PhaseAt, StackInv, ColourInv, ReferenceInv, PassInv, NEW t \in Mutators, ReadAt(t),
         MutatorEffect(t)
  PROVE  Stable /\ ColourInv' /\ ReferenceInv'
  <1>f. UNCHANGED <<marked, phase, gc, hand, pending, todo>>
    BY DEF MutatorEffect, MutatorFrame
  <1>n. Objects \subseteq Heap /\ Reference \in Heap /\ Reference \notin Objects /\ Null \notin Objects
    BY ObjectsAssumption DEF Heap
  <1>t. /\ field \in [Heap -> Objects \cup {Null}] /\ roots \in [Mutators -> SUBSET Objects]
        /\ ref \in [Mutators -> Heap \cup {Null}] /\ (ref[t] = Null <=> pc[t] = "run")
    BY DEF Types, TypeOK
  <1>g. gray \subseteq gray' /\ gray' \subseteq gray \cup Objects /\ gcStack \subseteq gcStack'
    BY DEF MutatorEffect, Starts, Drops, Advances, Chooses, Gets, Grays, PushesLocally,
       PushesShared,
           Stores, ReadAt
  <1>1. \A o \in Heap : Marked(o) => Marked(o)'
    BY <1>f, <1>g DEF Marked
  <1>2. ASSUME NEW x \in Heap, FieldMarked(x)
        PROVE  FieldMarked(x)'
    <2>1. CASE UNCHANGED field
      <3>1. field[x] = Null \/ field[x] \in Objects
        BY <1>t
      <3> QED
        BY <1>1, <1>2, <1>n, <2>1, <3>1 DEF FieldMarked
    <2>2. CASE Stores(t)
      <3>1. PICK o \in Heap :
              /\ field'[o] \in roots[t] \cup {Null}
              /\ \A y \in Heap \ {o} : field'[y] = field[y]
        BY <2>2 DEF Stores
      <3>2. CASE x = o
        <4>1. field'[x] = Null \/ (field'[x] \in Heap /\ Marked(field'[x]))
          BY <1>t, <1>n, <3>1, <3>2 DEF ColourInv
        <4>2. PICK y : y = field'[x]
          OBVIOUS
        <4>3. y = Null \/ Marked(y)'
          BY <1>1, <4>1, <4>2
        <4> QED
          BY <4>2, <4>3 DEF FieldMarked, Marked
      <3>3. CASE x # o
        <4>1. field'[x] = field[x] /\ (field[x] = Null \/ field[x] \in Objects)
          BY <1>t, <3>1, <3>3
        <4>2. PICK y : y = field[x]
          OBVIOUS
        <4>3. y = Null \/ Marked(y)'
          BY <1>1, <1>2, <1>n, <4>1, <4>2 DEF FieldMarked
        <4> QED
          BY <4>1, <4>2, <4>3 DEF FieldMarked, Marked
      <3> QED
        BY <3>2, <3>3
    <2> QED
      BY <2>1, <2>2 DEF MutatorEffect, Starts, Drops, Advances, Chooses, Gets, Grays,
         PushesLocally,
                        PushesShared, Gained
  <1>3. Stable
    BY <1>1, <1>2 DEF Stable
  <1>4. ASSUME NEW o \in Objects, Gained(t, o), Marked(o)
        PROVE  \A u \in Mutators : \A x \in roots'[u] : Marked(x)'
    <2> SUFFICES ASSUME NEW u \in Mutators, NEW x \in roots'[u] PROVE Marked(x)'
      OBVIOUS
    <2>1. x \in roots[u] \/ x = o
      BY <1>4 DEF Gained
    <2>2. Marked(x) /\ x \in Heap
      BY <1>4, <1>n, <1>t, <2>1 DEF ColourInv
    <2> QED
      BY <1>1, <2>2
  <1>5. \A u \in Mutators : \A x \in roots'[u] : Marked(x)'
    <2>1. CASE UNCHANGED roots
      BY <1>1, <1>n, <1>t, <2>1 DEF ColourInv
    <2>2. CASE Gets(t)
      <3>1. PICK o \in Objects : Gained(t, o) /\ (Marked(o) \/ (pc[t] = "load" /\ o = field[ref[t]]))
        BY <2>2 DEF Gets
      <3>2. Marked(o)
        BY <1>n, <3>1 DEF ColourInv, FieldMarked
      <3> QED
        BY <1>4, <3>1, <3>2
    <2>3. CASE PushesLocally(t) \/ PushesShared(t)
      <3>1. ref[t] \in Objects /\ Gained(t, ref[t]) /\ Pushes(t, ref[t])
        BY <2>3 DEF PushesLocally, PushesShared, ReadAt, Pushes
      <3>2. Marked(ref[t])
        BY <3>1 DEF StackInv, MutatorHas, Marked
      <3> QED
        BY <1>4, <3>1, <3>2
    <2> QED
      BY <2>1, <2>2, <2>3 DEF MutatorEffect, Starts, Drops, Advances, Chooses, Grays, Stores
  <1>6. ASSUME NEW u \in Mutators, pc'[u] = "load"
        PROVE  FieldMarked(ref[u])'
    <2>1. CASE pc[u] = "load" /\ ref'[u] = ref[u] /\ ref[u] \in Heap
      <3>1. PICK x \in Heap : x = ref[u]
        BY <2>1
      <3>2. FieldMarked(x)'
        BY <1>2, <2>1, <3>1 DEF ColourInv
      <3> QED
        BY <2>1, <3>1, <3>2 DEF FieldMarked
    <2>2. CASE Starts(t) /\ u = t
      <3>1. PICK o \in Heap :
              /\ o \in roots[t] \/ (o = Reference /\ t \in enabled)
              /\ o \notin gray \/ t \notin marking
              /\ ref'[t] = o
        BY <1>6, <2>2 DEF Starts, Moved
      <3>2. o \notin gray
        <4>1. CASE t \notin marking
          <5>1. gc \in {"disable", "done"} /\ phase = "last"
            BY <4>1 DEF PhaseAt, Exclusive, Passing
          <5>2. gray \subseteq {Reference} /\ Reference \notin gray
            BY <5>1 DEF PassInv, Drained, ReferenceInv
          <5> QED
            BY <5>2
        <4> QED
          BY <3>1, <4>1
      <3>3. FieldMarked(o)
        BY <1>t, <3>1, <3>2 DEF ColourInv, ReferenceInv, Marked
      <3>4. FieldMarked(o)'
        BY <1>2, <3>3
      <3> QED
        BY <2>2, <3>1, <3>4 DEF FieldMarked
    <2>3. CASE ~Starts(t) \/ u # t
      <3>1. pc'[u] = pc[u] /\ ref'[u] = ref[u]
        BY <1>6, <2>3 DEF MutatorEffect, Starts, Drops, Advances, Chooses, Gets, Grays,
                          PushesLocally, PushesShared, Stores, Gained, Moved
      <3>2. ref[u] \in Heap
        BY <1>6, <3>1 DEF Types, TypeOK
      <3> QED
        BY <1>6, <2>1, <3>1, <3>2
    <2> QED
      BY <2>2, <2>3
  <1>7. ColourInv'
    BY <1>2, <1>5, <1>6, <1>f, <1>n DEF ColourInv
  <1>8. ReferenceInv'
    BY <1>2, <1>f, <1>g, <1>n DEF ReferenceInv
  <1> QED
    BY <1>3, <1>7, <1>8

\* Mark on the collector's thread leaves its object marked and unmarks none.
LEMMA MarkColours ==
  ASSUME NEW o \in Objects \cup {Null}, Mark(o)
  PROVE  /\ gray \subseteq gray' /\ gray' \subseteq gray \cup Objects /\ gcStack \subseteq gcStack'
         /\ o = Null \/ o \in gray' \/ o \in marked
  BY DEF Mark, Marked

\* A field that no one writes stays null or marked as long as nothing is unmarked.
LEMMA FieldsStay ==
  ASSUME field \in [Heap -> Objects \cup {Null}], UNCHANGED field,
         \A o \in Heap : Marked(o) => Marked(o)'
  PROVE  Stable
  <1>1. ASSUME NEW x \in Heap, FieldMarked(x)
        PROVE  FieldMarked(x)'
    <2>1. PICK y \in Objects \cup {Null} : y = field[x]
      OBVIOUS
    <2>2. y = Null \/ Marked(y)'
      BY <1>1, <2>1 DEF FieldMarked, Heap
    <2> QED
      BY <2>1, <2>2 DEF FieldMarked, Marked
  <1> QED
    BY <1>1 DEF Stable

\* The collector writes no field but to clear a white referent.
LEMMA CollectorFields ==
  ASSUME Collect
  PROVE  UNCHANGED field \/ ClearWhiteReferences
  <1> USE DEF mutatorState, heap
  <1>1. Quiet \/ TakeRevoked \/ Pop \/ Scan \/ Ungray \/ ForwardSoftReferences
        \/ EnqueueFinalizerReferences \/ DisableReadBarrierForReference
    BY DEF Collect, Quiet
  <1>2. Quiet => UNCHANGED field \/ ClearWhiteReferences
    BY DEF Quiet, StartPass, EmptyCheckpointDone, EndPass, SwitchToSharedMarkStackMode,
           SwitchedToSharedMarkStackMode, SwitchToGcExclusiveMarkStackMode,
           ProcessReferences, StartPreservingReferences, ClearSoftReferences,
           StopPreservingReferences, ReenableWeakRefAccess, DisableMarking
  <1> QED
    BY <1>1, <1>2 DEF TakeRevoked, Pop, Scan, Ungray, ForwardSoftReferences,
                      EnqueueFinalizerReferences, DisableReadBarrierForReference

\* The collector unmarks nothing: an object that turns from gray is in the bitmap, and
\* ClearWhiteReferences stores null.
LEMMA CollectorStable ==
  ASSUME Types, PhaseAt, ColourInv, ReferenceInv, Collect
  PROVE  Stable
  <1>t. field \in [Heap -> Objects \cup {Null}]
    BY DEF Types, TypeOK
  <1>1. \A o \in Heap : Marked(o) => Marked(o)'
    <2>1. CASE Quiet
      BY <2>1, QuietFrame DEF Marked
    <2>2. CASE TakeRevoked \/ Pop
      BY <2>2 DEF TakeRevoked, Pop, Marked, colours
    <2>3. CASE Scan
      <3>1. hand \in Heap
        BY <2>3 DEF Scan, Types, TypeOK
      <3>2. field[hand] \in Objects \cup {Null}
        BY <1>t, <3>1
      <3>3. gray \subseteq gray' /\ marked \subseteq marked'
        BY <2>3, <3>2, MarkColours DEF Scan
      <3> QED
        BY <3>3 DEF Marked
    <2>4. CASE Ungray
      <3>1. hand \in marked /\ gray \ {hand} \subseteq gray' /\ UNCHANGED marked
        BY <2>4 DEF Ungray, ColourInv
      <3> QED
        BY <3>1 DEF Marked
    <2>5. CASE ForwardSoftReferences
      <3>1. field[Reference] \in Objects \cup {Null}
        BY <1>t DEF Heap
      <3>2. gray \subseteq gray' /\ UNCHANGED marked
        BY <2>5, <3>1, MarkColours DEF ForwardSoftReferences
      <3> QED
        BY <3>2 DEF Marked
    <2>6. CASE EnqueueFinalizerReferences
      <3>1. finalizee \in Objects \cup {Null}
        BY DEF Types
      <3>2. gray \subseteq gray' /\ UNCHANGED marked
        BY <2>6, <3>1, MarkColours DEF EnqueueFinalizerReferences
      <3> QED
        BY <3>2 DEF Marked
    <2>7. CASE DisableReadBarrierForReference
      <3>1. gray' = gray \ {Reference} /\ UNCHANGED marked /\ gc = "disableBarrier"
        BY <2>7 DEF DisableReadBarrierForReference
      <3>2. phase \in Exclusive
        BY <3>1 DEF PhaseAt, Exclusive, Passing
      <3>3. Reference \in marked
        BY <3>2 DEF ReferenceInv
      <3> QED
        BY <3>1, <3>3 DEF Marked
    <2> QED
      BY <2>1, <2>2, <2>3, <2>4, <2>5, <2>6, <2>7 DEF Collect, Quiet
  <1>2. CASE UNCHANGED field
    BY <1>t, <1>1, <1>2, FieldsStay
  <1>3. CASE ClearWhiteReferences
    <2>1. UNCHANGED <<gray, marked>>
      BY <1>3 DEF ClearWhiteReferences, colours
    <2>2. \A x \in Heap : field'[x] = field[x] \/ field'[x] = Null
      BY <1>t, <1>3 DEF ClearWhiteReferences
    <2> QED
      BY <1>1, <2>1, <2>2 DEF Stable, FieldMarked, Marked
  <1>4. UNCHANGED field \/ ClearWhiteReferences
    BY CollectorFields
  <1> QED
    BY <1>2, <1>3, <1>4

\* An object enters the bitmap together with its field, and is no longer gray only
\* after that.
LEMMA CollectorColours ==
  ASSUME Types, PhaseAt, ColourInv, ReferenceInv, Collect
  PROVE  ColourInv'
  <1>f. UNCHANGED <<roots, pc, ref>>
    BY CollectorFrames DEF CollectorFrame
  <1>n. Objects \subseteq Heap
    BY DEF Heap
  <1>t. /\ field \in [Heap -> Objects \cup {Null}] /\ roots \in [Mutators -> SUBSET Objects]
        /\ ref \in [Mutators -> Heap \cup {Null}]
        /\ \A u \in Mutators : ref[u] = Null <=> pc[u] = "run"
    BY DEF Types, TypeOK
  <1>s. Stable
    BY CollectorStable
  <1>1. \A u \in Mutators : \A o \in roots'[u] : Marked(o)'
    BY <1>f, <1>n, <1>s, <1>t DEF Stable, ColourInv
  <1>2. ASSUME NEW u \in Mutators, pc'[u] = "load"
        PROVE  FieldMarked(ref[u])'
    <2>1. PICK x \in Heap : x = ref[u]
      BY <1>2, <1>f, <1>t
    <2>2. FieldMarked(x)'
      BY <1>2, <1>f, <1>s, <2>1 DEF Stable, ColourInv
    <2> QED
      BY <1>f, <2>1, <2>2 DEF FieldMarked
  <1>3. CASE ~Scan
    <2>1. UNCHANGED marked /\ gc' # "ungray"
      <3>1. CASE Quiet
        <4>1. UNCHANGED marked
          BY <3>1, QuietFrame
        <4>2. gc' # "ungray"
          <5>1. CASE StartPass
            <6>1. mode \in {"ThreadLocal", "Shared", "GcExclusive"}
              BY <5>1 DEF StartPass, PhaseAt, Exclusive, Passing
            <6> QED
              BY <5>1, <6>1 DEF StartPass, Ask
          <5> QED
            BY <3>1, <5>1 DEF Quiet, EmptyCheckpointDone, EndPass, SwitchToSharedMarkStackMode,
               SwitchedToSharedMarkStackMode, SwitchToGcExclusiveMarkStackMode,
               ProcessReferences, StartPreservingReferences, ClearSoftReferences,
               StopPreservingReferences, ClearWhiteReferences, ReenableWeakRefAccess, DisableMarking, Ask
        <4> QED
          BY <4>1, <4>2
      <3> QED
        BY <1>3, <3>1 DEF Collect, Quiet, TakeRevoked, Pop, TakeNext, Ungray,
           ForwardSoftReferences,
           EnqueueFinalizerReferences, DisableReadBarrierForReference, colours
    <2>2. \A o \in marked' \cap Objects : FieldMarked(o)'
      BY <1>n, <1>s, <2>1 DEF Stable, ColourInv
    <2> QED
      BY <1>1, <1>2, <2>1, <2>2 DEF ColourInv
  <1>4. CASE Scan
    <2> PICK h \in Heap : h = hand
      BY <1>4 DEF Scan, Types, TypeOK
    <2>1. marked' = marked \cup {h} /\ UNCHANGED <<hand, field>>
      BY <1>4 DEF Scan, pass, mutatorState, heap
    <2>2. CASE h \in marked
      BY <1>1, <1>2, <1>n, <1>s, <2>1, <2>2 DEF Stable, ColourInv
    <2>3. CASE h \notin marked /\ h = Reference
      <3>1. Reference \notin Objects
        BY ObjectsAssumption
      <3> QED
        BY <1>1, <1>2, <1>n, <1>s, <2>1, <2>3, <3>1 DEF Stable, ColourInv
    <2>4. CASE h \notin marked /\ h # Reference
      <3>1. Mark(field[h]) /\ field[h] \in Objects \cup {Null}
        BY <1>4, <1>t, <2>4 DEF Scan
      <3>2. field[h] = Null \/ field[h] \in gray' \/ field[h] \in marked
        BY <3>1, MarkColours
      <3>3. FieldMarked(h)'
        BY <2>1, <3>2 DEF FieldMarked, Marked
      <3> QED
        BY <1>1, <1>2, <1>n, <1>s, <2>1, <3>3 DEF Stable, ColourInv
    <2> QED
      BY <2>2, <2>3, <2>4
  <1> QED
    BY <1>3, <1>4

\* The Reference is scanned before references are processed: it stays gray while its
\* referent is white, and is on a queue then.
LEMMA CollectorReference ==
  ASSUME Types, PhaseAt, ColourInv, ReferenceInv, PassInv, Collect
  PROVE  ReferenceInv'
  <1>n. Objects \subseteq Heap /\ Reference \in Heap /\ Reference \notin Objects /\ Reference # Null
    BY ObjectsAssumption DEF Heap, Null, Reference
  <1>t. field \in [Heap -> Objects \cup {Null}] /\ finalizee \in Objects \cup {Null}
    BY DEF Types, TypeOK
  <1>s. FieldMarked(Reference) => FieldMarked(Reference)'
    BY <1>n, CollectorStable DEF Stable
  <1>1. ASSUME UNCHANGED <<marked, pending, phase>>, gc' # "disableBarrier",
               gray \subseteq gray', gray' \subseteq gray \cup Objects,
               Reference \in gcStack \/ Reference \in todo \/ Reference = hand =>
                 Reference \in gcStack' \/ Reference \in todo' \/ Reference = hand'
        PROVE  ReferenceInv'
    BY <1>1, <1>n, <1>s DEF ReferenceInv
  <1>2. CASE TakeRevoked
    <2>1. todo = {} /\ UNCHANGED <<gray, marked, pending, phase, gcStack, hand>> /\ gc' = "drain"
      BY <1>2 DEF TakeRevoked, PhaseAt, colours, references
    <2> QED
      BY <1>1, <2>1
  <1>3. CASE Pop
    <2>1. UNCHANGED <<gray, marked, pending, phase>> /\ gc' # "disableBarrier"
      BY <1>3 DEF Pop, TakeNext, colours, references
    <2>2. hand = Null
      BY <1>3 DEF Pop, Types, TypeOK
    <2>3. Reference \in gcStack \/ Reference \in todo =>
            Reference \in gcStack' \/ Reference \in todo' \/ Reference = hand'
      <3>1. CASE \E o \in todo : TakeNext(o) /\ todo' = todo \ {o} /\ UNCHANGED gcStack
        BY <3>1 DEF TakeNext
      <3>2. CASE \E o \in gcStack : TakeNext(o) /\ gcStack' = gcStack \ {o} /\ UNCHANGED todo
        BY <3>2 DEF TakeNext
      <3>3. CASE todo = {} /\ todo' = gcStack
        BY <3>3
      <3> QED
        BY <1>3, <3>1, <3>2, <3>3 DEF Pop
    <2> QED
      BY <1>1, <1>n, <2>1, <2>2, <2>3
  <1>4. CASE Scan
    <2>1. /\ hand \in Heap /\ marked' = marked \cup {hand}
          /\ UNCHANGED <<hand, field, phase, todo>>
          /\ gc' = "ungray" /\ gc = "scan"
      BY <1>4 DEF Scan, Types, TypeOK, pass, mutatorState, heap
    <2>2. CASE hand # Reference
      <3>1. field[hand] \in Objects \cup {Null}
        BY <1>t, <2>1
      <3>2. /\ gray \subseteq gray' /\ gray' \subseteq gray \cup Objects
            /\ gcStack \subseteq gcStack'
            /\ UNCHANGED pending
        BY <1>4, <2>2, <3>1, MarkColours DEF Scan
      <3>3. Reference \in marked' <=> Reference \in marked
        BY <2>1, <2>2
      <3> QED
        BY <1>n, <1>s, <2>1, <3>2, <3>3 DEF ReferenceInv
    <2>3. CASE hand = Reference /\ Reference \in marked
      <3>1. UNCHANGED <<gray, pending>>
        BY <1>4, <2>3 DEF Scan
      <3> QED
        BY <1>s, <2>1, <2>3, <3>1 DEF ReferenceInv
    <2>4. CASE hand = Reference /\ Reference \notin marked
      <3>1. /\ UNCHANGED gray
            /\ pending' = (field[Reference] # Null /\ ~Marked(field[Reference]))
        BY <1>4, <2>4 DEF Scan, DelayReferenceReferent
      <3>2. ~pending' => FieldMarked(Reference)
        BY <3>1 DEF FieldMarked
      <3>3. Reference \in gray /\ phase \notin Exclusive
        BY <2>4 DEF ReferenceInv
      <3>4. phase \notin {"finalizer", "last"}
        BY <3>3 DEF Exclusive
      <3> QED
        BY <1>s, <2>1, <2>4, <3>1, <3>2, <3>3, <3>4 DEF ReferenceInv
    <2> QED
      BY <2>2, <2>3, <2>4
  <1>5. CASE Ungray
    <2>1. /\ hand \in marked /\ gray' \subseteq gray /\ gc' = "drain"
          /\ UNCHANGED <<marked, pending, phase, gcStack, todo>>
      BY <1>5 DEF Ungray, ColourInv, references, stacks
    <2>2. Reference \notin gray' =>
            Reference \notin gray \/ (hand = Reference /\ FieldMarked(Reference))
      BY <1>5 DEF Ungray, FieldMarked
    <2>3. Reference \in marked \/ Reference \in gcStack \/ Reference \in todo
      BY <2>1 DEF ReferenceInv
    <2>4. Reference \in gray' \cup marked'
      BY <2>1, <2>2 DEF ReferenceInv
    <2> QED
      BY <1>s, <2>1, <2>2, <2>3, <2>4 DEF ReferenceInv
  <1>6. CASE ForwardSoftReferences
    <2>1. field[Reference] \in Objects \cup {Null}
      BY <1>n, <1>t
    <2>2. gray \subseteq gray' /\ gray' \subseteq gray \cup Objects /\ gcStack \subseteq gcStack'
      BY <1>6, <2>1, MarkColours DEF ForwardSoftReferences
    <2>3. UNCHANGED <<marked, pending, phase, todo, hand>> /\ gc' = "pass"
      BY <1>6 DEF ForwardSoftReferences, references, pass
    <2> QED
      BY <1>1, <2>2, <2>3
  <1>7. CASE EnqueueFinalizerReferences
    <2>1. gray \subseteq gray' /\ gray' \subseteq gray \cup Objects /\ gcStack \subseteq gcStack'
      BY <1>7, <1>t, MarkColours DEF EnqueueFinalizerReferences
    <2>2. UNCHANGED <<marked, pending, phase, todo, hand>> /\ gc' = "pass"
      BY <1>7 DEF EnqueueFinalizerReferences, references, pass
    <2> QED
      BY <1>1, <2>1, <2>2
  <1>8. CASE ClearWhiteReferences
    <2>1. /\ UNCHANGED <<gray, marked, phase, gcStack, todo, hand>> /\ gc = "clear"
      BY <1>8 DEF ClearWhiteReferences, colours, stacks, pass
    <2>2. phase \in Exclusive
      BY <2>1 DEF PhaseAt, Exclusive, Passing
    <2>3. Reference \in marked
      BY <2>2 DEF ReferenceInv
    <2>4. FieldMarked(Reference)'
      <3>1. CASE pending /\ field[Reference] # Null /\ ~Marked(field[Reference])
        <4>1. field'[Reference] = Null
          BY <1>8, <1>n, <1>t, <3>1 DEF ClearWhiteReferences
        <4> QED
          BY <4>1 DEF FieldMarked
      <3>2. CASE ~(pending /\ field[Reference] # Null /\ ~Marked(field[Reference]))
        <4>1. FieldMarked(Reference)
          BY <2>3, <3>2 DEF ReferenceInv, FieldMarked
        <4> QED
          BY <1>s, <4>1
      <3> QED
        BY <3>1, <3>2
    <2> QED
      BY <2>1, <2>3, <2>4 DEF ReferenceInv
  <1>9. CASE DisableReadBarrierForReference
    <2>1. /\ gray' = gray \ {Reference} /\ gc = "disableBarrier" /\ gc' \in {"preserve", "pass"}
          /\ UNCHANGED marked
      BY <1>9 DEF DisableReadBarrierForReference
    <2>2. phase \in Exclusive
      BY <2>1 DEF PhaseAt, Exclusive, Passing
    <2>3. Reference \in marked /\ FieldMarked(Reference)'
      BY <1>s, <2>1, <2>2 DEF ReferenceInv
    <2>4. Reference \notin gray' /\ gc' # "disableBarrier"
      BY <2>1
    <2> QED
      BY <2>1, <2>3, <2>4 DEF ReferenceInv
  <1>10. CASE SwitchToGcExclusiveMarkStackMode
    <2>1. /\ gc = "processed" /\ phase = "shared" /\ phase' = "soft" /\ gc' = "start"
          /\ UNCHANGED <<gray, marked, pending, gcStack, todo, hand>>
      BY <1>10 DEF SwitchToGcExclusiveMarkStackMode, colours, references, pass
    <2>2. todo = {} /\ gcStack = {} /\ hand = Null
      BY <2>1 DEF PassInv, Drained, PhaseAt, Types, TypeOK
    <2>3. Reference \in marked
      BY <1>n, <2>2 DEF ReferenceInv
    <2> QED
      BY <1>s, <2>1, <2>3 DEF ReferenceInv
  <1>11. CASE /\ Quiet /\ UNCHANGED pending /\ gc' # "disableBarrier"
              /\ phase' \in Exclusive => phase' = phase
    <2>1. UNCHANGED <<gray, marked, gcStack, todo, hand>>
      BY <1>11, QuietFrame
    <2>2. phase' \in {"finalizer", "last"} => phase' \in Exclusive
      BY DEF Exclusive
    <2> QED
      BY <1>11, <1>s, <2>1, <2>2 DEF ReferenceInv
  <1>12. Quiet => \/ ClearWhiteReferences \/ SwitchToGcExclusiveMarkStackMode
                  \/ /\ UNCHANGED pending /\ gc' # "disableBarrier"
                     /\ phase' \in Exclusive => phase' = phase
    <2> USE DEF references, Exclusive
    <2>1. CASE StartPass
      <3>1. mode \in {"ThreadLocal", "Shared", "GcExclusive"}
        BY <2>1 DEF StartPass, PhaseAt, Passing
      <3> QED
        BY <2>1, <3>1 DEF StartPass, Ask
    <2>2. CASE EmptyCheckpointDone \/ EndPass
      BY <2>2 DEF EmptyCheckpointDone, EndPass
    <2>3. CASE SwitchToSharedMarkStackMode \/ SwitchedToSharedMarkStackMode
      BY <2>3 DEF SwitchToSharedMarkStackMode, SwitchedToSharedMarkStackMode, Ask
    <2>4. CASE \/ ProcessReferences \/ StartPreservingReferences \/ ClearSoftReferences
               \/ StopPreservingReferences
      BY <2>4 DEF ProcessReferences, StartPreservingReferences, ClearSoftReferences, StopPreservingReferences
    <2>5. CASE ReenableWeakRefAccess \/ DisableMarking
      BY <2>5 DEF ReenableWeakRefAccess, DisableMarking, Ask
    <2> QED
      BY <2>1, <2>2, <2>3, <2>4, <2>5 DEF Quiet
  <1> QED
    BY <1>2, <1>3, <1>4, <1>5, <1>6, <1>7, <1>8, <1>9, <1>10, <1>11, <1>12 DEF Collect, Quiet

\* A checkpoint changes no colour and no field.
LEMMA CheckpointColours ==
  ASSUME ColourInv, ReferenceInv, NEW t \in Mutators, Checkpoint(t)
  PROVE  ColourInv' /\ ReferenceInv'
  <1>1. UNCHANGED <<field, roots, gray, marked, gcStack, pc, ref, pending, phase, gc, todo, hand>>
    BY DEF Checkpoint, Revoke, EmptyCheckpoint, DisableMarkingCheckpoint, Answer, heap, colours,
           mutators, references, pass
  <1> QED
    BY <1>1 DEF ColourInv, ReferenceInv, Marked, FieldMarked

-----------------------------------------------------------------------------
(* Marking ends: PassInv                                                   *)

\* Once only a delayed Reference is gray, and weak access is disabled, no read takes
\* the slow path of the read barrier.
LEMMA ReadsFindNothing ==
  ASSUME Types, SwitchInv, ReferenceInv, NEW t \in Mutators, Starts(t),
         phase # "local", gc # "revokeWeak", gray \subseteq {Reference}
  PROVE  pc'[t] = "load"
  <1>1. PICK o \in Heap :
          /\ o \in roots[t] \/ (o = Reference /\ t \in enabled)
          /\ (o \in gray /\ pc'[t] = "loadMark") \/ pc'[t] = "load"
    BY DEF Starts, Moved
  <1>2. CASE o \in gray
    <2>1. o = Reference /\ Reference \notin roots[t]
      BY <1>2, ObjectsAssumption DEF Types, TypeOK
    <2>2. t \in enabled
      BY <1>1, <2>1
    <2>3. phase = "last"
      BY <2>2 DEF SwitchInv
    <2> QED
      BY <1>2, <2>1, <2>3 DEF ReferenceInv
  <1> QED
    BY <1>1, <1>2

\* A mutator that was found with something to push is awaited or has pushed it; the
\* others find nothing gray.
LEMMA MutatorPasses ==
  ASSUME Types, PhaseAt, SwitchInv, ReferenceInv, PassInv, NEW t \in Mutators, MutatorEffect(t)
  PROVE  PassInv'
  <1>f. UNCHANGED <<phase, gc, counted, todo, awaited>>
    BY DEF MutatorEffect, MutatorFrame
  <1>g. gcStack \subseteq gcStack'
    BY DEF MutatorEffect, Starts, Drops, Advances, Chooses, Gets, Grays, PushesLocally,
       PushesShared,
           Stores
  <1>o. \A u \in Mutators \ {t} : pc'[u] = pc[u]
    BY DEF MutatorEffect, Starts, Drops, Advances, Chooses, Gets, Grays, PushesLocally,
       PushesShared,
           Stores, Gained, Moved
  <1>1. ASSUME phase = "shared", gc \in {"empty", "drain"}, ~counted
        PROVE  \/ gcStack' # {} \/ todo' # {}
               \/ (awaited \cap Pushing)' # {}
               \/ (gray \subseteq {Reference} /\ \A u \in Mutators \ awaited : Idle(u))'
    <2>l. phase # "local" /\ gc # "revokeWeak" /\ mode = "Shared"
      BY <1>1 DEF PhaseAt
    <2>1. CASE gcStack # {} \/ todo # {}
      BY <1>f, <1>g, <2>1
    <2>2. CASE awaited \cap Pushing # {}
      <3>1. PICK u \in awaited : u \in Mutators /\ pc[u] \in {"push", "ThreadLocal", "Shared"}
        BY <2>2 DEF Pushing
      <3>2. CASE u # t \/ Chooses(t) \/ Stores(t)
        <4>1. pc'[u] \in {"push", "ThreadLocal", "Shared"}
          BY <1>o, <2>l, <3>1, <3>2 DEF Chooses, Stores, Moved
        <4> QED
          BY <1>f, <3>1, <4>1 DEF Pushing
      <3>3. CASE PushesShared(t)
        BY <3>3 DEF PushesShared
      <3>4. CASE u = t /\ ~Chooses(t) /\ ~Stores(t) /\ ~PushesShared(t)
        <4>1. pc[t] # "ThreadLocal"
          BY <2>l DEF SwitchInv, Left
        <4> QED
          BY <3>1, <3>4, <4>1 DEF MutatorEffect, Starts, Drops, Advances, Gets, Grays,
             PushesLocally
      <3> QED
        BY <3>2, <3>3, <3>4
    <2>3. CASE gray \subseteq {Reference} /\ \A u \in Mutators \ awaited : Idle(u)
      <3>1. CASE Starts(t)
        <4>1. pc'[t] = "load" /\ UNCHANGED gray
          BY <2>l, <2>3, <3>1, ReadsFindNothing DEF Starts
        <4> QED
          BY <1>f, <1>o, <2>3, <4>1 DEF Idle
      <3>2. CASE Drops(t) \/ Gets(t) \/ PushesLocally(t) \/ PushesShared(t) \/ Stores(t)
        <4>1. UNCHANGED gray /\ (pc'[t] = "run" \/ pc'[t] = pc[t])
          BY <3>2 DEF Drops, Gets, PushesLocally, PushesShared, Stores, Gained, Moved
        <4> QED
          BY <1>f, <1>o, <2>3, <4>1 DEF Idle
      <3>3. CASE Advances(t) \/ Chooses(t)
        <4>1. UNCHANGED gray /\ ~Idle(t)
          BY <3>3 DEF Advances, Chooses, Idle
        <4>2. t \in awaited
          BY <2>3, <4>1
        <4> QED
          BY <1>f, <1>o, <2>3, <4>1, <4>2 DEF Idle
      <3>4. CASE Grays(t)
        <4>1. pc'[t] = "push" /\ ~Idle(t)
          BY <3>4 DEF Grays, Idle, Moved
        <4>2. t \in awaited
          BY <2>3, <4>1
        <4>3. t \in awaited' /\ t \in Pushing'
          BY <1>f, <4>1, <4>2 DEF Pushing
        <4> QED
          BY <4>3
      <3> QED
        BY <3>1, <3>2, <3>3, <3>4 DEF MutatorEffect
    <2> QED
      BY <1>1, <2>1, <2>2, <2>3 DEF PassInv
  <1>2. ASSUME phase # "local",
               gc \in {"processed", "start", "preserve", "clear", "disableBarrier", "disable", "done"}
        PROVE  Drained'
    <2>1. Drained /\ gc # "revokeWeak"
      BY <1>2 DEF PassInv
    <2>2. CASE Starts(t)
      <3>1. pc'[t] = "load" /\ UNCHANGED <<gray, gcStack>>
        BY <1>2, <2>1, <2>2, ReadsFindNothing DEF Starts, Drained
      <3> QED
        BY <1>o, <2>1, <3>1 DEF Drained, Idle
    <2>3. CASE Drops(t) \/ Gets(t) \/ Stores(t)
      <3>1. UNCHANGED <<gray, gcStack>> /\ (pc'[t] = "run" \/ pc'[t] = pc[t])
        BY <2>3 DEF Drops, Gets, Stores, Gained, Moved
      <3> QED
        BY <1>o, <2>1, <3>1 DEF Drained, Idle
    <2>4. CASE ~Starts(t) /\ ~Drops(t) /\ ~Gets(t) /\ ~Stores(t)
      <3>1. ~Idle(t)
        BY <2>4 DEF MutatorEffect, Advances, Chooses, Grays, PushesLocally, PushesShared, Idle
      <3> QED
        BY <2>1, <3>1 DEF Drained
    <2> QED
      BY <2>2, <2>3, <2>4
  <1> QED
    BY <1>1, <1>2, <1>f DEF PassInv

\* The thread that answers is between its operations.
LEMMA CheckpointPasses ==
  ASSUME PassInv, NEW t \in Mutators, Checkpoint(t)
  PROVE  PassInv'
  <1>1. /\ UNCHANGED <<gray, gcStack, pc, phase, gc, counted, todo>>
        /\ pc[t] = "run" /\ awaited' = awaited \ {t}
    BY DEF Checkpoint, Revoke, EmptyCheckpoint, DisableMarkingCheckpoint, Answer, colours,
       mutators, pass
  <1>2. awaited \cap Pushing # {} => (awaited \cap Pushing)' # {}
    BY <1>1 DEF Pushing
  <1>3. (\A u \in Mutators \ awaited : Idle(u)) => \A u \in Mutators \ awaited' : Idle(u)'
    BY <1>1 DEF Idle
  <1> QED
    BY <1>1, <1>2, <1>3 DEF PassInv, Drained, Idle

\* With its own stacks empty the collector has no gray object: whatever is gray but the
\* Reference is with a mutator that is pushing it.
LEMMA OthersPush ==
  ASSUME Types, StackInv, SwitchInv, phase # "local", gc \in {"pass", "drain"},
         gcStack = {}, todo = {}, NEW o \in gray, o # Reference
  PROVE  Pushing # {}
  <1>1. o \in Objects /\ o # Null
    BY ObjectsAssumption DEF Types, TypeOK, Heap
  <1>2. hand = Null /\ revoked = {} /\ \A t \in Mutators : local[t] = {}
    BY DEF Types, TypeOK, SwitchInv, Left
  <1>3. ~CollectorHas(o)
    BY <1>1, <1>2 DEF CollectorHas
  <1>4. PICK t \in Mutators : MutatorHas(t, o)
    BY <1>1, <1>3 DEF StackInv
  <1>5. pc[t] \in {"push", "ThreadLocal", "Shared"}
    BY <1>2, <1>4 DEF MutatorHas, Pushes
  <1> QED
    BY <1>5 DEF Pushing

\* ProcessMarkStack returns when nothing is gray any more: a pass in the shared mode that
\* scans nothing has waited for everyone who was pushing.
LEMMA CollectorPasses ==
  ASSUME Types, PhaseAt, StackInv, SwitchInv, PassInv, ExclusiveInv, Collect
  PROVE  PassInv'
  <1>p. UNCHANGED pc
    BY CollectorFrames DEF CollectorFrame
  <1>i. \A t \in Mutators : Idle(t)' <=> Idle(t)
    BY <1>p DEF Idle
  <1>u. Pushing' = Pushing
    BY <1>p DEF Pushing
  <1>1. CASE StartPass
    <2>1. mode \in {"ThreadLocal", "Shared", "GcExclusive"}
      BY <1>1 DEF StartPass, PhaseAt, Passing, Exclusive
    <2>2. UNCHANGED <<gray, gcStack, todo, phase>> /\ gc' \in {"revoke", "empty", "drain"}
      BY <1>1, <2>1 DEF StartPass, Ask, colours, stacks
    <2>3. ASSUME phase = "shared"
          PROVE  \/ gcStack # {} \/ todo # {} \/ (awaited \cap Pushing)' # {}
                 \/ gray \subseteq {Reference} /\ awaited' = Mutators
      <3>1. awaited' = Mutators
        BY <1>1, <2>3 DEF StartPass, Ask, PhaseAt
      <3>2. ASSUME gcStack = {}, todo = {}, ~(gray \subseteq {Reference})
            PROVE  (awaited \cap Pushing)' # {}
        <4>1. PICK o \in gray : o # Reference
          BY <3>2
        <4>2. phase # "local" /\ gc \in {"pass", "drain"}
          BY <1>1, <2>3 DEF StartPass
        <4>3. Pushing # {}
          BY <3>2, <4>1, <4>2, OthersPush
        <4>4. Pushing \subseteq Mutators
          BY DEF Pushing
        <4> QED
          BY <1>u, <3>1, <4>3, <4>4
      <3> QED
        BY <3>1, <3>2
    <2> QED
      BY <1>i, <2>2, <2>3 DEF PassInv
  <1>2. CASE TakeRevoked
    <2>1. phase' = phase /\ gc' = "drain" /\ gc \in {"revoke", "revokeWeak"}
      BY <1>2 DEF TakeRevoked
    <2>2. phase # "shared"
      BY <2>1 DEF PhaseAt, Passing
    <2> QED
      BY <2>1, <2>2 DEF PassInv
  <1>3. CASE EmptyCheckpointDone
    <2>1. /\ UNCHANGED <<gray, gcStack, todo, phase, counted, awaited>>
          /\ gc = "empty" /\ gc' = "drain"
      BY <1>3 DEF EmptyCheckpointDone, colours, stacks, pass
    <2> QED
      BY <1>i, <1>u, <2>1 DEF PassInv
  <1>4. CASE Pop
    <2>1. gc' = "scan" \/ (gc' = "drain" /\ todo' # {})
      BY <1>4 DEF Pop, TakeNext
    <2> QED
      BY <2>1 DEF PassInv
  <1>5. CASE Scan
    <2>1. gc' = "ungray"
      BY <1>5 DEF Scan
    <2> QED
      BY <2>1 DEF PassInv
  <1>6. CASE Ungray
    <2>1. gc' = "drain" /\ counted' = counted /\ counted
      BY <1>6 DEF Ungray, PhaseAt
    <2> QED
      BY <2>1 DEF PassInv
  <1>7. CASE EndPass
    <2>1. UNCHANGED <<gray, gcStack, todo, phase>> /\ gc = "drain" /\ todo = {} /\ gcStack = {}
      BY <1>7 DEF EndPass, colours, stacks
    <2>2. CASE gc' = "pass"
      BY <2>2 DEF PassInv
    <2>3. CASE gc' = "processed" /\ ~counted
      <3>1. ASSUME phase # "local" PROVE Drained
        <4>1. CASE phase = "shared"
          <5>1. awaited = {}
            BY <2>1 DEF PhaseAt
          <5> QED
            BY <2>1, <2>3, <4>1, <5>1 DEF PassInv, Drained
        <4>2. CASE phase \in Exclusive
          <5>1. \A t \in Mutators : Idle(t)
            BY <4>2 DEF ExclusiveInv, Settled
          <5>2. Pushing = {}
            BY <5>1 DEF Pushing, Idle
          <5>3. gray \subseteq {Reference}
            BY <2>1, <3>1, <5>2, OthersPush
          <5> QED
            BY <2>1, <5>1, <5>3 DEF Drained
        <4>3. phase # "switch"
          BY <1>7 DEF EndPass
        <4> QED
          BY <3>1, <4>1, <4>2, <4>3 DEF PhaseAt
      <3> QED
        BY <1>i, <2>1, <2>3, <3>1 DEF PassInv, Drained
    <2> QED
      BY <1>7, <2>2, <2>3 DEF EndPass
  <1>8. CASE SwitchToSharedMarkStackMode \/ SwitchedToSharedMarkStackMode
    <2>1. gc' \in {"revokeWeak", "pass"}
      BY <1>8 DEF SwitchToSharedMarkStackMode, SwitchedToSharedMarkStackMode, Ask
    <2> QED
      BY <2>1 DEF PassInv
  <1>9. CASE StartPreservingReferences \/ ForwardSoftReferences \/ EnqueueFinalizerReferences
    <2>1. gc' \in {"keep", "pass"}
      BY <1>9 DEF StartPreservingReferences, ForwardSoftReferences, EnqueueFinalizerReferences
    <2> QED
      BY <2>1 DEF PassInv
  <1>10. ASSUME gc \in {"processed", "start", "preserve", "clear", "disableBarrier", "disable"},
                phase # "local", phase' # "shared", gray' \subseteq gray, UNCHANGED gcStack
         PROVE  PassInv'
    <2>1. Drained
      BY <1>10 DEF PassInv
    <2> QED
      BY <1>10, <1>i, <2>1 DEF PassInv, Drained
  <1>11. CASE \/ SwitchToGcExclusiveMarkStackMode \/ ProcessReferences \/ ClearSoftReferences
              \/ StopPreservingReferences
              \/ ReenableWeakRefAccess
    <2>1. /\ gc \in {"processed", "start", "preserve"} /\ phase # "local" /\ phase' # "shared"
          /\ UNCHANGED <<gray, gcStack>>
      BY <1>11 DEF PhaseAt, Passing, ProcessReferences, SwitchToGcExclusiveMarkStackMode, ClearSoftReferences,
         StopPreservingReferences,
                   ReenableWeakRefAccess, colours, stacks
    <2> QED
      BY <1>10, <2>1
  <1>12. CASE ClearWhiteReferences \/ DisableMarking
    <2>1. gc \in {"clear", "disable"} /\ UNCHANGED <<gray, gcStack, phase>>
      BY <1>12 DEF ClearWhiteReferences, DisableMarking, colours, stacks
    <2>2. phase \notin {"local", "shared"}
      BY <2>1 DEF PhaseAt, Passing
    <2> QED
      BY <1>10, <2>1, <2>2
  <1>13. CASE DisableReadBarrierForReference
    <2>1. gc = "disableBarrier" /\ gray' \subseteq gray /\ UNCHANGED gcStack
          /\ phase' \in {"finalizer", "last"}
      BY <1>13 DEF DisableReadBarrierForReference, stacks
    <2>2. phase # "local"
      BY <2>1 DEF PhaseAt, Passing
    <2> QED
      BY <1>10, <2>1, <2>2
  <1> QED
    BY <1>1, <1>2, <1>3, <1>4, <1>5, <1>6, <1>7, <1>8, <1>9, <1>11, <1>12, <1>13 DEF Collect

-----------------------------------------------------------------------------
(* What mutators can reach during reference processing: ExclusiveInv       *)

\* The mutators stay within the objects that were marked when the mark stack became
\* exclusive: the referent of the Reference becomes one of them or is not returned.
LEMMA MutatorSettled ==
  ASSUME Types, PhaseAt, SwitchInv, ReferenceInv, ExclusiveInv, NEW t \in Mutators, ReadAt(t),
         MutatorEffect(t)
  PROVE  ExclusiveInv'
  <1> SUFFICES ASSUME phase \in Exclusive PROVE \E S \in SUBSET Objects : Settled(S)'
    BY DEF ExclusiveInv, MutatorEffect, MutatorFrame
  <1>f. UNCHANGED <<marked, phase, pending, preserving, processing>>
    BY DEF MutatorEffect, MutatorFrame
  <1>s. PICK S \in SUBSET Objects : Settled(S)
    BY DEF ExclusiveInv
  <1>n. Objects \subseteq Heap /\ Reference \in Heap /\ Reference \notin Objects /\ Null \notin Objects
    BY ObjectsAssumption DEF Heap
  <1>t. /\ field \in [Heap -> Objects \cup {Null}] /\ roots \in [Mutators -> SUBSET Objects]
    BY DEF Types, TypeOK
  <1>i. pc[t] \in {"run", "load"} /\ roots[t] \subseteq S
    BY <1>s DEF Settled, Idle
  <1>e. t \in enabled => phase = "last"
    <2>1. phase # "local" /\ gc # "revokeWeak"
      BY DEF PhaseAt, Exclusive, Passing
    <2> QED
      BY <2>1 DEF SwitchInv
  <1>r. t \in enabled => field[Reference] \in S \cup {Null} /\ Reference \notin gray
    BY <1>e, <1>s DEF Settled, ReferenceInv
  <1>1. CASE Starts(t)
    <2>1. pc'[t] = "load"
      <3>1. PICK o \in Heap : /\ o \in roots[t] \/ (o = Reference /\ t \in enabled)
                              /\ o \in gray \/ pc'[t] = "load"
        BY <1>1 DEF Starts, Moved
      <3> QED
        BY <1>i, <1>r, <1>s, <3>1 DEF Settled
    <2>2. UNCHANGED <<field, roots, gray>> /\ \A u \in Mutators \ {t} : pc'[u] = pc[u]
      BY <1>1 DEF Starts, Moved
    <2> QED
      BY <1>f, <1>s, <2>1, <2>2 DEF Settled, Idle, Marked
  <1>2. CASE Drops(t)
    <2>1. /\ UNCHANGED <<field, roots, gray>> /\ pc'[t] = "run"
          /\ \A u \in Mutators \ {t} : pc'[u] = pc[u]
      BY <1>2 DEF Drops, Moved
    <2> QED
      BY <1>f, <1>s, <2>1 DEF Settled, Idle, Marked
  <1>3. CASE Gets(t)
    <2>1. PICK o \in Objects :
            /\ \/ pc[t] = "load" /\ o = field[ref[t]]
               \/ /\ pc[t] = "run" /\ o = field[Reference] /\ Marked(o)
                  /\ processing /\ (preserving => ~pending)
            /\ Gained(t, o)
      BY <1>3, <1>i DEF Gets
    <2>2. o \in S
      <3>1. CASE pc[t] = "load" /\ o = field[ref[t]]
        <4>1. ref[t] \in S \/ (ref[t] = Reference /\ t \in enabled)
          BY <1>i, <3>1 DEF ReadAt
        <4>2. o \in S \cup {Null}
          BY <1>r, <1>s, <3>1, <4>1 DEF Settled
        <4> QED
          BY <1>n, <2>1, <4>2
      <3>2. CASE o = field[Reference] /\ Marked(o) /\ processing /\ (preserving => ~pending)
        <4>1. o \in S \cup {Null}
          BY <1>s, <3>2 DEF Settled
        <4> QED
          BY <1>n, <2>1, <4>1
      <3> QED
        BY <2>1, <3>1, <3>2
    <2>3. /\ UNCHANGED <<field, gray>> /\ pc'[t] = "run" /\ roots'[t] = roots[t] \cup {o}
          /\ \A u \in Mutators \ {t} : pc'[u] = pc[u] /\ roots'[u] = roots[u]
      BY <1>3, <2>1 DEF Gets, Gained, Moved
    <2>4. \A u \in Mutators : roots'[u] \subseteq S /\ Idle(u)'
      BY <1>s, <2>2, <2>3 DEF Settled, Idle
    <2> QED
      BY <1>f, <1>s, <2>3, <2>4 DEF Settled, Marked
  <1>4. CASE Stores(t)
    <2>1. PICK o \in Heap :
            /\ \/ o \in roots[t] /\ field'[o] \in roots[t] \cup {Null}
               \/ o = Reference /\ t \in enabled /\ field'[o] = Null
            /\ \A x \in Heap \ {o} : field'[x] = field[x]
      BY <1>4 DEF Stores
    <2>2. UNCHANGED <<roots, gray, pc>>
      BY <1>4 DEF Stores
    <2>3. \A x \in S : field'[x] \in S \cup {Null}
      <3> SUFFICES ASSUME NEW x \in S PROVE field'[x] \in S \cup {Null}
        OBVIOUS
      <3>1. CASE x = o
        BY <1>i, <2>1, <3>1
      <3>2. CASE x # o
        BY <1>n, <1>s, <2>1, <3>2 DEF Settled
      <3> QED
        BY <3>1, <3>2
    <2>4. field'[Reference] = field[Reference] \/ field'[Reference] = Null
      BY <1>n, <1>t, <2>1
    <2> QED
      BY <1>f, <1>s, <2>2, <2>3, <2>4 DEF Settled, Idle, Marked
  <1>5. Starts(t) \/ Drops(t) \/ Gets(t) \/ Stores(t)
    BY <1>i DEF MutatorEffect, Advances, Chooses, Grays, PushesLocally, PushesShared
  <1> QED
    BY <1>1, <1>2, <1>3, <1>4, <1>5

\* A checkpoint changes nothing of this.
LEMMA CheckpointSettled ==
  ASSUME ExclusiveInv, NEW t \in Mutators, Checkpoint(t)
  PROVE  ExclusiveInv'
  <1>1. UNCHANGED <<field, roots, gray, marked, pc, phase, pending, preserving, processing>>
    BY DEF Checkpoint, Revoke, EmptyCheckpoint, DisableMarkingCheckpoint, Answer, heap, colours,
           mutators, references
  <1>2. \A S \in SUBSET Objects : Settled(S) => Settled(S)'
    BY <1>1 DEF Settled, Idle, Marked
  <1> QED
    BY <1>1, <1>2 DEF ExclusiveInv

\* Whenever the mark stack is drained the mutators are within what is marked.
LEMMA DrainedSettles ==
  ASSUME Types', ColourInv', ReferenceInv', Drained', phase' \in Exclusive
  PROVE  ExclusiveInv'
  <1>n. Reference \notin Objects /\ Reference \in Heap /\ Objects \subseteq Heap
    BY ObjectsAssumption DEF Heap
  <1>t. field' \in [Heap -> Objects \cup {Null}] /\ roots' \in [Mutators -> SUBSET Objects]
    BY DEF Types, TypeOK
  <1>s. PICK S \in SUBSET Objects : S = marked' \cap Objects
    OBVIOUS
  <1>1. S \subseteq marked' \ gray'
    BY <1>n, <1>s DEF Drained
  <1>2. ASSUME NEW x \in Heap, FieldMarked(x)'
        PROVE  field'[x] \in S \cup {Null}
    <2>1. field'[x] \in Objects \cup {Null}
      BY <1>t
    <2>2. field'[x] = Null \/ field'[x] \in gray' \/ field'[x] \in marked'
      BY <1>2 DEF FieldMarked, Marked
    <2> QED
      BY <1>n, <1>s, <2>1, <2>2 DEF Drained
  <1>3. \A o \in S : field'[o] \in S \cup {Null}
    <2> SUFFICES ASSUME NEW o \in S PROVE field'[o] \in S \cup {Null}
      OBVIOUS
    <2>1. FieldMarked(o)' /\ o \in Heap
      BY <1>n, <1>s DEF ColourInv
    <2> QED
      BY <1>2, <2>1
  <1>4. \A t \in Mutators : roots'[t] \subseteq S /\ Idle(t)'
    <2> SUFFICES ASSUME NEW t \in Mutators, NEW o \in roots'[t] PROVE o \in S
      BY DEF Drained
    <2>1. o \in Objects /\ Marked(o)'
      BY <1>t DEF ColourInv
    <2> QED
      BY <1>n, <1>s, <2>1 DEF Marked, Drained
  <1>5. \/ field'[Reference] \in S \cup {Null}
        \/ phase' = "soft" /\ pending' /\ ~Marked(field[Reference])'
    <2>1. CASE FieldMarked(Reference)'
      BY <1>2, <1>n, <2>1
    <2>2. CASE ~FieldMarked(Reference)'
      <3>1. ~Marked(field[Reference])'
        BY <2>2 DEF FieldMarked
      <3>2. Reference \in gray' /\ pending'
        BY <2>2 DEF ReferenceInv
      <3>3. phase' = "soft"
        BY <3>2 DEF ReferenceInv, Exclusive
      <3> QED
        BY <3>1, <3>2, <3>3
    <2> QED
      BY <2>1, <2>2
  <1>6. Settled(S)'
    BY <1>1, <1>3, <1>4, <1>5 DEF Settled
  <1> QED
    BY <1>6 DEF ExclusiveInv

\* Mark makes no object gray that was marked.
LEMMA MarkUnmarked ==
  ASSUME NEW o, Mark(o)
  PROVE  gray' \cap marked \subseteq gray
  <1>1. gray' = gray \/ (gray' = gray \cup {o} /\ o \notin marked)
    BY DEF Mark, Marked
  <1> QED
    BY <1>1

\* Reference processing makes more objects marked, and takes none from what the mutators
\* can reach.
LEMMA CollectorSettled ==
  ASSUME Types, PhaseAt, ReferenceInv, PassInv, ExclusiveInv, Collect,
         Types', ColourInv', ReferenceInv', PassInv'
  PROVE  ExclusiveInv'
  <1> SUFFICES ASSUME phase' \in Exclusive PROVE ExclusiveInv'
    BY DEF ExclusiveInv
  <1>p. UNCHANGED <<pc, roots>>
    BY CollectorFrames DEF CollectorFrame
  <1>1. CASE gc' \in {"processed", "start", "preserve", "clear", "disableBarrier", "disable", "done"}
    <2>1. phase' # "local"
      BY DEF Exclusive
    <2>2. Drained'
      BY <1>1, <2>1 DEF PassInv
    <2> QED
      BY <2>2, DrainedSettles
  <1>2. CASE StartPreservingReferences \/ DisableReadBarrierForReference
    <2>1. gc \in {"preserve", "disableBarrier"} /\ gray' \subseteq gray /\ UNCHANGED gcStack
      BY <1>2 DEF StartPreservingReferences, DisableReadBarrierForReference, colours, stacks
    <2>2. phase # "local"
      BY <2>1 DEF PhaseAt, Passing
    <2>3. Drained
      BY <2>1, <2>2 DEF PassInv
    <2>4. Drained'
      BY <1>p, <2>1, <2>3 DEF Drained, Idle
    <2> QED
      BY <2>4, DrainedSettles
  <1>3. ASSUME UNCHANGED <<field, phase, pending, preserving>>, marked \subseteq marked',
               gray' \cap marked \subseteq gray, gc \in Passing \cup {"keep"}
        PROVE  ExclusiveInv'
    <2>1. PICK S \in SUBSET Objects : Settled(S)
      BY <1>3 DEF ExclusiveInv
    <2>2. phase = "soft" => preserving
      BY <1>3 DEF PhaseAt
    <2>3. S \subseteq marked' \ gray'
      BY <1>3, <2>1 DEF Settled
    <2>4. Settled(S)'
      BY <1>3, <1>p, <2>1, <2>2, <2>3 DEF Settled, Idle
    <2> QED
      BY <2>4 DEF ExclusiveInv
  <1>4. CASE StartPass \/ Pop \/ EndPass
    <2>1. /\ UNCHANGED <<field, phase, pending, preserving, marked, gray>>
          /\ gc \in Passing \cup {"keep"}
      BY <1>4 DEF StartPass, Pop, EndPass, mutatorState, heap, colours, references, Passing
    <2> QED
      BY <1>3, <2>1
  <1>5. CASE Scan
    <2>1. /\ UNCHANGED <<field, phase, preserving>> /\ marked \subseteq marked'
          /\ gc \in Passing \cup {"keep"}
      BY <1>5 DEF Scan, mutatorState, heap, Passing
    <2>2. Reference \in marked
      BY <2>1 DEF ReferenceInv
    <2>3. UNCHANGED pending /\ gray' \cap marked \subseteq gray
      BY <1>5, <2>2, MarkUnmarked DEF Scan
    <2> QED
      BY <1>3, <2>1, <2>3
  <1>6. CASE Ungray
    <2>1. /\ UNCHANGED <<field, phase, pending, preserving, marked>> /\ gray' \subseteq gray
          /\ gc \in Passing \cup {"keep"}
      BY <1>6 DEF Ungray, mutatorState, heap, references, Passing
    <2> QED
      BY <1>3, <2>1
  <1>7. CASE ForwardSoftReferences
    <2>1. /\ UNCHANGED <<field, phase, pending, preserving, marked>>
          /\ gc \in Passing \cup {"keep"}
      BY <1>7 DEF ForwardSoftReferences, mutatorState, heap, references
    <2>2. gray' \cap marked \subseteq gray
      BY <1>7, MarkUnmarked DEF ForwardSoftReferences
    <2> QED
      BY <1>3, <2>1, <2>2
  <1>8. CASE EnqueueFinalizerReferences
    <2>1. /\ UNCHANGED <<field, phase, pending, preserving, marked>>
          /\ gc \in Passing \cup {"keep"}
      BY <1>8 DEF EnqueueFinalizerReferences, mutatorState, heap
    <2>2. gray' \cap marked \subseteq gray
      BY <1>8, MarkUnmarked DEF EnqueueFinalizerReferences
    <2> QED
      BY <1>3, <2>1, <2>2
  <1>9. CASE TakeRevoked \/ EmptyCheckpointDone
    <2>1. gc \in {"revoke", "revokeWeak", "empty"} /\ UNCHANGED phase
      BY <1>9 DEF TakeRevoked, EmptyCheckpointDone
    <2> QED
      BY <2>1 DEF PhaseAt, Exclusive, Passing
  <1>10. CASE SwitchToSharedMarkStackMode \/ SwitchedToSharedMarkStackMode
    <2>1. phase' \in {"switch", "shared"}
      BY <1>10 DEF SwitchToSharedMarkStackMode, SwitchedToSharedMarkStackMode
    <2> QED
      BY <2>1 DEF Exclusive
  <1>11. CASE \/ SwitchToGcExclusiveMarkStackMode \/ ProcessReferences \/ ClearSoftReferences
              \/ StopPreservingReferences \/ ClearWhiteReferences
              \/ ReenableWeakRefAccess \/ DisableMarking
    <2>1. gc' \in {"processed", "start", "preserve", "clear", "disableBarrier", "disable", "done"}
      BY <1>11 DEF SwitchToGcExclusiveMarkStackMode, ProcessReferences, ClearSoftReferences,
         StopPreservingReferences,
                   ClearWhiteReferences, ReenableWeakRefAccess, DisableMarking, Ask
    <2> QED
      BY <1>1, <2>1
  <1> QED
    BY <1>2, <1>4, <1>5, <1>6, <1>7, <1>8, <1>9, <1>10, <1>11 DEF Collect

-----------------------------------------------------------------------------
(* The theorems                                                            *)

\* The collection starts after the thread flip: what the mutators hold is gray and on
\* the collector's stack.
LEMMA InitMark == Init => MarkInv
  <1> SUFFICES ASSUME Init PROVE MarkInv
    OBVIOUS
  <1>n. /\ Null \notin Heap /\ Objects \subseteq Heap /\ Reference \in Heap /\ Reference \notin Objects
        /\ Null # Reference
    BY ObjectsAssumption DEF Heap, Null, Reference
  <1>t. /\ field \in [Heap -> Objects \cup {Null}] /\ roots \in [Mutators -> SUBSET Objects]
        /\ finalizee \in Objects \cup {Null}
    BY DEF Init
  <1>i. /\ marked = {} /\ mode = "ThreadLocal" /\ revoked = {} /\ gcStack = gray
        /\ enabled = Mutators /\ marking = Mutators /\ pending = FALSE
        /\ phase = "local" /\ gc = "pass" /\ todo = {} /\ hand = Null /\ awaited = {}
    BY DEF Init
  <1>p. /\ pc \in [Mutators -> MutatorLabels] /\ ref \in [Mutators -> Heap \cup {Null}]
        /\ local \in [Mutators -> SUBSET Objects]
    BY DEF Init, MutatorLabels
  <1>a. \A t \in Mutators : pc[t] = "run" /\ ref[t] = Null /\ local[t] = {}
    BY DEF Init
  <1>g. Reference \in gray /\ gray \subseteq Heap /\ \A t \in Mutators : roots[t] \subseteq gray
    <2>1. gray = (UNION Range(roots)) \cup {Reference}
      BY DEF Init
    <2>2. \A t \in Mutators : roots[t] \in Range(roots)
      BY <1>t DEF Range
    <2>3. \A R \in Range(roots) : R \subseteq Objects
      BY <1>t DEF Range
    <2>4. \A o : o \in gray <=> o = Reference \/ \E R \in Range(roots) : o \in R
      BY <2>1
    <2>5. ASSUME NEW o \in gray PROVE o \in Heap
      BY <1>n, <2>3, <2>4
    <2>6. ASSUME NEW t \in Mutators, NEW o \in roots[t] PROVE o \in gray
      BY <2>2, <2>4
    <2> QED
      BY <2>4, <2>5, <2>6
  <1>1. Types
    BY <1>a, <1>g, <1>i, <1>n, <1>p, <1>t DEF Types, TypeOK
  <1>2. PhaseAt
    BY <1>i DEF PhaseAt, Exclusive, Passing
  <1>3. StackInv
    <2>1. \A t \in Mutators : \A o \in Heap : ~MutatorHas(t, o)
      BY <1>a DEF MutatorHas, Pushes
    <2>2. \A o \in Heap : OnOneStack(o)
      BY <1>i, <1>n, <2>1 DEF OnOneStack
    <2>3. \A o \in Heap : o \in gray <=> CollectorHas(o)
      BY <1>i, <1>n DEF CollectorHas
    <2> QED
      BY <1>n, <2>1, <2>2, <2>3 DEF StackInv
  <1>4. SwitchInv
    BY <1>i DEF SwitchInv
  <1>5. ColourInv
    BY <1>a, <1>g, <1>i DEF ColourInv, Marked
  <1>6. ReferenceInv
    BY <1>g, <1>i DEF ReferenceInv, Exclusive
  <1>7. PassInv /\ ExclusiveInv
    BY <1>i DEF PassInv, ExclusiveInv, Exclusive
  <1>8. \A t \in Mutators : ReadAt(t)
    BY <1>a, <1>n DEF ReadAt
  <1> QED
    BY <1>1, <1>2, <1>3, <1>4, <1>5, <1>6, <1>7, <1>8 DEF MarkInv

\* Every step keeps the invariant.
LEMMA NextMark == MarkInv /\ [Next]_vars => MarkInv'
  <1> SUFFICES ASSUME MarkInv, [Next]_vars PROVE MarkInv'
    OBVIOUS
  <1>i. /\ Types /\ PhaseAt /\ StackInv /\ SwitchInv /\ ColourInv /\ ReferenceInv /\ PassInv
        /\ ExclusiveInv /\ \A t \in Mutators : ReadAt(t)
    BY DEF MarkInv
  <1>1. CASE Collect
    <2>1. Types' /\ PhaseAt' /\ StackInv' /\ SwitchInv'
      BY <1>1, <1>i, CollectorTypes, CollectorPhases, CollectorStacks, CollectorLeaves
    <2>2. ColourInv' /\ ReferenceInv'
      BY <1>1, <1>i, CollectorColours, CollectorReference
    <2>3. PassInv'
      BY <1>1, <1>i, CollectorPasses
    <2>4. ExclusiveInv'
      BY <1>1, <1>i, <2>1, <2>2, <2>3, CollectorSettled
    <2>5. \A t \in Mutators : ReadAt(t)'
      BY <1>1, <1>i, CollectorFrames DEF CollectorFrame, ReadAt
    <2> QED
      BY <2>1, <2>2, <2>3, <2>4, <2>5 DEF MarkInv
  <1>2. ASSUME NEW t \in Mutators, MutatorStep(t)
        PROVE  MarkInv'
    <2>e. MutatorEffect(t)
      BY <1>2, <1>i, MutatorEffects
    <2>1. Types' /\ \A u \in Mutators : ReadAt(u)'
      BY <1>i, <2>e, MutatorTypes
    <2>2. PhaseAt'
      BY <1>i, <2>e DEF MutatorEffect, MutatorFrame, PhaseAt
    <2>3. StackInv' /\ SwitchInv'
      BY <1>i, <2>e, MutatorStacks, MutatorLeaves
    <2>4. ColourInv' /\ ReferenceInv'
      BY <1>i, <2>e, MutatorColours
    <2>5. PassInv' /\ ExclusiveInv'
      BY <1>i, <2>e, MutatorPasses, MutatorSettled
    <2> QED
      BY <2>1, <2>2, <2>3, <2>4, <2>5 DEF MarkInv
  <1>3. ASSUME NEW t \in Mutators, Checkpoint(t)
        PROVE  MarkInv'
    <2>1. Types' /\ PhaseAt' /\ \A u \in Mutators : ReadAt(u)'
      BY <1>3, <1>i, CheckpointTypes
    <2>2. StackInv' /\ SwitchInv'
      BY <1>3, <1>i, CheckpointStacks, CheckpointLeaves
    <2>3. ColourInv' /\ ReferenceInv'
      BY <1>3, <1>i, CheckpointColours
    <2>4. PassInv' /\ ExclusiveInv'
      BY <1>3, <1>i, CheckpointPasses, CheckpointSettled
    <2> QED
      BY <2>1, <2>2, <2>3, <2>4 DEF MarkInv
  <1>4. CASE UNCHANGED vars
    <2> USE <1>4 DEF vars, heap, colours, stacks, flags, mutators, references, pass, collector
    <2>1. Types' /\ PhaseAt'
      BY <1>i DEF Types, TypeOK, PhaseAt
    <2>2. StackInv'
      BY <1>i DEF StackInv, OnOneStack, CollectorHas, MutatorHas, Pushes
    <2>3. SwitchInv' /\ ColourInv' /\ ReferenceInv'
      BY <1>i DEF SwitchInv, Left, ColourInv, ReferenceInv, FieldMarked, Marked
    <2>4. PassInv'
      BY <1>i DEF PassInv, Drained, Idle, Pushing
    <2>5. ExclusiveInv'
      BY <1>i DEF ExclusiveInv, Settled, Idle, Marked
    <2>6. \A t \in Mutators : ReadAt(t)'
      BY <1>i DEF ReadAt
    <2> QED
      BY <2>1, <2>2, <2>3, <2>4, <2>5, <2>6 DEF MarkInv
  <1> QED
    BY <1>1, <1>2, <1>3, <1>4 DEF Next, MutatorStep

\* Where every gray object is, what is marked, and what the mutators can reach, at
\* every point of a collection.
THEOREM Marking == Spec => []MarkInv
  <1> QED
    BY InitMark, NextMark, PTL DEF Spec

\* The fields and stacks of the collector and its mutators keep their types.
THEOREM TypeCorrect == Spec => []TypeOK
  <1>1. MarkInv => TypeOK
    BY DEF MarkInv, Types
  <1> QED
    BY <1>1, Marking, PTL

\* Once the collector has taken the mark stack for itself no mutator comes to push: it
\* reads only scanned objects, and GetReferent gives it nothing that is not scanned.
THEOREM MutatorsStopPushing == Spec => []OnlyCollectorPushes
  <1>1. MarkInv => OnlyCollectorPushes
    <2> SUFFICES ASSUME MarkInv, mode \in {"GcExclusive", "Off"} PROVE Pushing = {}
      BY DEF OnlyCollectorPushes
    <2>1. phase \in Exclusive
      BY DEF MarkInv, PhaseAt, Exclusive, Passing
    <2>2. \A t \in Mutators : Idle(t)
      BY <2>1 DEF MarkInv, ExclusiveInv, Settled
    <2> QED
      BY <2>2 DEF Idle, Pushing
  <1> QED
    BY <1>1, Marking, PTL

\* However many mutators push while the collector switches the mode of the mark stack,
\* ProcessMarkStack returns from the shared mode on only when nothing is left to mark.
THEOREM MarkingEnds == Spec => []MarkingConverges
  <1>1. MarkInv => MarkingConverges
    <2> SUFFICES ASSUME MarkInv, gc = "processed", phase # "local"
                 PROVE  /\ gcStack = {} /\ revoked = {} /\ \A t \in Mutators : local[t] = {}
                        /\ Pushing = {} /\ gray \subseteq {Reference}
      BY DEF MarkingConverges
    <2>1. Drained
      BY DEF MarkInv, PassInv
    <2>2. revoked = {} /\ \A t \in Mutators : local[t] = {}
      BY DEF MarkInv, SwitchInv, Left
    <2>3. Pushing = {}
      BY <2>1 DEF Drained, Idle, Pushing
    <2> QED
      BY <2>1, <2>2, <2>3 DEF Drained
  <1> QED
    BY <1>1, Marking, PTL

\* What a mutator holds, and what it can read past the read barrier, is marked, for any
\* number of mutators and objects, through reference processing.
THEOREM ToSpaceHolds == Spec => []ToSpaceInvariant
  <1>1. MarkInv => ToSpaceInvariant
    <2> SUFFICES ASSUME MarkInv PROVE ToSpaceInvariant
      OBVIOUS
    <2>1. \A t \in Mutators : \A o \in roots[t] : Marked(o)
      BY DEF MarkInv, ColourInv
    <2>2. \A o \in marked \cap Objects : FieldMarked(o)
      BY DEF MarkInv, ColourInv
    <2>3. Reference \in marked \ gray => FieldMarked(Reference)
      BY DEF MarkInv, ReferenceInv
    <2>4. marked \subseteq Objects \cup {Reference}
      BY DEF MarkInv, Types, TypeOK, Heap
    <2>5. \A o \in marked \ gray : FieldMarked(o)
      BY <2>2, <2>3, <2>4
    <2> QED
      BY <2>1, <2>5 DEF ToSpaceInvariant, FieldMarked
  <1> QED
    BY <1>1, Marking, PTL

\* An object that EnqueueFinalizerReferences or the scan after it marks is not the referent
\* of the Reference: ClearWhiteReferences came first, and no one stores a new referent.
THEOREM FinalizersRunAfterClearing == Spec => FinalizedAfterClearing
  <1>1. ASSUME MarkInv, Next
        PROVE  field'[Reference] = field[Reference] \/ field'[Reference] = Null
    <2>n. Reference \notin Objects /\ Reference \in Heap
      BY ObjectsAssumption DEF Heap
    <2>t. field \in [Heap -> Objects \cup {Null}] /\ roots \in [Mutators -> SUBSET Objects]
      BY <1>1 DEF MarkInv, Types, TypeOK
    <2>1. CASE Collect
      <3>1. UNCHANGED field \/ ClearWhiteReferences
        BY <2>1, CollectorFields
      <3> QED
        BY <2>n, <2>t, <3>1 DEF ClearWhiteReferences
    <2>2. ASSUME NEW t \in Mutators, MutatorStep(t)
          PROVE  field'[Reference] = field[Reference] \/ field'[Reference] = Null
      <3>1. MutatorEffect(t)
        BY <1>1, <2>2, MutatorEffects DEF MarkInv
      <3>2. CASE Stores(t)
        <4>1. PICK o \in Heap :
                /\ o \in roots[t] \/ field'[o] = Null
                /\ \A x \in Heap \ {o} : field'[x] = field[x]
          BY <3>2 DEF Stores
        <4> QED
          BY <2>n, <2>t, <4>1
      <3> QED
        BY <3>1, <3>2 DEF MutatorEffect, Starts, Drops, Advances, Chooses, Gets, Grays,
                          PushesLocally, PushesShared, Gained
    <2>3. ASSUME NEW t \in Mutators, Checkpoint(t)
          PROVE  UNCHANGED field
      BY <2>3 DEF Checkpoint, Revoke, EmptyCheckpoint, DisableMarkingCheckpoint, Answer, heap
    <2> QED
      BY <1>1, <2>1, <2>2, <2>3 DEF Next, MutatorStep
  <1>2. ASSUME MarkInv, Next, phase = "finalizer", NEW o \in Objects, ~Marked(o)
        PROVE  field'[Reference] # o
    <2>1. FieldMarked(Reference)
      BY <1>2 DEF MarkInv, ReferenceInv, Exclusive
    <2>2. field[Reference] # o /\ Null # o
      BY <1>2, <2>1, ObjectsAssumption DEF FieldMarked
    <2> QED
      BY <1>1, <1>2, <2>2
  <1>3. MarkInv /\ [Next]_vars =>
          [phase = "finalizer" =>
             \A o \in Objects : Marked(o)' /\ ~Marked(o) => field'[Reference] # o]_vars
    BY <1>2
  <1> QED
    BY <1>3, Marking, PTL DEF Spec, FinalizedAfterClearing

-----------------------------------------------------------------------------
Sets == INSTANCE FiniteSetTheorems

\* What is needed of cardinalities.
LEMMA CountNoneOrOne == Cardinality({}) = 0 /\ \A x : Cardinality({x}) = 1
  <1>1. \A R : Sets!Cardinality(R) = Cardinality(R)
    BY DEF Sets!Cardinality, Cardinality
  <1> QED
    BY <1>1, Sets!FS_EmptySet, Sets!FS_Singleton

\* The stacks of the collector that have an object.
LEMMA WaitingOnOne ==
  ASSUME NEW o \in Heap, OnOneStack(o)
  PROVE  /\ ~CollectorHas(o) => {i \in 1 .. 4 : o \in Waiting[i]} = {}
         /\ CollectorHas(o) => \E j : {i \in 1 .. 4 : o \in Waiting[i]} = {j}
  <1>n. o # Null
    BY ObjectsAssumption DEF Heap, Null, Reference
  <1>1. /\ Waiting[1] = gcStack /\ Waiting[2] = revoked /\ Waiting[3] = todo
        /\ Waiting[4] = {hand} \ {Null} /\ 1 .. 4 = {1, 2, 3, 4}
    BY SMTT(60) DEF Waiting
  <1>2. /\ o \in Waiting[1] <=> o \in gcStack
        /\ o \in Waiting[2] <=> o \in revoked
        /\ o \in Waiting[3] <=> o \in todo
        /\ o \in Waiting[4] <=> o = hand
    BY <1>1, <1>n
  <1>3. /\ o \in gcStack => o \notin revoked /\ o \notin todo /\ o # hand
        /\ o \in revoked => o \notin todo /\ o # hand
        /\ o \in todo => o # hand
    BY DEF OnOneStack
  <1>4. CASE ~CollectorHas(o)
    BY <1>1, <1>2, <1>4 DEF CollectorHas
  <1>5. CASE o \in gcStack
    <2>1. {i \in 1 .. 4 : o \in Waiting[i]} = {1}
      BY <1>1, <1>2, <1>3, <1>5
    <2> QED
      BY <1>5, <2>1 DEF CollectorHas
  <1>6. CASE o \in revoked
    <2>1. {i \in 1 .. 4 : o \in Waiting[i]} = {2}
      BY <1>1, <1>2, <1>3, <1>6
    <2> QED
      BY <1>6, <2>1 DEF CollectorHas
  <1>7. CASE o \in todo
    <2>1. {i \in 1 .. 4 : o \in Waiting[i]} = {3}
      BY <1>1, <1>2, <1>3, <1>7
    <2> QED
      BY <1>7, <2>1 DEF CollectorHas
  <1>8. CASE o = hand
    <2>1. {i \in 1 .. 4 : o \in Waiting[i]} = {4}
      BY <1>1, <1>2, <1>3, <1>8
    <2> QED
      BY <1>8, <2>1 DEF CollectorHas
  <1> QED
    BY <1>4, <1>5, <1>6, <1>7, <1>8 DEF CollectorHas

\* Every gray object is on one mark stack, or in the hands of one thread, and no other
\* object is, for any number of mutators and objects, while stacks are revoked, switched
\* and drained.
THEOREM GraysAreOnOneStack == Spec => []GrayIsOnOneStack
  <1>1. MarkInv => GrayIsOnOneStack
    <2> SUFFICES ASSUME MarkInv PROVE GrayIsOnOneStack
      OBVIOUS
    <2> DEFINE W(o) == {i \in 1 .. 4 : o \in Waiting[i]}
               L(o) == {t \in Mutators : o \in local[t]}
               P(o) == {t \in Pushing : ref[t] = o}
    <2>n. Objects \subseteq Heap /\ Reference \in Heap /\ Reference \notin Objects
      BY ObjectsAssumption DEF Heap
    <2>s. StackInv
      BY DEF MarkInv
    <2>1. ASSUME NEW o \in Heap, \A t \in Mutators : ~MutatorHas(t, o)
          PROVE  L(o) = {} /\ P(o) = {}
      BY <2>1 DEF MutatorHas, Pushes, Pushing
    <2>2. ASSUME NEW o \in Heap, NEW t \in Mutators, MutatorHas(t, o)
          PROVE  (L(o) = {t} /\ P(o) = {}) \/ (L(o) = {} /\ P(o) = {t})
      <3>1. /\ \A u \in Mutators : MutatorHas(u, o) => u = t
            /\ ~(o \in local[t] /\ Pushes(t, o))
        BY <2>2, <2>s DEF StackInv, OnOneStack
      <3>2. CASE o \in local[t]
        <4>1. L(o) = {t}
          BY <3>1, <3>2 DEF MutatorHas
        <4>2. P(o) = {}
          BY <3>1, <3>2 DEF MutatorHas, Pushes, Pushing
        <4> QED
          BY <4>1, <4>2
      <3>3. CASE Pushes(t, o) /\ o \notin local[t]
        <4>1. L(o) = {}
          BY <3>1, <3>3 DEF MutatorHas
        <4>2. P(o) = {t}
          BY <3>1, <3>3 DEF MutatorHas, Pushes, Pushing
        <4> QED
          BY <4>1, <4>2
      <3> QED
        BY <2>2, <3>2, <3>3 DEF MutatorHas
    <2>3. ASSUME NEW o \in Objects
          PROVE  Cardinality(W(o)) + Cardinality(L(o)) + Cardinality(P(o)) =
                   IF o \in gray THEN 1 ELSE 0
      <3>1. OnOneStack(o) /\ o \in Heap
            /\ (o \in gray <=> CollectorHas(o) \/ \E t \in Mutators : MutatorHas(t, o))
        BY <2>n, <2>s DEF StackInv
      <3>2. CASE CollectorHas(o)
        <4>1. PICK j : W(o) = {j}
          BY <3>1, <3>2, WaitingOnOne
        <4>2. \A t \in Mutators : ~MutatorHas(t, o)
          BY <3>1, <3>2 DEF OnOneStack
        <4>3. L(o) = {} /\ P(o) = {}
          BY <2>1, <3>1, <4>2
        <4>4. Cardinality(W(o)) = 1 /\ Cardinality(L(o)) = 0 /\ Cardinality(P(o)) = 0
          BY <4>1, <4>3, CountNoneOrOne
        <4> HIDE DEF W, L, P
        <4> QED
          BY <3>1, <3>2, <4>4, SMTT(60)
      <3>3. ASSUME NEW t \in Mutators, MutatorHas(t, o)
            PROVE  <2>3!2
        <4>1. ~CollectorHas(o)
          BY <3>1, <3>3 DEF OnOneStack
        <4>2. Cardinality(W(o)) = 0
          BY <3>1, <4>1, WaitingOnOne, CountNoneOrOne
        <4>3. \/ Cardinality(L(o)) = 1 /\ Cardinality(P(o)) = 0
              \/ Cardinality(L(o)) = 0 /\ Cardinality(P(o)) = 1
          BY <2>2, <3>1, <3>3, CountNoneOrOne
        <4>4. o \in gray
          BY <3>1, <3>3
        <4> HIDE DEF W, L, P
        <4> QED
          BY <4>2, <4>3, <4>4, SMTT(60)
      <3>4. CASE o \notin gray
        <4>1. Cardinality(W(o)) = 0
          BY <3>1, <3>4, WaitingOnOne, CountNoneOrOne
        <4>2. L(o) = {} /\ P(o) = {}
          BY <2>1, <3>1, <3>4
        <4>3. Cardinality(L(o)) = 0 /\ Cardinality(P(o)) = 0
          BY <4>2, CountNoneOrOne
        <4> HIDE DEF W, L, P
        <4> QED
          BY <3>4, <4>1, <4>3, SMTT(60)
      <3> QED
        BY <3>1, <3>2, <3>3, <3>4
    <2>4. Cardinality(W(Reference)) + Cardinality(L(Reference)) + Cardinality(P(Reference)) <= 1
      <3>1. \A t \in Mutators : ~MutatorHas(t, Reference)
        BY <2>n DEF MarkInv, Types, ReadAt, MutatorHas, Pushes
      <3>2. L(Reference) = {} /\ P(Reference) = {}
        BY <2>1, <2>n, <3>1
      <3>3. Cardinality(L(Reference)) = 0 /\ Cardinality(P(Reference)) = 0
        BY <3>2, CountNoneOrOne
      <3>4. OnOneStack(Reference)
        BY <2>n, <2>s DEF StackInv
      <3>5. Cardinality(W(Reference)) = 0 \/ Cardinality(W(Reference)) = 1
        BY <2>n, <3>4, WaitingOnOne, CountNoneOrOne
      <3> HIDE DEF W, L, P
      <3> QED
        BY <3>3, <3>5, SMTT(60)
    <2> QED
      BY <2>3, <2>4 DEF GrayIsOnOneStack
  <1> QED
    BY <1>1, Marking, PTL

==============================================================================
