---------------------------- MODULE VectorMemory ----------------------------
(***************************************************************************)
(* Who owns the memory of the vectors of Vector.h and BitVector.h: a vector *)
(* owns its block or is an alias into another one's, and copies, shifts and *)
(* assignments each treat the two in their own way.  The place and length   *)
(* of a segment are left out; a vector is empty or it is not.  Addresses of *)
(* freed blocks come back from the allocator.                               *)
(***************************************************************************)
CONSTANTS
  Vectors,    \* the vector objects of the program
  Blocks,     \* bound: addresses of the allocator
  Nowhere

ASSUME MemoryAssumption == Nowhere \notin Blocks

VARIABLES
  heap,       \* blocks that are allocated
  vec         \* mData and mStart of every vector; neither while not constructed

vectorVars == <<heap, vec>>

Outside == [mData |-> Nowhere, mStart |-> Nowhere, kind |-> "none"]

Vec == [mData : Blocks \cup {Nowhere}, mStart : Blocks \cup {Nowhere},
        kind : {"none", "Vector", "BitVector"}]

VectorInit == heap = {} /\ vec = [v \in Vectors |-> Outside]

-----------------------------------------------------------------------------
Owns(v) == vec[v].mData # Nowhere
Alive(v, kinds) == vec[v].kind \in kinds
Both == {"Vector", "BitVector"}

\* A source is empty or its memory is still there: an alias must not be used
\* after its block's owner, and the program assigns no vector from an alias of
\* its own block.
Readable(w) == vec[w].mStart = Nowhere \/ vec[w].mStart \in heap

\* Fault: resize only forgets the block.
AfterFreeLeaks(v) == heap

AfterFree(v) == heap \ {vec[v].mData}

\* resize: the block is freed, and a new one taken unless the size is 0.
resize(v, kind, empty) ==
  IF empty
  THEN /\ heap' = AfterFree(v)
       /\ vec' = [vec EXCEPT ![v] = [Outside EXCEPT !.kind = kind]]
  ELSE \E b \in Blocks \ AfterFree(v) :
         /\ heap' = AfterFree(v) \cup {b}
         /\ vec' = [vec EXCEPT ![v] = [mData |-> b, mStart |-> b, kind |-> kind]]

clone(v, kind, w) == resize(v, kind, vec[w].mStart = Nowhere)

\* v takes over what w has; w is left an alias of the block.
\* Fault: w keeps its block.
TakenFromKept(v, kind, w) == [vec EXCEPT ![v] = [vec[w] EXCEPT !.kind = kind]]

TakenFrom(v, kind, w) ==
  [vec EXCEPT ![w].mData = Nowhere, ![v] = [vec[w] EXCEPT !.kind = kind]]

makeAlias(v, kind, w) ==
  /\ heap' = AfterFree(v)
  /\ vec' = [vec EXCEPT ![v] = [mData |-> Nowhere, mStart |-> vec[w].mStart, kind |-> kind]]

-----------------------------------------------------------------------------
Construct(v) == /\ Alive(v, {"none"})
                /\ \E kind \in Both, empty \in BOOLEAN : resize(v, kind, empty)

\* Vector(Vector &) and the assignment from a Vector &: also v = v, where the
\* block is freed first and nothing is left to take.
CopyShift(v, w) ==
  /\ Alive(v, {"none"}) /\ Alive(w, {"Vector"})
  /\ vec' = TakenFrom(v, "Vector", w) /\ UNCHANGED heap

shiftMem(v, w) ==
  /\ Alive(v, {"Vector"}) /\ Alive(w, {"Vector"})
  /\ heap' = AfterFree(v)
  /\ vec' = IF v = w THEN [vec EXCEPT ![v] = [Outside EXCEPT !.kind = "Vector"]]
            ELSE TakenFrom(v, "Vector", w)

\* Vector(const Vector &) and the assignment from a const Vector &.
CopyClone(v, w) ==
  /\ Alive(v, {"none", "Vector"}) /\ Alive(w, {"Vector"}) /\ Readable(w)
  /\ v # w => ~Owns(v) \/ vec[w].mStart # vec[v].mData
  /\ clone(v, "Vector", w)

\* BitVector(const BitVector &) and its assignment: an owner is cloned, an
\* alias gives another alias.
CopyOrAlias(v, w) ==
  /\ Alive(v, {"none", "BitVector"}) /\ Alive(w, {"BitVector"}) /\ Readable(w)
  /\ v # w => ~Owns(v) \/ vec[w].mStart # vec[v].mData
  /\ IF Owns(w) THEN clone(v, "BitVector", w) ELSE makeAlias(v, "BitVector", w)

\* segment, head, tail and alias; the value is put into a new object.
Segment(v, w) ==
  /\ Alive(v, {"none"}) /\ Alive(w, Both) /\ Readable(w)
  /\ makeAlias(v, vec[w].kind, w)

\* dup: an alias of a whole BitVector; makeAlias asserts that v does not own
\* the block of w.
dup(v, w) ==
  /\ Alive(v, {"BitVector"}) /\ Alive(w, {"BitVector"}) /\ Readable(w)
  /\ Owns(v) => vec[v].mData # vec[w].mData
  /\ makeAlias(v, "BitVector", w)

\* The constructors from two vectors.
vConcat(v, w1, w2) ==
  /\ Alive(v, {"none"}) /\ Alive(w1, Both) /\ Alive(w2, {vec[w1].kind})
  /\ Readable(w1) /\ Readable(w2)
  /\ resize(v, vec[w1].kind, vec[w1].mStart = Nowhere /\ vec[w2].mStart = Nowhere)

\* resize and clear from outside, and the destructor.
Resize(v) == /\ Alive(v, Both)
             /\ \E empty \in BOOLEAN : resize(v, vec[v].kind, empty)

Destroy(v) == Alive(v, Both) /\ resize(v, "none", TRUE)

VectorNext ==
  \E v \in Vectors :
    \/ Construct(v) \/ Resize(v) \/ Destroy(v)
    \/ \E w \in Vectors :
         \/ CopyShift(v, w) \/ shiftMem(v, w) \/ CopyClone(v, w)
         \/ CopyOrAlias(v, w) \/ Segment(v, w) \/ dup(v, w)
         \/ \E w2 \in Vectors : vConcat(v, w, w2)

VectorSpec == VectorInit /\ [][VectorNext]_vectorVars

-----------------------------------------------------------------------------
\* "Only one Vector 'owns' the memory at a time, so that automatic destruction
\* can be used" (Vector.h): every block that is allocated has exactly one
\* owner, and no owner's block is free.  So no sequence of copies, shifts,
\* aliases and assignments leaks a block or frees one twice.
OneOwner ==
  /\ \A b \in heap : \E v \in Vectors : vec[v].mData = b
  /\ \A v \in Vectors : Owns(v) => vec[v].mData \in heap /\ vec[v].mStart = vec[v].mData
  /\ \A v, w \in Vectors : Owns(v) /\ vec[v].mData = vec[w].mData => v = w
=============================================================================
