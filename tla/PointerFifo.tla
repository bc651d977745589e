---------------------------- MODULE PointerFifo ----------------------------
(***************************************************************************)
(* PointerFIFO of LinkedLists.cpp: a linked list with a head, a tail and a  *)
(* list of free nodes that put takes from and get gives to.  The receive    *)
(* FIFO of the radio interface is one (VectorFIFO), used by one thread.     *)
(***************************************************************************)
EXTENDS Integers, Sequences, Functions

CONSTANTS
  Values,    \* the pointers that are stored
  MaxNodes,  \* bound: nodes that are ever allocated
  NULL

ASSUME FifoAssumption == MaxNodes \in Nat /\ NULL \notin Values

VARIABLES
  nodes,      \* number of nodes on the heap; node n has next[n] and data[n]
  next, data,
  mHead, mTail, mFreeList, mSize,
  returned    \* what the last get returned

listVars == <<nodes, next, data, mHead, mTail, mFreeList, mSize, returned>>

Nodes == 1 .. MaxNodes
None == 0       \* the null pointer of a node

ListInit ==
  /\ nodes = 0 /\ mSize = 0 /\ returned = NULL
  /\ next = [n \in Nodes |-> None] /\ data = [n \in Nodes |-> NULL]
  /\ mHead = None /\ mTail = None /\ mFreeList = None

-----------------------------------------------------------------------------
\* allocate: a free node, or a new one, whose fields are not set.
Allocated == IF mFreeList = None THEN nodes + 1 ELSE mFreeList

allocate ==
  /\ Allocated <= MaxNodes
  /\ IF mFreeList = None THEN nodes' = nodes + 1 /\ UNCHANGED mFreeList
     ELSE mFreeList' = next[mFreeList] /\ UNCHANGED nodes

\* Fault: the node keeps the link it had in the free list.
PutLinksKept(n) == IF mTail = None THEN next ELSE [next EXCEPT ![mTail] = n]

PutLinks(n) ==
  IF mTail = None THEN [next EXCEPT ![n] = None]
  ELSE [next EXCEPT ![n] = None, ![mTail] = n]

put(v) ==
  LET n == Allocated
  IN /\ allocate
     /\ data' = [data EXCEPT ![n] = v] /\ next' = PutLinks(n)
     /\ mTail' = n /\ mHead' = IF mHead = None THEN n ELSE mHead
     /\ mSize' = mSize + 1 /\ UNCHANGED returned

push_front(v) ==
  LET n == Allocated
  IN /\ allocate
     /\ data' = [data EXCEPT ![n] = v] /\ next' = [next EXCEPT ![n] = mHead]
     /\ mHead' = n /\ mTail' = IF mTail = None THEN n ELSE mTail
     /\ mSize' = mSize + 1 /\ UNCHANGED returned

\* get, and release of the node to the free list.
get ==
  \/ /\ mHead = None /\ returned' = NULL
     /\ UNCHANGED <<nodes, next, data, mHead, mTail, mFreeList, mSize>>
  \/ /\ mHead # None
     /\ returned' = data[mHead]
     /\ next' = [next EXCEPT ![mHead] = mFreeList] /\ mFreeList' = mHead
     /\ mHead' = next[mHead]
     /\ mTail' = IF next[mHead] = None THEN None ELSE mTail
     /\ mSize' = mSize - 1 /\ UNCHANGED <<nodes, data>>

ListNext == get \/ \E v \in Values : put(v) \/ push_front(v)

ListSpec == ListInit /\ [][ListNext]_listVars

-----------------------------------------------------------------------------
\* Lists of len nodes.
NodeLists(len) == [1 .. len -> Nodes]

\* The nodes of list, in this order, are those from n on along the links.
Linked(links, n, list) ==
  /\ n = IF list = <<>> THEN None ELSE list[1]
  /\ \A i \in DOMAIN list : links[list[i]] = IF i = Len(list) THEN None ELSE list[i + 1]

Contents ==
  LET list == CHOOSE nodeList \in NodeLists(mSize) : Linked(next, mHead, nodeList)
  IN [i \in DOMAIN list |-> data[list[i]]]

\* Every node is in the list or in the free list and in none twice, and the
\* list is as long as its size says (PointerFIFO::allocate, release).
NodesInOneList ==
  \E list \in NodeLists(mSize) :
    /\ Linked(next, mHead, list) /\ IsInjective(list)
    /\ mTail = IF list = <<>> THEN None ELSE list[mSize]
    /\ \E free \in NodeLists(nodes - mSize) :
         /\ Linked(next, mFreeList, free) /\ IsInjective(free)
         /\ Range(list) \cap Range(free) = {}
         /\ Range(list) \cup Range(free) = 1 .. nodes

\* What the list stands for; NULL is no value, so a damaged list stands for
\* no contents that a FIFO can have.
Represented == IF NodesInOneList THEN Contents ELSE <<NULL>>

\* The list behaves as a FIFO of the values (Fifo), and never leaks a node:
\* neither a node that comes back from the free list nor the last item that
\* goes loses or repeats one (PointerFIFO::put, push_front, get).
Order == INSTANCE Fifo WITH items <- Represented, result <- returned
ImplementsFifo == Order!FifoSpec
=============================================================================
