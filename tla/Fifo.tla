-------------------------------- MODULE Fifo --------------------------------
(* What PointerFIFO promises: items come out in the order they were put in, *)
(* or first of all when they were pushed to the front; get of an empty FIFO *)
(* gives nothing.                                                           *)
EXTENDS Sequences

CONSTANTS Values, NULL

VARIABLES items, result   \* result: what the last get returned

fifoVars == <<items, result>>

FifoInit == items = <<>> /\ result = NULL

Put(v) == items' = Append(items, v) /\ UNCHANGED result
PushFront(v) == items' = <<v>> \o items /\ UNCHANGED result

Get ==
  \/ items # <<>> /\ result' = Head(items) /\ items' = Tail(items)
  \/ items = <<>> /\ result' = NULL /\ UNCHANGED items

FifoNext == Get \/ \E v \in Values : Put(v) \/ PushFront(v)

FifoSpec == FifoInit /\ [][FifoNext]_fifoVars
=============================================================================
