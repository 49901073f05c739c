---------------------------- MODULE SampleStream ----------------------------
(***************************************************************************)
(* What a sample dispatcher promises its readers, without blocks, pool or  *)
(* reference counts: every reader owns a bounded FIFO of chunk VALUES.  A  *)
(* producer offers the chunks 1, 2, 3, ... one at a time, and is done with *)
(* a chunk only when every reader has either been handed it or been        *)
(* charged with its loss.  SampleDispatcher implements this with pointers  *)
(* into a recycled pool.                                                   *)
(***************************************************************************)
EXTENDS Naturals, Sequences

CONSTANTS
  Readers,    \* the consumers of the stream
  Cap,        \* capacity of a reader's queue
  Lossless    \* TRUE when the producer applies backpressure

VARIABLES
  now,      \* number of the chunk on offer, 0 before the first
  offered,  \* readers that are done with chunk "now"
  stream,   \* per reader, the chunks queued for it
  inHand,   \* per reader, the chunk it is working on, 0 when none
  last,     \* per reader, the last chunk it took, 0 before the first
  taken,    \* per reader, how many chunks it took
  lost      \* per reader, how many chunks it was charged with losing

vars == <<now, offered, stream, inHand, last, taken, lost>>

Init ==
  /\ now = 0
  /\ offered = Readers
  /\ stream = [r \in Readers |-> <<>>]
  /\ inHand = [r \in Readers |-> 0]
  /\ last = [r \in Readers |-> 0]
  /\ taken = [r \in Readers |-> 0]
  /\ lost = [r \in Readers |-> 0]

\* The producer turns to the next chunk.
Begin ==
  /\ offered = Readers
  /\ now' = now + 1
  /\ offered' = {}
  /\ UNCHANGED <<stream, inHand, last, taken, lost>>

\* Reader r's queue has room and receives the chunk on offer.
Deliver(r) ==
  /\ r \notin offered
  /\ Len(stream[r]) < Cap
  /\ stream' = [stream EXCEPT ![r] = Append(@, now)]
  /\ offered' = offered \cup {r}
  /\ UNCHANGED <<now, inHand, last, taken, lost>>

\* The readers in R lose the chunk, and are charged with it.
Lose(R) ==
  /\ ~Lossless
  /\ R \cap offered = {}
  /\ lost' = [r \in Readers |-> IF r \in R THEN lost[r] + 1 ELSE lost[r]]
  /\ offered' = offered \cup R
  /\ UNCHANGED <<now, stream, inHand, last, taken>>

Take(r) ==
  /\ inHand[r] = 0
  /\ stream[r] # <<>>
  /\ inHand' = [inHand EXCEPT ![r] = Head(stream[r])]
  /\ last' = [last EXCEPT ![r] = Head(stream[r])]
  /\ taken' = [taken EXCEPT ![r] = @ + 1]
  /\ stream' = [stream EXCEPT ![r] = Tail(@)]
  /\ UNCHANGED <<now, offered, lost>>

Finish(r) ==
  /\ inHand' = [inHand EXCEPT ![r] = 0]
  /\ UNCHANGED <<now, offered, stream, last, taken, lost>>

Next ==
  \/ Begin
  \/ \E R \in SUBSET Readers : Lose(R)
  \/ \E r \in Readers : Deliver(r) \/ Take(r) \/ Finish(r)

Spec == Init /\ [][Next]_vars
=============================================================================
