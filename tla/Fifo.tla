-------------------------------- MODULE Fifo --------------------------------
(***************************************************************************)
(* What a pipe promises: a bounded first-in first-out queue of bytes, fed  *)
(* by the bytes that its writers hand to write(), in their order.          *)
(***************************************************************************)
EXTENDS Integers, Sequences

CONSTANTS Writers, Bytes, PIPESIZE

VARIABLES
  want,   \* want[w]: the bytes of w's write() that are not in the queue yet
  q,      \* bytes written and not yet read
  got     \* the bytes that the latest read returned

FInit == want = [w \in Writers |-> <<>>] /\ q = <<>> /\ got = <<>>

\* w calls write(), with any bytes, when its latest write() is over.
Begin(w) ==
  /\ want[w] = <<>>
  /\ want'[w] \in Seq(Bytes) /\ want' = [want EXCEPT ![w] = want'[w]]
  /\ UNCHANGED <<q, got>>

\* The next k bytes of w enter the queue, as far as they fit.
Put(w, k) ==
  /\ Len(q) + k <= PIPESIZE
  /\ q' = q \o SubSeq(want[w], 1, k)
  /\ want' = [want EXCEPT ![w] = SubSeq(@, k + 1, Len(@))]
  /\ UNCHANGED got

\* write() fails: the queue is full, and the rest of w's bytes is dropped.
Fail(w) ==
  LET k == PIPESIZE - Len(q) IN
    /\ k < Len(want[w])
    /\ q' = q \o SubSeq(want[w], 1, k)
    /\ want' = [want EXCEPT ![w] = <<>>]
    /\ UNCHANGED got

\* A reader takes the k oldest bytes.
Get(k) ==
  /\ got' = SubSeq(q, 1, k)
  /\ q' = SubSeq(q, k + 1, Len(q))
  /\ UNCHANGED want

FNext ==
  \/ \E w \in Writers : Begin(w) \/ Fail(w) \/ \E k \in 0 .. Len(want[w]) : Put(w, k)
  \/ \E k \in 0 .. Len(q) : Get(k)

fvars == <<want, q, got>>
FSpec == FInit /\ [][FNext]_fvars
=============================================================================
