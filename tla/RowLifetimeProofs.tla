------------------------- MODULE RowLifetimeProofs -------------------------
(***************************************************************************)
(* The lag of an indication behind the helper, and with it that the row it *)
(* names is intact, for every size of ring, output map and queue.          *)
(*                                                                         *)
(* Then what is in a row: the conversions of a sample                      *)
(* (SampleFormats), for every 16-bit sample, float, window of bytes,       *)
(* exponent and number of resource blocks.                                 *)
(***************************************************************************)
EXTENDS RowLifetime, SampleFormats, TLAPS

-----------------------------------------------------------------------------
(* Places of the ring. *)

\* A positive multiple of the ring is at least the ring.
LEMMA MulAtLeast ==
    ASSUME NEW a \in Nat \ {0}, NEW b \in Int, b >= 1
    PROVE  a * b >= a
  OBVIOUS

\* A row number is placed in the ring.
LEMMA PlaceRange ==
    ASSUME NEW k \in Nat \ {0}
    PROVE  Place(k) \in 0..Rows-1
  BY RowAssumption DEF Place

\* Rows less than a ring apart lie at different places.
LEMMA PlaceDistinct ==
    ASSUME NEW i \in Nat \ {0}, NEW j \in Nat \ {0}, i < j, j < i + Rows
    PROVE  Place(i) # Place(j)
<1> DEFINE a == (i - 1) \div Rows
           b == (j - 1) \div Rows
<1>0. Rows \in Nat \ {0} /\ i - 1 \in Nat /\ j - 1 \in Nat
  BY RowAssumption
<1>1. /\ a \in Int /\ b \in Int
      /\ (i - 1) % Rows \in Int /\ (j - 1) % Rows \in Int
      /\ i - 1 = Rows * a + ((i - 1) % Rows)
      /\ j - 1 = Rows * b + ((j - 1) % Rows)
  BY <1>0
<1> HIDE DEF a, b
<1>2. SUFFICES ASSUME (i - 1) % Rows = (j - 1) % Rows PROVE FALSE
  BY Zenon DEF Place
<1>3. j - i = Rows * (b - a)
  BY <1>0, <1>1, <1>2
<1>4. CASE b - a >= 1
  BY <1>0, <1>1, <1>3, <1>4, MulAtLeast
<1>5. CASE b - a <= 0
  <2>1. Rows * (b - a) <= 0
    BY <1>0, <1>1, <1>5
  <2> QED
    BY <1>3, <2>1
<1> QED
  BY <1>1, <1>4, <1>5

-----------------------------------------------------------------------------
(* Sequences of descriptors. *)

\* What Tail leaves.
LEMMA TailFacts ==
    ASSUME NEW S, NEW q \in Seq(S), q # <<>>
    PROVE  /\ Len(q) \in Nat \ {0}
           /\ Head(q) \in S /\ Head(q) = q[1]
           /\ Tail(q) \in Seq(S) /\ Len(Tail(q)) = Len(q) - 1
           /\ (Tail(q) = <<>> <=> Len(q) = 1)
           /\ \A i \in 1..Len(q)-1 : Tail(q)[i] = q[i+1]
<1>1. /\ Len(q) \in Nat \ {0}
      /\ Head(q) \in S /\ Head(q) = q[1]
      /\ Tail(q) \in Seq(S) /\ Len(Tail(q)) = Len(q) - 1
      /\ \A i \in 1..Len(q)-1 : Tail(q)[i] = q[i+1]
  OBVIOUS
<1> DEFINE t == Tail(q)
<1>2. Len(t) = 0 <=> t = <<>>
  <2>1. t \in Seq(S)
    BY <1>1, Zenon
  <2> HIDE DEF t
  <2> QED
    BY <2>1
<1>3. Len(q) - 1 = 0 <=> Len(q) = 1
  BY <1>1
<1> QED
  BY <1>1, <1>2, <1>3, Zenon

\* What Append adds.
LEMMA AppendFacts ==
    ASSUME NEW S, NEW q \in Seq(S), NEW e \in S
    PROVE  /\ Append(q, e) \in Seq(S) /\ Len(Append(q, e)) = Len(q) + 1
           /\ \A i \in 1..Len(q) : Append(q, e)[i] = q[i]
           /\ Append(q, e)[Len(q) + 1] = e
           /\ Append(q, e) # <<>>
<1>1. Append(q, e) \in Seq(S) /\ Len(Append(q, e)) = Len(q) + 1
  OBVIOUS
<1>2. \A i \in 1..Len(q) : Append(q, e)[i] = q[i]
  OBVIOUS
<1>3. Append(q, e)[Len(q) + 1] = e
  OBVIOUS
<1>4. Append(q, e) # <<>>
  <2>1. Len(q) \in Nat /\ Len(<<>>) = 0
    OBVIOUS
  <2>2. Len(q) + 1 # 0
    BY <2>1
  <2> QED
    BY <1>1, <2>1, <2>2, Zenon
<1> QED
  BY <1>1, <1>2, <1>3, <1>4, Zenon

\* A batch taken off the front, and what stays.
LEMMA SplitFacts ==
    ASSUME NEW S, NEW q \in Seq(S), NEW n \in 1..Len(q)
    PROVE  /\ SubSeq(q, 1, n) \in Seq(S) /\ Len(SubSeq(q, 1, n)) = n
           /\ SubSeq(q, 1, n) # <<>>
           /\ \A i \in 1..n : SubSeq(q, 1, n)[i] = q[i]
           /\ SubSeq(q, n + 1, Len(q)) \in Seq(S)
           /\ Len(SubSeq(q, n + 1, Len(q))) = Len(q) - n
           /\ \A i \in 1..Len(q)-n : SubSeq(q, n + 1, Len(q))[i] = q[n+i]
  OBVIOUS

\* Elements of a sequence, and when it is empty.
LEMMA LenFacts ==
    ASSUME NEW S, NEW q \in Seq(S)
    PROVE  /\ Len(q) \in Nat /\ (Len(q) = 0 <=> q = <<>>)
           /\ \A i \in 1..Len(q) : q[i] \in S
  OBVIOUS

\* Descriptor d, with n descriptors behind it, w rows begun, s skipped and p of
\* the rows begun still with the codelet: each row begun since that of d has a
\* descriptor behind it, was skipped, or is the codelet's present one.
Waits(d, n, w, s, p) ==
    d.row # 0 =>
        /\ d.row + p <= w
        /\ d.skip <= s
        /\ w <= d.row + n + (s - d.skip) + p

\* The descriptors of a sequence, with n more behind the last.
WaitsIn(q, n, w, s, p) == \A i \in 1..Len(q) : Waits(q[i], Len(q) - i + n, w, s, p)

\* Rows begun, skipped or still with the codelet may change together.
LEMMA WaitsOn ==
    ASSUME NEW q \in Seq(Descriptor),
           NEW n \in Int, NEW w \in Int, NEW s \in Int, NEW p \in Int,
           NEW n2 \in Int, NEW w2 \in Int, NEW s2 \in Int, NEW p2 \in Int,
           WaitsIn(q, n, w, s, p),
           w - p <= w2 - p2, s <= s2, w2 - n2 - s2 - p2 <= w - n - s - p
    PROVE  WaitsIn(q, n2, w2, s2, p2)
<1> SUFFICES ASSUME NEW i \in 1..Len(q) PROVE Waits(q[i], Len(q) - i + n2, w2, s2, p2)
  BY Zenon DEF WaitsIn
<1>1. q[i] \in Descriptor /\ Len(q) \in Nat
  BY LenFacts, Zenon
<1>2. Waits(q[i], Len(q) - i + n, w, s, p)
  BY Zenon DEF WaitsIn
<1> DEFINE r == q[i].row
           k == q[i].skip
           l == Len(q)
<1>3. r \in Nat /\ k \in Nat /\ l \in Nat
  BY <1>1, Zenon DEF Descriptor
<1>4. r # 0 => r + p <= w /\ k <= s /\ w <= r + (l - i + n) + (s - k) + p
  BY <1>2, Zenon DEF Waits
<1> HIDE DEF r, k, l
<1>5. r # 0 => r + p2 <= w2 /\ k <= s2 /\ w2 <= r + (l - i + n2) + (s2 - k) + p2
  BY <1>3, <1>4
<1> QED
  BY <1>5, Zenon DEF Waits, r, k, l

\* The first of a sequence goes, and with it nothing behind another one.
LEMMA WaitsTail ==
    ASSUME NEW q \in Seq(Descriptor), q # <<>>,
           NEW n \in Int, NEW w \in Int, NEW s \in Int, NEW p \in Int,
           WaitsIn(q, n, w, s, p)
    PROVE  WaitsIn(Tail(q), n, w, s, p)
<1> SUFFICES ASSUME NEW i \in 1..Len(Tail(q))
             PROVE  Waits(Tail(q)[i], Len(Tail(q)) - i + n, w, s, p)
  BY Zenon DEF WaitsIn
<1>1. /\ Len(q) \in Nat \ {0} /\ Len(Tail(q)) = Len(q) - 1 /\ Tail(q)[i] = q[i+1]
      /\ i + 1 \in 1..Len(q)
  BY TailFacts
<1>2. Waits(q[i+1], Len(q) - (i + 1) + n, w, s, p)
  BY <1>1, Zenon DEF WaitsIn
<1>3. Len(Tail(q)) - i + n = Len(q) - (i + 1) + n
  BY <1>1
<1> QED
  BY <1>1, <1>2, <1>3, Zenon

\* A descriptor that was behind a sequence becomes its last.
LEMMA WaitsAppend ==
    ASSUME NEW q \in Seq(Descriptor), NEW e \in Descriptor,
           NEW n \in Int, NEW w \in Int, NEW s \in Int, NEW p \in Int,
           WaitsIn(q, n + 1, w, s, p), Waits(e, n, w, s, p)
    PROVE  WaitsIn(Append(q, e), n, w, s, p)
<1> DEFINE q2 == Append(q, e)
<1>0. /\ Len(q) \in Nat /\ Len(q2) = Len(q) + 1
      /\ \A i \in 1..Len(q) : q2[i] = q[i]
      /\ q2[Len(q) + 1] = e
  BY AppendFacts, LenFacts
<1> HIDE DEF q2
<1> SUFFICES ASSUME NEW i \in 1..Len(q2) PROVE Waits(q2[i], Len(q2) - i + n, w, s, p)
  BY Zenon DEF WaitsIn, q2
<1>1. CASE i \in 1..Len(q)
  <2>1. Waits(q[i], Len(q) - i + (n + 1), w, s, p)
    BY <1>1, Zenon DEF WaitsIn
  <2>2. Len(q) - i + (n + 1) = Len(q2) - i + n /\ q2[i] = q[i]
    BY <1>0, <1>1
  <2> QED
    BY <2>1, <2>2, Zenon
<1>2. CASE i = Len(q) + 1
  <2>1. Len(q2) - i + n = n /\ q2[i] = e
    BY <1>0, <1>2
  <2> QED
    BY <2>1, Zenon
<1> QED
  BY <1>0, <1>1, <1>2

\* A sequence is cut in two.
LEMMA WaitsSplit ==
    ASSUME NEW q \in Seq(Descriptor), NEW k \in 1..Len(q),
           NEW w \in Int, NEW s \in Int, NEW p \in Int,
           WaitsIn(q, 0, w, s, p)
    PROVE  /\ WaitsIn(SubSeq(q, 1, k), Len(SubSeq(q, k + 1, Len(q))), w, s, p)
           /\ WaitsIn(SubSeq(q, k + 1, Len(q)), 0, w, s, p)
<1> DEFINE a == SubSeq(q, 1, k)
           b == SubSeq(q, k + 1, Len(q))
<1>0. /\ Len(q) \in Nat /\ Len(a) = k /\ Len(b) = Len(q) - k
      /\ \A i \in 1..k : a[i] = q[i]
      /\ \A i \in 1..Len(q)-k : b[i] = q[k+i]
  BY SplitFacts, LenFacts
<1> HIDE DEF a, b
<1>1. ASSUME NEW i \in 1..Len(a) PROVE Waits(a[i], Len(a) - i + Len(b), w, s, p)
  <2>1. i \in 1..Len(q) /\ Len(a) - i + Len(b) = Len(q) - i + 0 /\ a[i] = q[i]
    BY <1>0, <1>1
  <2> QED
    BY <2>1, Zenon DEF WaitsIn
<1>2. ASSUME NEW i \in 1..Len(b) PROVE Waits(b[i], Len(b) - i + 0, w, s, p)
  <2>1. k + i \in 1..Len(q) /\ Len(b) - i + 0 = Len(q) - (k + i) + 0 /\ b[i] = q[k+i]
    <3>1. k \in 1..Len(q) /\ i \in 1..Len(q)-k
      BY <1>0, <1>2, Zenon
    <3>2. b[i] = q[k+i]
      BY <1>0, <3>1, Zenon
    <3> DEFINE n == Len(q)
    <3>3. n \in Nat /\ Len(b) = n - k /\ k \in 1..n /\ i \in 1..n-k
      BY <1>0, <3>1, Zenon
    <3> HIDE DEF n
    <3>4. k + i \in 1..n /\ (n - k) - i + 0 = n - (k + i) + 0
      BY <3>3
    <3> QED
      BY <3>2, <3>3, <3>4, Zenon DEF n
  <2> QED
    BY <2>1, Zenon DEF WaitsIn
<1>3. WaitsIn(a, Len(b), w, s, p) /\ WaitsIn(b, 0, w, s, p)
  BY <1>1, <1>2, Zenon DEF WaitsIn
<1> QED
  BY <1>3, Zenon DEF a, b

-----------------------------------------------------------------------------
(* The inductive invariant. *)

\* The codelet has begun a row and not yet dealt with its descriptor.
Pending == IF codelet_pc # "idle" /\ fire.row # 0 THEN 1 ELSE 0

FireInv ==
    /\ codelet_pc # "idle" /\ fire.row # 0 =>
           fire.row = written /\ fire.skip <= skipped
    /\ codelet_pc = "write" => fire.row # 0

\* The poll thread is inside a batch exactly while it has one; the worker is
\* past its emptiness check only with an entry; between sessions there is no
\* worker; only slots with a row are emitted.
ThreadInv ==
    /\ poll_pc = "idle" <=> bufs = <<>>
    /\ worker_pc \in {"on_sample", "emit", "release", "advance"} => queue # <<>>
    /\ ctl_pc = "idle" /\ ~sm_running => worker_pc = "none"
    /\ worker_pc = "emit" => Head(queue).row # 0

\* Rows, descriptors and skips balance in each of the three queues.
LagInv ==
    /\ WaitsIn(queue, Len(bufs) + Len(output_map), written, skipped, Pending)
    /\ WaitsIn(bufs, Len(output_map), written, skipped, Pending)
    /\ WaitsIn(output_map, 0, written, skipped, Pending)

\* The last rows begun are at their places, but for the one being written.
RingInv ==
    \A k \in 1..written :
        k + Rows > written /\ ~(codelet_pc = "write" /\ k = written) =>
            ring[Place(k)] = k

PoolInv == InUse <= Pool

IInv == TypeOK /\ FireInv /\ ThreadInv /\ LagInv /\ RingInv /\ PoolInv

\* Nothing is captured at the start.
LEMMA InitIInv == Init => IInv
<1> SUFFICES ASSUME Init PROVE IInv
  BY Zenon
<1>1. TypeOK
  <2>1. NoDescriptor \in Descriptor /\ <<>> \in Seq(Descriptor)
    BY DEF NoDescriptor, Descriptor
  <2>2. ring \in [0..Rows-1 -> Nat]
    BY RowAssumption, Zenon DEF Init
  <2> QED
    BY <2>1, <2>2, Zenon DEF Init, TypeOK
<1>2. LagInv
  BY DEF Init, LagInv, WaitsIn
<1>3. FireInv /\ ThreadInv /\ RingInv
  BY DEF Init, FireInv, ThreadInv, RingInv
<1>4. PoolInv
  BY RowAssumption DEF Init, PoolInv, InUse
<1> QED
  BY <1>1, <1>2, <1>3, <1>4, Zenon DEF IInv

-----------------------------------------------------------------------------
(* Each part of it is preserved. *)

\* The types.
LEMMA StepType ==
    ASSUME IInv, [Next]_vars
    PROVE  TypeOK'
<1>1. CASE BeginRow
  <2>1. Place(written + 1) \in 0..Rows-1
    BY PlaceRange DEF IInv, TypeOK
  <2> QED
    BY <1>1, <2>1
       DEF BeginRow, IInv, TypeOK, Descriptor, NoDescriptor, pollVars, ctlVars
<1>2. CASE EndRow
  BY <1>2, Zenon
     DEF EndRow, IInv, TypeOK, Descriptor, NoDescriptor, pollVars, ctlVars
<1>3. CASE Output
  <2>1. output_map' \in Seq(Descriptor)
    BY <1>3, AppendFacts, Zenon DEF Output, IInv, TypeOK
  <2> QED
    BY <1>3, <2>1, Zenon
       DEF Output, IInv, TypeOK, Descriptor, NoDescriptor, pollVars, ctlVars
<1>4. CASE NoOutput
  BY <1>4 DEF NoOutput, IInv, TypeOK, Descriptor, NoDescriptor, pollVars, ctlVars
<1>5. CASE Poll
  <2>1. bufs' \in Seq(Descriptor) /\ output_map' \in Seq(Descriptor)
    BY <1>5, SplitFacts DEF Poll, IInv, TypeOK
  <2> QED
    BY <1>5, <2>1, Zenon
       DEF Poll, IInv, TypeOK, Descriptor, NoDescriptor, codeletVars, ctlVars
<1>6. CASE Discard
  <2>1. bufs' \in Seq(Descriptor)
    BY <1>6, TailFacts, Zenon DEF Discard, IInv, TypeOK, ThreadInv, NextBuf
  <2> QED
    BY <1>6, <2>1
       DEF Discard, NextBuf, IInv, TypeOK, Descriptor, NoDescriptor,
           codeletVars, ctlVars
<1>7. CASE Enqueue
  <2>1. bufs' \in Seq(Descriptor) /\ queue' \in Seq(Descriptor)
    BY <1>7, TailFacts, AppendFacts, Zenon
       DEF Enqueue, IInv, TypeOK, ThreadInv, NextBuf
  <2> QED
    BY <1>7, <2>1, Zenon
       DEF Enqueue, NextBuf, IInv, TypeOK, Descriptor, NoDescriptor,
           codeletVars, ctlVars
<1>8. CASE WorkerAdvance
  <2>1. queue' \in Seq(Descriptor)
    BY <1>8, TailFacts, Zenon DEF WorkerAdvance, IInv, TypeOK, ThreadInv
  <2> QED
    BY <1>8, <2>1, Zenon
       DEF WorkerAdvance, IInv, TypeOK, Descriptor, NoDescriptor, codeletVars,
           pollVars, ctlVars
<1>9. CASE Drain
  <2>1. queue' \in Seq(Descriptor) /\ skipped' \in Nat
    BY <1>9, LenFacts DEF Drain, IInv, TypeOK
  <2> QED
    BY <1>9, <2>1, Zenon
       DEF Drain, IInv, TypeOK, Descriptor, NoDescriptor, codeletVars, pollVars
<1>10. CASE Refuse
  BY <1>10 DEF Refuse, IInv, TypeOK, Descriptor, NoDescriptor, pollVars, ctlVars
<1>11. CASE Lookup
  BY <1>11, Zenon DEF Lookup, IInv, TypeOK, codeletVars, ctlVars
<1>12. CASE WorkerCheck \/ WorkerLoad \/ Emitted \/ WorkerRelease
  BY <1>12, Zenon
     DEF WorkerCheck, WorkerLoad, Emitted, WorkerRelease, IInv, TypeOK,
         codeletVars, pollVars, ctlVars
<1>13. CASE OnSample
  BY <1>13, Zenon DEF OnSample, IInv, TypeOK, codeletVars, pollVars, ctlVars
<1>14. CASE Start
  BY <1>14, Zenon DEF Start, IInv, TypeOK, codeletVars, pollVars
<1>15. CASE SmUp \/ Stop \/ Unregister
  BY <1>15, Zenon
     DEF SmUp, Stop, Unregister, IInv, TypeOK, codeletVars, pollVars
<1>16. CASE UNCHANGED vars
  BY <1>16 DEF vars, IInv, TypeOK, codeletVars, pollVars, ctlVars
<1> QED
  BY <1>1, <1>2, <1>3, <1>4, <1>5, <1>6, <1>7, <1>8, <1>9, <1>10, <1>11, <1>12,
     <1>13, <1>14, <1>15, <1>16, Zenon
     DEF Next, Codelet, PollThread, Worker, Control

\* The codelet's descriptor.
LEMMA StepFire ==
    ASSUME IInv, [Next]_vars
    PROVE  FireInv'
<1>1. CASE BeginRow \/ EndRow \/ Refuse \/ Output \/ NoOutput
  BY <1>1 DEF BeginRow, EndRow, Refuse, Output, NoOutput, IInv, TypeOK,
         FireInv, Descriptor, NoDescriptor
<1>2. CASE Discard
  BY <1>2 DEF Discard, IInv, TypeOK, FireInv, Descriptor, codeletVars
<1>3. CASE Drain
  <2>1. skipped' \in Nat /\ skipped' >= skipped
    BY <1>3, LenFacts DEF Drain, IInv, TypeOK
  <2> QED
    BY <1>3, <2>1 DEF Drain, IInv, TypeOK, FireInv, Descriptor, codeletVars
<1>4. CASE Poll \/ Lookup \/ Enqueue \/ WorkerCheck \/ WorkerLoad \/ OnSample
         \/ Emitted \/ WorkerRelease \/ WorkerAdvance \/ Start \/ SmUp \/
         Stop \/ Unregister \/ UNCHANGED vars
  BY <1>4, Zenon
     DEF Poll, Lookup, Enqueue, WorkerCheck, WorkerLoad, OnSample, Emitted,
         WorkerRelease, WorkerAdvance, Start, SmUp, Stop, Unregister, vars,
         IInv, FireInv, codeletVars
<1> QED
  BY <1>1, <1>2, <1>3, <1>4, Zenon
     DEF Next, Codelet, PollThread, Worker, Control

\* Where the threads are.
LEMMA StepThread ==
    ASSUME IInv, [Next]_vars
    PROVE  ThreadInv'
<1>1. CASE Poll
  <2>1. bufs' # <<>>
    BY <1>1, SplitFacts, ZenonT(30) DEF Poll, IInv, TypeOK
  <2> QED
    BY <1>1, <2>1, Zenon DEF Poll, IInv, ThreadInv, ctlVars
<1>2. CASE Discard
  <2>1. bufs # <<>>
    BY <1>2, Zenon DEF Discard, IInv, ThreadInv
  <2>types. bufs' \in Seq(Descriptor) /\ Len(bufs') = Len(bufs) - 1 /\ Len(bufs) \in Nat
    BY <1>2, <2>1, TailFacts, Zenon DEF Discard, NextBuf, IInv, TypeOK
  <2>2. bufs' = <<>> <=> Len(bufs) = 1
    BY <1>2, <2>1, TailFacts, Zenon DEF Discard, NextBuf, IInv, TypeOK
  <2> QED
    BY <1>2, <2>1, <2>2, Zenon DEF Discard, NextBuf, IInv, ThreadInv, ctlVars
<1>3. CASE Enqueue
  <2>1. bufs # <<>>
    BY <1>3, Zenon DEF Enqueue, IInv, ThreadInv
  <2>types. bufs' \in Seq(Descriptor) /\ Len(bufs') = Len(bufs) - 1 /\ Len(bufs) \in Nat
    BY <1>3, <2>1, TailFacts, Zenon DEF Enqueue, NextBuf, IInv, TypeOK
  <2>2. bufs' = <<>> <=> Len(bufs) = 1
    BY <1>3, <2>1, TailFacts, Zenon DEF Enqueue, NextBuf, IInv, TypeOK
  <2>3. queue' # <<>> /\ (queue # <<>> => Head(queue') = Head(queue))
    BY <1>3, <2>1, TailFacts, AppendFacts DEF Enqueue, IInv, TypeOK
  <2> QED
    BY <1>3, <2>1, <2>2, <2>3, Zenon
       DEF Enqueue, NextBuf, IInv, ThreadInv, ctlVars
<1>4. CASE BeginRow \/ EndRow \/ Refuse \/ Output \/ NoOutput \/ Lookup \/
         WorkerCheck \/ WorkerLoad \/ OnSample \/ Emitted \/ WorkerRelease
         \/ WorkerAdvance \/ Start \/ SmUp \/ Stop \/ Unregister \/ Drain
         \/ UNCHANGED vars
  BY <1>4
     DEF BeginRow, EndRow, Refuse, Output, NoOutput, Lookup, WorkerCheck,
         WorkerLoad, OnSample, Emitted, WorkerRelease, WorkerAdvance, Start,
         SmUp, Stop, Unregister, Drain, vars, IInv, TypeOK, ThreadInv, pollVars,
         ctlVars
<1> QED
  BY <1>1, <1>2, <1>3, <1>4, Zenon
     DEF Next, Codelet, PollThread, Worker, Control

\* Buffers in use.
LEMMA StepPool ==
    ASSUME IInv, [Next]_vars
    PROVE  PoolInv'
<1>0. /\ Len(queue) \in Nat /\ Len(bufs) \in Nat /\ Len(output_map) \in Nat
      /\ Pool \in Nat
  BY LenFacts, RowAssumption, Zenon DEF IInv, TypeOK
<1>1. CASE Output
  <2>1. Len(output_map') = Len(output_map) + 1
    BY <1>1, AppendFacts, Zenon DEF Output, IInv, TypeOK
  <2> QED
    BY <1>1, <1>0, <2>1 DEF Output, IInv, PoolInv, InUse, pollVars, ctlVars
<1>2. CASE Poll
  <2>1. bufs = <<>>
    BY <1>2, Zenon DEF Poll, IInv, ThreadInv
  <2>2. Len(bufs') + Len(output_map') = Len(output_map) + Len(bufs)
    <3>1. PICK n \in 1..Len(output_map) :
              /\ bufs' = SubSeq(output_map, 1, n)
              /\ output_map' = SubSeq(output_map, n + 1, Len(output_map))
      BY <1>2, Zenon DEF Poll
    <3>2. Len(bufs') = n /\ Len(output_map') = Len(output_map) - n
      BY <3>1, SplitFacts, Zenon DEF IInv, TypeOK
    <3>3. Len(bufs) = 0
      BY <2>1, LenFacts, Zenon DEF IInv, TypeOK
    <3> QED
      BY <1>0, <3>2, <3>3
  <2>3. Len(bufs') \in Nat /\ Len(output_map') \in Nat
    BY StepType, LenFacts, Zenon DEF TypeOK
  <2> QED
    BY <1>2, <1>0, <2>2, <2>3 DEF Poll, IInv, PoolInv, InUse, pollVars, ctlVars
<1>3. CASE Discard
  <2>1. Len(bufs') = Len(bufs) - 1
    BY <1>3, TailFacts, Zenon DEF Discard, NextBuf, IInv, TypeOK, ThreadInv
  <2> QED
    BY <1>3, <1>0, <2>1 DEF Discard, IInv, PoolInv, InUse, pollVars, ctlVars
<1>4. CASE Enqueue
  <2>1. Len(bufs') = Len(bufs) - 1 /\ Len(queue') = Len(queue) + 1
    BY <1>4, TailFacts, AppendFacts DEF Enqueue, NextBuf, IInv, TypeOK, ThreadInv
  <2> QED
    BY <1>4, <1>0, <2>1 DEF Enqueue, IInv, PoolInv, InUse, pollVars, ctlVars
<1>5. CASE WorkerAdvance
  <2>1. Len(queue') = Len(queue) - 1
    BY <1>5, TailFacts, Zenon DEF WorkerAdvance, IInv, TypeOK, ThreadInv
  <2>2. /\ output_map' = output_map /\ bufs' = bufs
        /\ worker_pc = "advance" /\ worker_pc' = "check"
    BY <1>5, Zenon DEF WorkerAdvance, pollVars
  <2>3. InUse' = InUse
    BY <1>0, <2>1, <2>2 DEF InUse
  <2> QED
    BY <2>3, Zenon DEF IInv, PoolInv
<1>6. CASE Drain
  <2>1. Len(queue') = 0
    BY <1>6, Zenon DEF Drain
  <2> QED
    BY <1>6, <1>0, <2>1 DEF Drain, IInv, PoolInv, InUse, pollVars, ctlVars
<1>7. CASE Start
  BY <1>7, <1>0, Zenon
     DEF Start, ThreadInv, IInv, PoolInv, InUse, pollVars, ctlVars
<1>8. CASE BeginRow \/ EndRow \/ Refuse \/ NoOutput \/ Lookup \/ WorkerCheck
         \/ WorkerLoad \/ OnSample \/ Emitted \/ SmUp \/ Stop \/ Unregister
         \/ WorkerRelease \/ UNCHANGED vars
  BY <1>8, <1>0
     DEF BeginRow, EndRow, Refuse, NoOutput, Lookup, WorkerCheck, WorkerLoad,
         OnSample, Emitted, SmUp, Stop, Unregister, WorkerRelease, vars, IInv,
         PoolInv, InUse, pollVars, ctlVars, codeletVars, vars
<1> QED
  BY <1>1, <1>2, <1>3, <1>4, <1>5, <1>6, <1>7, <1>8, Zenon
     DEF Next, Codelet, PollThread, Worker, Control

\* The lag of waiting descriptors.
LEMMA StepLag ==
    ASSUME IInv, [Next]_vars
    PROVE  LagInv'
<1>0. /\ queue \in Seq(Descriptor) /\ bufs \in Seq(Descriptor)
      /\ output_map \in Seq(Descriptor)
      /\ Len(queue) \in Nat /\ Len(bufs) \in Nat /\ Len(output_map) \in Nat
      /\ written \in Nat /\ skipped \in Nat /\ Pending \in 0..1
  BY LenFacts DEF IInv, TypeOK, Pending
<1>lag. LagInv
  BY Zenon DEF IInv
<1>1. CASE BeginRow
  <2>1. written' = written + 1 /\ skipped' = skipped /\ Pending = 0 /\ Pending' = 1
    BY <1>1, <1>0 DEF BeginRow, Pending
  <2> QED
    BY <1>1, <1>0, <1>lag, <2>1, WaitsOn DEF BeginRow, LagInv, pollVars
<1>2. CASE Refuse
  <2>1. Pending = 0 /\ Pending' = 0
    BY <1>2, Zenon DEF Refuse, Pending, NoDescriptor
  <2> QED
    BY <1>2, <1>0, <1>lag, <2>1, Zenon DEF Refuse, LagInv, pollVars
<1>3. CASE Output
  <2>1. /\ Len(output_map') = Len(output_map) + 1 /\ Pending' = 0
        /\ written' = written /\ skipped' = skipped
        /\ queue' = queue /\ bufs' = bufs
    BY <1>3, AppendFacts, Zenon DEF Output, IInv, TypeOK, Pending, pollVars
  <2>2. WaitsIn(queue, Len(bufs) + Len(output_map'), written, skipped, 0)
    BY <1>0, <1>lag, <2>1, WaitsOn DEF LagInv
  <2>3. WaitsIn(bufs, Len(output_map'), written, skipped, 0)
    BY <1>0, <1>lag, <2>1, WaitsOn DEF LagInv
  <2>4. WaitsIn(output_map, 0 + 1, written, skipped, 0)
    BY <1>0, <1>lag, <2>1, WaitsOn DEF LagInv
  <2>5. Waits(fire, 0, written, skipped, 0) /\ fire \in Descriptor
    BY <1>3, <1>0 DEF Output, IInv, FireInv, TypeOK, Waits, Descriptor
  <2>6. WaitsIn(output_map', 0, written, skipped, 0)
    BY <1>3, <1>0, <2>4, <2>5, WaitsAppend DEF Output
  <2> QED
    BY <2>1, <2>2, <2>3, <2>6, Zenon DEF LagInv
<1>4. CASE NoOutput
  <2>1. written' = written /\ skipped' = skipped + 1 /\ Pending' = 0
    BY <1>4, Zenon DEF NoOutput, Pending
  <2> QED
    BY <1>4, <1>0, <1>lag, <2>1, WaitsOn DEF NoOutput, LagInv, pollVars
<1>5. CASE Poll
  <2>1. /\ bufs = <<>> /\ Len(bufs) = 0 /\ queue' = queue /\ Pending' = Pending
        /\ written' = written /\ skipped' = skipped
    BY <1>5, Zenon DEF Poll, IInv, ThreadInv, Pending, codeletVars
  <2>2. PICK n \in 1..Len(output_map) :
              /\ bufs' = SubSeq(output_map, 1, n)
              /\ output_map' = SubSeq(output_map, n + 1, Len(output_map))
    BY <1>5, Zenon DEF Poll
  <2>3. Len(bufs') + Len(output_map') = Len(bufs) + Len(output_map)
    BY <1>0, <2>1, <2>2, SplitFacts
  <2>4. /\ WaitsIn(bufs', Len(output_map'), written, skipped, Pending)
        /\ WaitsIn(output_map', 0, written, skipped, Pending)
    BY <1>0, <1>lag, <2>2, WaitsSplit DEF LagInv
  <2> QED
    BY <1>lag, <2>1, <2>3, <2>4, Zenon DEF LagInv
<1>6. CASE Discard
  <2>1. /\ queue' = queue /\ output_map' = output_map /\ Pending' = Pending
        /\ written' = written /\ skipped' = skipped + 1
        /\ bufs # <<>> /\ bufs' = Tail(bufs) /\ Len(bufs') = Len(bufs) - 1
    BY <1>6, TailFacts, Zenon
       DEF Discard, NextBuf, IInv, TypeOK, ThreadInv, Pending, codeletVars
  <2>2. WaitsIn(queue, Len(bufs') + Len(output_map), written, skipped + 1, Pending)
    BY <1>0, <1>lag, <2>1, WaitsOn DEF LagInv
  <2>3. WaitsIn(bufs, Len(output_map), written, skipped + 1, Pending)
    BY <1>0, <1>lag, WaitsOn DEF LagInv
  <2>4. WaitsIn(output_map, 0, written, skipped + 1, Pending)
    BY <1>0, <1>lag, WaitsOn DEF LagInv
  <2>5. WaitsIn(bufs', Len(output_map), written, skipped + 1, Pending)
    BY <1>0, <2>1, <2>3, WaitsTail
  <2> QED
    BY <2>1, <2>2, <2>4, <2>5, Zenon DEF LagInv
<1>7. CASE Enqueue
  <2>1. /\ queue' = Append(queue, Head(bufs)) /\ output_map' = output_map
        /\ Pending' = Pending /\ written' = written /\ skipped' = skipped
        /\ bufs # <<>> /\ bufs' = Tail(bufs) /\ Len(bufs') = Len(bufs) - 1
        /\ Head(bufs) = bufs[1] /\ bufs[1] \in Descriptor /\ 1 \in 1..Len(bufs)
    BY <1>7, TailFacts
       DEF Enqueue, NextBuf, IInv, TypeOK, ThreadInv, Pending, codeletVars
  <2> DEFINE n == Len(bufs') + Len(output_map)
  <2>2. n \in Int /\ n + 1 = Len(bufs) + Len(output_map)
        /\ n = Len(bufs) - 1 + Len(output_map)
    BY <1>0, <2>1
  <2> HIDE DEF n
  <2>3. Waits(bufs[1], n, written, skipped, Pending)
    BY <1>lag, <2>1, <2>2, Zenon DEF LagInv, WaitsIn
  <2>4. WaitsIn(queue', n, written, skipped, Pending)
    BY <1>0, <1>lag, <2>1, <2>2, <2>3, WaitsAppend DEF LagInv
  <2>5. WaitsIn(bufs', Len(output_map), written, skipped, Pending)
    BY <1>0, <1>lag, <2>1, WaitsTail DEF LagInv
  <2> QED
    BY <1>lag, <2>1, <2>4, <2>5, Zenon DEF LagInv, n
<1>8. CASE WorkerAdvance
  <2>1. /\ queue # <<>> /\ queue' = Tail(queue)
        /\ bufs' = bufs /\ output_map' = output_map
        /\ Pending' = Pending /\ written' = written /\ skipped' = skipped
    BY <1>8, Zenon
       DEF WorkerAdvance, IInv, ThreadInv, Pending, codeletVars, pollVars
  <2> QED
    BY <1>0, <1>lag, <2>1, WaitsTail DEF LagInv
<1>9. CASE Drain
  <2>1. /\ queue' = <<>> /\ bufs' = bufs /\ output_map' = output_map
        /\ Pending' = Pending /\ written' = written /\ skipped' = skipped + Len(queue)
    BY <1>9, Zenon DEF Drain, Pending, codeletVars, pollVars
  <2>2. WaitsIn(bufs, Len(output_map), written, skipped', Pending)
    BY <1>0, <1>lag, <2>1, WaitsOn DEF LagInv
  <2>3. WaitsIn(output_map, 0, written, skipped', Pending)
    BY <1>0, <1>lag, <2>1, WaitsOn DEF LagInv
  <2>4. WaitsIn(<<>>, Len(bufs) + Len(output_map), written, skipped', Pending)
    BY DEF WaitsIn
  <2> QED
    BY <2>1, <2>2, <2>3, <2>4, Zenon DEF LagInv
<1>10. CASE EndRow \/ Lookup \/ WorkerCheck \/ WorkerLoad \/ OnSample \/
         Emitted \/ WorkerRelease \/ Start \/ SmUp \/ Stop \/ Unregister \/
         UNCHANGED vars
  <2>1. Pending' = Pending
    BY <1>10, Zenon
       DEF EndRow, Lookup, WorkerCheck, WorkerLoad, OnSample, Emitted,
           WorkerRelease, Start, SmUp, Stop, Unregister, vars, Pending,
           codeletVars, vars
  <2> QED
    BY <1>10, <1>lag, <2>1, Zenon
       DEF EndRow, Lookup, WorkerCheck, WorkerLoad, OnSample, Emitted,
           WorkerRelease, Start, SmUp, Stop, Unregister, vars, LagInv,
           codeletVars, pollVars, vars
<1> QED
  BY <1>1, <1>2, <1>3, <1>4, <1>5, <1>6, <1>7, <1>8, <1>9, <1>10, Zenon
     DEF Next, Codelet, PollThread, Worker, Control

\* The last rows.
LEMMA StepRing ==
    ASSUME IInv, [Next]_vars
    PROVE  RingInv'
<1>1. CASE BeginRow
  <2>0. written \in Nat /\ Place(written + 1) \in 0..Rows-1 /\ Rows \in Nat \ {0}
        /\ ring \in [0..Rows-1 -> Nat]
    BY PlaceRange, RowAssumption DEF IInv, TypeOK
  <2> SUFFICES ASSUME NEW k \in 1..written+1, k + Rows > written + 1, k # written + 1
               PROVE  ring'[Place(k)] = k
    BY <1>1, <2>0, Zenon DEF BeginRow, RingInv
  <2>1. k \in Nat \ {0} /\ k < written + 1 /\ written + 1 < k + Rows /\ k \in 1..written
    BY <2>0
  <2>2. Place(k) # Place(written + 1) /\ Place(k) \in 0..Rows-1
    BY <2>0, <2>1, PlaceDistinct, PlaceRange
  <2>3. ring[Place(k)] = k
    BY <1>1, <2>0, <2>1 DEF BeginRow, IInv, RingInv
  <2> QED
    BY <1>1, <2>0, <2>2, <2>3, Zenon DEF BeginRow
<1>2. CASE EndRow
  <2>0. written \in Nat /\ fire.row = written /\ fire.row \in Nat \ {0}
        /\ Place(written) \in 0..Rows-1 /\ Rows \in Nat \ {0}
        /\ ring \in [0..Rows-1 -> Nat]
    BY <1>2, PlaceRange, RowAssumption, Zenon
       DEF EndRow, IInv, TypeOK, FireInv, Descriptor
  <2> SUFFICES ASSUME NEW k \in 1..written, k + Rows > written
               PROVE  ring'[Place(k)] = k
    BY <1>2, <2>0, Zenon DEF EndRow, RingInv
  <2>1. CASE k = written
    BY <1>2, <2>0, <2>1, Zenon DEF EndRow
  <2>2. CASE k # written
    <3>1. k \in Nat \ {0} /\ k < written /\ written < k + Rows
      BY <2>0, <2>2
    <3>2. Place(k) # Place(written) /\ Place(k) \in 0..Rows-1
      BY <2>0, <3>1, PlaceDistinct, PlaceRange, Zenon
    <3>3. ring[Place(k)] = k
      BY <2>0, <2>2, Zenon DEF IInv, RingInv
    <3> QED
      BY <1>2, <2>0, <3>2, <3>3, Zenon DEF EndRow
  <2> QED
    BY <2>1, <2>2, Zenon
<1>3. CASE Refuse \/ Output \/ NoOutput
  BY <1>3, Zenon DEF Refuse, Output, NoOutput, IInv, RingInv
<1>4. CASE Poll \/ Lookup \/ Discard \/ Enqueue \/ WorkerCheck \/ WorkerLoad
         \/ OnSample \/ Emitted \/ WorkerRelease \/ WorkerAdvance \/ Start
         \/ SmUp \/ Stop \/ Unregister \/ Drain \/ UNCHANGED vars
  BY <1>4, Zenon
     DEF Poll, Lookup, Discard, Enqueue, WorkerCheck, WorkerLoad, OnSample,
         Emitted, WorkerRelease, WorkerAdvance, Start, SmUp, Stop, Unregister,
         Drain, vars, IInv, RingInv, codeletVars, vars
<1> QED
  BY <1>1, <1>2, <1>3, <1>4, Zenon
     DEF Next, Codelet, PollThread, Worker, Control

\* Every step keeps the invariant.
LEMMA StepIInv == IInv /\ [Next]_vars => IInv'
  BY StepType, StepFire, StepThread, StepPool, StepLag, StepRing, Zenon
     DEF IInv

\* The invariant holds in every state the helper, the codelet, the pipeline and
\* the service model reach together.
THEOREM Inductive == Spec => []IInv
  BY InitIInv, StepIInv, PTL DEF Spec

-----------------------------------------------------------------------------
(* What follows from it. *)

\* When an indication is sent, every buffer but its own may hold a descriptor of
\* a later row, and one more row may be under way.
LEMMA EmitLag ==
    ASSUME IInv, worker_pc = "emit"
    PROVE  /\ Head(queue) \in Descriptor
           /\ Head(queue).row # 0
           /\ Head(queue).row + Pending <= written
           /\ Head(queue).skip <= skipped
           /\ written - Head(queue).row <= Pool + SkippedSince(Head(queue))
<1>1. queue \in Seq(Descriptor) /\ Len(queue) \in Nat \ {0} /\ Head(queue) = queue[1]
  BY DEF IInv, TypeOK, ThreadInv
<1>2. Len(queue) + Len(bufs) + Len(output_map) <= Pool
  BY DEF IInv, TypeOK, PoolInv, InUse
<1>3. queue[1].row # 0
  BY <1>1, Zenon DEF IInv, ThreadInv
<1>4. Waits(queue[1], Len(queue) - 1 + (Len(bufs) + Len(output_map)),
            written, skipped, Pending)
  BY <1>1 DEF IInv, LagInv, WaitsIn
<1>5. /\ queue[1] \in Descriptor /\ Pending \in 0..1
      /\ Len(bufs) \in Nat /\ Len(output_map) \in Nat
      /\ written \in Nat /\ skipped \in Nat /\ Pool \in Nat
  BY <1>1, RowAssumption DEF IInv, TypeOK, Pending
<1> QED
  <2> DEFINE r == queue[1].row
             k == queue[1].skip
             n == Len(queue) + Len(bufs) + Len(output_map)
  <2>1. r \in Nat \ {0} /\ k \in Nat
    BY <1>3, <1>5, Zenon DEF Descriptor
  <2>2. r + Pending <= written /\ k <= skipped
        /\ written <= r + (n - 1) + (skipped - k) + Pending /\ n \in Nat /\ n <= Pool
    BY <1>1, <1>2, <1>3, <1>4, <1>5 DEF Waits
  <2> HIDE DEF r, k, n
  <2>3. written - r <= Pool + (skipped - k)
    BY <1>5, <2>1, <2>2
  <2> QED
    BY <1>1, <1>3, <1>5, <2>2, <2>3, Zenon DEF SkippedSince, r, k

\* For every ring, output map and queue: an indication sent by on_sample() lags
\* behind the helper by at most the buffers of the output map plus the
\* descriptors skipped since its row was begun.
THEOREM IndicationLagBounded == Spec => []LagBounded
<1>1. IInv => LagBounded
  BY EmitLag, Zenon DEF LagBounded
<1> QED
  BY <1>1, Inductive, PTL

\* For every ring, output map and queue: as long as the ring has more rows than
\* that, the row the indication names holds, complete, the slot it is about.
THEOREM IndicationNamesItsRow == Spec => []NamedRowIntact
<1>1. IInv => NamedRowIntact
  <2> SUFFICES ASSUME IInv, worker_pc = "emit",
                      Rows > Pool + SkippedSince(Head(queue))
               PROVE  ring[Place(Head(queue).row)] = Head(queue).row
    BY Zenon DEF NamedRowIntact
  <2> DEFINE k == Head(queue).row
  <2>1. /\ k \in Nat \ {0} /\ k + Pending <= written
        /\ written - k <= Pool + SkippedSince(Head(queue))
    BY EmitLag, Zenon DEF Descriptor
  <2>types. /\ written \in Nat /\ Rows \in Nat /\ Pool \in Nat /\ Pending \in 0..1
        /\ skipped \in Nat
    BY RowAssumption DEF IInv, TypeOK, Pending
  <2>skip. Head(queue).skip \in Nat
    BY EmitLag, Zenon DEF Descriptor
  <2>2. SkippedSince(Head(queue)) \in Int
    BY <2>types, <2>skip DEF SkippedSince
  <2>3. codelet_pc = "write" => Pending = 1
    BY Zenon DEF IInv, FireInv, Pending
  <2> HIDE DEF k
  <2>4. k \in 1..written /\ k + Rows > written /\ ~(codelet_pc = "write" /\ k = written)
    BY <2>1, <2>types, <2>2, <2>3
  <2>5. ring[Place(k)] = k
    BY <2>4, Zenon DEF IInv, RingInv
  <2> QED
    BY <2>5, Zenon DEF k
<1> QED
  BY <1>1, Inductive, PTL

-----------------------------------------------------------------------------
(* SampleFormats: what becomes of a sample on its way into a row or a report.  *)
(* Its proofs are about numbers: each conversion is one step, so the invariant *)
(* only says that the result is the function's, and what the function computes *)
(* is shown for every input it can be given.                                   *)

(* float32 to half. *)

\* RoundsUp() decides as rounding to the nearest does, ties to even.
LEMMA Rounds ==
    ASSUME NEW m \in 0 .. 2^23 - 1
    PROVE  RoundToEven(2^23 + m, 13) =
             2^10 + Shr(m, 13) + (IF RoundsUp(m) THEN 1 ELSE 0)
<1> DEFINE n == 2^23 + m
           s == Shr(m, 13)
           rem == m % 2^13
           Good(q) == \/ Abs(2 * (n - q * 2^13)) < 2^13
                      \/ Abs(2 * (n - q * 2^13)) = 2^13 /\ q % 2 = 0
           up == RoundsUp(m)
           a == 2^10 + s
           b == 2^10 + s + 1
           c == RoundToEven(n, 13)
<1>1. s \in Nat /\ rem \in 0 .. 2^13 - 1 /\ m = s * 2^13 + rem
  BY DEF Shr
<1>2. up <=> rem > 2^12 \/ (rem = 2^12 /\ s % 2 = 1)
  BY Zenon DEF RoundsUp
<1>3. Good(a) <=> ~up
  <2>1. n - a * 2^13 = rem /\ a % 2 = s % 2 /\ s % 2 \in {0, 1}
    <3> HIDE DEF s, rem
    <3>1. n - a * 2^13 = rem
      BY <1>1
    <3>2. a % 2 = s % 2 /\ s % 2 \in {0, 1}
      BY <1>1
    <3> QED
      BY <3>1, <3>2, Zenon
  <2> HIDE DEF s, n, rem, a, up
  <2> QED
    BY <1>1, <1>2, <2>1 DEF Abs
<1>4. Good(b) <=> up
  <2>1. n - b * 2^13 = rem - 2^13 /\ b % 2 = 1 - (s % 2) /\ s % 2 \in {0, 1}
    <3> HIDE DEF s, rem
    <3>1. n - b * 2^13 = rem - 2^13
      BY <1>1
    <3>2. b % 2 = 1 - (s % 2) /\ s % 2 \in {0, 1}
      BY <1>1
    <3> QED
      BY <3>1, <3>2, Zenon
  <2> HIDE DEF s, n, rem, b, up
  <2> QED
    BY <1>1, <1>2, <2>1 DEF Abs
<1>5. c = CHOOSE q \in {a, b} : Good(q)
  <2>1. Shr(n, 13) = a
    BY DEF Shr
  <2> QED
    BY <2>1, Zenon DEF RoundToEven
<1>6. c = IF up THEN b ELSE a
  <2> HIDE DEF Good, a, b, c, up
  <2>1. (c = a \/ c = b) /\ Good(c)
    BY <1>3, <1>4, <1>5, Zenon
  <2> QED
    BY <1>3, <1>4, <2>1, Zenon
<1> QED
  BY <1>1, <1>6

\* The helper's fallback, from the smallest normal half to infinity.
LEMMA FallbackRounds ==
    ASSUME NEW f \in Float, f.exp8 \in 113 .. 254
    PROVE  LET exact == (f.exp8 - 113) * 2^10 + RoundToEven(2^23 + f.man23, 13)
           IN HelperFallback(f)
                = f.sign * 2^15 + (IF exact < Inf THEN exact ELSE Inf)
<1> DEFINE e == f.exp8
           m == f.man23
           sign == f.sign * 2^15
           man10 == Shr(m, 13) + (IF RoundsUp(m) THEN 1 ELSE 0)
<1>1. e \in 113 .. 254 /\ m \in 0 .. 2^23 - 1 /\ sign \in Int
  <2>1. f.sign \in {0, 1} /\ f.man23 \in 0 .. 2^23 - 1
    BY Zenon DEF Float
  <2> QED
    BY <2>1
<1>2. man10 \in 0 .. 1024
  <2> HIDE DEF m
  <2> DEFINE s == Shr(m, 13)
             up == IF RoundsUp(m) THEN 1 ELSE 0
  <2>1. s \in 0 .. 1023
    BY <1>1 DEF Shr
  <2>2. up \in {0, 1}
    BY Zenon
  <2> HIDE DEF s, up
  <2>3. s + up \in 0 .. 1024
    BY <2>1, <2>2
  <2> QED
    BY <2>3, Zenon DEF s, up
<1>3. RoundToEven(2^23 + m, 13) = 2^10 + man10
  <2> HIDE DEF m
  <2>1. Shr(m, 13) \in Int
    BY <1>1 DEF Shr
  <2>2. RoundToEven(2^23 + m, 13) =
          2^10 + Shr(m, 13) + (IF RoundsUp(m) THEN 1 ELSE 0)
    BY <1>1, Rounds, Zenon
  <2> QED
    BY <2>1, <2>2
<1>4. HelperFallback(f) =
        IF e - 127 + 15 >= 31 THEN sign + Inf
        ELSE sign + (e - 127 + 15) * 2^10 + man10
  <2>1. e # 0 /\ e # 255 /\ e \in 1 .. 254 /\ ~(e - 127 + 15 <= 0)
    BY <1>1
  <2> HIDE DEF e, m, sign, man10
  <2> QED
    BY <2>1, Zenon DEF HelperFallback, e, m, sign, man10
<1> HIDE DEF e, m, sign, man10
<1>5. LET exact == (e - 113) * 2^10 + RoundToEven(2^23 + m, 13)
      IN HelperFallback(f) =
           sign + (IF exact < Inf THEN exact ELSE Inf)
  BY <1>1, <1>2, <1>3, <1>4 DEF Inf
<1> QED
  BY <1>5, Zenon DEF e, m, sign

\* Every path of the helper, from the smallest normal half to infinity.
LEMMA HelperRounds ==
    ASSUME NEW f \in Float, f.exp8 \in 113 .. 254, NEW vector \in BOOLEAN
    PROVE  LET exact == (f.exp8 - 113) * 2^10 + RoundToEven(2^23 + f.man23, 13)
           IN bf16_to_fp16_scalar(vector, f)
                = f.sign * 2^15 + (IF exact < Inf THEN exact ELSE Inf)
<1>1. f.exp8 # 255 /\ f.exp8 \notin 102 .. 112
  OBVIOUS
<1>2. CASE vector
  <2>1. bf16_to_fp16_scalar(vector, f) = HardwareHalf(f)
    BY <1>2, Zenon DEF bf16_to_fp16_scalar
  <2> QED
    BY <1>1, <2>1 DEF HardwareHalf
<1>3. CASE ~vector
  BY <1>3, FallbackRounds, Zenon DEF bf16_to_fp16_scalar
<1> QED
  BY <1>2, <1>3, Zenon

\* A product whose last thirteen bits are zero is rounded on no path, and away
\* from the subnormal halves and below infinity all three give the same half.
LEMMA ExactAgree ==
    ASSUME NEW f \in Float, f.exp8 \notin 102 .. 112, f.exp8 # 255,
           f.man23 % 2^13 = 0
    PROVE  /\ ControllerFallback(f) = HelperFallback(f)
           /\ HardwareHalf(f) = HelperFallback(f)
<1>1. f.exp8 \in 0 .. 255 /\ f.man23 \in 0 .. 2^23 - 1 /\ f.sign \in {0, 1}
  <2>1. f.exp8 \in Byte /\ f.man23 \in 0 .. 2^23 - 1 /\ f.sign \in {0, 1}
    BY Zenon DEF Float
  <2>2. Byte = 0 .. 255
    BY DEF Byte
  <2> QED
    BY <2>1, <2>2, Zenon
<1>2. ControllerFallback(f) = HelperFallback(f)
  <2>1. ~RoundsUp(f.man23)
    BY <1>1 DEF RoundsUp
  <2>2. Shr(f.man23, 13) \in Int
    BY <1>1 DEF Shr
  <2> QED
    BY <1>1, <2>1, <2>2 DEF ControllerFallback, HelperFallback, HalfExponent
<1>3. CASE f.exp8 \in 113 .. 254
  <2>1. HardwareHalf(f) = bf16_to_fp16_scalar(TRUE, f)
    BY Zenon DEF bf16_to_fp16_scalar
  <2> DEFINE exact == (f.exp8 - 113) * 2^10 + RoundToEven(2^23 + f.man23, 13)
             half == f.sign * 2^15 + (IF exact < Inf THEN exact ELSE Inf)
  <2>2. HelperFallback(f) = half
    BY <1>3, FallbackRounds
  <2>3. \A vector \in BOOLEAN : bf16_to_fp16_scalar(vector, f) = half
    BY <1>3, HelperRounds
  <2> HIDE DEF half
  <2> QED
    BY <1>2, <2>1, <2>2, <2>3, Zenon
<1>4. CASE f.exp8 \in 0 .. 101
  <2>1. /\ f.exp8 \notin 113 .. 254
        /\ f.exp8 # 0 => f.exp8 \in 1 .. 254
        /\ f.exp8 - 127 + 15 <= 0 /\ ~(f.exp8 - 127 + 15 >= 31)
    <3> DEFINE e == f.exp8
    <3>1. e \in 0 .. 101
      BY <1>4
    <3> HIDE DEF e
    <3>2. /\ e \notin 113 .. 254
          /\ e # 0 => e \in 1 .. 254
          /\ e - 127 + 15 <= 0 /\ ~(e - 127 + 15 >= 31)
      BY <3>1
    <3> QED
      BY <3>2, Zenon DEF e
  <2>2. HardwareHalf(f) = f.sign * 2^15
    BY <2>1 DEF HardwareHalf
  <2>3. HelperFallback(f) = f.sign * 2^15
    BY <2>1 DEF HelperFallback
  <2> QED
    BY <1>2, <2>2, <2>3, Zenon
<1> QED
  BY <1>1, <1>3, <1>4

-----------------------------------------------------------------------------
(* Numbers in base two. *)

\* The powers of two that occur.
LEMMA Powers ==
    ASSUME NEW k \in 0 .. 19
    PROVE  2^k \in Nat \ {0} /\ 2^(k + 1) = 2 * 2^k
<1>0. CASE k = 0
  BY <1>0
<1>1. CASE k = 1
  BY <1>1
<1>2. CASE k = 2
  BY <1>2
<1>3. CASE k = 3
  BY <1>3
<1>4. CASE k = 4
  BY <1>4
<1>5. CASE k = 5
  BY <1>5
<1>6. CASE k = 6
  BY <1>6
<1>7. CASE k = 7
  BY <1>7
<1>8. CASE k = 8
  BY <1>8
<1>9. CASE k = 9
  BY <1>9
<1>10. CASE k = 10
  BY <1>10
<1>11. CASE k = 11
  BY <1>11
<1>12. CASE k = 12
  BY <1>12
<1>13. CASE k = 13
  BY <1>13
<1>14. CASE k = 14
  BY <1>14
<1>15. CASE k = 15
  BY <1>15
<1>16. CASE k = 16
  BY <1>16
<1>17. CASE k = 17
  BY <1>17
<1>18. CASE k = 18
  BY <1>18
<1>19. CASE k = 19
  BY <1>19
<1> QED
  BY <1>0, <1>1, <1>2, <1>3, <1>4, <1>5, <1>6, <1>7, <1>8, <1>9, <1>10,
     <1>11, <1>12, <1>13, <1>14, <1>15, <1>16, <1>17, <1>18, <1>19

\* Division as the code's shifts use it.
LEMMA DivUnique ==
    ASSUME NEW x \in Nat, NEW c \in Nat \ {0}, NEW q \in Nat, NEW r \in 0 .. c - 1,
           x = c * q + r
    PROVE  x \div c = q /\ x % c = r
  OBVIOUS

\* The quotient and the remainder, without naming the remainder.
LEMMA DivBounds ==
    ASSUME NEW x \in Nat, NEW c \in Nat \ {0}
    PROVE  /\ x \div c \in Nat
           /\ c * (x \div c) <= x /\ x < c * (x \div c) + c
  OBVIOUS

\* One more place to the right drops the last bit.
LEMMA ShrStep ==
    ASSUME NEW x \in Nat, NEW k \in 0 .. 19
    PROVE  /\ Shr(x, k) \in Nat
           /\ Shr(x, k) % 2 = Shr(x, k) - 2 * Shr(x, k + 1)
<1> DEFINE c == 2^k
           a == x \div c
           b == x \div (2 * c)
<1>1. c \in Nat \ {0} /\ 2 * c \in Nat \ {0} /\ 2^(k + 1) = 2 * c
  <2>1. 2^k \in Nat \ {0} /\ 2^(k + 1) = 2 * 2^k
    BY Powers, Zenon
  <2> QED
    BY <2>1
<1> HIDE DEF c
<1>2. a \in Nat /\ c * a <= x /\ x < c * a + c
  BY <1>1, DivBounds, Zenon
<1>3. b \in Nat /\ 2 * c * b <= x /\ x < 2 * c * b + 2 * c
  BY <1>1, DivBounds, Zenon
<1> HIDE DEF a, b
<1>4. a = 2 * b \/ a = 2 * b + 1
  BY <1>1, <1>2, <1>3
<1>5. a % 2 = a - 2 * b
  BY <1>2, <1>3, <1>4
<1> QED
  BY <1>1, <1>2, <1>5, Zenon DEF Shr, a, b, c

-----------------------------------------------------------------------------
(* Block floating point. *)

\* Nine bits of a number, from the last.
LEMMA NineBits ==
    ASSUME NEW x \in Nat, NEW k \in 0 .. 7
    PROVE  LET d(j) == Shr(x, k + j) % 2
           IN /\ Shr(x, k) % 2^9 =
                   2^8 * d(8) + 2^7 * d(7) + 2^6 * d(6) + 2^5 * d(5) + 2^4 * d(4)
                     + 2^3 * d(3) + 2^2 * d(2) + 2 * d(1) + d(0)
              /\ \A j \in 0 .. 8 : d(j) \in {0, 1}
<1> DEFINE q(j) == Shr(x, k + j)
           d(j) == q(j) % 2
<1>1. ASSUME NEW j \in 0 .. 8
      PROVE  /\ q(j) \in Nat /\ q(j + 1) \in Nat
             /\ d(j) = q(j) - 2 * q(j + 1) /\ d(j) \in {0, 1}
  <2>1. k + (j + 1) = k + j + 1 /\ k + j \in 0 .. 19 /\ k + j + 1 \in 0 .. 19
    OBVIOUS
  <2>2. q(j) \in Nat /\ q(j + 1) \in Nat
    BY <2>1, ShrStep, Zenon
  <2>3. d(j) = q(j) - 2 * q(j + 1)
    BY <2>1, ShrStep, Zenon
  <2>4. d(j) \in {0, 1}
    <3> HIDE DEF q
    <3> QED
      BY <2>2
  <2> QED
    BY <2>2, <2>3, <2>4, Zenon
<1> HIDE DEF q, d
<1>2. /\ d(0) = q(0) - 2 * q(1) /\ d(1) = q(1) - 2 * q(2) /\ d(2) = q(2) - 2 * q(3)
      /\ d(3) = q(3) - 2 * q(4) /\ d(4) = q(4) - 2 * q(5) /\ d(5) = q(5) - 2 * q(6)
      /\ d(6) = q(6) - 2 * q(7) /\ d(7) = q(7) - 2 * q(8) /\ d(8) = q(8) - 2 * q(9)
  BY <1>1
<1>3. /\ q(0) \in Nat /\ q(1) \in Nat /\ q(2) \in Nat /\ q(3) \in Nat /\ q(4) \in Nat
      /\ q(5) \in Nat /\ q(6) \in Nat /\ q(7) \in Nat /\ q(8) \in Nat /\ q(9) \in Nat
  BY <1>1
<1>4. /\ d(0) \in {0, 1} /\ d(1) \in {0, 1} /\ d(2) \in {0, 1}
      /\ d(3) \in {0, 1} /\ d(4) \in {0, 1} /\ d(5) \in {0, 1}
      /\ d(6) \in {0, 1} /\ d(7) \in {0, 1} /\ d(8) \in {0, 1}
  BY <1>1
<1> DEFINE S == 2^8 * d(8) + 2^7 * d(7) + 2^6 * d(6) + 2^5 * d(5) + 2^4 * d(4)
                  + 2^3 * d(3) + 2^2 * d(2) + 2 * d(1) + d(0)
<1>5. S \in 0 .. 2^9 - 1
  BY <1>4
<1>6. q(0) = 2^9 * q(9) + S
  <2>1. q(0) = 2^3 * q(3) + 2^2 * d(2) + 2 * d(1) + d(0)
    BY <1>2, <1>3
  <2>2. q(3) = 2^3 * q(6) + 2^2 * d(5) + 2 * d(4) + d(3)
    BY <1>2, <1>3
  <2>3. q(6) = 2^3 * q(9) + 2^2 * d(8) + 2 * d(7) + d(6)
    BY <1>2, <1>3
  <2>4. q(3) = 2^6 * q(9) + 2^5 * d(8) + 2^4 * d(7) + 2^3 * d(6) + 2^2 * d(5)
                 + 2 * d(4) + d(3)
    BY <1>3, <1>4, <2>2, <2>3
  <2> QED
    BY <1>3, <1>4, <2>1, <2>4
<1>7. q(0) % 2^9 = S
  <2> DEFINE c == 2^9
  <2>1. c \in Nat \ {0}
    OBVIOUS
  <2> HIDE DEF S, c
  <2> QED
    BY <1>3, <1>5, <1>6, <2>1, DivUnique, Zenon DEF c
<1>8. q(0) = Shr(x, k)
  BY DEF q
<1> QED
  BY <1>1, <1>7, <1>8, Zenon DEF q, d

\* The third byte of the window has no part in the bits that are kept.
LEMMA ThirdByte ==
    ASSUME NEW W \in Nat, NEW w3 \in Byte, NEW k \in 0 .. 7
    PROVE  Shr(2^8 * W + w3, k + 8) = Shr(W, k)
<1> DEFINE c == 2^k
           a == W \div c
           r == W % c
<1>1. c \in Nat \ {0} /\ 2^(k + 8) = 2^8 * c
  <2>1. CASE k = 0
    BY <2>1
  <2>2. CASE k = 1
    BY <2>2
  <2>3. CASE k = 2
    BY <2>3
  <2>4. CASE k = 3
    BY <2>4
  <2>5. CASE k = 4
    BY <2>5
  <2>6. CASE k = 5
    BY <2>6
  <2>7. CASE k = 6
    BY <2>7
  <2>8. CASE k = 7
    BY <2>8
  <2> QED
    BY <2>1, <2>2, <2>3, <2>4, <2>5, <2>6, <2>7, <2>8
<1> HIDE DEF c
<1>2. a \in Nat /\ r \in 0 .. c - 1 /\ r = W - c * a
  BY <1>1
<1> HIDE DEF a, r
<1> DEFINE C == 2^8 * c
           R == 2^8 * r + w3
<1>3. C \in Nat \ {0} /\ R \in 0 .. C - 1 /\ 2^8 * W + w3 \in Nat
  BY <1>1, <1>2 DEF Byte
<1>4. 2^8 * W + w3 = C * a + R
  BY <1>1, <1>2 DEF Byte
<1> HIDE DEF C, R
<1>5. (2^8 * W + w3) \div C = a
  BY <1>2, <1>3, <1>4, DivUnique, Zenon
<1> QED
  BY <1>1, <1>5, Zenon DEF Shr, C, a, c

\* extract_9bit() is the two's complement number of its nine bits.
LEMMA Extract ==
    ASSUME NEW w \in [1 .. 3 -> Byte], NEW p \in 0 .. 7
    PROVE  LET bit(j) == Shr(w[1] * 2^8 + w[2], 15 - p - j) % 2
               number == 2^7 * bit(1) + 2^6 * bit(2) + 2^5 * bit(3) + 2^4 * bit(4)
                         + 2^3 * bit(5) + 2^2 * bit(6) + 2 * bit(7) + bit(8)
                         - 2^8 * bit(0)
           IN extract_9bit(w, p) = number /\ number \in -2^8 .. 2^8 - 1
<1> DEFINE x == w[1]
           y == w[2]
           z == w[3]
           W == x * 2^8 + y
           k == 7 - p
           d(j) == Shr(W, k + j) % 2
           bit(j) == Shr(W, 15 - p - j) % 2
           raw == Shr(x * 2^16 + y * 2^8 + z, Align(p)) % 2^9
<1>1. x \in Byte /\ y \in Byte /\ z \in Byte
  OBVIOUS
<1> HIDE DEF x, y, z
<1>2. W \in Nat /\ x * 2^16 + y * 2^8 + z = 2^8 * W + z
  BY <1>1 DEF Byte
<1>3. k \in 0 .. 7 /\ Align(p) = k + 8
  BY DEF Align
<1>4. /\ bit(0) = d(8) /\ bit(1) = d(7) /\ bit(2) = d(6) /\ bit(3) = d(5)
      /\ bit(4) = d(4) /\ bit(5) = d(3) /\ bit(6) = d(2) /\ bit(7) = d(1)
      /\ bit(8) = d(0)
  <2> HIDE DEF W
  <2>1. /\ 15 - p - 0 = k + 8 /\ 15 - p - 1 = k + 7 /\ 15 - p - 2 = k + 6
        /\ 15 - p - 3 = k + 5 /\ 15 - p - 4 = k + 4 /\ 15 - p - 5 = k + 3
        /\ 15 - p - 6 = k + 2 /\ 15 - p - 7 = k + 1 /\ 15 - p - 8 = k + 0
    OBVIOUS
  <2> QED
    BY <2>1, Zenon
<1> HIDE DEF W, k
<1>5. raw = 2^8 * d(8) + 2^7 * d(7) + 2^6 * d(6) + 2^5 * d(5) + 2^4 * d(4)
              + 2^3 * d(3) + 2^2 * d(2) + 2 * d(1) + d(0)
  <2>1. raw = Shr(W, k) % 2^9
    <3>1. Shr(2^8 * W + z, k + 8) = Shr(W, k)
      BY <1>1, <1>2, <1>3, ThirdByte, Zenon
    <3> QED
      BY <1>2, <1>3, <3>1, Zenon
  <2> QED
    BY <1>2, <1>3, <2>1, NineBits, Zenon
<1>6. \A j \in 0 .. 8 : d(j) \in {0, 1}
  BY <1>2, <1>3, NineBits, Zenon
<1>7. extract_9bit(w, p) = IF raw >= 2^8 THEN raw - 2^9 ELSE raw
  BY Zenon DEF extract_9bit, x, y, z
<1> HIDE DEF raw, d
<1>8. /\ d(0) \in {0, 1} /\ d(1) \in {0, 1} /\ d(2) \in {0, 1}
      /\ d(3) \in {0, 1} /\ d(4) \in {0, 1} /\ d(5) \in {0, 1}
      /\ d(6) \in {0, 1} /\ d(7) \in {0, 1} /\ d(8) \in {0, 1}
  BY <1>6
<1> HIDE DEF bit
<1> DEFINE number == 2^7 * bit(1) + 2^6 * bit(2) + 2^5 * bit(3) + 2^4 * bit(4)
                         + 2^3 * bit(5) + 2^2 * bit(6) + 2 * bit(7) + bit(8)
                         - 2^8 * bit(0)
<1>9. extract_9bit(w, p) = number /\ number \in -2^8 .. 2^8 - 1
  BY <1>4, <1>5, <1>7, <1>8
<1> QED
  BY <1>9, Zenon DEF bit, W, x, y

-----------------------------------------------------------------------------
(* int16 to half. *)

\* A sample has a highest bit, and MSB() finds it.
LEMMA HighestBit ==
    ASSUME NEW n \in 1 .. 2^15
    PROVE  /\ MSB(n) \in 0 .. 15
           /\ 2^MSB(n) <= n /\ n < 2^(MSB(n) + 1)
<1> DEFINE P(b) == 2^b <= n /\ n < 2^(b + 1)
<1>1. \E b \in 0 .. 15 : P(b)
  <2>0. P(0) \/ n >= 2^1
    OBVIOUS
  <2>1. P(1) \/ n < 2^1 \/ n >= 2^2
    OBVIOUS
  <2>2. P(2) \/ n < 2^2 \/ n >= 2^3
    OBVIOUS
  <2>3. P(3) \/ n < 2^3 \/ n >= 2^4
    OBVIOUS
  <2>4. P(4) \/ n < 2^4 \/ n >= 2^5
    OBVIOUS
  <2>5. P(5) \/ n < 2^5 \/ n >= 2^6
    OBVIOUS
  <2>6. P(6) \/ n < 2^6 \/ n >= 2^7
    OBVIOUS
  <2>7. P(7) \/ n < 2^7 \/ n >= 2^8
    OBVIOUS
  <2>8. P(8) \/ n < 2^8 \/ n >= 2^9
    OBVIOUS
  <2>9. P(9) \/ n < 2^9 \/ n >= 2^10
    OBVIOUS
  <2>10. P(10) \/ n < 2^10 \/ n >= 2^11
    OBVIOUS
  <2>11. P(11) \/ n < 2^11 \/ n >= 2^12
    OBVIOUS
  <2>12. P(12) \/ n < 2^12 \/ n >= 2^13
    OBVIOUS
  <2>13. P(13) \/ n < 2^13 \/ n >= 2^14
    OBVIOUS
  <2>14. P(14) \/ n < 2^14 \/ n >= 2^15
    OBVIOUS
  <2>15. P(15) \/ n < 2^15
    OBVIOUS
  <2> HIDE DEF P
  <2> QED
    BY <2>0, <2>1, <2>2, <2>3, <2>4, <2>5, <2>6, <2>7, <2>8, <2>9, <2>10,
       <2>11, <2>12, <2>13, <2>14, <2>15
<1>2. MSB(n) = CHOOSE b \in 0 .. 15 : P(b)
  BY Zenon DEF MSB
<1> HIDE DEF P
<1>3. MSB(n) \in 0 .. 15 /\ P(MSB(n))
  BY <1>1, <1>2, Zenon
<1> QED
  BY <1>3, Zenon DEF P

\* The value of a half from its exponent and mantissa.
LEMMA HalfValue ==
    ASSUME NEW e \in 3 .. 20, NEW m \in 0 .. 2^10 - 1
    PROVE  /\ Shr((e * 2^10 + m) % 2^15, 10) = e
           /\ HalfTimes2048(e * 2^10 + m) = (2^10 + m) * 2^(e - 3)
<1> DEFINE h == e * 2^10 + m
<1>1. h \in Nat /\ h < 2^15 /\ h % 2^15 = h
  OBVIOUS
<1>2. h \div 2^10 = e /\ h % 2^10 = m
  BY <1>1, DivUnique
<1>3. Shr(h, 10) = e
  BY <1>2, Zenon DEF Shr
<1> HIDE DEF h
<1>4. Shr(h % 2^15, 10) = e
  BY <1>1, <1>3, Zenon
<1>5. ~(h >= 2^15)
  BY <1>1
<1>6. HalfTimes2048(h) = (2^10 + (h % 2^10)) * 2^(Shr(h % 2^15, 10) - 3)
  BY <1>5, Zenon DEF HalfTimes2048
<1>7. HalfTimes2048(h) = (2^10 + m) * 2^(e - 3)
  BY <1>2, <1>4, <1>6, Zenon
<1> QED
  BY <1>4, <1>7, Zenon DEF h

\* The next half is one place further, also where the exponent changes.
LEMMA NextHalf ==
    ASSUME NEW e \in 3 .. 19, NEW m \in 0 .. 2^10 - 1
    PROVE  HalfTimes2048(e * 2^10 + m + 1) = (2^10 + m) * 2^(e - 3) + 2^(e - 3)
<1>1. 2^(e - 3) \in Nat \ {0} /\ 2^(e - 3 + 1) = 2 * 2^(e - 3)
  <2>1. e - 3 \in 0 .. 19
    OBVIOUS
  <2> QED
    BY <2>1, Powers, Zenon
<1>2. CASE m < 1023
  <2>1. m + 1 \in 0 .. 2^10 - 1 /\ e \in 3 .. 20
    BY <1>2
  <2>2. HalfTimes2048(e * 2^10 + (m + 1)) = (2^10 + (m + 1)) * 2^(e - 3)
    BY <2>1, HalfValue, Zenon
  <2>3. e * 2^10 + (m + 1) = e * 2^10 + m + 1
    OBVIOUS
  <2> DEFINE u == 2^(e - 3)
  <2> HIDE DEF u
  <2>4. (2^10 + (m + 1)) * u = (2^10 + m) * u + u
    BY <1>1 DEF u
  <2> QED
    BY <2>2, <2>3, <2>4, Zenon DEF u
<1>3. CASE m = 1023
  <2> DEFINE d == e + 1
             z == 0
  <2>1. d \in 3 .. 20 /\ z \in 0 .. 2^10 - 1
    OBVIOUS
  <2>2. d * 2^10 + z = e * 2^10 + m + 1 /\ d - 3 = e - 3 + 1
    BY <1>3
  <2> HIDE DEF d
  <2>3. (2^10 + z) * 2^(d - 3) = 2^10 * (2 * 2^(e - 3))
    BY <1>1, <2>2
  <2> HIDE DEF z
  <2>4. HalfTimes2048(d * 2^10 + z) = (2^10 + z) * 2^(d - 3)
    BY <2>1, HalfValue, Zenon
  <2>5. HalfTimes2048(e * 2^10 + m + 1) = 2^10 * (2 * 2^(e - 3))
    BY <2>2, <2>3, <2>4, Zenon
  <2> QED
    BY <1>1, <1>3, <2>5
<1> QED
  BY <1>2, <1>3

\* The bit below the last one kept, and the bits below that one, tell on which
\* side of the middle the remainder lies.
LEMMA Remainder ==
    ASSUME NEW n \in Nat, NEW w \in Nat \ {0}
    PROVE  LET q == n \div (2 * w)
               r == n - 2 * w * q
           IN /\ q \in Nat /\ r \in 0 .. 2 * w - 1
              /\ (n \div w) % 2 = (IF r >= w THEN 1 ELSE 0)
              /\ n % w = (IF r >= w THEN r - w ELSE r)
<1> DEFINE c == 2 * w
           q == n \div c
           r == n - c * q
<1>1. c \in Nat \ {0}
  OBVIOUS
<1>2. q \in Nat /\ r \in 0 .. c - 1
  <2> HIDE DEF c
  <2> QED
    BY <1>1, DivBounds
<1>3. n = c * q + r
  <2> HIDE DEF c, q
  <2> QED
    BY <1>1, <1>2
<1> HIDE DEF q, r
<1>4. CASE r >= w
  <2> DEFINE x == 2 * q + 1
             y == r - w
  <2>1. n = w * x + y /\ x \in Nat /\ y \in 0 .. w - 1 /\ x % 2 = 1
    BY <1>2, <1>3, <1>4
  <2> HIDE DEF x, y
  <2>2. n \div w = x /\ n % w = y
    BY <2>1, DivUnique, Zenon
  <2> QED
    BY <1>2, <1>4, <2>1, <2>2, Zenon DEF q, r, y
<1>5. CASE ~(r >= w)
  <2> DEFINE x == 2 * q
  <2>1. n = w * x + r /\ x \in Nat /\ r \in 0 .. w - 1 /\ x % 2 = 0
    BY <1>2, <1>3, <1>5
  <2> HIDE DEF x
  <2>2. n \div w = x /\ n % w = r
    BY <2>1, DivUnique, Zenon
  <2> QED
    BY <1>2, <1>5, <2>1, <2>2, Zenon DEF q, r
<1> QED
  BY <1>4, <1>5, Zenon

\* A sample of at most eleven bits is moved up and loses nothing.
LEMMA ShortSample ==
    ASSUME NEW b \in 0 .. 10, NEW n \in Nat, 2^b <= n, n < 2^(b + 1)
    PROVE  LET m == (n * 2^(10 - b)) % 2^10
           IN m \in 0 .. 2^10 - 1 /\ (2^10 + m) * 2^(b + 1) = n * 2^11
<1> DEFINE x == n * 2^(10 - b)
           u == 2^(b + 1)
           m == x % 2^10
<1>1. x \in 2^10 .. 2^11 - 1 /\ x * u = n * 2^11 /\ u \in Nat
  <2>0. CASE b = 0
    BY <2>0
  <2>1. CASE b = 1
    BY <2>1
  <2>2. CASE b = 2
    BY <2>2
  <2>3. CASE b = 3
    BY <2>3
  <2>4. CASE b = 4
    BY <2>4
  <2>5. CASE b = 5
    BY <2>5
  <2>6. CASE b = 6
    BY <2>6
  <2>7. CASE b = 7
    BY <2>7
  <2>8. CASE b = 8
    BY <2>8
  <2>9. CASE b = 9
    BY <2>9
  <2>10. CASE b = 10
    BY <2>10
  <2> QED
    BY <2>0, <2>1, <2>2, <2>3, <2>4, <2>5, <2>6, <2>7, <2>8, <2>9, <2>10
<1> HIDE DEF x, u
<1>2. m = x - 2^10
  BY <1>1
<1> HIDE DEF m
<1>3. m \in 0 .. 2^10 - 1 /\ (2^10 + m) * u = n * 2^11
  BY <1>1, <1>2
<1> QED
  BY <1>3, Zenon DEF m, x, u

\* The places of a longer sample: the bits dropped are less than 2 * w.
LEMMA LongPlaces ==
    ASSUME NEW b \in 11 .. 15
    PROVE  LET w == 2^(b - 11)
           IN /\ w \in 1 .. 16 /\ 2^(b - 10) = 2 * w
              /\ 2^b = 2^10 * (2 * w) /\ 2^(b + 1) = 2^11 * (2 * w)
<1>1. CASE b = 11
  BY <1>1
<1>2. CASE b = 12
  BY <1>2
<1>3. CASE b = 13
  BY <1>3
<1>4. CASE b = 14
  BY <1>4
<1>5. CASE b = 15
  BY <1>5
<1> QED
  BY <1>1, <1>2, <1>3, <1>4, <1>5

\* A longer sample loses its last bits: what is kept is the quotient, and
\* round_bit and sticky say whether the rest is more than half a place, or half
\* of one with an odd mantissa.
LEMMA LongSample ==
    ASSUME NEW b \in 11 .. 15, NEW n \in 1 .. 2^15, 2^b <= n, n < 2^(b + 1)
    PROVE  LET s == b - 10
               m == Shr(n, s) % 2^10
               u == 2^(b + 1)
               rest == n * 2^11 - (2^10 + m) * u
               up == RoundBit(n, s) = 1 /\ (n % 2^(s - 1) # 0 \/ m % 2 = 1)
           IN /\ m \in 0 .. 2^10 - 1 /\ u \in Nat /\ rest \in 0 .. u - 1
              /\ up <=> 2 * rest > u \/ (2 * rest = u /\ m % 2 = 1)
              /\ b = 15 => m = 0 /\ ~up
<1> DEFINE s == b - 10
           w == 2^(b - 11)
           c == 2 * w
           q == n \div c
           r == n - c * q
           m == q % 2^10
           u == 2^(b + 1)
           rest == n * 2^11 - (2^10 + m) * u
           up == RoundBit(n, s) = 1 /\ (n % 2^(s - 1) # 0 \/ m % 2 = 1)
<1>1. w \in 1 .. 16 /\ 2^s = c /\ 2^b = 2^10 * c /\ u = 2^11 * c
  BY LongPlaces, Zenon
<1>2. s # 0 /\ s - 1 = b - 11 /\ n \in Nat
  OBVIOUS
<1>3. Shr(n, s) = q /\ Shr(n, s - 1) = n \div w /\ 2^(s - 1) = w
  BY <1>1, <1>2, Zenon DEF Shr
<1>4. /\ q \in Nat /\ r \in 0 .. c - 1
      /\ (n \div w) % 2 = (IF r >= w THEN 1 ELSE 0)
      /\ n % w = (IF r >= w THEN r - w ELSE r)
  <2>1. w \in Nat \ {0}
    BY <1>1
  <2> HIDE DEF w
  <2> QED
    BY <1>2, <2>1, Remainder, Zenon
<1>5. RoundBit(n, s) = (n \div w) % 2
  BY <1>2, <1>3, Zenon DEF RoundBit
<1>6. up <=> r >= w /\ ((r >= w /\ r # w) \/ m % 2 = 1)
  <2> HIDE DEF w, c, q, r, m, s
  <2> QED
    BY <1>1, <1>3, <1>4, <1>5
<1>7. n = c * q + r
  <2> HIDE DEF q, c
  <2> QED
    BY <1>1, <1>2, <1>4 DEF c
<1> HIDE DEF r, q, w, s
<1>8. q \in 2^10 .. 2^11 - 1
  <2>1. 2^10 * c <= n /\ n < 2^11 * c
    BY <1>1, Zenon
  <2> QED
    BY <1>1, <1>4, <1>7, <2>1
<1>9. m = q - 2^10
  BY <1>8
<1> HIDE DEF m, u, up
<1>10. m \in 0 .. 2^10 - 1 /\ rest = 2^11 * r /\ u \in Nat
  <2>1. (2^10 + m) * u = 2^11 * (c * q)
    BY <1>1, <1>8, <1>9
  <2> QED
    BY <1>1, <1>4, <1>7, <1>8, <1>9, <2>1
<1> HIDE DEF rest
<1>11. rest \in 0 .. u - 1
  BY <1>1, <1>4, <1>10
<1>12. up <=> 2 * rest > u \/ (2 * rest = u /\ m % 2 = 1)
  BY <1>1, <1>4, <1>6, <1>10
<1>13. b = 15 => m = 0 /\ ~up
  <2> SUFFICES ASSUME b = 15 PROVE m = 0 /\ ~up
    BY Zenon
  <2>1. w = 16
    BY DEF w
  <2>2. n = 2^15
    OBVIOUS
  <2>3. q = 2^10 /\ r = 0
    BY <1>4, <1>7, <2>1, <2>2
  <2> QED
    BY <1>6, <1>9, <2>1, <2>3
<1> QED
  BY <1>3, <1>10, <1>11, <1>12, <1>13, Zenon DEF s, m, u, rest, up

\* int16_to_fp16() takes the exponent from the highest bit, the mantissa from
\* the ten bits below it, and adds one when the rest asks for it.
LEMMA SampleHalf ==
    ASSUME NEW v \in -2^15 .. 2^15 - 1, v # 0
    PROVE  \E e \in 4 .. 19, m \in 0 .. 2^10 - 1, up \in {0, 1} :
             LET mag == IF v < 0 THEN -v ELSE v
                 u == 2^(e - 3)
                 rest == mag * 2^11 - (2^10 + m) * u
             IN /\ int16_to_fp16(v)
                     = (IF v < 0 THEN 2^15 ELSE 0) + e * 2^10 + m + up
                /\ u \in Nat /\ rest \in 0 .. u - 1
                /\ up = 1 <=> 2 * rest > u \/ (2 * rest = u /\ m % 2 = 1)
                /\ e = 19 => m + up = 0
<1> DEFINE sign == IF v < 0 THEN 2^15 ELSE 0
           mag == IF v < 0 THEN -v ELSE v
           msb == MSB(mag)
           shift == msb - 10
           mantissa == IF shift >= 0 THEN Shr(mag, shift) % 2^10
                       ELSE (mag * 2^(-shift)) % 2^10
           rounds == /\ shift >= 0 /\ RoundBit(mag, shift) = 1
                     /\ (shift > 0 /\ mag % 2^(shift - 1) # 0) \/ mantissa % 2 = 1
           up == IF rounds THEN 1 ELSE 0
           e == msb + 4
           u == 2^(msb + 1)
           rest == mag * 2^11 - (2^10 + mantissa) * u
<1>1. mag \in 1 .. 2^15 /\ sign \in Int
  OBVIOUS
<1>2. int16_to_fp16(v) =
        IF rounds THEN sign + (msb - 11 + 15) * 2^10 + mantissa + 1
        ELSE sign + (msb - 11 + 15) * 2^10 + mantissa
  <2> HIDE DEF msb
  <2> QED
    BY Zenon DEF int16_to_fp16, msb
<1> HIDE DEF mag, sign
<1>3. msb \in 0 .. 15 /\ 2^msb <= mag /\ mag < 2^(msb + 1)
  BY <1>1, HighestBit, Zenon
<1> HIDE DEF msb
<1>4. /\ mantissa \in 0 .. 2^10 - 1 /\ u \in Nat /\ rest \in 0 .. u - 1
      /\ up = 1 <=> 2 * rest > u \/ (2 * rest = u /\ mantissa % 2 = 1)
      /\ msb = 15 => mantissa = 0 /\ up = 0
  <2>1. CASE msb <= 10
    <3> DEFINE m == (mag * 2^(10 - msb)) % 2^10
    <3>1. mantissa = m
      <4>1. CASE msb = 10
        BY <1>1, <4>1 DEF Shr
      <4>2. CASE msb < 10
        <5>1. ~(shift >= 0) /\ -shift = 10 - msb
          BY <1>3, <4>2
        <5>2. mantissa = (mag * 2^(-shift)) % 2^10
          BY <5>1, Zenon
        <5>3. 2^(-shift) = 2^(10 - msb)
          BY <5>1, Zenon
        <5> HIDE DEF shift, mantissa
        <5> QED
          BY <5>2, <5>3, Zenon
      <4> QED
        BY <1>3, <2>1, <4>1, <4>2
    <3>2. m \in 0 .. 2^10 - 1 /\ (2^10 + m) * u = mag * 2^11
      <4>1. msb \in 0 .. 10 /\ mag \in Nat
        BY <1>1, <1>3, <2>1
      <4> QED
        BY <1>3, <4>1, ShortSample, Zenon
    <3>3. u \in Nat \ {0} /\ mag * 2^11 \in Nat
      <4>1. msb \in 0 .. 19 /\ msb + 1 \in 0 .. 19
        BY <1>3
      <4>2. u \in Nat \ {0}
        BY <4>1, Powers, Zenon
      <4> QED
        BY <1>1, <4>2
    <3>4. ~rounds
      <4>1. CASE shift = 0
        BY <4>1 DEF RoundBit
      <4>2. CASE shift < 0
        BY <4>2, <1>3
      <4> QED
        BY <1>3, <2>1, <4>1, <4>2
    <3> HIDE DEF m, mantissa, rounds, u
    <3>5. rest = 0
      BY <3>1, <3>2, <3>3
    <3> QED
      BY <2>1, <3>1, <3>2, <3>3, <3>4, <3>5
  <2>2. CASE msb \in 11 .. 15
    <3> DEFINE s == msb - 10
               m == Shr(mag, s) % 2^10
               more == mag * 2^11 - (2^10 + m) * u
               top == /\ RoundBit(mag, s) = 1
                      /\ (mag % 2^(s - 1) # 0 \/ m % 2 = 1)
    <3>1. /\ m \in 0 .. 2^10 - 1 /\ u \in Nat /\ more \in 0 .. u - 1
          /\ top <=> 2 * more > u \/ (2 * more = u /\ m % 2 = 1)
          /\ msb = 15 => m = 0 /\ ~top
      BY <1>1, <1>3, <2>2, LongSample, Zenon
    <3>2. shift >= 0 /\ shift > 0
      BY <2>2
    <3>3. mantissa = m
      <4>1. mantissa = Shr(mag, s) % 2^10
        BY <3>2, Zenon
      <4> QED
        BY <4>1, Zenon
    <3>4. rest = more
      BY <3>3, Zenon
    <3>5. rounds <=> top
      <4> HIDE DEF mantissa, m
      <4> QED
        BY <3>2, <3>3, Zenon
    <3> HIDE DEF rounds, top, m, mantissa, rest, more
    <3> QED
      BY <3>1, <3>3, <3>4, <3>5
  <2>3. msb <= 10 \/ msb \in 11 .. 15
    <3> HIDE DEF mantissa, rounds, u, rest
    <3> QED
      BY <1>3
  <2> QED
    BY <2>1, <2>2, <2>3, Zenon
<1>5. int16_to_fp16(v) = sign + e * 2^10 + mantissa + up
  <2> HIDE DEF mantissa, rounds
  <2> QED
    BY <1>1, <1>2, <1>3, <1>4
<1>6. /\ e \in 4 .. 19 /\ e - 3 = msb + 1 /\ up \in {0, 1}
      /\ e = 19 => mantissa + up = 0
  <2> HIDE DEF mantissa, rounds
  <2> QED
    BY <1>3, <1>4
<1> HIDE DEF mantissa, e, up
<1>7. /\ int16_to_fp16(v) = sign + e * 2^10 + mantissa + up
      /\ 2^(e - 3) \in Nat
      /\ mag * 2^11 - (2^10 + mantissa) * 2^(e - 3) \in 0 .. 2^(e - 3) - 1
      /\ up = 1 <=>
           \/ 2 * (mag * 2^11 - (2^10 + mantissa) * 2^(e - 3)) > 2^(e - 3)
           \/ /\ 2 * (mag * 2^11 - (2^10 + mantissa) * 2^(e - 3)) = 2^(e - 3)
              /\ mantissa % 2 = 1
      /\ e = 19 => mantissa + up = 0
  BY <1>4, <1>5, <1>6, Zenon
<1> QED
  BY <1>4, <1>6, <1>7, Zenon DEF mag, sign

\* Halves of one sign are ordered as their bits are.
LEMMA HalvesGrow ==
    ASSUME NEW x \in 3 * 2^10 .. 20 * 2^10 - 1
    PROVE  /\ HalfTimes2048(x) \in Int /\ HalfTimes2048(x + 1) \in Int
           /\ HalfTimes2048(x) < HalfTimes2048(x + 1)
<1> DEFINE e == x \div 2^10
           m == x % 2^10
           u == 2^(e - 3)
<1>1. e \in 3 .. 19 /\ m \in 0 .. 2^10 - 1 /\ x = e * 2^10 + m
  OBVIOUS
<1> HIDE DEF e, m
<1>2. e - 3 \in 0 .. 19 /\ e \in 3 .. 20
  BY <1>1
<1>3. u \in Nat \ {0}
  BY <1>2, Powers, Zenon
<1>4. /\ HalfTimes2048(x) = (2^10 + m) * u
      /\ HalfTimes2048(x + 1) = (2^10 + m) * u + u
  BY <1>1, <1>2, HalfValue, NextHalf, Zenon
<1> HIDE DEF u
<1> QED
  BY <1>1, <1>3, <1>4

\* The sign bit negates the value and touches nothing else.
LEMMA SignBit ==
    ASSUME NEW x \in 0 .. 2^15 - 1, HalfTimes2048(x) \in Int
    PROVE  /\ HalfTimes2048(2^15 + x) = -HalfTimes2048(x)
           /\ (2^15 + x) % 2^15 = x /\ (2^15 + x) % 2 = x % 2
<1> DEFINE y == 2^15 + x
           mag == (2^10 + (x % 2^10)) * 2^(Shr(x, 10) - 3)
<1>1. y % 2^15 = x /\ y % 2^10 = x % 2^10 /\ y % 2 = x % 2 /\ y >= 2^15
  OBVIOUS
<1>2. x % 2^15 = x /\ ~(x >= 2^15)
  OBVIOUS
<1>3. HalfTimes2048(x) = mag
  BY <1>2, Zenon DEF HalfTimes2048
<1> HIDE DEF y
<1>4. HalfTimes2048(y) = -mag
  BY <1>1, Zenon DEF HalfTimes2048
<1> HIDE DEF mag
<1> QED
  BY <1>1, <1>3, <1>4, Zenon DEF y

\* The result is the nearest half, the even one of two.
LEMMA Nearest ==
    ASSUME NEW v \in -2^15 .. 2^15 - 1, v # 0
    PROVE  LET h == int16_to_fp16(v)
               error(g) == Abs(HalfTimes2048(g) - v * 2^11)
           IN /\ Shr(h % 2^15, 10) \in 4 .. 19
              /\ \A g \in {h - 1, h + 1} :
                    error(h) < error(g) \/ (error(h) = error(g) /\ h % 2 = 0)
<1> DEFINE mag == IF v < 0 THEN -v ELSE v
           sign == IF v < 0 THEN 2^15 ELSE 0
           G(x) == HalfTimes2048(x)
           error(g) == Abs(G(g) - v * 2^11)
           h == int16_to_fp16(v)
<1>1. PICK e \in 4 .. 19, m \in 0 .. 2^10 - 1, up \in {0, 1} :
        /\ h = sign + e * 2^10 + m + up
        /\ 2^(e - 3) \in Nat
        /\ mag * 2^11 - (2^10 + m) * 2^(e - 3) \in 0 .. 2^(e - 3) - 1
        /\ up = 1 <=>
             \/ 2 * (mag * 2^11 - (2^10 + m) * 2^(e - 3)) > 2^(e - 3)
             \/ /\ 2 * (mag * 2^11 - (2^10 + m) * 2^(e - 3)) = 2^(e - 3)
                /\ m % 2 = 1
        /\ e = 19 => m + up = 0
  BY SampleHalf, Zenon
<1> DEFINE u == 2^(e - 3)
           low == (2^10 + m) * u
           T == mag * 2^11
           a == e * 2^10 + m
           H == a + up
<1>2. /\ u \in Nat /\ T - low \in 0 .. u - 1
      /\ up = 1 <=> 2 * (T - low) > u \/ (2 * (T - low) = u /\ m % 2 = 1)
  BY <1>1, Zenon
<1>3. /\ H \in 4 * 2^10 .. 19 * 2^10 /\ h = sign + H
      /\ up = 1 => H - 1 = a
      /\ H % 2 = (m + up) % 2
  <2>1. sign \in Int
    OBVIOUS
  <2> HIDE DEF sign, h
  <2> QED
    BY <1>1, <2>1
<1>4. G(a) = low /\ G(a + 1) = low + u
  <2>1. e \in 3 .. 20 /\ e \in 3 .. 19
    OBVIOUS
  <2> QED
    BY <2>1, HalfValue, NextHalf, Zenon
<1>5. low \in Int /\ T \in Int
  <2>1. mag \in Int
    OBVIOUS
  <2> HIDE DEF u, mag
  <2> QED
    BY <1>2, <2>1
<1>6. /\ G(H - 1) \in Int /\ G(H) \in Int /\ G(H + 1) \in Int
      /\ G(H - 1) < G(H) /\ G(H) < G(H + 1)
  <2> DEFINE x == H - 1
  <2>1. /\ x \in 3 * 2^10 .. 20 * 2^10 - 1 /\ H \in 3 * 2^10 .. 20 * 2^10 - 1
        /\ x + 1 = H
    BY <1>3
  <2> HIDE DEF x, H
  <2>2. /\ G(x) \in Int /\ G(H) \in Int /\ G(H + 1) \in Int
        /\ G(x) < G(H) /\ G(H) < G(H + 1)
    BY <2>1, HalvesGrow, Zenon
  <2> QED
    BY <2>2, Zenon DEF x
<1>7. ASSUME NEW x \in {H - 1, H, H + 1}
      PROVE  error(sign + x) = Abs(G(x) - T) /\ (sign + x) % 2^15 = x
             /\ (sign + x) % 2 = x % 2
  <2>1. x \in 0 .. 2^15 - 1 /\ G(x) \in Int
    BY <1>3, <1>6
  <2> HIDE DEF H
  <2>2. CASE v < 0
    <3>1. sign = 2^15 /\ T = -(v * 2^11)
      BY <2>2
    <3>2. G(2^15 + x) = -G(x) /\ (2^15 + x) % 2^15 = x /\ (2^15 + x) % 2 = x % 2
      BY <2>1, SignBit, Zenon
    <3> HIDE DEF sign, T, G
    <3>3. Abs(-G(x) - v * 2^11) = Abs(G(x) - T)
      BY <1>5, <2>1, <3>1 DEF Abs
    <3> QED
      BY <3>1, <3>2, <3>3, Zenon
  <2>3. CASE ~(v < 0)
    <3>1. sign = 0 /\ T = v * 2^11 /\ 0 + x = x /\ x % 2^15 = x
      BY <2>1, <2>3
    <3> HIDE DEF sign, T, G
    <3> QED
      BY <3>1, Zenon
  <2> QED
    BY <2>2, <2>3, Zenon
<1>8. Shr(h % 2^15, 10) \in 4 .. 19
  <2>1. h % 2^15 = H
    BY <1>3, <1>7, Zenon
  <2> HIDE DEF H, h
  <2> QED
    BY <1>3, <2>1 DEF Shr
<1>9. /\ Abs(G(H) - T) < Abs(G(H - 1) - T)
         \/ (Abs(G(H) - T) = Abs(G(H - 1) - T) /\ H % 2 = 0)
      /\ Abs(G(H) - T) < Abs(G(H + 1) - T)
         \/ (Abs(G(H) - T) = Abs(G(H + 1) - T) /\ H % 2 = 0)
  <2>1. CASE up = 0
    <3>1. H = a
      BY <2>1
    <3>2. G(H) = low /\ G(H + 1) = low + u
      BY <1>4, <3>1, Zenon
    <3>3. H % 2 = m % 2 /\ m % 2 \in {0, 1}
      BY <1>3, <2>1
    <3> HIDE DEF H, T, low, u, G
    <3> QED
      BY <1>2, <1>5, <1>6, <2>1, <3>2, <3>3 DEF Abs
  <2>2. CASE up = 1
    <3>1. H = a + 1 /\ H - 1 = a
      BY <2>2
    <3>2. G(H) = low + u /\ G(H - 1) = low
      BY <1>4, <3>1, Zenon
    <3>3. m % 2 = 1 => H % 2 = 0
      BY <1>3, <2>2
    <3> HIDE DEF H, T, low, u, G
    <3> QED
      BY <1>2, <1>5, <1>6, <2>2, <3>2, <3>3 DEF Abs
  <2> QED
    BY <2>1, <2>2, Zenon
<1>10. /\ error(h) = Abs(G(H) - T) /\ h % 2 = H % 2
       /\ error(h - 1) = Abs(G(H - 1) - T)
       /\ error(h + 1) = Abs(G(H + 1) - T)
  <2>1. sign \in Int /\ H \in Int
    BY <1>3
  <2>2. h - 1 = sign + (H - 1) /\ h + 1 = sign + (H + 1)
    <3> HIDE DEF h, H, sign
    <3> QED
      BY <1>3, <2>1
  <2> HIDE DEF error, sign, H, h
  <2> QED
    BY <1>3, <1>7, <2>2, Zenon
<1>11. \A g \in {h - 1, h + 1} :
          error(h) < error(g) \/ (error(h) = error(g) /\ h % 2 = 0)
  <2> HIDE DEF error, h, H, G, T
  <2> QED
    BY <1>9, <1>10, Zenon
<1> QED
  BY <1>8, <1>11, Zenon

-----------------------------------------------------------------------------
(* The scaled block, and the FFT padding. *)

\* For the exponents of nine-bit BFP the shift stays within an int16.
LEMMA ScaledExact ==
    ASSUME NEW m \in -2^8 .. 2^8 - 1, NEW x \in 0 .. 7
    PROVE  ShiftCounts(x) = {x} /\ Scaled(m, x) = m * 2^x
<1>1. ShiftCounts(x) = {x}
  BY DEF ShiftCounts
<1>2. ASSUME NEW n \in -2^15 .. 2^15 - 1 PROVE Int16(n) = n
  BY DEF Int16
<1>3. m * 2^x \in -2^15 .. 2^15 - 1
  <2>0. CASE x = 0
    BY <2>0
  <2>1. CASE x = 1
    BY <2>1
  <2>2. CASE x = 2
    BY <2>2
  <2>3. CASE x = 3
    BY <2>3
  <2>4. CASE x = 4
    BY <2>4
  <2>5. CASE x = 5
    BY <2>5
  <2>6. CASE x = 6
    BY <2>6
  <2>7. CASE x = 7
    BY <2>7
  <2> QED
    BY <2>0, <2>1, <2>2, <2>3, <2>4, <2>5, <2>6, <2>7
<1>4. ~(x >= 16)
  OBVIOUS
<1>5. Int16(m * 2^x) = m * 2^x
  BY <1>2, <1>3, Zenon
<1> QED
  BY <1>1, <1>4, <1>5, Zenon DEF Scaled

\* The FFT is the smallest power of two that holds the section.
LEMMA FftSize ==
    ASSUME NEW sc \in 12 .. 2^12
    PROVE  \E k \in 0 .. 12 :
              fft_size(sc) = 2^k /\ 2^k \in Nat /\ 2^k >= sc /\ 2^k < 2 * sc
<1> DEFINE P(k) == 2^k >= sc /\ (k = 0 \/ 2^(k - 1) < sc)
           K == CHOOSE k \in 0 .. 12 : P(k)
<1>1. \E k \in 0 .. 12 : P(k)
  <2>4. P(4) \/ sc > 2^4
    OBVIOUS
  <2>5. P(5) \/ sc <= 2^4 \/ sc > 2^5
    OBVIOUS
  <2>6. P(6) \/ sc <= 2^5 \/ sc > 2^6
    OBVIOUS
  <2>7. P(7) \/ sc <= 2^6 \/ sc > 2^7
    OBVIOUS
  <2>8. P(8) \/ sc <= 2^7 \/ sc > 2^8
    OBVIOUS
  <2>9. P(9) \/ sc <= 2^8 \/ sc > 2^9
    OBVIOUS
  <2>10. P(10) \/ sc <= 2^9 \/ sc > 2^10
    OBVIOUS
  <2>11. P(11) \/ sc <= 2^10 \/ sc > 2^11
    OBVIOUS
  <2>12. P(12) \/ sc <= 2^11
    OBVIOUS
  <2> HIDE DEF P
  <2> QED
    BY <2>4, <2>5, <2>6, <2>7, <2>8, <2>9, <2>10, <2>11, <2>12
<1>2. fft_size(sc) = 2^K
  BY Zenon DEF fft_size
<1> HIDE DEF P
<1>3. K \in 0 .. 12 /\ P(K)
  BY <1>1, Zenon
<1> HIDE DEF K
<1>4. K # 0
  <2> SUFFICES ASSUME K = 0 PROVE FALSE
    BY Zenon
  <2>1. 2^K = 1
    OBVIOUS
  <2> QED
    BY <1>3, <2>1 DEF P
<1> DEFINE j == K - 1
<1>5. j \in 0 .. 19 /\ j + 1 = K
  BY <1>3, <1>4
<1>6. 2^j \in Nat \ {0} /\ 2^K = 2 * 2^j
  <2> HIDE DEF j
  <2> QED
    BY <1>5, Powers, Zenon
<1>7. 2^K >= sc /\ 2^j < sc
  BY <1>3, <1>4, Zenon DEF P
<1> HIDE DEF j
<1>8. 2^K \in Nat /\ 2^K < 2 * sc
  BY <1>6, <1>7
<1> QED
  BY <1>2, <1>3, <1>7, <1>8, Zenon

\* Each subcarrier is in the bin of its distance from the middle.
LEMMA Centred ==
    ASSUME NEW p \in 1 .. MaxPrbs
    PROVE  LET sc == p * 12
               bins == Bins(sc)
           IN \E k \in 0 .. 12 :
                LET n == 2^k
                IN /\ DOMAIN bins = 0 .. n - 1
                   /\ n >= sc /\ n < 2 * sc
                   /\ \A i \in 0 .. n - 1 :
                         bins[i] = IF (i + sc \div 2) % n < sc
                                   THEN (i + sc \div 2) % n ELSE -1
<1> DEFINE sc == p * 12
           half == sc \div 2
           bins == Bins(sc)
<1>1. sc \in 12 .. 2^12 /\ half \in Nat /\ sc = 2 * half
  BY DEF MaxPrbs
<1> HIDE DEF sc, half
<1>2. PICK k \in 0 .. 12 :
        fft_size(sc) = 2^k /\ 2^k \in Nat /\ 2^k >= sc /\ 2^k < 2 * sc
  BY <1>1, FftSize, Zenon
<1> DEFINE n == 2^k
           off == n - half
           value(i) == IF i >= off THEN i - off
                       ELSE IF i < half THEN half + i ELSE -1
<1>3. bins = [i \in 0 .. n - 1 |-> value(i)]
  BY <1>2, Zenon DEF Bins, half
<1>4. n \in Nat /\ n >= sc /\ n < 2 * sc
  BY <1>2, Zenon
<1> HIDE DEF n, bins, value
<1>5. DOMAIN bins = 0 .. n - 1 /\ \A i \in 0 .. n - 1 : bins[i] = value(i)
  BY <1>3, Zenon
<1>6. ASSUME NEW i \in 0 .. n - 1
      PROVE  value(i) = IF (i + half) % n < sc THEN (i + half) % n ELSE -1
  <2>1. CASE i >= off
    <3> DEFINE r == i + half - n
    <3>1. /\ n \in Nat \ {0} /\ r \in 0 .. n - 1
          /\ i + half = n * 1 + r /\ i + half \in Nat
      BY <1>1, <1>4, <2>1
    <3> HIDE DEF r
    <3>2. (i + half) % n = r
      BY <3>1, DivUnique, Zenon
    <3> QED
      BY <1>1, <1>4, <2>1, <3>1, <3>2 DEF value, r
  <2>2. CASE ~(i >= off)
    <3> DEFINE r == i + half
    <3>1. n \in Nat \ {0} /\ r \in 0 .. n - 1 /\ r = n * 0 + r /\ r \in Nat
      BY <1>1, <1>4, <2>2
    <3> HIDE DEF r
    <3>2. r % n = r
      BY <3>1, DivUnique, Zenon
    <3> QED
      BY <1>1, <1>4, <2>2, <3>1, <3>2 DEF value, r
  <2> QED
    BY <2>1, <2>2, Zenon
<1>7. \A i \in 0 .. n - 1 :
         bins[i] = IF (i + half) % n < sc THEN (i + half) % n ELSE -1
  BY <1>5, <1>6, Zenon
<1> QED
  BY <1>4, <1>5, <1>7, Zenon DEF bins, half, sc, n

-----------------------------------------------------------------------------
(* The conversions as steps. *)

\* What goes into a conversion.
FormatInput ==
    \/ input.kind = "int16" /\ input.v \in -2^15 .. 2^15 - 1
    \/ input.kind = "float" /\ input.f \in Float
    \/ /\ input.kind = "bfp" /\ input.w \in [1 .. 3 -> Byte]
       /\ input.i \in Nat /\ input.exponent \in Nat
    \/ input.kind = "section" /\ input.num_prbu \in 1 .. MaxPrbs

\* What comes out of it, while the input stays as it is.
FormatResult ==
    \/ result = None
    \/ /\ input.kind = "int16"
       /\ result = [conversion |-> "int16", half |-> int16_to_fp16(input.v)]
    \/ /\ input.kind = "float"
       /\ \E f16c, vector \in BOOLEAN :
             result = [conversion |-> "float",
                       controller |-> bf16_to_fp16(f16c, input.f),
                       helper |-> bf16_to_fp16_scalar(vector, input.f)]
    \/ /\ input.kind = "bfp"
       /\ \E shift \in ShiftCounts(input.exponent) :
             LET mantissa == extract_9bit(input.w, (input.i * 9) % 8)
             IN result = [conversion |-> "bfp", mantissa |-> mantissa,
                          value |-> Scaled(mantissa, shift)]
    \/ /\ input.kind = "section"
       /\ result = [conversion |-> "section",
                    bins |-> Bins(input.num_prbu * 12)]

FormatInv == FormatInput /\ FormatResult

\* A conversion ends with the result of its function, for the input it had.
LEMMA FormatStep == FormatInv /\ [FormatNext]_formatVars => FormatInv'
<1> SUFFICES ASSUME FormatInv, [FormatNext]_formatVars PROVE FormatInv'
  BY Zenon
<1>1. input' = input
  BY Zenon DEF FormatNext, formatVars, ConvertInt16, ConvertFloat,
               Decompress, Pad
<1>2. FormatInput'
  BY <1>1, Zenon DEF FormatInv, FormatInput
<1>3. FormatResult'
  <2>1. CASE ConvertInt16
    BY <1>1, <2>1, Zenon DEF ConvertInt16, FormatResult
  <2>2. CASE ConvertFloat
    BY <1>1, <2>2, Zenon DEF ConvertFloat, FormatResult
  <2>3. CASE Decompress
    BY <1>1, <2>3, Zenon DEF Decompress, FormatResult
  <2>4. CASE Pad
    BY <1>1, <2>4, Zenon DEF Pad, FormatResult
  <2>5. CASE UNCHANGED formatVars
    BY <1>1, <2>5, Zenon DEF FormatInv, FormatResult, formatVars
  <2> QED
    BY <2>1, <2>2, <2>3, <2>4, <2>5, Zenon DEF FormatNext
<1> QED
  BY <1>2, <1>3, Zenon DEF FormatInv

\* Bytes and the indices within a block are natural numbers.
LEMMA Naturals ==
    (\A y \in Byte : y \in Nat) /\ (\A y \in 0 .. 23 : y \in Nat)
  BY DEF Byte

\* Every conversion begins with an input of its kind.
LEMMA FormatInitInv == FormatInit => FormatInv
<1> SUFFICES ASSUME FormatInit PROVE FormatInv
  BY Zenon
<1>1. FormatResult
  BY Zenon DEF FormatInit, FormatResult
<1>2. FormatInput
  <2>1. CASE input \in [kind : {"int16"}, v : Int16s]
    BY <2>1, FormatAssumption, Zenon DEF FormatInput
  <2>2. CASE input \in [kind : {"float"}, f : Floats]
    BY <2>2, FormatAssumption, Zenon DEF FormatInput
  <2>3. CASE input \in [kind : {"bfp"}, w : Windows, i : 0 .. 23,
                        exponent : Exponents]
    BY <2>3, Naturals, FormatAssumption, Zenon DEF FormatInput
  <2>4. CASE input \in [kind : {"section"}, num_prbu : PrbCounts]
    BY <2>4, FormatAssumption, Zenon DEF FormatInput
  <2> QED
    BY <2>1, <2>2, <2>3, <2>4, Zenon DEF FormatInit, Inputs
<1> QED
  BY <1>1, <1>2, Zenon DEF FormatInv

\* Every state of a conversion has its input and, once there is a result, the
\* function's.
THEOREM FormatsInductive == FormatSpec => []FormatInv
  BY FormatInitInv, FormatStep, PTL DEF FormatSpec

\* int16_to_fp16() gives the nearest half, ties to even, for every int16 sample
\* and not only for those of a run.
THEOREM Int16IsNearest == FormatSpec => []Int16Nearest
<1>1. FormatInv => Int16Nearest
  <2> SUFFICES ASSUME FormatInv, result.conversion = "int16", input.v # 0
               PROVE  Int16Nearest
    BY Zenon DEF Int16Nearest
  <2>1. input.kind = "int16" /\ result.half = int16_to_fp16(input.v)
    BY DEF FormatInv, FormatResult, None
  <2>2. input.v \in -2^15 .. 2^15 - 1
    BY <2>1, Zenon DEF FormatInv, FormatInput
  <2> QED
    BY <2>1, <2>2, Nearest, Zenon DEF Int16Nearest
<1> QED
  BY <1>1, FormatsInductive, PTL

\* extract_9bit() and the scaling are exact for every three bytes, every index
\* of a block and every exponent up to 7.
THEOREM BlocksAreExact == FormatSpec => []BfpExact
<1>1. FormatInv => BfpExact
  <2>0. None.conversion # "bfp"
    BY Zenon DEF None
  <2> SUFFICES ASSUME FormatInv, result.conversion = "bfp" PROVE BfpExact
    BY Zenon DEF BfpExact
  <2> DEFINE p == (input.i * 9) % 8
             mantissa == extract_9bit(input.w, p)
             bit(k) == Shr(input.w[1] * 2^8 + input.w[2], 15 - p - k) % 2
             number == 2^7 * bit(1) + 2^6 * bit(2) + 2^5 * bit(3) + 2^4 * bit(4)
                         + 2^3 * bit(5) + 2^2 * bit(6) + 2 * bit(7) + bit(8)
                         - 2^8 * bit(0)
  <2>1. /\ input.kind = "bfp" /\ result.mantissa = mantissa
        /\ \E shift \in ShiftCounts(input.exponent) :
              result.value = Scaled(mantissa, shift)
    <3> HIDE DEF mantissa
    <3>1. \/ result = None
          \/ result.conversion # "bfp"
          \/ /\ input.kind = "bfp"
             /\ \E shift \in ShiftCounts(input.exponent) :
                   result = [conversion |-> "bfp", mantissa |-> mantissa,
                             value |-> Scaled(mantissa, shift)]
      BY DEF FormatInv, FormatResult, mantissa
    <3>2. PICK shift \in ShiftCounts(input.exponent) :
              result = [conversion |-> "bfp", mantissa |-> mantissa,
                        value |-> Scaled(mantissa, shift)]
      BY <2>0, <3>1, Zenon
    <3>3. result.mantissa = mantissa /\ result.value = Scaled(mantissa, shift)
      BY <3>2, Zenon
    <3> QED
      BY <2>0, <3>1, <3>3, Zenon
  <2>2. /\ input.w \in [1 .. 3 -> Byte] /\ input.i \in Nat
        /\ input.exponent \in Nat
    BY <2>1, Zenon DEF FormatInv, FormatInput
  <2>3. p \in 0 .. 7
    BY <2>2
  <2> HIDE DEF p
  <2>4. mantissa = number /\ number \in -2^8 .. 2^8 - 1
    BY <2>2, <2>3, Extract, Zenon
  <2> HIDE DEF number, mantissa
  <2>5. ASSUME input.exponent <= 7
        PROVE  result.value = number * 2^input.exponent
    <3>1. input.exponent \in 0 .. 7
      BY <2>2, <2>5
    <3>2. ShiftCounts(input.exponent) = {input.exponent}
      BY <2>4, <3>1, ScaledExact, Zenon
    <3>3. result.value = Scaled(number, input.exponent)
      BY <2>1, <2>4, <3>2, Zenon
    <3> QED
      BY <2>4, <3>1, <3>3, ScaledExact, Zenon
  <2> QED
    BY <2>1, <2>4, <2>5, Zenon DEF BfpExact, number, p
<1> QED
  BY <1>1, FormatsInductive, PTL

\* The FFT padding centres every section of up to 273 PRBs.
THEOREM SpectrumIsCentred == FormatSpec => []BinsAreCentred
<1>1. FormatInv => BinsAreCentred
  <2> SUFFICES ASSUME FormatInv, result.conversion = "section"
               PROVE  BinsAreCentred
    BY Zenon DEF BinsAreCentred
  <2>1. input.kind = "section" /\ result.bins = Bins(input.num_prbu * 12)
    BY DEF FormatInv, FormatResult, None
  <2>2. input.num_prbu \in 1 .. MaxPrbs
    BY <2>1, Zenon DEF FormatInv, FormatInput
  <2> QED
    BY <2>1, <2>2, Centred, Zenon DEF BinsAreCentred
<1> QED
  BY <1>1, FormatsInductive, PTL

\* Whatever its build, the helper rounds every float32 with a normal or infinite
\* half to nearest, ties to even.
THEOREM HelperRoundsToEven == FormatSpec => []HelperNearest
<1>1. FormatInv => HelperNearest
  <2> SUFFICES ASSUME FormatInv, result.conversion = "float",
                      input.f.exp8 \in 113 .. 254
               PROVE  HelperNearest
    BY Zenon DEF HelperNearest
  <2>1. /\ input.kind = "float"
        /\ \E vector \in BOOLEAN :
              result.helper = bf16_to_fp16_scalar(vector, input.f)
    BY DEF FormatInv, FormatResult, None
  <2>2. input.f \in Float
    BY <2>1, Zenon DEF FormatInv, FormatInput
  <2> QED
    BY <2>1, <2>2, HelperRounds, Zenon DEF HelperNearest
<1> QED
  BY <1>1, FormatsInductive, PTL

\* Whatever their builds, controller and helper agree on every product that
\* needs no rounding and is not of the size of a subnormal half.
THEOREM ExactRowsAgree == FormatSpec => []ExactProductsAgree
<1>1. FormatInv => ExactProductsAgree
  <2> SUFFICES ASSUME FormatInv, result.conversion = "float",
                      input.f.exp8 \notin 102 .. 112, input.f.exp8 # 255,
                      input.f.man23 % 2^13 = 0
               PROVE  result.controller = result.helper
    BY Zenon DEF ExactProductsAgree
  <2>1. /\ input.kind = "float"
        /\ \E f16c, vector \in BOOLEAN :
              /\ result.controller = bf16_to_fp16(f16c, input.f)
              /\ result.helper = bf16_to_fp16_scalar(vector, input.f)
    BY DEF FormatInv, FormatResult, None
  <2>2. input.f \in Float
    BY <2>1, Zenon DEF FormatInv, FormatInput
  <2>3. /\ ControllerFallback(input.f) = HelperFallback(input.f)
        /\ HardwareHalf(input.f) = HelperFallback(input.f)
    BY <2>2, ExactAgree, Zenon
  <2> QED
    BY <2>1, <2>3, Zenon DEF bf16_to_fp16, bf16_to_fp16_scalar
<1> QED
  BY <1>1, FormatsInductive, PTL
=============================================================================
