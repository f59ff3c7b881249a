-------------------------- MODULE IqPipelineProofs --------------------------
(***************************************************************************)
(* Proofs about IqPipeline for every set of sections and of dApps, every   *)
(* pool, queue and PRB filter: no buffer of the pool is lost or given back *)
(* twice, the filter reaches the codelet it was marked as sent to, nothing *)
(* is sent once the service model has stopped, and start() and stop()      *)
(* implement the session contract.                                         *)
(***************************************************************************)
EXTENDS IqPipeline, FiniteSetTheorems, SequenceTheorems, TLAPS

\* The threads: a batch is at hand while it is handled, the head of the queue
\* while the worker is at it, not live once it is given back; the worker and the
\* registration come and go with the steps of start() and stop().
ThreadInv ==
    /\ bufs = <<>> <=> poll_pc = "idle"
    /\ worker_pc \in {"dispatch", "snapshot", "emit", "release", "advance"} =>
          queue # <<>>
    /\ worker_pc = "advance" => ~Head(queue).live
    /\ ctl_pc \in {"boot", "unload"} => worker_pc = "none"
    /\ ctl_pc = "idle" /\ ~sm_running => worker_pc = "none" /\ ~running
    /\ ctl_pc \in {"boot", "join", "unload"} => ~running
    /\ ctl_pc = "register" => running
    /\ registered => running
    /\ registered => ctl_pc \in {"idle", "sm_up", "unregister"}
    /\ sm_running => ctl_pc = "idle"

\* The loaded codelet has the filter or finds it in its control input.
FilterIsThere ==
    prb_filter = expected_num_prbu \/ prb_config_in = <<expected_num_prbu>>

\* A batch that sends in this session speaks to the codelet of this load.
SentInv ==
    running /\ ~straddled /\ (prb_config_sent \/ poll_pc = "mark_sent") =>
        FilterIsThere

IInv == TypeOK /\ ThreadInv /\ SentInv /\ BuffersConserved

-----------------------------------------------------------------------------
(* How many buffers of a sequence are live. *)

Live(s) == {i \in DOMAIN s : s[i].live}

\* The live buffers of a sequence can be counted.
LEMMA LiveFinite ==
    ASSUME NEW s \in Seq(Buf)
    PROVE  /\ IsFiniteSet(Live(s)) /\ LiveIn(s) = Cardinality(Live(s))
           /\ LiveIn(s) \in Nat
<1>1. DOMAIN s = 1 .. Len(s) /\ Len(s) \in Nat
  OBVIOUS
<1>2. IsFiniteSet(DOMAIN s)
  BY <1>1, FS_Interval
<1>3. Live(s) \in SUBSET DOMAIN s
  BY Zenon DEF Live
<1>4. IsFiniteSet(Live(s))
  BY <1>2, <1>3, FS_Subset, Zenon
<1>5. LiveIn(s) = Cardinality(Live(s))
  BY Zenon DEF Live, LiveIn
<1> QED
  BY <1>4, <1>5, FS_CardinalityType, Zenon

\* An empty sequence holds none.
LEMMA LiveEmpty == LiveIn(<<>>) = 0
<1>1. {i \in DOMAIN <<>> : <<>>[i].live} = {}
  OBVIOUS
<1> QED
  BY <1>1, FS_EmptySet, Zenon DEF LiveIn

\* Appending a buffer counts it if it is live.
LEMMA LiveAppend ==
    ASSUME NEW s \in Seq(Buf), NEW b \in Buf
    PROVE  /\ Append(s, b) \in Seq(Buf) /\ Append(s, b) # <<>>
           /\ LiveIn(Append(s, b)) = LiveIn(s) + (IF b.live THEN 1 ELSE 0)
<1> DEFINE t == Append(s, b)
           n == Len(s) + 1
<1>1. /\ t \in Seq(Buf) /\ t # <<>> /\ DOMAIN s = 1 .. Len(s) /\ Len(s) \in Nat
      /\ DOMAIN t = 1 .. n /\ t[n] = b
      /\ \A i \in DOMAIN s : t[i] = s[i]
  OBVIOUS
<1>2. n \notin Live(s) /\ IsFiniteSet(Live(s)) /\ LiveIn(s) = Cardinality(Live(s))
  <2>1. n \notin DOMAIN s
    BY <1>1
  <2> QED
    BY <2>1, LiveFinite, Zenon DEF Live
<1>3. LiveIn(t) = Cardinality(Live(t))
  BY <1>1, LiveFinite, Zenon
<1>4. CASE b.live
  <2>1. Live(t) = Live(s) \cup {n}
    BY <1>1, <1>4 DEF Live
  <2>2. Cardinality(Live(s) \cup {n}) = Cardinality(Live(s)) + 1
    BY <1>2, FS_AddElement, Zenon
  <2> QED
    BY <1>1, <1>2, <1>3, <1>4, <2>1, <2>2, Zenon
<1>5. CASE ~b.live
  <2>1. Live(t) = Live(s)
    BY <1>1, <1>5 DEF Live
  <2> QED
    BY <1>1, <1>2, <1>3, <1>5, <2>1, LiveFinite
<1> QED
  BY <1>4, <1>5, Zenon

\* What is left of a sequence when its first n elements are gone.
LEMMA Suffix ==
    ASSUME NEW s \in Seq(Buf), NEW n \in 0 .. Len(s)
    PROVE  LET b == SubSeq(s, n + 1, Len(s))
           IN  /\ b \in Seq(Buf) /\ Len(b) = Len(s) - n
               /\ DOMAIN b = 1 .. Len(s) - n
               /\ \A i \in 1 .. Len(s) - n : b[i] = s[i + n]
<1> DEFINE b == SubSeq(s, n + 1, Len(s))
           L == Len(s)
<1>1. L \in Nat /\ n \in Nat /\ n <= L /\ \A i \in 1 .. L : s[i] \in Buf
  OBVIOUS
<1>2. n + 1 \in Int /\ L \in Int /\ \A i \in n + 1 .. L : s[i] \in Buf
  BY <1>1
<1>3. /\ b \in Seq(Buf)
      /\ Len(b) = IF n + 1 <= L THEN L - (n + 1) + 1 ELSE 0
      /\ \A i \in 1 .. L - (n + 1) + 1 : b[i] = s[(n + 1) + i - 1]
  BY <1>2, SubSeqProperties
<1> HIDE DEF b, L
<1>4. L - (n + 1) + 1 = L - n /\ (~(n + 1 <= L) => L - n = 0)
  BY <1>1
<1>5. Len(b) = L - n
  BY <1>3, <1>4, Zenon
<1>6. ASSUME NEW i \in 1 .. L - n PROVE b[i] = s[i + n]
  <2>1. (n + 1) + i - 1 = i + n
    BY <1>1
  <2> QED
    BY <1>3, <1>4, <2>1, Zenon
<1>7. DOMAIN b = 1 .. L - n
  BY <1>3, <1>5
<1> QED
  BY <1>3, <1>5, <1>6, <1>7, Zenon DEF b, L

\* Cutting a sequence in two divides its live buffers.
LEMMA LiveSplit ==
    ASSUME NEW s \in Seq(Buf), NEW n \in 0 .. Len(s)
    PROVE  /\ SubSeq(s, 1, n) \in Seq(Buf)
           /\ SubSeq(s, n + 1, Len(s)) \in Seq(Buf)
           /\ Len(SubSeq(s, 1, n)) = n
           /\ LiveIn(s) = LiveIn(SubSeq(s, 1, n)) + LiveIn(SubSeq(s, n + 1, Len(s)))
<1> DEFINE a == SubSeq(s, 1, n)
           b == SubSeq(s, n + 1, Len(s))
           H == {i \in Live(s) : i > n}
           f == [i \in Live(b) |-> i + n]
<1>1. Len(s) \in Nat /\ DOMAIN s = 1 .. Len(s) /\ n \in Nat /\ n <= Len(s)
  OBVIOUS
<1>2. /\ a \in Seq(Buf) /\ Len(a) = n /\ DOMAIN a = 1 .. n
      /\ \A i \in 1 .. n : a[i] = s[i]
  BY <1>1
<1>3. /\ b \in Seq(Buf) /\ Len(b) = Len(s) - n /\ DOMAIN b = 1 .. Len(s) - n
      /\ \A i \in 1 .. Len(s) - n : b[i] = s[i + n]
  BY Suffix, Zenon
<1> HIDE DEF a, b, H
<1>4. IsFiniteSet(Live(s)) /\ IsFiniteSet(Live(a)) /\ IsFiniteSet(Live(b))
  BY <1>2, <1>3, LiveFinite, Zenon
<1>5. Live(s) = Live(a) \cup H /\ Live(a) \cap H = {}
  BY <1>1, <1>2 DEF Live, H
<1>6. f \in Bijection(Live(b), H)
  <2>1. \A i \in Live(b) : i \in Int /\ i + n \in H
    BY <1>1, <1>3 DEF Live, H
  <2>2. \A j \in H : j - n \in Live(b) /\ (j - n) + n = j
    BY <1>1, <1>3 DEF Live, H
  <2>3. f \in [Live(b) -> H]
    BY <2>1, Zenon
  <2>4. \A i, j \in Live(b) : f[i] = f[j] => i = j
    BY <1>1, <2>1
  <2>5. \A j \in H : \E i \in Live(b) : f[i] = j
    BY <2>2, Zenon
  <2> QED
    BY <2>3, <2>4, <2>5, Zenon
       DEF Bijection, Injection, Surjection, IsInjective
<1>7. IsFiniteSet(H) /\ Cardinality(H) = Cardinality(Live(b))
  BY <1>4, <1>6, FS_Bijection, Zenon DEF ExistsBijection
<1>8. Cardinality(Live(s)) = Cardinality(Live(a)) + Cardinality(H)
  <2>1. Cardinality(Live(a) \cap H) = 0
    BY <1>5, FS_EmptySet, Zenon
  <2>2. Cardinality(Live(a)) \in Nat /\ Cardinality(H) \in Nat
    BY <1>4, <1>7, FS_CardinalityType, Zenon
  <2>3. Cardinality(Live(a) \cup H) =
            Cardinality(Live(a)) + Cardinality(H) - Cardinality(Live(a) \cap H)
    BY <1>4, <1>7, FS_Union, Zenon
  <2>4. Cardinality(Live(s)) =
            Cardinality(Live(a)) + Cardinality(H) - Cardinality(Live(a) \cap H)
    BY <1>5, <2>3, Zenon
  <2> QED
    BY <2>1, <2>2, <2>4
<1>9. LiveIn(s) = LiveIn(a) + LiveIn(b)
  BY <1>2, <1>3, <1>7, <1>8, LiveFinite, Zenon
<1> QED
  BY <1>2, <1>3, <1>9, Zenon DEF a, b

\* Taking the head off uncounts it if it is live.
LEMMA LiveTail ==
    ASSUME NEW s \in Seq(Buf), s # <<>>
    PROVE  /\ Head(s) \in Buf /\ Tail(s) \in Seq(Buf) /\ Len(s) \in Nat \ {0}
           /\ Tail(s) = <<>> <=> Len(s) = 1
           /\ LiveIn(s) = LiveIn(Tail(s)) + (IF Head(s).live THEN 1 ELSE 0)
<1>1. /\ Head(s) \in Buf /\ Tail(s) \in Seq(Buf) /\ Len(s) \in Nat \ {0}
      /\ 1 \in 0 .. Len(s)
  OBVIOUS
<1>2. Tail(s) = <<>> <=> Len(s) = 1
  <2>1. Len(Tail(s)) = Len(s) - 1
    BY <1>1
  <2>2. Tail(s) = <<>> <=> Len(Tail(s)) = 0
    BY <1>1, EmptySeq, Zenon
  <2> QED
    BY <1>1, <2>1, <2>2
<1>3. Tail(s) = SubSeq(s, 1 + 1, Len(s))
  BY <1>1
<1> DEFINE h == SubSeq(s, 1, 1)
<1>4. h \in Seq(Buf) /\ Len(h) = 1 /\ DOMAIN h = {1} /\ h[1] = Head(s)
  BY <1>1
<1> HIDE DEF h
<1>5. LiveIn(h) = IF Head(s).live THEN 1 ELSE 0
  <2>1. Live(h) = IF Head(s).live THEN {1} ELSE {}
    BY <1>4, Zenon DEF Live
  <2>2. Cardinality({1}) = 1 /\ Cardinality({}) = 0
    BY FS_Singleton, FS_EmptySet, Zenon
  <2> QED
    BY <1>4, <2>1, <2>2, LiveFinite, Zenon
<1>6. LiveIn(s) = LiveIn(h) + LiveIn(SubSeq(s, 1 + 1, Len(s)))
  BY <1>1, LiveSplit, Zenon DEF h
<1>7. LiveIn(Tail(s)) \in Nat
  BY <1>1, LiveFinite, Zenon
<1>8. LiveIn(s) = LiveIn(h) + LiveIn(Tail(s))
  BY <1>3, <1>6, Zenon
<1>9. LiveIn(s) = LiveIn(Tail(s)) + (IF Head(s).live THEN 1 ELSE 0)
  BY <1>5, <1>7, <1>8
<1> QED
  BY <1>1, <1>2, <1>9, Zenon

\* A pointer to a buffer that is gone is a pointer, and not to a live buffer.
LEMMA GoneBuf == Gone \in Buf /\ Gone.live = FALSE
  BY SMT DEF Gone, Buf

\* Giving the head back uncounts it if it is live; the entry stays.
LEMMA LiveGivenBack ==
    ASSUME NEW s \in Seq(Buf), s # <<>>
    PROVE  LET t == [s EXCEPT ![1] = Gone]
           IN  /\ t \in Seq(Buf) /\ t # <<>> /\ ~Head(t).live
               /\ LiveIn(s) = LiveIn(t) + (IF Head(s).live THEN 1 ELSE 0)
<1> DEFINE t == [s EXCEPT ![1] = Gone]
           h == Gone
<1>1. Head(s) = s[1] /\ s[1] \in Buf /\ 1 \in DOMAIN s /\ Len(s) \in Nat \ {0}
  OBVIOUS
<1>2. h \in Buf /\ h.live = FALSE
  BY GoneBuf, Zenon
<1>3. t = [s EXCEPT ![1] = h]
  BY Zenon
<1> HIDE DEF t, h
<1>4. t \in Seq(Buf) /\ Len(t) = Len(s) /\ Head(t) = h
  BY <1>1, <1>2, <1>3
<1>5. t # <<>>
  BY <1>1, <1>4
<1>6. Tail(t) = Tail(s)
  BY <1>1, <1>3, <1>4
<1>7. /\ LiveIn(t) = LiveIn(Tail(t)) + (IF Head(t).live THEN 1 ELSE 0)
      /\ LiveIn(s) = LiveIn(Tail(s)) + (IF Head(s).live THEN 1 ELSE 0)
      /\ Tail(s) \in Seq(Buf)
  BY <1>4, <1>5, LiveTail, Zenon
<1>8. LiveIn(Tail(s)) \in Nat
  BY <1>7, LiveFinite, Zenon
<1>9. LiveIn(t) = LiveIn(Tail(s))
  <2>1. LiveIn(t) = LiveIn(Tail(s)) + 0
    BY <1>2, <1>4, <1>6, <1>7, Zenon
  <2> QED
    BY <1>8, <2>1
<1>10. LiveIn(s) = LiveIn(t) + (IF Head(s).live THEN 1 ELSE 0)
  BY <1>7, <1>9, Zenon
<1> QED
  BY <1>2, <1>4, <1>5, <1>10, Zenon DEF t

\* No buffer of a destroyed channel is live.
LEMMA LiveStale ==
    ASSUME NEW s \in Seq(Buf)
    PROVE  /\ Stale(s) \in Seq(Buf) /\ LiveIn(Stale(s)) = 0
           /\ Stale(s) = <<>> <=> s = <<>>
<1>1. /\ DOMAIN s = 1 .. Len(s) /\ Len(s) \in Nat
      /\ \A i \in DOMAIN s : s[i] \in Buf
  OBVIOUS
<1>2. Stale(s) = [i \in 1 .. Len(s) |-> Gone]
  BY <1>1, Zenon DEF Stale
<1>3. Stale(s) \in Seq(Buf) /\ DOMAIN Stale(s) = DOMAIN s
  BY <1>1, <1>2, GoneBuf
<1>4. \A i \in DOMAIN s : Stale(s)[i].live = FALSE
  BY GoneBuf, Zenon DEF Stale
<1>5. Live(Stale(s)) = {}
  BY <1>3, <1>4, Zenon DEF Live
<1>6. LiveIn(Stale(s)) = 0
  BY <1>3, <1>5, LiveFinite, FS_EmptySet, Zenon
<1>7. Len(Stale(s)) = Len(s)
  BY <1>1, <1>3
<1> QED
  BY <1>1, <1>3, <1>6, <1>7

-----------------------------------------------------------------------------
(* The steps. *)

\* The initial state.
LEMMA InitIInv == Init => IInv
<1> SUFFICES ASSUME Init PROVE IInv
  BY Zenon
<1>1. TypeOK
  <2>1. <<>> \in ControlInput /\ 0 \in 0 .. Pool /\ <<>> \in Seq(Buf)
    BY IqAssumption DEF ControlInput
  <2>2. "idle" \in PollSteps /\ "none" \in WorkerSteps /\ "idle" \in CtlSteps
    BY Zenon DEF PollSteps, WorkerSteps, CtlSteps
  <2> QED
    BY <2>1, <2>2, Zenon DEF Init, TypeOK
<1>2. ThreadInv /\ SentInv
  BY Zenon DEF Init, ThreadInv, SentInv
<1>3. BuffersConserved
  BY LiveEmpty DEF Init, BuffersConserved
<1> QED
  BY <1>1, <1>2, <1>3, Zenon DEF IInv

\* What a codelet makes of a section is a live buffer.
LEMMA SampleIsBuf ==
    ASSUME NEW s \in Sections
    PROVE  SampleOf(s) \in Buf /\ SampleOf(s).live
<1>1. s \in Section
  BY IqAssumption, Zenon
<1>2. s.direction \in {0, 1} /\ s.num_prbu \in Nat /\ s.bytes \in Nat
  BY <1>1 DEF Section
<1>3. s.bytes % 2^16 \in Nat
  BY <1>2
<1> QED
  BY <1>2, <1>3 DEF SampleOf, Buf, MAX_IQ_PAYLOAD_BYTES

\* A packet: the filter is taken over, and a sample that passes takes a buffer.
LEMMA CodeletStep == ASSUME IInv, NEW s \in Sections, CodeletRun(s) PROVE IInv'
<1> DEFINE b == SampleOf(s)
<1>1. TypeOK /\ ThreadInv /\ SentInv /\ BuffersConserved
  BY Zenon DEF IInv
<1>2. b \in Buf /\ b.live
  BY SampleIsBuf, Zenon
<1> HIDE DEF b
<1>3. \/ out_ring' = out_ring /\ used' = used
      \/ used < Pool /\ out_ring' = Append(out_ring, b) /\ used' = used + 1
  BY Zenon DEF CodeletRun, b
<1>4. /\ bufs' = bufs /\ queue' = queue /\ poll_pc' = poll_pc
      /\ worker_pc' = worker_pc /\ subs' = subs /\ ctl_pc' = ctl_pc
      /\ registered' = registered /\ running' = running
      /\ sm_running' = sm_running /\ straddled' = straddled
      /\ subscribers' = subscribers /\ prb_config_sent' = prb_config_sent
      /\ loaded' = loaded /\ prb_config_in' = <<>>
  BY Zenon DEF CodeletRun, pollVars, workerVars, ctlVars
<1>5. /\ prb_filter' \in {0, expected_num_prbu}
      /\ FilterIsThere => FilterIsThere'
      /\ prb_config_in' \in ControlInput
  <2>1. prb_filter' = IF prb_config_in = <<>> THEN prb_filter ELSE Head(prb_config_in)
    BY Zenon DEF CodeletRun
  <2>2. prb_config_in \in ControlInput /\ prb_filter \in {0, expected_num_prbu}
    BY <1>1, Zenon DEF TypeOK
  <2>3. prb_config_in = <<>> \/ prb_config_in = <<expected_num_prbu>>
    BY <2>2, Zenon DEF ControlInput
  <2>4. prb_config_in # <<>> => prb_filter' = expected_num_prbu
    <3>1. Head(<<expected_num_prbu>>) = expected_num_prbu
      OBVIOUS
    <3> QED
      BY <2>1, <2>3, <3>1, Zenon
  <2>5. prb_config_in' \in ControlInput
    BY <1>4, Zenon DEF ControlInput
  <2>6. prb_config_in = <<>> => prb_filter' = prb_filter
    BY <2>1, Zenon
  <2>7. <<>> # <<expected_num_prbu>>
    BY Zenon
  <2> QED
    BY <2>2, <2>3, <2>4, <2>5, <2>6, <2>7, Zenon DEF FilterIsThere
<1>6. /\ out_ring \in Seq(Buf) /\ used \in Nat /\ Pool \in Nat /\ used <= Pool
      /\ bufs \in Seq(Buf) /\ queue \in Seq(Buf)
  BY <1>1, IqAssumption DEF TypeOK
<1>7. out_ring' \in Seq(Buf) /\ used' \in 0 .. Pool
  <2>1. out_ring' \in Seq(Buf)
    BY <1>2, <1>3, <1>6, LiveAppend, Zenon
  <2>2. used' \in 0 .. Pool
    BY <1>3, <1>6
  <2> QED
    BY <2>1, <2>2, Zenon
<1>8. TypeOK'
  BY <1>1, <1>4, <1>5, <1>7, Zenon DEF TypeOK
<1>9. ThreadInv' /\ SentInv'
  BY <1>1, <1>4, <1>5, Zenon DEF ThreadInv, SentInv
<1>10. BuffersConserved'
  <2>1. LiveIn(out_ring) \in Nat /\ LiveIn(bufs) \in Nat /\ LiveIn(queue) \in Nat
    BY <1>6, LiveFinite, Zenon
  <2>2. \/ used' = used /\ LiveIn(out_ring') = LiveIn(out_ring)
        \/ used' = used + 1 /\ LiveIn(out_ring') = LiveIn(out_ring) + 1
    <3>1. LiveIn(Append(out_ring, b)) = LiveIn(out_ring) + (IF b.live THEN 1 ELSE 0)
      BY <1>2, <1>6, LiveAppend, Zenon
    <3> QED
      BY <1>2, <1>3, <3>1, Zenon
  <2>3. LiveIn(out_ring') \in Nat /\ used' \in Nat
    BY <1>7, LiveFinite
  <2>4. used = LiveIn(out_ring) + LiveIn(bufs) + LiveIn(queue)
    BY <1>1, Zenon DEF BuffersConserved
  <2>5. used' = LiveIn(out_ring') + LiveIn(bufs) + LiveIn(queue)
    BY <2>1, <2>2, <2>4
  <2> QED
    BY <1>4, <2>5, Zenon DEF BuffersConserved
<1> QED
  BY <1>8, <1>9, <1>10, Zenon DEF IInv

\* jbpf hands over the first samples of the ring.
LEMMA PollStep == ASSUME IInv, Poll PROVE IInv'
<1>1. TypeOK /\ ThreadInv /\ SentInv /\ BuffersConserved
  BY Zenon DEF IInv
<1>2. PICK n \in 1 .. Len(out_ring) :
          /\ bufs' = SubSeq(out_ring, 1, n)
          /\ out_ring' = SubSeq(out_ring, n + 1, Len(out_ring))
  BY Zenon DEF Poll
<1>3. out_ring \in Seq(Buf) /\ n \in 0 .. Len(out_ring) /\ n > 0
  BY <1>1 DEF TypeOK
<1>4. /\ bufs' \in Seq(Buf) /\ out_ring' \in Seq(Buf) /\ Len(bufs') = n
      /\ LiveIn(out_ring) = LiveIn(bufs') + LiveIn(out_ring')
  BY <1>2, <1>3, LiveSplit, Zenon
<1>5. bufs' # <<>> /\ "lookup" \in PollSteps
  BY <1>3, <1>4 DEF PollSteps
<1>6. /\ poll_pc = "idle" /\ poll_pc' = "lookup" /\ loaded' = loaded
      /\ prb_config_in' = prb_config_in /\ prb_filter' = prb_filter
      /\ used' = used /\ prb_config_sent' = prb_config_sent /\ queue' = queue
      /\ worker_pc' = worker_pc /\ subs' = subs /\ ctl_pc' = ctl_pc
      /\ registered' = registered /\ running' = running
      /\ sm_running' = sm_running /\ straddled' = straddled
      /\ subscribers' = subscribers
  BY Zenon DEF Poll, workerVars, ctlVars
<1>7. TypeOK'
  BY <1>1, <1>4, <1>5, <1>6, Zenon DEF TypeOK
<1>8. ThreadInv' /\ SentInv'
  BY <1>1, <1>5, <1>6, Zenon DEF ThreadInv, SentInv, FilterIsThere
<1>9. BuffersConserved'
  <2>1. /\ bufs = <<>> /\ queue \in Seq(Buf) /\ LiveIn(queue) \in Nat
        /\ LiveIn(bufs') \in Nat /\ LiveIn(out_ring') \in Nat
    BY <1>1, <1>4, <1>6, LiveFinite, Zenon DEF ThreadInv, TypeOK
  <2>2. LiveIn(bufs) = 0
    BY <2>1, LiveEmpty, Zenon
  <2> QED
    BY <1>1, <1>4, <1>6, <2>1, <2>2 DEF BuffersConserved
<1> QED
  BY <1>7, <1>8, <1>9, Zenon DEF IInv

\* The poll thread decides about a batch and sends the filter.
LEMMA HandlerStep ==
    ASSUME IInv, Lookup \/ SendPrbConfig \/ SendFails \/ MarkSent
    PROVE  IInv'
<1>1. TypeOK /\ ThreadInv /\ SentInv /\ BuffersConserved
  BY Zenon DEF IInv
<1>2. /\ loaded' = loaded /\ used' = used /\ out_ring' = out_ring
      /\ bufs' = bufs /\ queue' = queue /\ prb_filter' = prb_filter
      /\ worker_pc' = worker_pc /\ subs' = subs /\ ctl_pc' = ctl_pc
      /\ registered' = registered /\ running' = running
      /\ sm_running' = sm_running /\ straddled' = straddled
      /\ subscribers' = subscribers
  BY Zenon
     DEF Lookup, SendPrbConfig, SendFails, MarkSent, codeletVars, workerVars,
         ctlVars
<1>3. /\ poll_pc # "idle" /\ poll_pc' # "idle"
      /\ poll_pc' \in PollSteps
      /\ prb_config_sent' \in BOOLEAN
      /\ prb_config_in' \in ControlInput
  BY <1>1, Zenon
     DEF Lookup, SendPrbConfig, SendFails, MarkSent, codeletVars, TypeOK,
         ControlInput, PollSteps
<1>4. TypeOK'
  BY <1>1, <1>2, <1>3, Zenon DEF TypeOK
<1>5. ThreadInv' /\ BuffersConserved'
  BY <1>1, <1>2, <1>3, Zenon DEF ThreadInv, BuffersConserved
<1>6. SentInv'
  <2>1. CASE Lookup
    BY <1>1, <1>2, <2>1, Zenon
       DEF SentInv, Lookup, FilterIsThere, codeletVars
  <2>2. CASE SendPrbConfig
    BY <1>1, <1>2, <2>2, Zenon
       DEF SentInv, SendPrbConfig, FilterIsThere
  <2>3. CASE SendFails
    BY <1>1, <1>2, <2>3, Zenon
       DEF SentInv, SendFails, FilterIsThere, codeletVars
  <2>4. CASE MarkSent
    BY <1>1, <1>2, <2>4, Zenon
       DEF SentInv, MarkSent, FilterIsThere, codeletVars
  <2> QED
    BY <2>1, <2>2, <2>3, <2>4, Zenon
<1> QED
  BY <1>4, <1>5, <1>6, Zenon DEF IInv

\* The buffer at hand leaves the batch: back to the pool or into the queue.
LEMMA TakeStep == ASSUME IInv, Discard \/ DropBuf \/ Enqueue PROVE IInv'
<1> DEFINE b == Head(bufs)
<1>1. TypeOK /\ ThreadInv /\ SentInv /\ BuffersConserved
  BY Zenon DEF IInv
<1>2. /\ bufs' = Tail(bufs) /\ poll_pc # "idle"
      /\ poll_pc' = IF Len(bufs) = 1 THEN "idle" ELSE poll_pc
      /\ loaded' = loaded /\ prb_config_in' = prb_config_in
      /\ prb_filter' = prb_filter /\ out_ring' = out_ring
      /\ prb_config_sent' = prb_config_sent
      /\ worker_pc' = worker_pc /\ subs' = subs /\ ctl_pc' = ctl_pc
      /\ registered' = registered /\ running' = running
      /\ sm_running' = sm_running /\ straddled' = straddled
      /\ subscribers' = subscribers
  BY Zenon
     DEF Discard, DropBuf, Enqueue, NextBuf, codeletVars, workerVars, ctlVars
<1>3. \/ used' = (IF b.live THEN used - 1 ELSE used) /\ queue' = queue
      \/ used' = used /\ queue' = Append(queue, b)
  BY Zenon DEF Discard, DropBuf, Enqueue, Release
<1>4. /\ bufs \in Seq(Buf) /\ queue \in Seq(Buf) /\ out_ring \in Seq(Buf)
      /\ bufs # <<>>
  BY <1>1, <1>2, Zenon DEF TypeOK, ThreadInv
<1>5. /\ b \in Buf /\ bufs' \in Seq(Buf) /\ (bufs' = <<>> <=> Len(bufs) = 1)
      /\ LiveIn(bufs) = LiveIn(bufs') + (IF b.live THEN 1 ELSE 0)
  BY <1>2, <1>4, LiveTail, Zenon
<1>6. /\ Append(queue, b) \in Seq(Buf) /\ Append(queue, b) # <<>>
      /\ LiveIn(Append(queue, b)) = LiveIn(queue) + (IF b.live THEN 1 ELSE 0)
  BY <1>4, <1>5, LiveAppend, Zenon
<1>16. queue # <<>> => Head(Append(queue, b)) = Head(queue)
  BY <1>4, <1>5
<1> HIDE DEF b
<1>7. /\ queue' \in Seq(Buf)
      /\ queue # <<>> => queue' # <<>> /\ Head(queue') = Head(queue)
  BY <1>3, <1>4, <1>6, <1>16, Zenon
<1>8. /\ LiveIn(bufs') \in Nat /\ LiveIn(queue') \in Nat /\ LiveIn(out_ring) \in Nat
      /\ LiveIn(queue) \in Nat
  BY <1>4, <1>5, <1>7, LiveFinite, Zenon
<1>9. used' = LiveIn(out_ring) + LiveIn(bufs') + LiveIn(queue') /\ used' <= used
  <2>1. used = LiveIn(out_ring) + LiveIn(bufs) + LiveIn(queue)
    BY <1>1, Zenon DEF BuffersConserved
  <2>2. \/ used' = (IF b.live THEN used - 1 ELSE used) /\ LiveIn(queue') = LiveIn(queue)
        \/ /\ used' = used
           /\ LiveIn(queue') = LiveIn(queue) + (IF b.live THEN 1 ELSE 0)
    BY <1>3, <1>6, Zenon
  <2>3. LiveIn(bufs) = LiveIn(bufs') + (IF b.live THEN 1 ELSE 0)
    BY <1>5, Zenon
  <2> QED
    BY <1>8, <2>1, <2>2, <2>3
<1>10. BuffersConserved' /\ used' \in 0 .. Pool
  <2>1. used \in 0 .. Pool /\ Pool \in Nat
    BY <1>1, IqAssumption, Zenon DEF TypeOK
  <2>2. used' \in 0 .. Pool
    BY <1>8, <1>9, <2>1
  <2> QED
    BY <1>2, <1>9, <2>2, Zenon DEF BuffersConserved
<1>11. poll_pc' \in PollSteps /\ (bufs' = <<>> <=> poll_pc' = "idle")
  BY <1>1, <1>2, <1>5, Zenon DEF TypeOK, PollSteps
<1>12. TypeOK'
  BY <1>1, <1>2, <1>5, <1>7, <1>10, <1>11, Zenon DEF TypeOK
<1>13. ThreadInv'
  BY <1>1, <1>2, <1>7, <1>11, Zenon DEF ThreadInv
<1>14. SentInv'
  BY <1>1, <1>2, Zenon DEF SentInv, FilterIsThere
<1> QED
  BY <1>10, <1>12, <1>13, <1>14, Zenon DEF IInv

\* The worker decides about the head of the queue and emits what it holds.
LEMMA WorkerStep ==
    ASSUME IInv, WorkerCheck \/ Decompress \/ Snapshot \/ Emit
    PROVE  IInv'
<1>1. TypeOK /\ ThreadInv /\ SentInv /\ BuffersConserved
  BY Zenon DEF IInv
<1>2. /\ loaded' = loaded /\ used' = used /\ out_ring' = out_ring
      /\ bufs' = bufs /\ queue' = queue /\ prb_filter' = prb_filter
      /\ prb_config_in' = prb_config_in /\ poll_pc' = poll_pc
      /\ prb_config_sent' = prb_config_sent /\ ctl_pc' = ctl_pc
      /\ registered' = registered /\ running' = running
      /\ sm_running' = sm_running /\ straddled' = straddled
      /\ subscribers' = subscribers
  BY Zenon
     DEF WorkerCheck, Decompress, Snapshot, Emit, codeletVars, pollVars,
         ctlVars
<1>3. subs' \in SUBSET DApps
  BY <1>1, Zenon DEF WorkerCheck, Decompress, Snapshot, Emit, TypeOK
<1>4. /\ worker_pc # "none" /\ worker_pc' \in WorkerSteps
      /\ worker_pc' # "advance"
      /\ worker_pc' \in {"dispatch", "snapshot", "emit", "release"} => queue # <<>>
  <2>1. CASE WorkerCheck
    BY <1>1, <2>1, Zenon DEF WorkerCheck, ThreadInv, WorkerSteps
  <2>2. CASE Decompress
    BY <1>1, <2>2, Zenon DEF Decompress, ThreadInv, WorkerSteps
  <2>3. CASE Snapshot
    BY <1>1, <2>3, Zenon DEF Snapshot, ThreadInv, WorkerSteps
  <2>4. CASE Emit
    BY <1>1, <2>4, Zenon DEF Emit, ThreadInv, WorkerSteps
  <2> QED
    BY <2>1, <2>2, <2>3, <2>4, Zenon
<1>5. TypeOK'
  BY <1>1, <1>2, <1>3, <1>4, Zenon DEF TypeOK
<1>6. ThreadInv'
  BY <1>1, <1>2, <1>4, Zenon DEF ThreadInv
<1>7. SentInv' /\ BuffersConserved'
  BY <1>1, <1>2, Zenon DEF SentInv, FilterIsThere, BuffersConserved
<1> QED
  BY <1>5, <1>6, <1>7, Zenon DEF IInv

\* The worker gives the head of the queue back.
LEMMA ReleaseStep == ASSUME IInv, WorkerRelease PROVE IInv'
<1> DEFINE b == Head(queue)
<1>1. TypeOK /\ ThreadInv /\ SentInv /\ BuffersConserved
  BY Zenon DEF IInv
<1>2. /\ queue' = [queue EXCEPT ![1] = Gone]
      /\ used' = IF b.live THEN used - 1 ELSE used
      /\ worker_pc = "release" /\ worker_pc' = "advance"
      /\ loaded' = loaded /\ out_ring' = out_ring /\ bufs' = bufs
      /\ prb_filter' = prb_filter /\ prb_config_in' = prb_config_in
      /\ poll_pc' = poll_pc /\ prb_config_sent' = prb_config_sent
      /\ ctl_pc' = ctl_pc /\ registered' = registered /\ running' = running
      /\ sm_running' = sm_running /\ straddled' = straddled
      /\ subscribers' = subscribers /\ subs' = subs
  BY Zenon DEF WorkerRelease, Release, codeletVars, pollVars, ctlVars
<1>3. /\ bufs \in Seq(Buf) /\ queue \in Seq(Buf) /\ out_ring \in Seq(Buf)
      /\ queue # <<>>
  BY <1>1, <1>2, Zenon DEF TypeOK, ThreadInv
<1>4. /\ queue' \in Seq(Buf) /\ queue' # <<>> /\ ~Head(queue').live
      /\ LiveIn(queue) = LiveIn(queue') + (IF b.live THEN 1 ELSE 0)
  BY <1>2, <1>3, LiveGivenBack, Zenon
<1> HIDE DEF b
<1>5. LiveIn(bufs) \in Nat /\ LiveIn(queue') \in Nat /\ LiveIn(out_ring) \in Nat
  BY <1>3, <1>4, LiveFinite, Zenon
<1>6. used' = LiveIn(out_ring) + LiveIn(bufs) + LiveIn(queue') /\ used' <= used
  <2>1. used = LiveIn(out_ring) + LiveIn(bufs) + LiveIn(queue)
    BY <1>1, Zenon DEF BuffersConserved
  <2> DEFINE x == LiveIn(out_ring)
             y == LiveIn(bufs)
             z == LiveIn(queue')
             u == used
             k == IF b.live THEN 1 ELSE 0
  <2>2. /\ u = x + y + (z + k) /\ x \in Nat /\ y \in Nat /\ z \in Nat
        /\ (k = 1 /\ used' = u - 1) \/ (k = 0 /\ used' = u)
    BY <1>2, <1>4, <1>5, <2>1, Zenon
  <2> HIDE DEF x, y, z, u, k
  <2>3. used' = x + y + z /\ used' <= u
    BY <2>2
  <2> QED
    BY <2>3, Zenon DEF x, y, z, u
<1>7. BuffersConserved' /\ used' \in 0 .. Pool
  <2>1. used \in 0 .. Pool /\ Pool \in Nat
    BY <1>1, IqAssumption, Zenon DEF TypeOK
  <2>2. used' \in 0 .. Pool
    BY <1>5, <1>6, <2>1
  <2> QED
    BY <1>2, <1>6, <2>2, Zenon DEF BuffersConserved
<1>8. "advance" \in WorkerSteps
  BY Zenon DEF WorkerSteps
<1>9. TypeOK'
  BY <1>1, <1>2, <1>4, <1>7, <1>8, Zenon DEF TypeOK
<1>10. ThreadInv' /\ SentInv'
  BY <1>1, <1>2, <1>4, Zenon DEF ThreadInv, SentInv, FilterIsThere
<1> QED
  BY <1>7, <1>9, <1>10, Zenon DEF IInv

\* The tail moves past a buffer that has been given back.
LEMMA AdvanceStep == ASSUME IInv, WorkerAdvance PROVE IInv'
<1>1. TypeOK /\ ThreadInv /\ SentInv /\ BuffersConserved
  BY Zenon DEF IInv
<1>2. /\ queue' = Tail(queue) /\ used' = used
      /\ worker_pc = "advance" /\ worker_pc' = "check"
      /\ loaded' = loaded /\ out_ring' = out_ring /\ bufs' = bufs
      /\ prb_filter' = prb_filter /\ prb_config_in' = prb_config_in
      /\ poll_pc' = poll_pc /\ prb_config_sent' = prb_config_sent
      /\ ctl_pc' = ctl_pc /\ registered' = registered /\ running' = running
      /\ sm_running' = sm_running /\ straddled' = straddled
      /\ subscribers' = subscribers /\ subs' = subs
  BY Zenon DEF WorkerAdvance, codeletVars, pollVars, ctlVars
<1>3. queue \in Seq(Buf) /\ queue # <<>> /\ ~Head(queue).live
  BY <1>1, <1>2, Zenon DEF TypeOK, ThreadInv
<1>4. queue' \in Seq(Buf) /\ LiveIn(queue) = LiveIn(queue') + 0
  BY <1>2, <1>3, LiveTail, Zenon
<1>5. LiveIn(queue') = LiveIn(queue)
  <2>1. LiveIn(queue') \in Nat
    BY <1>4, LiveFinite, Zenon
  <2> QED
    BY <1>4, <2>1
<1>6. BuffersConserved'
  BY <1>1, <1>2, <1>5, Zenon DEF BuffersConserved
<1>7. "check" \in WorkerSteps
  BY Zenon DEF WorkerSteps
<1>8. TypeOK'
  BY <1>1, <1>2, <1>4, <1>7, Zenon DEF TypeOK
<1>9. ThreadInv' /\ SentInv'
  BY <1>1, <1>2, Zenon DEF ThreadInv, SentInv, FilterIsThere
<1> QED
  BY <1>6, <1>8, <1>9, Zenon DEF IInv

\* The channels are made anew or destroyed: no buffer in flight is live.
LEMMA ChannelStep ==
    ASSUME IInv, used' = 0, out_ring' = <<>>, prb_config_in' = <<>>, prb_filter' = 0,
           bufs' = Stale(bufs), queue' = Stale(queue), loaded' \in BOOLEAN,
           worker_pc = "none", ~running, ~registered, ~sm_running,
           ctl_pc' \in {"boot", "idle"},
           UNCHANGED <<poll_pc, prb_config_sent, workerVars, registered, running,
                       sm_running, straddled, subscribers>>
    PROVE  IInv'
<1>1. TypeOK /\ ThreadInv /\ SentInv /\ BuffersConserved
  BY Zenon DEF IInv
<1>2. /\ poll_pc' = poll_pc /\ prb_config_sent' = prb_config_sent
      /\ worker_pc' = worker_pc /\ subs' = subs /\ registered' = registered
      /\ running' = running /\ sm_running' = sm_running
      /\ straddled' = straddled /\ subscribers' = subscribers
  BY Zenon DEF workerVars
<1>3. bufs \in Seq(Buf) /\ queue \in Seq(Buf)
  BY <1>1, Zenon DEF TypeOK
<1>4. /\ bufs' \in Seq(Buf) /\ LiveIn(bufs') = 0 /\ (bufs' = <<>> <=> bufs = <<>>)
      /\ queue' \in Seq(Buf) /\ LiveIn(queue') = 0
  BY <1>3, LiveStale, Zenon
<1>5. BuffersConserved'
  BY <1>4, LiveEmpty DEF BuffersConserved
<1>6. /\ <<>> \in ControlInput /\ 0 \in 0 .. Pool /\ <<>> \in Seq(Buf)
      /\ ctl_pc' \in CtlSteps
  BY IqAssumption DEF ControlInput, CtlSteps
<1>7. TypeOK'
  BY <1>1, <1>2, <1>4, <1>6, Zenon DEF TypeOK
<1>8. ThreadInv'
  BY <1>1, <1>2, <1>4 DEF ThreadInv
<1>9. SentInv'
  BY <1>2 DEF SentInv
<1> QED
  BY <1>5, <1>7, <1>8, <1>9, Zenon DEF IInv

\* start() loads the codelet while neither thread of the session is there.
LEMMA LoadStep == ASSUME IInv, LoadCodelets PROVE IInv'
<1>1. TypeOK /\ ThreadInv
  BY Zenon DEF IInv
<1>2. worker_pc = "none" /\ ~running /\ ~registered /\ ~sm_running
  BY <1>1, Zenon DEF LoadCodelets, ThreadInv
<1>3. /\ loaded' = TRUE /\ prb_config_in' = <<>> /\ prb_filter' = 0
      /\ out_ring' = <<>> /\ used' = 0
      /\ bufs' = Stale(bufs) /\ queue' = Stale(queue)
      /\ ctl_pc' = "boot"
      /\ UNCHANGED <<poll_pc, prb_config_sent, workerVars, registered, running,
                     sm_running, straddled, subscribers>>
  BY Zenon DEF LoadCodelets
<1> QED
  BY <1>2, <1>3, ChannelStep, Zenon

\* stop() ends with the request to unload, which may fail.
LEMMA UnloadStep == ASSUME IInv, UnloadCodelets PROVE IInv'
<1>1. TypeOK /\ ThreadInv /\ SentInv /\ BuffersConserved
  BY Zenon DEF IInv
<1>2. /\ worker_pc = "none" /\ ~running /\ ~registered /\ ~sm_running
      /\ ctl_pc' = "idle" /\ ctl_pc' \in CtlSteps
      /\ UNCHANGED <<poll_pc, prb_config_sent, workerVars, registered, running,
                     sm_running, straddled, subscribers>>
  BY <1>1, Zenon DEF UnloadCodelets, ThreadInv, CtlSteps
<1>3. CASE /\ loaded' = FALSE /\ prb_config_in' = <<>> /\ prb_filter' = 0
           /\ out_ring' = <<>> /\ used' = 0
           /\ bufs' = Stale(bufs) /\ queue' = Stale(queue)
  BY <1>2, <1>3, ChannelStep, Zenon
<1>4. CASE UNCHANGED <<codeletVars, used, bufs, queue>>
  <2>1. /\ loaded' = loaded /\ prb_config_in' = prb_config_in
        /\ prb_filter' = prb_filter /\ out_ring' = out_ring /\ used' = used
        /\ bufs' = bufs /\ queue' = queue /\ straddled' = straddled
        /\ poll_pc' = poll_pc /\ prb_config_sent' = prb_config_sent
        /\ worker_pc' = worker_pc /\ subs' = subs /\ registered' = registered
        /\ running' = running /\ sm_running' = sm_running
        /\ subscribers' = subscribers
    BY <1>2, <1>4, Zenon DEF codeletVars, workerVars
  <2>2. TypeOK'
    BY <1>1, <1>2, <2>1, Zenon DEF TypeOK
  <2>3. ThreadInv'
    BY <1>1, <1>2, <2>1 DEF ThreadInv
  <2>4. SentInv' /\ BuffersConserved'
    BY <1>1, <2>1, Zenon
       DEF SentInv, FilterIsThere, BuffersConserved
  <2> QED
    BY <2>2, <2>3, <2>4, Zenon DEF IInv
<1> QED
  BY <1>3, <1>4, Zenon DEF UnloadCodelets

\* stop() has joined the worker and gives back what is left in the queue.
LEMMA JoinStep == ASSUME IInv, JoinWorker PROVE IInv'
<1>1. TypeOK /\ ThreadInv /\ SentInv /\ BuffersConserved
  BY Zenon DEF IInv
<1>2. /\ ctl_pc = "join" /\ worker_pc = "none" /\ used' = used - LiveIn(queue)
      /\ queue' = <<>> /\ ctl_pc' = "unload"
      /\ loaded' = loaded /\ prb_config_in' = prb_config_in
      /\ prb_filter' = prb_filter /\ out_ring' = out_ring
      /\ bufs' = bufs /\ straddled' = straddled
      /\ poll_pc' = poll_pc /\ prb_config_sent' = prb_config_sent
      /\ worker_pc' = worker_pc /\ subs' = subs /\ registered' = registered
      /\ running' = running /\ sm_running' = sm_running
      /\ subscribers' = subscribers
  BY Zenon DEF JoinWorker, codeletVars, pollVars, workerVars
<1>3. out_ring \in Seq(Buf) /\ bufs \in Seq(Buf) /\ queue \in Seq(Buf)
  BY <1>1, Zenon DEF TypeOK
<1>4. LiveIn(out_ring) \in Nat /\ LiveIn(bufs) \in Nat /\ LiveIn(queue) \in Nat
  BY <1>3, LiveFinite, Zenon
<1>5. LiveIn(queue') = 0
  BY <1>2, LiveEmpty, Zenon
<1>6. BuffersConserved'
  BY <1>1, <1>2, <1>4, <1>5 DEF BuffersConserved
<1>7. used' \in 0 .. Pool
  <2>1. used \in 0 .. Pool /\ used = LiveIn(out_ring) + LiveIn(bufs) + LiveIn(queue)
    BY <1>1, Zenon DEF TypeOK, BuffersConserved
  <2>2. used' = used - LiveIn(queue) /\ Pool \in Nat
    BY <1>2, IqAssumption, Zenon
  <2> QED
    BY <1>4, <2>1, <2>2
<1>8. <<>> \in Seq(Buf) /\ "unload" \in CtlSteps
  BY DEF CtlSteps
<1>9. TypeOK'
  BY <1>1, <1>2, <1>7, <1>8, Zenon DEF TypeOK
<1>10. ThreadInv' /\ SentInv'
  BY <1>1, <1>2, Zenon DEF ThreadInv, SentInv, FilterIsThere
<1> QED
  BY <1>6, <1>9, <1>10, Zenon DEF IInv

\* Subscriptions and the other steps of start() and stop() leave the buffers,
\* the codelet and the poll thread alone.
LEMMA ControlStep ==
    ASSUME IInv,
           \/ Subscribe \/ Unsubscribe \/ Boot \/ Register \/ SmUp \/ SmStop
           \/ Unregister \/ SignalWorker
    PROVE  IInv'
<1>1. TypeOK /\ ThreadInv /\ SentInv /\ BuffersConserved
  BY Zenon DEF IInv
<1>2. /\ loaded' = loaded /\ prb_config_in' = prb_config_in
      /\ prb_filter' = prb_filter /\ out_ring' = out_ring /\ used' = used
      /\ bufs' = bufs /\ queue' = queue /\ poll_pc' = poll_pc /\ subs' = subs
  BY Zenon
     DEF Subscribe, Unsubscribe, Boot, Register, SmUp, SmStop, Unregister,
         SignalWorker, codeletVars, pollVars, workerVars
<1>3. BuffersConserved'
  BY <1>1, <1>2, Zenon DEF BuffersConserved
<1>4. subscribers' \in SUBSET DApps
  <2>1. subscribers \in SUBSET DApps
    BY <1>1, Zenon DEF TypeOK
  <2>2. CASE Subscribe
    BY <2>1, <2>2, Zenon DEF Subscribe
  <2>3. CASE Unsubscribe
    BY <2>1, <2>3, Zenon DEF Unsubscribe
  <2>4. CASE Boot \/ Register \/ SmUp \/ SmStop \/ Unregister \/ SignalWorker
    BY <2>1, <2>4, Zenon
       DEF Boot, Register, SmUp, SmStop, Unregister, SignalWorker
  <2> QED
    BY <2>2, <2>3, <2>4, Zenon
<1>5. /\ prb_config_sent' \in {prb_config_sent, FALSE}
      /\ running' \in {running, TRUE, FALSE}
      /\ registered' \in {registered, TRUE, FALSE}
      /\ sm_running' \in {sm_running, TRUE, FALSE}
      /\ worker_pc' \in {worker_pc, "check"}
      /\ straddled' \in BOOLEAN
  <2>1. straddled \in BOOLEAN
    BY <1>1, Zenon DEF TypeOK
  <2> QED
    BY <2>1, Zenon
       DEF Subscribe, Unsubscribe, Boot, Register, SmUp, SmStop, Unregister,
           SignalWorker, workerVars, ctlVars
<1>6. ctl_pc' \in {ctl_pc, "register", "sm_up", "idle", "unregister", "signal", "join"}
  BY Zenon
     DEF Subscribe, Unsubscribe, Boot, Register, SmUp, SmStop, Unregister,
         SignalWorker, ctlVars
<1>7. TypeOK'
  <2>1. worker_pc' \in WorkerSteps /\ ctl_pc' \in CtlSteps
    BY <1>1, <1>5, <1>6, Zenon DEF TypeOK, WorkerSteps, CtlSteps
  <2>2. /\ prb_config_sent' \in BOOLEAN /\ running' \in BOOLEAN
        /\ registered' \in BOOLEAN /\ sm_running' \in BOOLEAN
    BY <1>1, <1>5, Zenon DEF TypeOK
  <2> QED
    BY <1>1, <1>2, <1>4, <1>5, <2>1, <2>2, Zenon DEF TypeOK
<1>8. CASE Subscribe \/ Unsubscribe
  <2>1. ThreadInv'
    BY <1>1, <1>2, <1>8 DEF Subscribe, Unsubscribe, workerVars, ctlVars, ThreadInv
  <2>2. SentInv'
    BY <1>1, <1>2, <1>8, Zenon
       DEF Subscribe, Unsubscribe, ctlVars, SentInv, FilterIsThere
  <2> QED
    BY <1>3, <1>7, <2>1, <2>2, Zenon DEF IInv
<1>9. CASE Boot \/ Register \/ SmUp
  <2>1. ThreadInv'
    BY <1>1, <1>2, <1>9 DEF Boot, Register, SmUp, workerVars, ThreadInv
  <2>2. SentInv'
    BY <1>1, <1>2, <1>9, Zenon
       DEF Boot, Register, SmUp, ThreadInv, SentInv, FilterIsThere
  <2> QED
    BY <1>3, <1>7, <2>1, <2>2, Zenon DEF IInv
<1>10. CASE SmStop \/ Unregister \/ SignalWorker
  <2>1. ThreadInv'
    BY <1>1, <1>2, <1>10 DEF SmStop, Unregister, SignalWorker, workerVars, ThreadInv
  <2>2. SentInv'
    BY <1>1, <1>2, <1>10, Zenon
       DEF SmStop, Unregister, SignalWorker, ThreadInv, SentInv,
           FilterIsThere
  <2> QED
    BY <1>3, <1>7, <2>1, <2>2, Zenon DEF IInv
<1> QED
  BY <1>8, <1>9, <1>10, Zenon

\* A step that changes nothing.
LEMMA StutterStep == ASSUME IInv, UNCHANGED vars PROVE IInv'
<1>1. TypeOK /\ ThreadInv /\ SentInv /\ BuffersConserved
  BY Zenon DEF IInv
<1>2. /\ loaded' = loaded /\ prb_config_in' = prb_config_in
      /\ prb_filter' = prb_filter /\ out_ring' = out_ring /\ used' = used
      /\ bufs' = bufs /\ queue' = queue /\ poll_pc' = poll_pc /\ subs' = subs
      /\ prb_config_sent' = prb_config_sent /\ worker_pc' = worker_pc
      /\ registered' = registered /\ running' = running
      /\ sm_running' = sm_running /\ ctl_pc' = ctl_pc /\ straddled' = straddled
      /\ subscribers' = subscribers
  BY Zenon DEF vars, codeletVars, pollVars, workerVars, ctlVars
<1>3. TypeOK'
  BY <1>1, <1>2, Zenon DEF TypeOK
<1>4. ThreadInv' /\ SentInv' /\ BuffersConserved'
  BY <1>1, <1>2, Zenon
     DEF ThreadInv, SentInv, FilterIsThere, BuffersConserved
<1> QED
  BY <1>3, <1>4, Zenon DEF IInv

\* Every step of the codelet, the poll thread, the worker and the control
\* thread keeps the invariant.
THEOREM IqInductive == Spec => []IInv
<1>1. IInv /\ [Next]_vars => IInv'
  <2> SUFFICES ASSUME IInv, [Next]_vars PROVE IInv'
    BY Zenon
  <2>1. CASE Codelet
    BY <2>1, CodeletStep, Zenon DEF Codelet
  <2>2. CASE PollThread
    BY <2>2, PollStep, HandlerStep, TakeStep, Zenon DEF PollThread
  <2>3. CASE Worker
    BY <2>3, WorkerStep, ReleaseStep, AdvanceStep, Zenon DEF Worker
  <2>4. CASE Control
    BY <2>4, LoadStep, UnloadStep, JoinStep, ControlStep, Zenon
       DEF Control, Start, Stop
  <2>5. CASE UNCHANGED vars
    BY <2>5, StutterStep, Zenon
  <2> QED
    BY <2>1, <2>2, <2>3, <2>4, <2>5, Zenon DEF Next
<1> QED
  BY <1>1, InitIInv, PTL DEF Spec

-----------------------------------------------------------------------------
(* What follows. *)

\* Type correctness of the eCPRI path.
THEOREM IqTypes == Spec => []TypeOK
<1>1. IInv => TypeOK
  BY Zenon DEF IInv
<1> QED
  BY <1>1, IqInductive, PTL

\* The buffers in use are those in the ring, the batch and the queue, whatever
\* becomes of their sections: none is lost and none is given back twice by
\* process_buffers(), worker_loop() or stop().
THEOREM BuffersAreConserved == Spec => []BuffersConserved
<1>1. IInv => BuffersConserved
  BY Zenon DEF IInv
<1> QED
  BY <1>1, IqInductive, PTL

\* prb_config_sent_ is true in a running session only when the codelet of this
\* load has the filter or finds it in its control input, whatever batches
\* outlived their stream before; excepted is a session that began while one of
\* them was between its send and the flag.
THEOREM FilterIsSentToThisLoad == Spec => []ConfigSentToThisLoad
<1>1. IInv => ConfigSentToThisLoad
  BY Zenon DEF IInv, SentInv, FilterIsThere, ConfigSentToThisLoad
<1> QED
  BY <1>1, IqInductive, PTL

\* Once E3SMSpectrum::stop() has returned, no indication is on its way.
THEOREM NothingIsSentAfterStop == Spec => []QuietAfterStop
<1>1. IInv => QuietAfterStop
  BY Zenon DEF IInv, ThreadInv, QuietAfterStop
<1> QED
  BY <1>1, IqInductive, PTL

-----------------------------------------------------------------------------
(* Refinement: start() and stop() keep the session contract of a pipeline.      *)

\* How far a session has come: the worker lives as long as running_ is set,
\* which it is from the end of start() to the middle of stop(), and the stream
\* is registered except in the last step of start() and after the first of
\* stop().
StepsInv ==
    /\ running => worker_pc # "none"
    /\ running /\ ctl_pc \notin {"register", "signal"} => registered
    /\ ctl_pc \in {"sm_up", "unregister", "signal"} \/ sm_running => running

sessionVars == <<Inside, loaded, running, worker_pc # "none", registered>>

\* Every step is a step of the session contract, or leaves alone what it
\* speaks of, and keeps the session in step with start() and stop().
LEMMA SessionRefined ==
    ASSUME IInv, StepsInv, [Next]_vars
    PROVE  [Session!Next]_sessionVars /\ StepsInv'
<1>0. ThreadInv
  BY Zenon DEF IInv
<1> USE DEF codeletVars, pollVars, workerVars, ctlVars, sessionVars, StepsInv, Inside
<1>1. CASE LoadCodelets
  <2>1. Session!StartCalled
    BY <1>1, <1>0, Zenon DEF LoadCodelets, Session!StartCalled, Session!Down, ThreadInv
  <2> QED
    BY <1>1, <1>0, <2>1, Zenon DEF LoadCodelets, Session!Next, ThreadInv
<1>2. CASE Boot
  <2>1. Session!Boot
    BY <1>2, <1>0, Zenon DEF Boot, Session!Boot, Session!Down, ThreadInv
  <2> QED
    BY <1>2, <1>0, <2>1, Zenon DEF Boot, Session!Next, ThreadInv
<1>3. CASE Register
  <2>1. Session!Register
    BY <1>3, <1>0, Zenon DEF Register, Session!Register, ThreadInv
  <2> QED
    BY <1>3, <1>0, <2>1, Zenon DEF Register, Session!Next, ThreadInv
<1>4. CASE SmUp
  BY <1>4, Zenon DEF SmUp
<1>5. CASE SmStop
  <2>1. Session!StopCalled
    BY <1>5, Zenon DEF SmStop, Session!StopCalled
  <2> QED
    BY <1>5, <2>1, Zenon DEF SmStop, Session!Next
<1>6. CASE Unregister
  <2>1. Session!Unregister
    BY <1>6, Zenon DEF Unregister, Session!Unregister, Session!Up
  <2> QED
    BY <1>6, <2>1, Zenon DEF Unregister, Session!Next
<1>7. CASE SignalWorker
  <2>1. ~registered /\ ~sm_running
    BY <1>7, <1>0, Zenon DEF SignalWorker, ThreadInv
  <2>2. Session!SignalWorker
    BY <1>7, <2>1, Zenon DEF SignalWorker, Session!SignalWorker
  <2> QED
    BY <1>7, <2>1, <2>2, Zenon DEF SignalWorker, Session!Next
<1>8. CASE JoinWorker
  BY <1>8, <1>0, Zenon DEF JoinWorker, ThreadInv
<1>9. CASE UnloadCodelets
  <2>1. ~running /\ worker_pc = "none" /\ ~registered /\ ~sm_running
    BY <1>9, <1>0, Zenon DEF UnloadCodelets, ThreadInv
  <2>2. loaded' = FALSE \/ loaded' = loaded
    BY <1>9, Zenon DEF UnloadCodelets
  <2>3. /\ ctl_pc = "unload" /\ ctl_pc' = "idle"
        /\ UNCHANGED <<running, worker_pc, registered>>
    BY <1>9, Zenon DEF UnloadCodelets
  <2>4. loaded' => loaded
    BY <2>2, Zenon
  <2>5. Inside = "stop" /\ Inside' = "none"
    BY <2>3, Zenon
  <2>6. (worker_pc # "none")' = (worker_pc # "none")
    BY <2>3, Zenon
  <2> HIDE DEF Inside
  <2>7. Session!StopReturns
    BY <2>1, <2>3, <2>4, <2>5, <2>6, Zenon DEF Session!StopReturns, Session!Down
  <2> QED
    BY <1>9, <2>1, <2>7, Zenon DEF UnloadCodelets, Session!Next
<1>10. CASE WorkerCheck
  <2>1. CASE running
    BY <1>10, <2>1, Zenon DEF WorkerCheck
  <2>2. CASE ~running
    <3>1. ctl_pc = "join"
      BY <1>10, <1>0, <2>2, Zenon DEF WorkerCheck, ThreadInv, IInv, TypeOK, CtlSteps
    <3>2. Session!WorkerExits
      BY <1>10, <2>2, <3>1, Zenon DEF WorkerCheck, Session!WorkerExits
    <3> QED
      BY <1>10, <2>2, <3>2, Zenon DEF WorkerCheck, Session!Next
  <2> QED
    BY <2>1, <2>2, Zenon
<1>11. CASE Decompress \/ Snapshot \/ Emit \/ WorkerRelease \/ WorkerAdvance
  <2>1. UNCHANGED <<loaded, ctlVars>>
    BY <1>11, Zenon DEF Decompress, Snapshot, Emit, WorkerRelease, WorkerAdvance
  <2>2. worker_pc # "none" /\ worker_pc' # "none"
    BY <1>11, Zenon DEF Decompress, Snapshot, Emit, WorkerRelease, WorkerAdvance
  <2> QED
    BY <2>1, <2>2, Zenon
<1>12. ASSUME UNCHANGED <<loaded, ctlVars, worker_pc>>
       PROVE  [Session!Next]_sessionVars /\ StepsInv'
  BY <1>12, Zenon
<1>13. CASE Codelet
  <2>1. UNCHANGED <<loaded, ctlVars, worker_pc>>
    BY <1>13, Zenon DEF Codelet, CodeletRun
  <2> QED
    BY <1>12, <2>1, Zenon
<1>14. CASE PollThread
  <2>1. UNCHANGED <<loaded, ctlVars, worker_pc>>
    BY <1>14, Zenon
       DEF PollThread, Poll, Lookup, SendPrbConfig, SendFails, MarkSent, Discard,
           DropBuf, Enqueue
  <2> QED
    BY <1>12, <2>1, Zenon
<1>15. CASE Subscribe \/ Unsubscribe \/ UNCHANGED vars
  <2>1. UNCHANGED <<loaded, ctlVars, worker_pc>>
    BY <1>15, Zenon DEF Subscribe, Unsubscribe, vars
  <2> QED
    BY <1>12, <2>1, Zenon
<1> QED
  BY <1>1, <1>2, <1>3, <1>4, <1>5, <1>6, <1>7, <1>8, <1>9, <1>10, <1>11, <1>13,
     <1>14, <1>15, Zenon DEF Next, Worker, Control, Start, Stop

\* IqPipeline keeps the session contract, whatever the poll thread, the worker
\* and the codelet do meanwhile: start() registers the stream last and over a
\* live worker, stop() returns only when the worker has ended, and the codelet
\* is loaded and unloaded only in between.
THEOREM IqKeepsSession == Spec => KeepsSession
<1>1. Init => Session!Init /\ StepsInv
  BY Zenon DEF Init, Session!Init, Session!Down, Inside, StepsInv
<1> QED
  BY <1>1, IqInductive, SessionRefined, PTL
  DEF Spec, KeepsSession, Session!Spec, Session!sessionVars, sessionVars
=============================================================================
