--------------------------- MODULE CaptureProofs ---------------------------
(***************************************************************************)
(* Lemmas about the capture API and the capture loop, for every number of  *)
(* buffers: the types of the devices, and where the buffers are.           *)
(***************************************************************************)
EXTENDS CaptureLoop, TLAPS, SequenceTheorems

-----------------------------------------------------------------------------
(* Types.                                                                  *)

Devices ==
  /\ CaptureTypes
  /\ kqueue \in [Module -> Seq(BufIndex)] /\ kdone \in [Module -> Seq(BufIndex)]

(* A step of the device that changes its two queues only.                  *)
LEMMA QueuesType ==
  ASSUME Devices, kqueue' \in [Module -> Seq(BufIndex)], kdone' \in [Module -> Seq(BufIndex)],
         kstreaming' \in [Module -> BOOLEAN], qi' \in [Module -> 0 .. NBufs],
         UNCHANGED <<fd, mapped, n_buffers, status>>
  PROVE  Devices'
BY DEF Devices, CaptureTypes

(* The end of the process changes nothing else.                            *)
LEMMA EndsTypes == ASSUME Devices, Exit \/ Crash \/ UNCHANGED <<deviceVars, status>> PROVE Devices'
<1>1. UNCHANGED deviceVars /\ status' \in {"running", "success", "failure", "crashed"}
  BY DEF Exit, Crash, Devices, CaptureTypes
<1> QED
  BY <1>1 DEF deviceVars, Devices, CaptureTypes

(* Opening and setting up a device.                                        *)
LEMMA SetupTypes ==
  ASSUME Devices, NEW m \in Module, open_video_device(m) \/ init_video_device(m) \/ init_ends(m)
  PROVE  Devices'
<1>1. CASE open_video_device(m)
  BY <1>1 DEF open_video_device, Devices, CaptureTypes
<1>2. CASE init_video_device(m)
  BY <1>2 DEF init_video_device, Devices, CaptureTypes
<1>3. CASE init_ends(m)
  BY <1>3, EndsTypes DEF init_ends
<1> QED
  BY <1>1, <1>2, <1>3

(* start_video_capture queues valid indexes only.                          *)
LEMMA StartTypes ==
  ASSUME Devices, NEW m \in Module, start_qbuf(m) \/ start_streamon(m)
  PROVE  Devices'
<1>0. /\ qi \in [Module -> 0 .. NBufs] /\ n_buffers[m] \in {0, NBufs}
      /\ kqueue \in [Module -> Seq(BufIndex)] /\ kdone \in [Module -> Seq(BufIndex)]
      /\ kstreaming \in [Module -> BOOLEAN]
  BY DEF Devices, CaptureTypes
<1>1. CASE start_qbuf(m) /\ fd[m] = "open"
  <2>1. qi[m] \in BufIndex /\ qi[m] + 1 \in 0 .. NBufs
    BY <1>0, <1>1, CaptureAssumption DEF start_qbuf, More, BufIndex
  <2>2. Append(kqueue[m], qi[m]) \in Seq(BufIndex)
    BY <1>0, <2>1
  <2>3. kqueue' \in [Module -> Seq(BufIndex)]
    BY <1>0, <1>1, <2>2 DEF start_qbuf
  <2>4. qi' \in [Module -> 0 .. NBufs]
    BY <1>0, <1>1, <2>1 DEF start_qbuf
  <2> QED
    BY <1>0, <1>1, <2>3, <2>4, QueuesType DEF start_qbuf
<1>2. CASE start_streamon(m) /\ fd[m] = "open"
  BY <1>0, <1>2, QueuesType DEF start_streamon
<1>3. CASE fd[m] # "open"
  BY <1>3, EndsTypes DEF start_qbuf, start_streamon
<1> QED
  BY <1>1, <1>2, <1>3

(* Stopping and closing.                                                   *)
LEMMA StopTypes ==
  ASSUME Devices, NEW m \in Module, stop_video_capture(m) \/ uninit_and_close(m)
  PROVE  Devices'
<1>0. /\ kqueue \in [Module -> Seq(BufIndex)] /\ kdone \in [Module -> Seq(BufIndex)]
      /\ kstreaming \in [Module -> BOOLEAN] /\ qi \in [Module -> 0 .. NBufs]
      /\ << >> \in Seq(BufIndex)
  BY EmptySeq DEF Devices, CaptureTypes
<1>1. CASE stop_video_capture(m) /\ fd[m] = "open"
  <2>1. /\ kqueue' \in [Module -> Seq(BufIndex)] /\ kdone' \in [Module -> Seq(BufIndex)]
        /\ kstreaming' \in [Module -> BOOLEAN]
    BY <1>0, <1>1 DEF stop_video_capture
  <2> QED
    BY <1>0, <1>1, <2>1, QueuesType DEF stop_video_capture
<1>2. CASE uninit_and_close(m)
  <2>1. kqueue' \in [Module -> Seq(BufIndex)] /\ kdone' \in [Module -> Seq(BufIndex)]
    BY <1>0, <1>2 DEF uninit_and_close, close_video_device
  <2>2. kstreaming' \in [Module -> BOOLEAN]
    BY <1>0, <1>2 DEF uninit_and_close, close_video_device
  <2>3. mapped' \in [Module -> SUBSET BufIndex] /\ fd' \in [Module -> {"unset", "open", "closed"}]
    BY <1>2
    DEF uninit_and_close, uninit_video_device, close_video_device, Devices, CaptureTypes
  <2>4. UNCHANGED <<n_buffers, qi, status>>
    BY <1>2 DEF uninit_and_close
  <2> QED
    BY <2>1, <2>2, <2>3, <2>4 DEF Devices, CaptureTypes
<1>3. CASE fd[m] # "open" /\ stop_video_capture(m)
  BY <1>3, EndsTypes DEF stop_video_capture
<1> QED
  BY <1>1, <1>2, <1>3

(* Buffers that go round.                                                  *)
LEMMA FlowTypes ==
  ASSUME Devices, NEW m \in Module,
         DeviceFills(m) \/ Dqbuf(m) \/ \E b \in BufIndex : queue_capture(m, b)
  PROVE  Devices'
<1>0. /\ kqueue \in [Module -> Seq(BufIndex)] /\ kdone \in [Module -> Seq(BufIndex)]
      /\ kqueue[m] \in Seq(BufIndex) /\ kdone[m] \in Seq(BufIndex)
      /\ kstreaming \in [Module -> BOOLEAN] /\ qi \in [Module -> 0 .. NBufs]
  BY DEF Devices, CaptureTypes
<1>1. CASE DeviceFills(m)
  <2>1. /\ Tail(kqueue[m]) \in Seq(BufIndex)
        /\ Append(kdone[m], Head(kqueue[m])) \in Seq(BufIndex)
    BY <1>0, <1>1, HeadTailProperties, AppendProperties DEF DeviceFills
  <2>2. kqueue' \in [Module -> Seq(BufIndex)] /\ kdone' \in [Module -> Seq(BufIndex)]
    BY <1>0, <1>1, <2>1 DEF DeviceFills
  <2> QED
    BY <1>0, <1>1, <2>2, QueuesType DEF DeviceFills
<1>2. CASE Dqbuf(m)
  <2>1. Tail(kdone[m]) \in Seq(BufIndex)
    BY <1>0, <1>2, HeadTailProperties DEF Dqbuf
  <2>2. kdone' \in [Module -> Seq(BufIndex)]
    BY <1>0, <1>2, <2>1 DEF Dqbuf
  <2> QED
    BY <1>0, <1>2, <2>2, QueuesType DEF Dqbuf
<1>3. ASSUME NEW b \in BufIndex, queue_capture(m, b), fd[m] = "open" PROVE Devices'
  <2>0. Append(kqueue[m], b) \in Seq(BufIndex)
    BY <1>0, <1>3, AppendProperties
  <2>1. kqueue' \in [Module -> Seq(BufIndex)]
    BY <1>0, <1>3, <2>0 DEF queue_capture
  <2> QED
    BY <1>0, <1>3, <2>1, QueuesType DEF queue_capture
<1>4. CASE fd[m] # "open" /\ \E b \in BufIndex : queue_capture(m, b)
  BY <1>4, EndsTypes DEF queue_capture
<1> QED
  BY <1>1, <1>2, <1>3, <1>4

(* A step of a capture loop.                                               *)
LEMMA LoopTypes ==
  ASSUME Devices, buf \in [Module -> BufIndex], NEW m \in Module,
         NEW pc, NEW next, NEW exists, NEW after, Capture(m, pc, next, exists, after)
  PROVE  /\ Devices' /\ buf' \in [Module -> BufIndex]
         /\ next \in {"select", "dqbuf", "copy", after, "test"}
<1>1. CASE Select(m, pc, next) \/ SelectAgain(m, pc, next)
  BY <1>1, EndsTypes DEF Select, SelectAgain
<1>2. CASE Dequeue(m, pc, next)
  <2>1. CASE Exit /\ next = pc /\ UNCHANGED buf
    BY <1>2, <2>1, EndsTypes DEF Dequeue
  <2>2. CASE Dqbuf(m) /\ buf' = [buf EXCEPT ![m] = Head(kdone[m])] /\ next = "copy"
    <3>1. Head(kdone[m]) \in BufIndex
      BY <2>2, HeadTailProperties DEF Dqbuf, Devices, CaptureTypes
    <3> QED
      BY <2>2, <3>1, FlowTypes
  <2> QED
    BY <1>2, <2>1, <2>2 DEF Dequeue
<1>3. CASE Copy(m, pc, next, exists, after)
  BY <1>3, EndsTypes DEF Copy
<1>4. CASE Requeue(m, pc, next)
  BY <1>4, FlowTypes DEF Requeue
<1> QED
  BY <1>1, <1>2, <1>3, <1>4 DEF Capture

(* Descriptors and mappings stay: only opening, setting up and closing     *)
(* change them.                                                            *)
LEMMA KeepsOpen ==
  ASSUME NEW m, \/ Exit \/ Crash \/ UNCHANGED deviceVars
                \/ start_qbuf(m) \/ start_streamon(m) \/ stop_video_capture(m) \/ DeviceFills(m)
                \/ \E pc, next, exists, after : Capture(m, pc, next, exists, after)
  PROVE  UNCHANGED <<fd, mapped>>
<1>1. CASE Exit \/ Crash \/ UNCHANGED deviceVars
  BY <1>1 DEF Exit, Crash, deviceVars
<1>2. CASE start_qbuf(m) \/ start_streamon(m) \/ stop_video_capture(m) \/ DeviceFills(m)
  BY <1>2
  DEF start_qbuf, start_streamon, stop_video_capture, DeviceFills, Exit, deviceVars
<1>3. ASSUME NEW pc, NEW next, NEW exists, NEW after, Capture(m, pc, next, exists, after)
      PROVE  UNCHANGED <<fd, mapped>>
  BY <1>3
  DEF Capture, Select, SelectAgain, Dequeue, Copy, Requeue, Dqbuf, queue_capture, Exit, Crash,
      deviceVars
<1> QED
  BY <1>1, <1>2, <1>3

-----------------------------------------------------------------------------
(* Where the buffers are.                                                  *)

Elems(s) == {s[i] : i \in 1 .. Len(s)}

\* Queues q and d and what the thread holds have all buffers, each once.
Conserved(q, d, h) ==
  /\ Len(q) + Len(d) + Len(h) = NBufs
  /\ Elems(q) \cup Elems(d) \cup Elems(h) = BufIndex

(* The elements of a sequence that grows at its end, and of one that       *)
(* shrinks at its head.                                                    *)
LEMMA ElemsAppend ==
  ASSUME NEW S, NEW s \in Seq(S), NEW e \in S
  PROVE  /\ Elems(Append(s, e)) = Elems(s) \cup {e}
         /\ Len(Append(s, e)) = Len(s) + 1 /\ Len(s) \in Nat
BY AppendProperties, LenProperties DEF Elems

(* The elements of a sequence without its first.                           *)
LEMMA ElemsTail ==
  ASSUME NEW S, NEW s \in Seq(S), s # << >>
  PROVE  /\ Elems(s) = Elems(Tail(s)) \cup {Head(s)}
         /\ Len(Tail(s)) = Len(s) - 1 /\ Len(s) \in Nat
<1>1. /\ Len(s) \in Nat \ {0} /\ Tail(s) \in Seq(S)
      /\ Len(Tail(s)) = Len(s) - 1 /\ \A i \in 1 .. Len(Tail(s)) : Tail(s)[i] = s[i+1]
  BY HeadTailProperties, EmptySeq, LenProperties
<1>2. Head(s) = s[1]
  BY <1>1
<1>3. ASSUME NEW x \in Elems(s) PROVE x \in Elems(Tail(s)) \cup {Head(s)}
  <2>1. PICK i \in 1 .. Len(s) : x = s[i]
    BY DEF Elems
  <2>2. CASE i = 1
    BY <1>2, <2>1, <2>2
  <2>3. CASE i # 1
    <3>1. i-1 \in 1 .. Len(Tail(s)) /\ (i-1)+1 = i
      BY <1>1, <2>1, <2>3
    <3>2. x = Tail(s)[i-1]
      BY <1>1, <2>1, <3>1
    <3> QED
      BY <3>1, <3>2 DEF Elems
  <2> QED
    BY <2>2, <2>3
<1>4. ASSUME NEW x \in Elems(Tail(s)) \cup {Head(s)} PROVE x \in Elems(s)
  <2>1. CASE x = Head(s)
    BY <1>1, <1>2, <2>1 DEF Elems
  <2>2. CASE x \in Elems(Tail(s))
    <3>1. PICK i \in 1 .. Len(Tail(s)) : x = Tail(s)[i]
      BY <2>2 DEF Elems
    <3>2. i+1 \in 1 .. Len(s) /\ x = s[i+1]
      BY <1>1, <3>1
    <3> QED
      BY <3>2 DEF Elems
  <2> QED
    BY <2>1, <2>2
<1> QED
  BY <1>1, <1>3, <1>4

(* The elements of two sequences together.                                 *)
LEMMA ElemsConcat ==
  ASSUME NEW S, NEW s \in Seq(S), NEW t \in Seq(S)
  PROVE  /\ Elems(s \o t) = Elems(s) \cup Elems(t)
         /\ Len(s \o t) = Len(s) + Len(t) /\ s \o t \in Seq(S)
<1>1. /\ s \o t \in Seq(S) /\ Len(s \o t) = Len(s) + Len(t)
      /\ \A i \in 1 .. Len(s) + Len(t) :
           (s \o t)[i] = IF i <= Len(s) THEN s[i] ELSE t[i - Len(s)]
      /\ Len(s) \in Nat /\ Len(t) \in Nat
  BY ConcatProperties, LenProperties
<1>2. ASSUME NEW x \in Elems(s \o t) PROVE x \in Elems(s) \cup Elems(t)
  <2>1. PICK i \in 1 .. Len(s) + Len(t) : x = (s \o t)[i]
    BY <1>1 DEF Elems
  <2>2. CASE i <= Len(s)
    BY <1>1, <2>1, <2>2 DEF Elems
  <2>3. CASE ~(i <= Len(s))
    <3>1. i - Len(s) \in 1 .. Len(t) /\ x = t[i - Len(s)]
      BY <1>1, <2>1, <2>3
    <3> QED
      BY <3>1 DEF Elems
  <2> QED
    BY <2>2, <2>3
<1>3. ASSUME NEW x \in Elems(s) PROVE x \in Elems(s \o t)
  <2>1. PICK i \in 1 .. Len(s) : x = s[i]
    BY DEF Elems
  <2>2. i \in 1 .. Len(s) + Len(t) /\ x = (s \o t)[i]
    BY <1>1, <2>1
  <2> QED
    BY <1>1, <2>2 DEF Elems
<1>4. ASSUME NEW x \in Elems(t) PROVE x \in Elems(s \o t)
  <2>1. PICK i \in 1 .. Len(t) : x = t[i]
    BY DEF Elems
  <2>2. /\ Len(s) + i \in 1 .. Len(s) + Len(t) /\ ~(Len(s) + i <= Len(s))
        /\ (Len(s) + i) - Len(s) = i
    BY <1>1, <2>1
  <2>3. x = (s \o t)[Len(s) + i]
    BY <1>1, <2>1, <2>2
  <2> QED
    BY <1>1, <2>2, <2>3 DEF Elems
<1> QED
  BY <1>1, <1>2, <1>3, <1>4

(* The three sequences one after the other.                                *)
LEMMA ConservedAll ==
  ASSUME NEW q \in Seq(BufIndex), NEW d \in Seq(BufIndex), NEW h \in Seq(BufIndex),
         NEW all, all = q \o d \o h, Conserved(q, d, h)
  PROVE  Len(all) = NBufs /\ Elems(all) = BufIndex
<1>1. PICK qd \in Seq(BufIndex) :
        qd = q \o d /\ Len(qd) = Len(q) + Len(d) /\ Elems(qd) = Elems(q) \cup Elems(d)
  BY ElemsConcat
<1>2. Len(qd \o h) = Len(qd) + Len(h) /\ Elems(qd \o h) = Elems(qd) \cup Elems(h)
  BY ElemsConcat
<1>3. Len(qd \o h) = NBufs /\ Elems(qd \o h) = BufIndex
  BY <1>1, <1>2 DEF Conserved
<1> QED
  BY <1>1, <1>3

(* The device fills a buffer; DQBUF takes one; QBUF gives it back.         *)
LEMMA ConservedFill ==
  ASSUME NEW q \in Seq(BufIndex), NEW d \in Seq(BufIndex), NEW h \in Seq(BufIndex),
         q # << >>, Conserved(q, d, h)
  PROVE  Conserved(Tail(q), Append(d, Head(q)), h)
<1>1. Head(q) \in BufIndex /\ Len(h) \in Nat
  BY HeadTailProperties, LenProperties
<1>2. /\ Elems(q) = Elems(Tail(q)) \cup {Head(q)} /\ Len(Tail(q)) = Len(q) - 1 /\ Len(q) \in Nat
      /\ Elems(Append(d, Head(q))) = Elems(d) \cup {Head(q)}
      /\ Len(Append(d, Head(q))) = Len(d) + 1 /\ Len(d) \in Nat
  BY <1>1, ElemsTail, ElemsAppend
<1>3. Len(Tail(q)) + Len(Append(d, Head(q))) + Len(h) = NBufs
  BY <1>1, <1>2 DEF Conserved
<1>4. Elems(Tail(q)) \cup Elems(Append(d, Head(q))) \cup Elems(h) = BufIndex
  BY <1>2 DEF Conserved
<1> QED
  BY <1>3, <1>4 DEF Conserved

(* The elements of a sequence of one, and of none.                         *)
LEMMA ElemsSingle == ASSUME NEW e PROVE Elems(<<e>>) = {e} /\ Elems(<< >>) = {}
BY DEF Elems

(* A buffer that leaves one queue for a thread is conserved.               *)
LEMMA ConservedTake ==
  ASSUME NEW q \in Seq(BufIndex), NEW d \in Seq(BufIndex), d # << >>, Conserved(q, d, << >>)
  PROVE  Conserved(q, Tail(d), <<Head(d)>>)
<1>1. /\ Elems(d) = Elems(Tail(d)) \cup {Head(d)} /\ Len(Tail(d)) = Len(d) - 1
      /\ Len(d) \in Nat /\ Len(q) \in Nat
  BY ElemsTail, LenProperties
<1>2. Len(q) + Len(Tail(d)) + Len(<<Head(d)>>) = NBufs
  BY <1>1 DEF Conserved
<1>3. Elems(q) \cup Elems(Tail(d)) \cup Elems(<<Head(d)>>) = BufIndex
  BY <1>1, ElemsSingle DEF Conserved
<1> QED
  BY <1>2, <1>3 DEF Conserved

(* A buffer that a thread gives to a queue is conserved.                   *)
LEMMA ConservedGive ==
  ASSUME NEW q \in Seq(BufIndex), NEW d \in Seq(BufIndex), NEW b \in BufIndex,
         Conserved(q, d, <<b>>)
  PROVE  Conserved(Append(q, b), d, << >>)
<1>1. /\ Elems(Append(q, b)) = Elems(q) \cup {b} /\ Len(Append(q, b)) = Len(q) + 1
      /\ Len(q) \in Nat /\ Len(d) \in Nat
  BY ElemsAppend, LenProperties
<1>2. Len(Append(q, b)) + Len(d) + Len(<< >>) = NBufs
  BY <1>1 DEF Conserved
<1>3. Elems(Append(q, b)) \cup Elems(d) \cup Elems(<< >>) = BufIndex
  BY <1>1, ElemsSingle DEF Conserved
<1> QED
  BY <1>2, <1>3 DEF Conserved

\* What start_video_capture has queued after n rounds of its loop.
Queued(n) == [i \in 1 .. n |-> i-1]

(* Its loop queues one more, and all of them in the end.                   *)
LEMMA QueuedNext ==
  ASSUME NEW n \in 0 .. NBufs-1 PROVE Queued(n+1) = Append(Queued(n), n)
<1>0. n \in Nat
  BY CaptureAssumption
<1>1. Queued(n) \in Seq(Int) /\ Queued(n+1) \in Seq(Int) /\ Len(Queued(n)) = n
      /\ Len(Queued(n+1)) = n+1
  BY <1>0 DEF Queued
<1>2. Append(Queued(n), n) \in Seq(Int) /\ Len(Append(Queued(n), n)) = n+1
      /\ \A i \in 1 .. n : Append(Queued(n), n)[i] = Queued(n)[i]
      /\ Append(Queued(n), n)[n+1] = n
  BY <1>0, <1>1, AppendProperties
<1>3. \A i \in 1 .. n+1 : Queued(n+1)[i] = Append(Queued(n), n)[i]
  BY <1>0, <1>2 DEF Queued
<1> QED
  BY <1>1, <1>2, <1>3, SeqEqual

(* After the QBUF of every buffer all of them are conserved.               *)
LEMMA QueuedAll == Conserved(Queued(NBufs), << >>, << >>)
<1>0. NBufs \in Nat
  BY CaptureAssumption
<1>1. Len(Queued(NBufs)) = NBufs
  BY <1>0 DEF Queued
<1>2. Elems(Queued(NBufs)) = BufIndex
  <2>1. \A x \in BufIndex : x+1 \in 1 .. NBufs /\ Queued(NBufs)[x+1] = x
    BY <1>0 DEF Queued, BufIndex
  <2>2. \A i \in 1 .. NBufs : Queued(NBufs)[i] \in BufIndex
    BY <1>0 DEF Queued, BufIndex
  <2> QED
    BY <1>1, <2>1, <2>2 DEF Elems
<1>3. Len(Queued(NBufs)) + Len(<< >>) + Len(<< >>) = NBufs
  BY <1>0, <1>1
<1>4. Elems(Queued(NBufs)) \cup Elems(<< >>) \cup Elems(<< >>) = BufIndex
  BY <1>2, ElemsSingle
<1> QED
  BY <1>3, <1>4 DEF Conserved

-----------------------------------------------------------------------------
(* One step, one device.                                                   *)

\* Nothing that the buffers of device k depend on changes.
SameDevice(k) ==
  /\ kstreaming'[k] = kstreaming[k] /\ kqueue'[k] = kqueue[k] /\ kdone'[k] = kdone[k]
  /\ qi'[k] = qi[k] /\ n_buffers'[k] = n_buffers[k]

(* An operation on device m leaves the other device alone.                 *)
LEMMA OtherDevice ==
  ASSUME Devices, NEW m \in Module, NEW k \in Module, k # m,
         \/ open_video_device(m) \/ init_video_device(m) \/ init_ends(m)
         \/ start_qbuf(m) \/ start_streamon(m) \/ DeviceFills(m) \/ Exit \/ UNCHANGED deviceVars
  PROVE  SameDevice(k)
<1>0. /\ kqueue \in [Module -> Seq(BufIndex)] /\ kdone \in [Module -> Seq(BufIndex)]
      /\ n_buffers \in [Module -> {0, NBufs}] /\ qi \in [Module -> 0 .. NBufs]
      /\ kstreaming \in [Module -> BOOLEAN]
  BY DEF Devices, CaptureTypes
<1>1. CASE open_video_device(m) \/ init_ends(m) \/ Exit \/ UNCHANGED deviceVars
  BY <1>1 DEF open_video_device, init_ends, Exit, Crash, deviceVars, SameDevice
<1>2. CASE init_video_device(m)
  BY <1>0, <1>2 DEF init_video_device, SameDevice
<1>3. CASE start_qbuf(m) \/ start_streamon(m)
  BY <1>0, <1>3 DEF start_qbuf, start_streamon, Exit, deviceVars, SameDevice
<1>4. CASE DeviceFills(m)
  BY <1>0, <1>4 DEF DeviceFills, SameDevice
<1> QED
  BY <1>1, <1>2, <1>3, <1>4

(* A step of one camera leaves the other one alone.                        *)
LEMMA OtherLoop ==
  ASSUME Devices, buf \in [Module -> BufIndex], NEW m \in Module, NEW k \in Module, k # m,
         NEW pc, NEW next, NEW exists, NEW after, Capture(m, pc, next, exists, after)
  PROVE  SameDevice(k) /\ buf'[k] = buf[k]
<1>0. kqueue \in [Module -> Seq(BufIndex)] /\ kdone \in [Module -> Seq(BufIndex)]
  BY DEF Devices
<1>1. CASE Select(m, pc, next) \/ SelectAgain(m, pc, next) \/ Copy(m, pc, next, exists, after)
  BY <1>1 DEF Select, SelectAgain, Copy, Crash, deviceVars, SameDevice
<1>2. CASE Dequeue(m, pc, next)
  BY <1>0, <1>2 DEF Dequeue, Exit, Dqbuf, deviceVars, SameDevice
<1>3. CASE Requeue(m, pc, next)
  BY <1>0, <1>3 DEF Requeue, queue_capture, Exit, deviceVars, SameDevice
<1> QED
  BY <1>1, <1>2, <1>3 DEF Capture

\* What a thread at pc holds when its v4l2_buffer has index b.
Holds(b, pc) == IF pc \in {"copy", "send", "qbuf"} THEN <<b>> ELSE << >>

(* The capture loop loses no buffer of its device.                         *)
LEMMA LoopConserves ==
  ASSUME Devices, buf \in [Module -> BufIndex], NEW m \in Module,
         NEW pc, NEW next, NEW exists, NEW after \in {"send", "qbuf"},
         Capture(m, pc, next, exists, after), status' = "running",
         kstreaming[m] => Conserved(kqueue[m], kdone[m], Holds(buf[m], pc))
  PROVE  /\ kstreaming' = kstreaming
         /\ kstreaming[m] => Conserved(kqueue'[m], kdone'[m], Holds(buf'[m], next))
<1>0. /\ kqueue \in [Module -> Seq(BufIndex)] /\ kdone \in [Module -> Seq(BufIndex)]
      /\ kqueue[m] \in Seq(BufIndex) /\ kdone[m] \in Seq(BufIndex) /\ buf[m] \in BufIndex
  BY DEF Devices
<1>1. CASE Select(m, pc, next) \/ SelectAgain(m, pc, next)
  BY <1>1 DEF Select, SelectAgain, deviceVars, Holds
<1>2. CASE Copy(m, pc, next, exists, after)
  BY <1>2 DEF Copy, Crash, deviceVars, Holds
<1>3. CASE Dequeue(m, pc, next)
  <2>1. /\ Dqbuf(m) /\ pc = "dqbuf" /\ next = "copy"
        /\ buf' = [buf EXCEPT ![m] = Head(kdone[m])]
    BY <1>3 DEF Dequeue, Exit
  <2>2. /\ kdone[m] # << >> /\ kstreaming' = kstreaming /\ kqueue' = kqueue
        /\ kdone'[m] = Tail(kdone[m]) /\ buf'[m] = Head(kdone[m])
    BY <1>0, <2>1 DEF Dqbuf
  <2>3. Holds(buf[m], pc) = << >> /\ Holds(buf'[m], next) = <<Head(kdone[m])>>
    BY <2>1, <2>2 DEF Holds
  <2> QED
    BY <1>0, <2>2, <2>3, ConservedTake
<1>4. CASE Requeue(m, pc, next)
  <2>1. /\ pc = "qbuf" /\ next = "test" /\ buf' = buf
        /\ kqueue'[m] = Append(kqueue[m], buf[m]) /\ kdone' = kdone /\ kstreaming' = kstreaming
    BY <1>0, <1>4 DEF Requeue, queue_capture, Exit
  <2>2. Holds(buf[m], pc) = <<buf[m]>> /\ Holds(buf'[m], next) = << >>
    BY <2>1 DEF Holds
  <2> QED
    BY <1>0, <2>1, <2>2, ConservedGive
<1> QED
  BY <1>1, <1>2, <1>3, <1>4 DEF Capture
=============================================================================
