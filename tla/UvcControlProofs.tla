-------------------------- MODULE UvcControlProofs --------------------------
(***************************************************************************)
(* The control requests for every host: any requests, values and           *)
(* proposals, any number of waiting events, any frame table.               *)
(***************************************************************************)
EXTENDS UvcControl, TLAPS, SequenceTheorems, NaturalsInduction, WellFoundedInduction

-----------------------------------------------------------------------------
(* The inductive invariant.                                                *)

SetupEvent == [type : {"SETUP"}, r : Requests]
\* A value fits the bytes it came in.
DataEvent ==
  {e \in [type : {"DATA"}, r : Requests, len : 0 .. 64, val : Nat, ctrl : Proposal] :
     /\ e.r.req = "SET_CUR"
     /\ ~Negotiates(e.r) => Fits(e.val, e.len)}
\* STREAMOFF is an event of the whole gadget.
OtherEvent == [type : {"STREAMOFF"}]
AnyEvent == SetupEvent \cup DataEvent \cup OtherEvent

Transfer == [r : Request, phase : {"idle", "setup", "data"}, len : 0 .. 64]

\* Types of the kernel's queue and of the transfer under way.
Queues ==
  /\ events \in Seq(AnyEvent) /\ Len(events) <= MaxEvents
  /\ xfer \in Transfer
  /\ xfer.phase # "idle" => xfer.r \in Requests
  /\ xfer.phase = "data" => xfer.r.req = "SET_CUR"

\* dev->control and dev->pu_bmcontrol_val are what the SETUP packet r left.
Match(r) == /\ control = ControlAfter(r)
            /\ r.intf = "control" => pu_bmcontrol_val = r.cs

\* The last SETUP event among the first n is r; when there is none, r was the
\* last one to be handled.
Announced(n, r) ==
  \/ \E j \in 1 .. n :
       /\ events[j].type = "SETUP" /\ events[j].r = r
       /\ \A k \in j+1 .. n : events[k].type # "SETUP"
  \/ /\ \A k \in 1 .. n : events[k].type # "SETUP"
     /\ Match(r)

\* After n events a data stage of r comes, or may still come.
Expects(n, r) ==
  \/ n < Len(events) /\ events[n+1].type = "DATA" /\ events[n+1].r = r
  \/ n = Len(events) /\ xfer.phase # "idle" /\ xfer.r = r

\* A data stage follows its own SETUP packet, in the queue and under way.
Order == \A n \in Nat : \A r \in Requests : Expects(n, r) => Announced(n, r)

\* Types of the device.
DeviceTypes ==
  /\ control \in {0, UVC_VS_PROBE_CONTROL, UVC_VS_COMMIT_CONTROL}
  /\ pu_bmcontrol_val \in 0 .. 255
  /\ request_error_code \in {-1, 0, 6, 7}
  /\ probe \in Negotiated /\ commit \in Negotiated
  /\ sensor \in [brightness : Int, contrast : Int, refused : BOOLEAN]

\* What BrightnessFaithful says, of every state of the model.
Brightness ==
  /\ brightness_val \in PU_BRIGHTNESS_MIN_VAL .. PU_BRIGHTNESS_MAX_VAL
  /\ sensor.refused \/ sensor.brightness \in {-1, brightness_val}

IInv == DeviceTypes /\ Queues /\ Order /\ Brightness /\ NegotiatedExists

-----------------------------------------------------------------------------
(* Operators.                                                              *)

(* A set of numbers that is not empty has a least element.                 *)
LEMMA LeastIndex ==
  ASSUME NEW S \in SUBSET Nat, S # {}
  PROVE  \E i \in S : \A j \in S : i <= j
<1> DEFINE Less == OpToRel(<, Nat)
<1>1. IsWellFoundedOn(Less, Nat)
  BY NatLessThanWellFounded
<1>2. \A i, j \in Nat : j < i => <<j, i>> \in Less
  BY DEF OpToRel
<1> HIDE DEF Less
<1>3. \E i \in S : \A j \in S : ~ (<<j, i>> \in Less)
  BY <1>1, WFMin
<1>4. \A i, j \in S : i \in Nat /\ j \in Nat /\ (~ (j < i) => i <= j)
  OBVIOUS
<1> QED
  BY <1>2, <1>3, <1>4, Zenon

(* The loop over the intervals stops, and at the first place it can.       *)
LEMMA FirstStop ==
  ASSUME NEW f \in 1 .. Len(Frames), NEW want \in Nat
  PROVE  \E i \in 1 .. Len(Frames[f].intervals) :
           /\ PickInterval(f, want) = Frames[f].intervals[i]
           /\ Stops(f, want, i)
           /\ \A j \in 1 .. i-1 : ~Stops(f, want, j)
<1> DEFINE L == Len(Frames[f].intervals)
           found == {i \in 1 .. L : Stops(f, want, i)}
           First(i) == Stops(f, want, i) /\ \A j \in 1 .. i-1 : ~Stops(f, want, j)
<1>1. L \in Nat \ {0}
  BY TableAssumption
<1>2. Stops(f, want, L)
  BY DEF Stops
<1> HIDE DEF L
<1>3. found \in SUBSET Nat /\ found # {}
  BY <1>1, <1>2
<1>4. PICK i \in found : \A j \in found : i <= j
  BY <1>3, LeastIndex
<1>5. i \in 1 .. L /\ Stops(f, want, i) /\ \A j \in 1 .. i-1 : j \in 1 .. L /\ ~(i <= j)
  BY <1>1, <1>4
<1>6. First(i)
  BY <1>4, <1>5
<1>7. First(CHOOSE k \in 1 .. L : First(k)) /\ (CHOOSE k \in 1 .. L : First(k)) \in 1 .. L
  <2> HIDE DEF First
  <2> QED
    BY <1>5, <1>6
<1>8. PickInterval(f, want) = Frames[f].intervals[CHOOSE k \in 1 .. L : First(k)]
  BY DEF PickInterval, L
<1> QED
  BY <1>7, <1>8 DEF L

(* Sizes are numbers.                                                      *)
LEMMA Sizes == ASSUME NEW f \in 1 .. Len(Frames) PROVE FrameSize(f) \in Nat
<1>1. Frames[f].width \in Nat /\ Frames[f].height \in Nat
  BY TableAssumption
<1>2. \A w, h \in Nat : w * h * 2 \in Nat
  OBVIOUS
<1> QED
  BY <1>1, <1>2 DEF FrameSize

(* A clamped index lies in the table.                                      *)
LEMMA Clamps ==
  ASSUME NEW x \in Nat, NEW hi \in Nat \ {0} PROVE Clamp(x, 1, hi) \in 1 .. hi
BY DEF Clamp

\* A negotiated setting that the frame table has.
Exists(c) ==
  /\ \E i \in 1 .. Len(Frames[c.frame].intervals) : c.interval = Frames[c.frame].intervals[i]
  /\ c.size = FrameSize(c.frame)

(* Whatever is proposed, the answer is in the table.                       *)
LEMMA NegotiateFinds ==
  ASSUME NEW p \in Proposal
  PROVE  Negotiate(p) \in Negotiated /\ Exists(Negotiate(p))
<1>0. p.format \in Nat /\ p.frame \in Nat /\ p.interval \in Nat
  BY DEF Proposal
<1>1. PICK f \in 1 .. Len(Frames) : f = Clamp(p.frame, 1, Len(Frames))
  <2>1. Clamp(p.frame, 1, Len(Frames)) \in 1 .. Len(Frames)
    BY <1>0, Clamps, TableAssumption
  <2> QED
    BY <2>1
<1>2. Clamp(p.format, 1, 1) = 1
  <2>1. \A x \in Nat : Clamp(x, 1, 1) = 1
    BY DEF Clamp
  <2> QED
    BY <1>0, <2>1
<1>4. PICK i \in 1 .. Len(Frames[f].intervals) :
        /\ PickInterval(f, p.interval) = Frames[f].intervals[i]
        /\ Stops(f, p.interval, i)
        /\ \A j \in 1 .. i-1 : ~Stops(f, p.interval, j)
  BY <1>0, FirstStop, Zenon
<1>5. PickInterval(f, p.interval) \in Nat
  <2>1. \A k \in 1 .. Len(Frames[f].intervals) : Frames[f].intervals[k] \in Nat
    BY TableAssumption
  <2> QED
    BY <1>4, <2>1, Zenon
<1>6. Negotiate(p) = [format |-> 1, frame |-> f, interval |-> PickInterval(f, p.interval),
                      size |-> FrameSize(f)]
  BY <1>1, <1>2 DEF Negotiate
<1>7. FrameSize(f) \in Nat
  BY Sizes
<1> QED
  BY <1>4, <1>5, <1>6, <1>7 DEF Negotiated, Exists

(* The same of what init and GET_DEF use.                                  *)
LEMMA FillFinds ==
  ASSUME NEW f \in 1 .. Len(Frames)
  PROVE  FillStreamingControl(f) \in Negotiated /\ Exists(FillStreamingControl(f))
<1>1. 1 \in 1 .. Len(Frames[f].intervals) /\ Frames[f].intervals[1] \in Nat
  BY TableAssumption
<1> QED
  BY <1>1, Sizes DEF FillStreamingControl, Negotiated, Exists

(* A data stage that is cut short still proposes something.                *)
LEMMA ReceivedProposal ==
  ASSUME NEW p \in Proposal, NEW len \in 0 .. 64 PROVE Received(p, len) \in Proposal
<1>1. p.interval % 256 \in Nat /\ p.interval % 65536 \in Nat /\ p.interval % 16777216 \in Nat
  BY DEF Proposal
<1>2. Pow256(len - 4) \in {1, 256, 65536, 16777216} /\ p.interval % 1 \in Nat
  BY DEF Pow256, Proposal
<1>3. p.interval % Pow256(len - 4) \in Nat
  BY <1>1, <1>2
<1> QED
  BY <1>3 DEF Received, Proposal

(* memcpy of a value that passed the range test, over one that had passed  *)
(* it: the result passes it too.                                           *)
LEMMA OverwriteSafe ==
  \A old \in 0 .. 255, v \in 0 .. 255, len \in 0 .. 64 :
    Fits(v, len) => Overwrite(old, v, len) \in 0 .. 255
<1> SUFFICES ASSUME NEW old \in 0 .. 255, NEW v \in 0 .. 255, NEW len \in 0 .. 64, Fits(v, len)
             PROVE  Overwrite(old, v, len) \in 0 .. 255
  BY Zenon
<1>1. CASE len = 0
  BY <1>1 DEF Overwrite, Fits, Pow256
<1>2. CASE len = 1
  BY <1>2 DEF Overwrite, Pow256
<1>3. CASE len = 2
  BY <1>3 DEF Overwrite, Pow256
<1>4. CASE len = 3
  BY <1>4 DEF Overwrite, Pow256
<1>5. CASE len >= 4
  BY <1>5 DEF Overwrite
<1> QED
  BY <1>1, <1>2, <1>3, <1>4, <1>5

-----------------------------------------------------------------------------
(* The order of the events.                                                *)

(* The queue with an event more.                                           *)
LEMMA AppendEvent ==
  ASSUME events \in Seq(AnyEvent), NEW e \in AnyEvent, events' = Append(events, e)
  PROVE  /\ Len(events) \in Nat /\ Len(events') = Len(events) + 1
         /\ events' \in Seq(AnyEvent)
         /\ \A k \in 1 .. Len(events) : events'[k] = events[k]
         /\ events'[Len(events) + 1] = e
BY AppendProperties, LenProperties

(* What announced a data stage still does when another event has come.     *)
LEMMA AnnouncedKept ==
  ASSUME events \in Seq(AnyEvent), NEW e \in AnyEvent, events' = Append(events, e),
         UNCHANGED <<control, pu_bmcontrol_val>>,
         NEW n \in 0 .. Len(events), NEW r, Announced(n, r)
  PROVE  Announced(n, r)'
<1>1. Len(events) \in Nat /\ \A k \in 1 .. Len(events) : events'[k] = events[k]
  BY AppendEvent
<1>2. \A k \in 1 .. n : events'[k] = events[k]
  BY <1>1
<1>3. Match(r)' <=> Match(r)
  BY DEF Match
<1> QED
  BY <1>1, <1>2, <1>3 DEF Announced

(* A SETUP packet.                                                         *)
LEMMA OrderSetup ==
  ASSUME Queues, Order, NEW q \in Requests, HostSetup(q)
  PROVE  Order'
<1> DEFINE e == [type |-> "SETUP", r |-> q]
<1>1. events \in Seq(AnyEvent) /\ e \in AnyEvent /\ events' = Append(events, e)
  BY DEF Queues, HostSetup, AnyEvent, SetupEvent
<1>2. /\ Len(events) \in Nat /\ Len(events') = Len(events) + 1
      /\ \A k \in 1 .. Len(events) : events'[k] = events[k]
      /\ events'[Len(events) + 1] = e
  BY <1>1, AppendEvent
<1>3. e.type = "SETUP" /\ e.r = q
  OBVIOUS
<1> HIDE DEF e
<1> SUFFICES ASSUME NEW n \in Nat, NEW r \in Requests, Expects(n, r)' PROVE Announced(n, r)'
  BY DEF Order
<1>4. CASE n < Len(events)
  <2>1. events'[n+1] = events[n+1]
    BY <1>2, <1>4
  <2>2. Expects(n, r)
    BY <1>2, <1>4, <2>1 DEF Expects
  <2> QED
    BY <1>1, <1>2, <1>4, <2>2, AnnouncedKept DEF Order, HostSetup
<1>5. CASE n = Len(events)
  BY <1>2, <1>3, <1>5 DEF Expects
<1>6. CASE n > Len(events)
  <2>1. n = Len(events) + 1 /\ r = q
    BY <1>2, <1>6 DEF Expects, HostSetup
  <2>2. n \in 1 .. n /\ events'[n].type = "SETUP" /\ events'[n].r = r
        /\ \A k \in n+1 .. n : events'[k].type # "SETUP"
    BY <1>2, <1>3, <2>1
  <2> QED
    BY <2>2 DEF Announced
<1> QED
  BY <1>2, <1>4, <1>5, <1>6

(* An event that is no SETUP packet: the data stage of the transfer under  *)
(* way, or none at all.                                                    *)
LEMMA OrderAppend ==
  ASSUME Queues, Order, NEW e \in AnyEvent, events' = Append(events, e),
         UNCHANGED <<control, pu_bmcontrol_val>>, e.type # "SETUP",
         e.type = "DATA" => xfer.phase # "idle" /\ e.r = xfer.r,
         xfer'.phase # "idle" => xfer.phase # "idle" /\ xfer'.r = xfer.r
  PROVE  Order'
<1>1. /\ Len(events) \in Nat /\ Len(events') = Len(events) + 1
      /\ \A k \in 1 .. Len(events) : events'[k] = events[k]
      /\ events'[Len(events) + 1] = e /\ events \in Seq(AnyEvent)
  BY AppendEvent DEF Queues
<1> SUFFICES ASSUME NEW n \in Nat, NEW r \in Requests, Expects(n, r)' PROVE Announced(n, r)'
  BY DEF Order
<1>2. CASE n < Len(events)
  <2>1. events'[n+1] = events[n+1]
    BY <1>1, <1>2
  <2>2. Expects(n, r)
    BY <1>1, <1>2, <2>1 DEF Expects
  <2> QED
    BY <1>1, <1>2, <2>2, AnnouncedKept DEF Order
<1>3. CASE n = Len(events)
  <2>1. Expects(n, r)
    BY <1>1, <1>3 DEF Expects
  <2> QED
    BY <1>1, <1>3, <2>1, AnnouncedKept DEF Order
<1>4. CASE n > Len(events)
  <2>1. n = Len(events) + 1 /\ xfer.phase # "idle" /\ xfer.r = r
    BY <1>1, <1>4 DEF Expects
  <2>2. Expects(Len(events), r)
    BY <2>1 DEF Expects
  <2>3. PICK m \in Nat : m = Len(events)
    BY <1>1
  <2>4. Announced(m, r)
    BY <2>2, <2>3 DEF Order
  <2>5. Announced(m, r)'
    BY <1>1, <2>3, <2>4, AnnouncedKept
  <2>6. events'[m+1].type # "SETUP" /\ n = m+1
    BY <1>1, <2>1, <2>3
  <2>7. /\ \A k \in 1 .. n : k \in 1 .. m \/ k = m+1
        /\ \A j \in 1 .. m : j \in 1 .. n /\ \A k \in j+1 .. n : k \in j+1 .. m \/ k = m+1
    BY <2>3, <2>6
  <2> QED
    BY <2>5, <2>6, <2>7 DEF Announced
<1> QED
  BY <1>1, <1>2, <1>3, <1>4

(* The queue without its head.                                             *)
LEMMA TailEvent ==
  ASSUME events \in Seq(AnyEvent), events # << >>, events' = Tail(events)
  PROVE  /\ Len(events) \in Nat \ {0} /\ Len(events') = Len(events) - 1
         /\ events' \in Seq(AnyEvent)
         /\ \A k \in 1 .. Len(events) - 1 : events'[k] = events[k+1]
         /\ Event = events[1] /\ Event \in AnyEvent
BY HeadTailProperties, LenProperties, EmptySeq DEF Event

(* The gadget takes an event: a SETUP packet leaves its marks in dev, any  *)
(* other event leaves those that were there.                               *)
LEMMA OrderDequeue ==
  ASSUME Queues, Order, events # << >>, events' = Tail(events), NEW q,
         \/ Event.type = "SETUP" /\ q = Event.r /\ Match(q)'
         \/ Event.type # "SETUP" /\ UNCHANGED <<control, pu_bmcontrol_val>>,
         xfer'.phase # "idle" => xfer.phase # "idle" /\ xfer'.r = xfer.r
  PROVE  Order'
<1>1. /\ Len(events) \in Nat \ {0} /\ Len(events') = Len(events) - 1
      /\ \A k \in 1 .. Len(events) - 1 : events'[k] = events[k+1]
      /\ Event = events[1]
  BY TailEvent DEF Queues
<1> SUFFICES ASSUME NEW n \in Nat, NEW r \in Requests, Expects(n, r)' PROVE Announced(n, r)'
  BY DEF Order
<1>2. n <= Len(events) - 1
  <2>1. n < Len(events') \/ n = Len(events')
    BY DEF Expects
  <2>2. PICK l \in Nat : l = Len(events) /\ Len(events') = l - 1
    BY <1>1
  <2>3. n < l - 1 \/ n = l - 1
    BY <2>1, <2>2
  <2>4. n <= l - 1
    BY <2>3
  <2> QED
    BY <2>2, <2>4
<1>3. \A k \in 1 .. n : events'[k] = events[k+1]
  BY <1>1, <1>2
<1>4. Expects(n+1, r)
  <2>1. CASE n < Len(events')
    <3>1. events'[n+1] = events[n+2] /\ n+1 < Len(events) /\ (n+1)+1 = n+2
      BY <1>1, <2>1
    <3> QED
      BY <2>1, <3>1 DEF Expects
  <2>2. CASE ~(n < Len(events'))
    BY <1>1, <2>2 DEF Expects
  <2> QED
    BY <2>1, <2>2
<1>5. Announced(n+1, r)
  BY <1>4 DEF Order
<1>6. ASSUME NEW j \in 2 .. n+1, events[j].type = "SETUP", events[j].r = r,
             \A k \in j+1 .. n+1 : events[k].type # "SETUP"
      PROVE  Announced(n, r)'
  <2>0. j-1 \in 1 .. n /\ (j-1)+1 = j
    BY <1>6
  <2>1. j-1 \in 1 .. n /\ events'[j-1] = events[j]
    BY <1>3, <2>0
  <2>2. \A k \in (j-1)+1 .. n : k \in 1 .. n /\ k+1 \in j+1 .. n+1
    BY <1>6
  <2>3. \A k \in (j-1)+1 .. n : events'[k].type # "SETUP"
    BY <1>3, <1>6, <2>2
  <2> QED
    BY <1>6, <2>1, <2>3 DEF Announced
<1>7. ASSUME \A k \in 2 .. n+1 : events[k].type # "SETUP", Match(r)'
      PROVE  Announced(n, r)'
  <2>1. \A k \in 1 .. n : k+1 \in 2 .. n+1
    OBVIOUS
  <2>2. \A k \in 1 .. n : events'[k].type # "SETUP"
    BY <1>3, <1>7, <2>1
  <2> QED
    BY <1>7, <2>2 DEF Announced
<1>8. CASE \E j \in 1 .. n+1 :
             /\ events[j].type = "SETUP" /\ events[j].r = r
             /\ \A k \in j+1 .. n+1 : events[k].type # "SETUP"
  <2>1. PICK j \in 1 .. n+1 :
               /\ events[j].type = "SETUP" /\ events[j].r = r
               /\ \A k \in j+1 .. n+1 : events[k].type # "SETUP"
    BY <1>8
  <2>2. CASE j = 1
    <3>1. q = r /\ Match(q)'
      BY <1>1, <2>1, <2>2
    <3> QED
      BY <1>7, <2>1, <2>2, <3>1
  <2>3. CASE j # 1
    BY <1>6, <2>1, <2>3
  <2> QED
    BY <2>2, <2>3
<1>9. CASE (\A k \in 1 .. n+1 : events[k].type # "SETUP") /\ Match(r)
  <2>1. events[1].type # "SETUP" /\ \A k \in 2 .. n+1 : events[k].type # "SETUP"
    BY <1>9
  <2>2. Match(r)'
    BY <1>1, <1>9, <2>1 DEF Match
  <2> QED
    BY <1>7, <2>1, <2>2
<1> QED
  BY <1>5, <1>8, <1>9 DEF Announced

(* The data stage at the head of the queue finds what its SETUP left.      *)
LEMMA HeadMatches ==
  ASSUME Queues, Order, events # << >>, Event.type = "DATA"
  PROVE  Match(Event.r) /\ Event \in DataEvent
<1>1. events \in Seq(AnyEvent)
  BY DEF Queues
<1>2. Len(events) \in Nat \ {0} /\ Event = events[1] /\ Event \in AnyEvent
  BY <1>1, HeadTailProperties, LenProperties, EmptySeq DEF Event
<1>3. Event \in DataEvent
  BY <1>2 DEF AnyEvent, SetupEvent, OtherEvent
<1>4. PICK r \in Requests : r = Event.r
  BY <1>3 DEF DataEvent
<1>5. Expects(0, r)
  BY <1>2, <1>4 DEF Expects
<1>6. Announced(0, r)
  BY <1>5 DEF Order
<1>7. Match(r)
  BY <1>6 DEF Announced
<1> QED
  BY <1>3, <1>4, <1>7

-----------------------------------------------------------------------------
(* Answers.                                                                *)

(* The fields of a request have their types.                               *)
LEMMA RequestFields ==
  ASSUME NEW r \in Request
  PROVE  r.req \in Code /\ r.len \in 0 .. 64 /\ r.cs \in 0 .. 255 /\ r.entity \in 0 .. 255
BY DEF Request

(* The length of an answer.                                                *)
LEMMA ReplyLength == \A n, d : Reply(n, d).length = n
BY DEF Reply

(* The answer to a request of a unit has a length, and so has the answer   *)
(* to a request of the streaming interface.                                *)
LEMMA AnswerLengths ==
  ASSUME NEW r \in Request
  PROVE  ControlAnswer(r).length \in Int /\ StreamingAnswer(r).length \in Int
<1>0. r.req \in Code /\ r.len \in Int
  BY RequestFields
<1>1. STALL.length = -1
  BY DEF STALL
<1>2. AeMode(r).length \in Int
  BY <1>1, ReplyLength DEF AeMode
<1>3. ProcessingUnit(r).length \in Int
  BY <1>0, <1>1, ReplyLength DEF ProcessingUnit
<1>4. ControlAnswer(r).length \in Int
  BY <1>1, <1>2, <1>3, ReplyLength DEF ControlAnswer
<1>5. StreamingAnswer(r).length \in Int
  BY <1>0, <1>1, ReplyLength DEF StreamingAnswer, Code
<1> QED
  BY <1>4, <1>5

(* An answer ends the transfer under way or lets its data stage begin; it  *)
(* never starts another.                                                   *)
LEMMA ResponseTransfer ==
  ASSUME Queues, NEW resp, resp.length \in Int, SendResponse(resp)
  PROVE  /\ xfer' \in Transfer
         /\ xfer'.phase # "idle" => xfer.phase # "idle" /\ xfer'.r = xfer.r
         /\ xfer'.phase = "data" => xfer'.r.req = "SET_CUR"
<1>0. xfer \in Transfer /\ (xfer.phase = "data" => xfer.r.req = "SET_CUR")
  BY DEF Queues
<1>1. NoTransfer \in Transfer /\ NoTransfer.phase = "idle"
  BY DEF NoTransfer, Transfer, Request, Code
<1>2. CASE resp.length < 0
  <2>1. xfer' = NoTransfer
    BY <1>2 DEF SendResponse
  <2> QED
    BY <1>1, <2>1
<1>3. CASE resp.length >= 0 /\ xfer.phase # "setup"
  <2>1. xfer' = xfer
    BY <1>3 DEF SendResponse
  <2> QED
    BY <1>0, <2>1
<1>4. CASE resp.length >= 0 /\ xfer.phase = "setup"
  <2>1. CASE xfer.r.req = "SET_CUR"
    <3>1. PICK n \in Int : n = IF resp.length < xfer.r.len THEN resp.length ELSE xfer.r.len
      BY <1>0, RequestFields DEF Transfer
    <3>2. n \in 0 .. 64
      BY <1>0, <1>4, <3>1, RequestFields DEF Transfer
    <3>3. xfer' = [xfer EXCEPT !.phase = "data", !.len = n]
      BY <1>4, <2>1, <3>1 DEF SendResponse
    <3> QED
      BY <1>0, <1>4, <2>1, <3>2, <3>3 DEF Transfer
  <2>2. CASE xfer.r.req # "SET_CUR"
    <3>1. xfer' = NoTransfer
      BY <1>4, <2>2 DEF SendResponse
    <3> QED
      BY <1>1, <3>1
  <2> QED
    BY <2>1, <2>2
<1> QED
  BY <1>2, <1>3, <1>4

(* The queue after an event was taken.                                     *)
LEMMA QueuesDequeue ==
  ASSUME Queues, events # << >>, events' = Tail(events),
         \/ UNCHANGED xfer
         \/ \E resp : resp.length \in Int /\ SendResponse(resp)
  PROVE  /\ Queues'
         /\ xfer'.phase # "idle" => xfer.phase # "idle" /\ xfer'.r = xfer.r
<1>1. events' \in Seq(AnyEvent) /\ Len(events') <= MaxEvents
  <2>1. Len(events) \in Nat /\ Len(events') = Len(events) - 1 /\ events' \in Seq(AnyEvent)
    BY TailEvent DEF Queues
  <2>2. Len(events) <= MaxEvents /\ MaxEvents \in Nat
    BY HostAssumption DEF Queues
  <2>3. PICK l \in Nat : l = Len(events) /\ Len(events') = l - 1
    BY <2>1
  <2>4. l - 1 <= MaxEvents
    BY <2>2, <2>3
  <2> QED
    BY <2>1, <2>3, <2>4
<1>2. /\ xfer' \in Transfer
      /\ xfer'.phase # "idle" => xfer.phase # "idle" /\ xfer'.r = xfer.r
      /\ xfer'.phase = "data" => xfer'.r.req = "SET_CUR"
  <2>1. CASE UNCHANGED xfer
    BY <2>1 DEF Queues
  <2>2. CASE \E resp : resp.length \in Int /\ SendResponse(resp)
    BY <2>2, ResponseTransfer
  <2> QED
    BY <2>1, <2>2
<1> QED
  BY <1>1, <1>2 DEF Queues

-----------------------------------------------------------------------------
(* The steps.                                                              *)

(* memcpy over a part of a number leaves a number.                         *)
LEMMA OverwriteNumber ==
  ASSUME NEW old \in Nat, NEW v \in Nat, NEW len \in 0 .. 64
  PROVE  Overwrite(old, v, len) \in Int
<1>1. CASE len = 0
  BY <1>1 DEF Overwrite, Pow256
<1>2. CASE len = 1
  BY <1>2 DEF Overwrite, Pow256
<1>3. CASE len = 2
  BY <1>3 DEF Overwrite, Pow256
<1>4. CASE len = 3
  BY <1>4 DEF Overwrite, Pow256
<1>5. CASE len >= 4
  BY <1>5 DEF Overwrite
<1> QED
  BY <1>1, <1>2, <1>3, <1>4, <1>5

(* NegotiatedExists speaks of probe and commit alike.                      *)
LEMMA ExistsParts == NegotiatedExists <=> Exists(probe) /\ Exists(commit)
BY DEF NegotiatedExists, Exists

(* What uvc_open and uvc_events_init leave.                                *)
LEMMA InitInv == Init => IInv
<1> SUFFICES ASSUME Init PROVE IInv
  OBVIOUS
<1>1. 1 \in 1 .. Len(Frames)
  BY TableAssumption
<1>2. DeviceTypes
  BY <1>1, FillFinds DEF Init, DeviceTypes
<1>3. NegotiatedExists
  BY <1>1, FillFinds, ExistsParts DEF Init
<1>4. NoTransfer \in Transfer /\ NoTransfer.phase = "idle"
  BY DEF NoTransfer, Transfer, Request, Code
<1>5. events = << >> /\ Len(events) = 0 /\ events \in Seq(AnyEvent) /\ xfer = NoTransfer
  BY EmptySeq DEF Init
<1>6. Queues
  BY <1>4, <1>5, HostAssumption DEF Queues
<1>7. Order
  BY <1>4, <1>5 DEF Order, Expects
<1>8. Brightness
  BY DEF Init, Brightness, PU_BRIGHTNESS_MIN_VAL, PU_BRIGHTNESS_MAX_VAL
<1> QED
  BY <1>2, <1>3, <1>6, <1>7, <1>8 DEF IInv

(* A step of the host leaves the device alone.                             *)
LEMMA DeviceKept ==
  ASSUME DeviceTypes, Brightness, NegotiatedExists,
         UNCHANGED <<control, pu_bmcontrol_val, request_error_code, brightness_val, probe, commit,
                     sensor>>
  PROVE  DeviceTypes' /\ Brightness' /\ NegotiatedExists'
BY DEF DeviceTypes, Brightness, NegotiatedExists, FrameSize, Negotiated

(* The host sends a SETUP packet.                                          *)
LEMMA SetupInv == ASSUME IInv, NEW q \in Requests, HostSetup(q) PROVE IInv'
<1>0. DeviceTypes /\ Queues /\ Order /\ Brightness /\ NegotiatedExists
  BY DEF IInv
<1> DEFINE e == [type |-> "SETUP", r |-> q]
<1>1. events \in Seq(AnyEvent) /\ e \in AnyEvent /\ events' = Append(events, e)
  BY <1>0 DEF Queues, HostSetup, AnyEvent, SetupEvent
<1> HIDE DEF e
<1>2. /\ Len(events) \in Nat /\ Len(events') = Len(events) + 1 /\ events' \in Seq(AnyEvent)
  BY <1>1, AppendEvent
<1>3. Len(events') <= MaxEvents
  BY <1>2, HostAssumption DEF HostSetup
<1>4. xfer' \in Transfer /\ xfer'.r = q /\ xfer'.phase = "setup"
  BY HostAssumption DEF HostSetup, Transfer
<1>5. Queues'
  BY <1>2, <1>3, <1>4 DEF Queues
<1>6. Order'
  BY <1>0, OrderSetup
<1>7. DeviceTypes' /\ Brightness' /\ NegotiatedExists'
  BY <1>0, DeviceKept DEF HostSetup
<1> QED
  BY <1>5, <1>6, <1>7 DEF IInv

(* What the host appends is well-formed.                                   *)
LEMMA AppendInv ==
  ASSUME IInv, Len(events) < MaxEvents, NEW e \in AnyEvent, events' = Append(events, e),
         e.type # "SETUP", e.type = "DATA" => xfer.phase # "idle" /\ e.r = xfer.r,
         xfer' \in {xfer, NoTransfer},
         UNCHANGED <<control, pu_bmcontrol_val, request_error_code, brightness_val, probe, commit,
                     sensor>>
  PROVE  IInv'
<1>0. DeviceTypes /\ Queues /\ Order /\ Brightness /\ NegotiatedExists
  BY DEF IInv
<1>1. /\ Len(events) \in Nat /\ Len(events') = Len(events) + 1 /\ events' \in Seq(AnyEvent)
  BY <1>0, AppendEvent DEF Queues
<1>2. Len(events') <= MaxEvents
  BY <1>1, HostAssumption
<1>3. NoTransfer \in Transfer /\ NoTransfer.phase = "idle"
  BY DEF NoTransfer, Transfer, Request, Code
<1>4. Queues'
  BY <1>0, <1>1, <1>2, <1>3 DEF Queues
<1>5. Order'
  <2>1. xfer'.phase # "idle" => xfer.phase # "idle" /\ xfer'.r = xfer.r
    BY <1>3
  <2> QED
    BY <1>0, <2>1, OrderAppend
<1>6. DeviceTypes' /\ Brightness' /\ NegotiatedExists'
  BY <1>0, DeviceKept
<1> QED
  BY <1>4, <1>5, <1>6 DEF IInv

(* What the host sends as a data stage is an event of the transfer under way. *)
LEMMA DataStage ==
  ASSUME IInv, HostData PROVE \E e \in DataEvent : events' = Append(events, e) /\ e.r = xfer.r
<1>0. /\ xfer \in Transfer /\ xfer.phase = "data" /\ xfer.r \in Requests
      /\ xfer.r.req = "SET_CUR" /\ xfer.len \in 0 .. 64
  BY DEF IInv, Queues, HostData, Transfer
<1>1. CASE Negotiates(xfer.r)
  <2>1. PICK p \in Proposals :
          LET c == Received(p, xfer.len)
          IN  events' = Append(events, [type |-> "DATA", r |-> xfer.r, len |-> xfer.len,
                                        val |-> c.format * 65536 + c.frame * 16777216,
                                        ctrl |-> c])
    BY <1>1 DEF HostData
  <2>2. PICK c \in Proposal : c = Received(p, xfer.len)
    BY <1>0, HostAssumption, ReceivedProposal
  <2>3. PICK v \in Nat : v = c.format * 65536 + c.frame * 16777216
    <3>1. c.format \in Nat /\ c.frame \in Nat
      BY DEF Proposal
    <3>2. \A a, b \in Nat : a * 65536 + b * 16777216 \in Nat
      OBVIOUS
    <3> QED
      BY <3>1, <3>2
  <2>4. [type |-> "DATA", r |-> xfer.r, len |-> xfer.len, val |-> v, ctrl |-> c] \in DataEvent
    BY <1>0, <1>1 DEF DataEvent
  <2>5. events' = Append(events, [type |-> "DATA", r |-> xfer.r, len |-> xfer.len, val |-> v,
                                  ctrl |-> c])
    BY <2>1, <2>2, <2>3, SMT
  <2> QED
    BY <2>4, <2>5
<1>2. CASE ~Negotiates(xfer.r)
  <2>1. PICK v \in {w \in Values : Fits(w, xfer.len)} :
          events' = Append(events, [type |-> "DATA", r |-> xfer.r, len |-> xfer.len, val |-> v,
                                    ctrl |-> [format |-> 0, frame |-> 0, interval |-> 0]])
    BY <1>2 DEF HostData
  <2>2. v \in Nat /\ Fits(v, xfer.len)
    BY <2>1, HostAssumption
  <2>3. [format |-> 0, frame |-> 0, interval |-> 0] \in Proposal
    BY DEF Proposal
  <2>4. [type |-> "DATA", r |-> xfer.r, len |-> xfer.len, val |-> v,
         ctrl |-> [format |-> 0, frame |-> 0, interval |-> 0]] \in DataEvent
    BY <1>0, <1>2, <2>2, <2>3 DEF DataEvent
  <2> QED
    BY <2>1, <2>4
<1> QED
  BY <1>1, <1>2

(* The host sends a data stage.                                            *)
LEMMA DataInv == ASSUME IInv, HostData PROVE IInv'
<1>1. PICK e \in DataEvent : events' = Append(events, e) /\ e.r = xfer.r
  BY DataStage
<1>2. e \in AnyEvent /\ e.type = "DATA"
  BY DEF AnyEvent, DataEvent
<1> QED
  BY <1>1, <1>2, AppendInv DEF HostData

(* The gadget handles a SETUP packet.                                      *)
LEMMA AnswerInv == ASSUME IInv, SetupOther \/ SetupControl \/ SetupStreaming PROVE IInv'
<1>0. DeviceTypes /\ Queues /\ Order /\ Brightness /\ NegotiatedExists
  BY DEF IInv
<1>1. events # << >> /\ events' = Tail(events) /\ Event.type = "SETUP"
  BY DEF SetupOther, SetupControl, SetupStreaming, Dequeue
<1>2. Event \in AnyEvent
  BY <1>0, <1>1, TailEvent DEF Queues
<1>3. PICK q \in Request : q = Event.r
  BY <1>1, <1>2, HostAssumption DEF AnyEvent, SetupEvent, DataEvent, OtherEvent
<1>4. STALL.length \in Int
  BY DEF STALL
<1>5. /\ control' = ControlAfter(q)
      /\ q.intf = "control" => pu_bmcontrol_val' = q.cs
      /\ pu_bmcontrol_val' \in {pu_bmcontrol_val, q.cs}
      /\ UNCHANGED <<brightness_val, probe, commit, sensor>>
      /\ request_error_code' \in {request_error_code, ErrorCodeAfter(q)}
  BY <1>3 DEF SetupOther, SetupControl, SetupStreaming
<1>6. \E resp : resp.length \in Int /\ SendResponse(resp)
  BY <1>3, <1>4, AnswerLengths DEF SetupOther, SetupControl, SetupStreaming
<1>7. /\ Queues'
      /\ xfer'.phase # "idle" => xfer.phase # "idle" /\ xfer'.r = xfer.r
  BY <1>0, <1>1, <1>6, QueuesDequeue
<1>8. Match(q)'
  BY <1>5 DEF Match
<1>9. Order'
  BY <1>0, <1>1, <1>3, <1>7, <1>8, OrderDequeue
<1>10. DeviceTypes'
  <2>1. q.cs \in 0 .. 255
    BY RequestFields
  <2>2. control' \in {0, UVC_VS_PROBE_CONTROL, UVC_VS_COMMIT_CONTROL}
    BY <1>5 DEF ControlAfter, Negotiates
  <2>3. ErrorCodeAfter(q) \in {-1, 0, 6, 7}
    BY <1>0 DEF ErrorCodeAfter, DeviceTypes, IsErrorCode, IsAeMode, IsPu
  <2>4. request_error_code' \in {-1, 0, 6, 7}
    BY <1>0, <1>5, <2>3 DEF DeviceTypes
  <2>5. pu_bmcontrol_val' \in 0 .. 255
    BY <1>0, <1>5, <2>1 DEF DeviceTypes
  <2> QED
    BY <1>0, <1>5, <2>2, <2>4, <2>5 DEF DeviceTypes, Negotiated
<1>11. Brightness' /\ NegotiatedExists'
  BY <1>0, <1>5 DEF Brightness, NegotiatedExists, FrameSize
<1> QED
  BY <1>7, <1>9, <1>10, <1>11 DEF IInv

(* An event that is no SETUP packet is taken: the queue and its order.     *)
LEMMA TakeInv ==
  ASSUME IInv, events # << >>, events' = Tail(events), Event.type # "SETUP",
         UNCHANGED <<control, pu_bmcontrol_val>>,
         \/ UNCHANGED xfer
         \/ \E resp : resp.length \in Int /\ SendResponse(resp)
  PROVE  Queues' /\ Order'
<1>0. Queues /\ Order
  BY DEF IInv
<1>1. /\ Queues'
      /\ xfer'.phase # "idle" => xfer.phase # "idle" /\ xfer'.r = xfer.r
  BY <1>0, QueuesDequeue
<1>2. PICK q : q = 0
  OBVIOUS
<1>3. Order'
  BY <1>0, <1>1, <1>2, OrderDequeue
<1> QED
  BY <1>1, <1>3

(* PROBE and COMMIT.                                                       *)
LEMMA NegotiateInv == ASSUME IInv, DataProbe \/ DataCommit PROVE IInv'
<1>0. DeviceTypes /\ Queues /\ Order /\ Brightness /\ NegotiatedExists
  BY DEF IInv
<1>1. events # << >> /\ events' = Tail(events) /\ Event.type = "DATA"
  BY DEF DataProbe, DataCommit, Dequeue
<1>2. UNCHANGED <<control, pu_bmcontrol_val, request_error_code, brightness_val, sensor, xfer>>
  BY DEF DataProbe, DataCommit
<1>3. Queues' /\ Order'
  BY <1>1, <1>2, TakeInv
<1>4. Event.ctrl \in Proposal
  BY <1>0, <1>1, HeadMatches DEF DataEvent
<1>5. PICK c : c = Negotiate(Event.ctrl) /\ c \in Negotiated /\ Exists(c)
  BY <1>4, NegotiateFinds
<1>6. probe' \in {probe, c} /\ commit' \in {commit, c}
  BY <1>5 DEF DataProbe, DataCommit
<1>7. Exists(probe) /\ Exists(commit)
  BY <1>0, ExistsParts
<1>8. Exists(probe)' /\ Exists(commit)'
  <2>1. \A x : Exists(x) <=>
          /\ \E i \in 1 .. Len(Frames[x.frame].intervals) :
                x.interval = Frames[x.frame].intervals[i]
          /\ x.size = FrameSize(x.frame)
    BY DEF Exists
  <2> QED
    BY <1>5, <1>6, <1>7 DEF Exists, FrameSize
<1>9. NegotiatedExists'
  BY <1>8, ExistsParts, PTL
<1>10. DeviceTypes'
  BY <1>0, <1>2, <1>5, <1>6 DEF DeviceTypes, Negotiated
<1>11. Brightness'
  BY <1>0, <1>2 DEF Brightness
<1> QED
  BY <1>3, <1>9, <1>10, <1>11 DEF IInv

(* A value that fails the range test.                                      *)
LEMMA TooLargeInv == ASSUME IInv, DataTooLarge PROVE IInv'
<1>0. DeviceTypes /\ Brightness /\ NegotiatedExists
  BY DEF IInv
<1>1. events # << >> /\ events' = Tail(events) /\ Event.type = "DATA"
  BY DEF DataTooLarge, Dequeue
<1>2. STALL.length \in Int /\ SendResponse(STALL)
  BY DEF DataTooLarge, STALL
<1>3. Queues' /\ Order'
  BY <1>1, <1>2, TakeInv DEF DataTooLarge
<1>4. DeviceTypes' /\ Brightness' /\ NegotiatedExists'
  BY <1>0, DeviceKept DEF DataTooLarge
<1> QED
  BY <1>3, <1>4 DEF IInv

(* A value of the processing unit.                                         *)
LEMMA ControlInv == ASSUME IInv, DataControl PROVE IInv'
<1>0. DeviceTypes /\ Queues /\ Order /\ Brightness /\ NegotiatedExists
  BY DEF IInv
<1>1. events # << >> /\ events' = Tail(events) /\ Event.type = "DATA"
  BY DEF DataControl, Dequeue
<1>2. UNCHANGED <<control, pu_bmcontrol_val, request_error_code, probe, commit, xfer>>
  BY DEF DataControl
<1>3. Queues' /\ Order'
  BY <1>1, <1>2, TakeInv
<1>4. /\ Match(Event.r)
      /\ Event.r.req = "SET_CUR" /\ Event.len \in 0 .. 64 /\ Event.val \in Nat
      /\ ~Negotiates(Event.r) => Fits(Event.val, Event.len)
  BY <1>0, <1>1, HeadMatches DEF DataEvent
<1>5. ~Negotiates(Event.r)
  BY <1>4 DEF DataControl, Match, ControlAfter, Negotiates, UVC_VS_PROBE_CONTROL,
     UVC_VS_COMMIT_CONTROL
<1>6. Event.val <= 255
  BY DEF DataControl, Supported, PU_BRIGHTNESS_MAX_VAL
<1>7. brightness_val \in 0 .. 255
      /\ (sensor.refused \/ sensor.brightness \in {-1, brightness_val})
  BY <1>0 DEF Brightness, PU_BRIGHTNESS_MIN_VAL, PU_BRIGHTNESS_MAX_VAL
<1>8. PICK new : new = Overwrite(brightness_val, Event.val, Event.len) /\ new \in 0 .. 255
  <2>1. Event.val \in 0 .. 255 /\ Event.len \in 0 .. 64
    BY <1>4, <1>6
  <2>2. Fits(Event.val, Event.len)
    BY <1>4, <1>5, Zenon
  <2>3. Overwrite(brightness_val, Event.val, Event.len) \in 0 .. 255
    BY <1>7, <2>1, <2>2, OverwriteSafe, Zenon
  <2> QED
    BY <2>3, Zenon
<1>9. sensor \in [brightness : Int, contrast : Int, refused : BOOLEAN]
  BY <1>0 DEF DeviceTypes
<1>10. /\ sensor' \in [brightness : Int, contrast : Int, refused : BOOLEAN]
       /\ brightness_val' \in 0 .. 255
       /\ sensor'.refused \/ sensor'.brightness \in {-1, brightness_val'}
  <2>1. CASE /\ brightness_val' = new
             /\ sensor' = [sensor EXCEPT !.brightness = brightness_val', !.refused = FALSE]
    <3>1. new \in Int /\ brightness_val' \in 0 .. 255
      BY <1>8, <2>1
    <3>2. sensor' \in [brightness : Int, contrast : Int, refused : BOOLEAN]
      BY <1>9, <2>1, <3>1
    <3>3. sensor'.brightness = brightness_val'
      BY <1>9, <2>1
    <3> QED
      BY <3>1, <3>2, <3>3
  <2>4. CASE brightness_val' = new /\ sensor' = [sensor EXCEPT !.refused = TRUE]
    BY <1>8, <1>9, <2>4
  <2>2. CASE /\ \E garbage \in {0, Pow256(3)} :
                  sensor' = [sensor EXCEPT !.contrast = Overwrite(garbage, Event.val, Event.len)]
             /\ UNCHANGED brightness_val
    <3>1. PICK garbage \in {0, Pow256(3)} :
            sensor' = [sensor EXCEPT !.contrast = Overwrite(garbage, Event.val, Event.len)]
      BY <2>2
    <3>2. Overwrite(garbage, Event.val, Event.len) \in Int
      <4>1. Pow256(3) \in Nat
        BY SMT DEF Pow256
      <4> QED
        BY <1>4, <4>1, OverwriteNumber
    <3> QED
      BY <1>7, <1>9, <2>2, <3>1, <3>2
  <2>3. CASE UNCHANGED <<brightness_val, sensor>>
    BY <1>7, <1>9, <2>3
  <2> QED
    BY <1>8, <2>1, <2>2, <2>3, <2>4 DEF DataControl
<1>11. DeviceTypes'
  BY <1>0, <1>2, <1>10 DEF DeviceTypes, Negotiated
<1>12. Brightness'
  BY <1>10 DEF Brightness, PU_BRIGHTNESS_MIN_VAL, PU_BRIGHTNESS_MAX_VAL
<1>13. NegotiatedExists'
  BY <1>0, <1>2 DEF NegotiatedExists, FrameSize
<1> QED
  BY <1>3, <1>11, <1>12, <1>13 DEF IInv

(* A value that is too long: the model ends.                               *)
LEMMA OverrunInv == ASSUME IInv, DataOverrun PROVE IInv'
<1>0. DeviceTypes /\ Brightness /\ NegotiatedExists
  BY DEF IInv
<1>1. events # << >> /\ events' = Tail(events) /\ Event.type = "DATA"
  BY DEF DataOverrun, Dequeue
<1>2. Queues' /\ Order'
  BY <1>1, TakeInv DEF DataOverrun
<1>3. DeviceTypes' /\ Brightness' /\ NegotiatedExists'
  BY <1>0, DeviceKept DEF DataOverrun
<1> QED
  BY <1>2, <1>3 DEF IInv

(* A step that leaves the variables alone.                                 *)
LEMMA StutterInv == ASSUME IInv, UNCHANGED ctlVars PROVE IInv'
<1>0. DeviceTypes /\ Queues /\ Order /\ Brightness /\ NegotiatedExists
  BY DEF IInv
<1>1. DeviceTypes' /\ Brightness' /\ NegotiatedExists'
  BY <1>0, DeviceKept DEF ctlVars
<1>2. Queues'
  BY <1>0 DEF Queues, ctlVars
<1>3. Order'
  BY <1>0 DEF Order, Expects, Announced, Match, ctlVars
<1> QED
  BY <1>1, <1>2, <1>3 DEF IInv

(* Every step keeps the invariant.                                         *)
LEMMA InvStep == IInv /\ [Next]_ctlVars => IInv'
BY SetupInv, DataInv, AnswerInv, NegotiateInv, TooLargeInv, ControlInv, OverrunInv, StutterInv
DEF Next, Handle, Host, Gadget, Ended

(* The invariant holds in every reachable state.                           *)
LEMMA Inductive == Spec => []IInv
BY InitInv, InvStep, PTL DEF Spec

-----------------------------------------------------------------------------
(* The negotiation is the best possible.                                   *)

(* The loop over an ascending table ends at the best interval.             *)
LEMMA PicksBest ==
  ASSUME NEW f \in 1 .. Len(Frames), NEW want \in Nat
  PROVE  PickInterval(f, want) = BestInterval(f, want)
<1>0. PICK t : t = Frames[f].intervals
  OBVIOUS
<1>1. PICK L \in Nat \ {0} :
        /\ L = Len(Frames[f].intervals) /\ t = Frames[f].intervals
        /\ \A i \in 1 .. L : t[i] \in Nat
        /\ \A i, j \in 1 .. L : i <= j => t[i] <= t[j]
  BY <1>0, TableAssumption, AscendingAssumption
<1>2. PICK i \in 1 .. L :
        /\ PickInterval(f, want) = t[i] /\ Stops(f, want, i)
        /\ \A j \in 1 .. i-1 : ~Stops(f, want, j)
  BY <1>1, FirstStop
<1> DEFINE all == {t[k] : k \in 1 .. L}
           ok  == {v \in all : v >= want}
<1>3. t[i] >= want \/ i = L
  BY <1>1, <1>2 DEF Stops
<1>4. \A j \in 1 .. i-1 : j \in 1 .. L /\ ~(t[j] >= want)
  BY <1>1, <1>2 DEF Stops
<1>5. t[i] \in all /\ all \subseteq Nat
  BY <1>1
<1>6. BestInterval(f, want) = IF ok # {} THEN CHOOSE v \in ok : \A w \in ok : v <= w
                                         ELSE CHOOSE v \in all : \A w \in all : v >= w
  BY <1>1 DEF BestInterval
<1>7. CASE t[i] >= want
  <2>1. t[i] \in ok
    BY <1>5, <1>7
  <2>2. \A w \in ok : t[i] <= w
    <3> SUFFICES ASSUME NEW k \in 1 .. L, t[k] >= want PROVE t[i] <= t[k]
      OBVIOUS
    <3>1. i <= k
      BY <1>1, <1>4
    <3> QED
      BY <1>1, <3>1
  <2>a. ok \subseteq Nat
    BY <1>5
  <2> HIDE DEF ok
  <2>3. \A v \in ok : (\A w \in ok : v <= w) => v = t[i]
    <3> SUFFICES ASSUME NEW v \in ok, \A w \in ok : v <= w PROVE v = t[i]
      OBVIOUS
    <3>1. v \in Nat /\ t[i] \in Nat /\ v <= t[i] /\ t[i] <= v
      BY <2>a, <2>1, <2>2
    <3> QED
      BY <3>1
  <2>4. (CHOOSE v \in ok : \A w \in ok : v <= w) = t[i]
    BY <2>1, <2>2, <2>3
  <2> QED
    BY <1>2, <1>6, <2>1, <2>4
<1>8. CASE ~(t[i] >= want)
  <2>1. i = L /\ \A k \in 1 .. L : t[k] <= t[i]
    BY <1>1, <1>3, <1>8
  <2>2. ok = {}
    <3>1. \A k \in 1 .. L : ~(t[k] >= want)
      BY <1>1, <1>8, <2>1
    <3> QED
      BY <3>1
  <2>3. \A w \in all : t[i] >= w
    BY <1>1, <2>1
  <2> HIDE DEF all
  <2>4. \A v \in all : (\A w \in all : v >= w) => v = t[i]
    <3> SUFFICES ASSUME NEW v \in all, \A w \in all : v >= w PROVE v = t[i]
      OBVIOUS
    <3>1. v \in Nat /\ t[i] \in Nat /\ v >= t[i] /\ t[i] >= v
      BY <1>5, <2>3
    <3> QED
      BY <3>1
  <2>5. (CHOOSE v \in all : \A w \in all : v >= w) = t[i]
    BY <1>5, <2>3, <2>4
  <2> QED
    BY <1>2, <1>6, <2>2, <2>5
<1> QED
  BY <1>7, <1>8

(* An interval of the table is taken as it is.                             *)
LEMMA PicksOwn ==
  ASSUME NEW f \in 1 .. Len(Frames), NEW k \in 1 .. Len(Frames[f].intervals)
  PROVE  PickInterval(f, Frames[f].intervals[k]) = Frames[f].intervals[k]
<1>0. PICK t : t = Frames[f].intervals
  OBVIOUS
<1>1. PICK L \in Nat \ {0} :
        /\ L = Len(Frames[f].intervals) /\ t = Frames[f].intervals
        /\ \A i \in 1 .. L : t[i] \in Nat
        /\ \A i, j \in 1 .. L : i <= j => t[i] <= t[j]
  BY <1>0, TableAssumption, AscendingAssumption
<1>2. t[k] \in Nat /\ k \in 1 .. L
  BY <1>1
<1>3. PICK i \in 1 .. L :
        /\ PickInterval(f, t[k]) = t[i] /\ Stops(f, t[k], i)
        /\ \A j \in 1 .. i-1 : ~Stops(f, t[k], j)
  BY <1>1, <1>2, FirstStop
<1>4. t[i] >= t[k] \/ i = L
  BY <1>1, <1>3 DEF Stops
<1>5. \A j \in 1 .. i-1 : ~(t[j] >= t[k])
  BY <1>1, <1>3 DEF Stops
<1>6. t[k] >= t[k]
  BY <1>2
<1>7. i <= k
  BY <1>2, <1>5, <1>6
<1>8. t[i] <= t[k] /\ t[i] \in Nat
  BY <1>1, <1>2, <1>7
<1>9. t[i] = t[k]
  BY <1>2, <1>4, <1>7, <1>8
<1> QED
  BY <1>1, <1>3, <1>9

(* The order of the queue brings a data stage to its own SETUP packet.     *)
LEMMA OrderMatches == IInv => DataMatchesSetup
<1>1. ASSUME IInv, events # << >>, Event.type = "DATA"
      PROVE  /\ control = IF Negotiates(Event.r) THEN Event.r.cs ELSE 0
             /\ Event.r.intf = "control" => pu_bmcontrol_val = Event.r.cs
  BY <1>1, HeadMatches DEF IInv, Match, ControlAfter
<1> QED
  BY <1>1 DEF DataMatchesSetup

(* The data stage at the head of the queue makes a proposal.               *)
LEMMA HeadProposes ==
  ASSUME IInv, DataProbe \/ DataCommit
  PROVE  /\ Event.ctrl \in Proposal
         /\ Negotiate(Event.ctrl).frame \in 1 .. Len(Frames)
         /\ Negotiate(Event.ctrl).interval =
              PickInterval(Negotiate(Event.ctrl).frame, Event.ctrl.interval)
<1>1. Event.ctrl \in Proposal
  BY HeadMatches DEF IInv, DataProbe, DataCommit, Dequeue, DataEvent
<1>2. Negotiate(Event.ctrl) \in Negotiated
  BY <1>1, NegotiateFinds
<1>3. Negotiate(Event.ctrl).frame \in 1 .. Len(Frames)
  BY <1>2 DEF Negotiated
<1>4. Negotiate(Event.ctrl).interval =
        PickInterval(Negotiate(Event.ctrl).frame, Event.ctrl.interval)
  BY DEF Negotiate
<1> QED
  BY <1>1, <1>3, <1>4

-----------------------------------------------------------------------------
(* The theorems.                                                           *)

(* The device keeps its types: dev->control is never anything but PROBE,   *)
(* COMMIT or none, and the error code one that the code assigns.           *)
THEOREM TypeCorrect == Spec => []TypeOK
<1>1. ASSUME IInv, overrun \in BOOLEAN PROVE TypeOK
  <2>1. DeviceTypes /\ Queues /\ Brightness
    BY <1>1 DEF IInv
  <2>2. brightness_val \in Nat
    BY <2>1 DEF Brightness, PU_BRIGHTNESS_MIN_VAL, PU_BRIGHTNESS_MAX_VAL
  <2>3. xfer.phase \in {"idle", "setup", "data"} /\ Len(events) <= MaxEvents
    BY <2>1 DEF Queues, Transfer
  <2> QED
    BY <1>1, <2>1, <2>2, <2>3 DEF DeviceTypes, TypeOK
<1>2. Init => overrun \in BOOLEAN
  BY DEF Init
<1>3. overrun \in BOOLEAN /\ [Next]_ctlVars => (overrun \in BOOLEAN)'
  BY DEF Next, Handle, Host, Works, DataOverrun, Ended, ctlVars
<1> QED
  BY <1>1, <1>2, <1>3, Inductive, PTL DEF Spec

(* Whatever values any host sends, in data stages of whatever length, up   *)
(* to the first one that overruns the variable it is copied to:            *)
(* brightness_val stays in its range and is the sensor's unless the sensor *)
(* refused it.                                                             *)
THEOREM BrightnessSafe == Spec => []BrightnessFaithful
<1>1. IInv => BrightnessFaithful
  BY DEF IInv, Brightness, BrightnessFaithful
<1> QED
  BY <1>1, Inductive, PTL

(* However many transfers the host starts and gives up, and however many   *)
(* events wait, uvc_events_process_data meets the dev->control and the     *)
(* selector of the data stage's own SETUP packet.                          *)
THEOREM DataMeetsItsSetup == Spec => []DataMatchesSetup
BY OrderMatches, Inductive, PTL

(* probe and commit name an entry of the frame table with one of its       *)
(* intervals and its size, for every table and every proposal.             *)
THEOREM NegotiationSound == Spec => []NegotiatedExists
<1>1. IInv => NegotiatedExists
  BY DEF IInv
<1> QED
  BY <1>1, Inductive, PTL

(* The loop over any ascending interval table finds the best interval.     *)
THEOREM NegotiationOptimal == Spec => NegotiatesBest
<1>1. ASSUME IInv, [Next]_ctlVars
      PROVE  [/\ DataProbe => probe'.interval = BestInterval(probe'.frame, Event.ctrl.interval)
              /\ DataCommit => commit'.interval = BestInterval(commit'.frame, Event.ctrl.interval)
             ]_ctlVars
  <2>1. ASSUME DataProbe \/ DataCommit, NEW c, c = Negotiate(Event.ctrl)
        PROVE  c.interval = BestInterval(c.frame, Event.ctrl.interval)
    <3>1. /\ Event.ctrl.interval \in Nat /\ c.frame \in 1 .. Len(Frames)
          /\ c.interval = PickInterval(c.frame, Event.ctrl.interval)
      BY <1>1, <2>1, HeadProposes DEF Proposal
    <3> QED
      BY <3>1, PicksBest
  <2>2. DataProbe => probe' = Negotiate(Event.ctrl)
    BY DEF DataProbe
  <2>3. DataCommit => commit' = Negotiate(Event.ctrl)
    BY DEF DataCommit
  <2>4. PICK c : c = Negotiate(Event.ctrl)
    OBVIOUS
  <2>5. DataProbe => probe'.interval = BestInterval(probe'.frame, Event.ctrl.interval)
    BY <2>1, <2>2, <2>4
  <2>6. DataCommit => commit'.interval = BestInterval(commit'.frame, Event.ctrl.interval)
    BY <2>1, <2>3, <2>4
  <2> QED
    BY <2>5, <2>6
<1> QED
  BY <1>1, Inductive, PTL DEF Spec, NegotiatesBest

(* Negotiation is idempotent: what PROBE answered, COMMIT accepts as it    *)
(* is, for any ascending table.                                            *)
THEOREM ProbeIsFinal == Spec => ProbedCommits
<1>1. ASSUME IInv, DataCommit,
             Event.ctrl = [format |-> probe.format, frame |-> probe.frame,
                           interval |-> probe.interval]
      PROVE  commit' = probe
  <2>1. probe \in Negotiated /\ Exists(probe)
    BY <1>1, ExistsParts DEF IInv, DeviceTypes
  <2>2. PICK f \in 1 .. Len(Frames) : f = probe.frame
    BY <2>1 DEF Negotiated
  <2>3. PICK k \in 1 .. Len(Frames[f].intervals) : probe.interval = Frames[f].intervals[k]
    BY <2>1, <2>2 DEF Exists
  <2>4. probe.size = FrameSize(f) /\ probe.format = 1
    BY <2>1, <2>2 DEF Exists, Negotiated
  <2>5. Clamp(f, 1, Len(Frames)) = f /\ Clamp(1, 1, 1) = 1
    BY TableAssumption DEF Clamp
  <2>6. PickInterval(f, probe.interval) = probe.interval
    BY <2>3, PicksOwn
  <2>7. Event.ctrl.format = 1 /\ Event.ctrl.frame = f /\ Event.ctrl.interval = probe.interval
    BY <1>1, <2>2, <2>4
  <2>8. commit' = [format |-> 1, frame |-> f, interval |-> probe.interval, size |-> probe.size]
    BY <1>1, <2>4, <2>5, <2>6, <2>7 DEF DataCommit, Negotiate
  <2>9. probe = [format |-> 1, frame |-> f, interval |-> probe.interval, size |-> probe.size]
    BY <2>1, <2>2, <2>4 DEF Negotiated
  <2> QED
    BY <2>8, <2>9
<1>2. IInv /\ [Next]_ctlVars =>
        [DataCommit /\ Event.ctrl = [format |-> probe.format, frame |-> probe.frame,
                                     interval |-> probe.interval]
           => commit' = probe]_ctlVars
  BY <1>1
<1> QED
  BY <1>2, Inductive, PTL DEF Spec, ProbedCommits
=============================================================================
