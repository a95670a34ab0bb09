--------------------------- MODULE EventIngestProofs ---------------------------
(***************************************************************************)
(* Proofs about EventIngest, for any number of pumps, attempts, events and *)
(* faults: the session log is a faithful copy of what the worker recorded, *)
(* a pump that reports completion has stored everything, and the log with  *)
(* its checkpoint implements OrderedCopy.                                  *)
(*                                                                         *)
(* None of this is inductive by itself.  Streams says what each stream     *)
(* carries: three consecutive stretches, on the wire, left of the replay   *)
(* and in the live channel, each going on where the one before it ends.    *)
(* Accepted says that what a pump has accepted is stored, and LogEnds that *)
(* the log has nothing beyond its checkpoint.                              *)
(***************************************************************************)
EXTENDS EventIngest, SequenceTheorems, TLAPS

(* The types of a stream and of a pump. *)
StreamType == [attempt : Attempt \cup {0}, replay : Seq(EventSeq),
               live : Seq(EventSeq), open : BOOLEAN, sent : 0 .. MaxEvents, wire : Seq(EventSeq),
               end : {"no", "eof", "broken", "protocol_error", "closed"}]
PumpType == [pc : {"idle", "load", "open", "read", "inspect", "retry", "done", "recover"},
             reference : Attempt \cup {0}, accepted : 0 .. MaxEvents, cause : {"none", "eof", "error"}]

(* The elements of s are k + 1, k + 2, ... *)
From(s, k) == \A i \in 1 .. Len(s) : s[i] = k + i

Carried(s) == Len(s.wire) + Len(s.replay) + Len(s.live)

(* What the stream s of a reading pump q carries, of an attempt that has   *)
(* recorded n events. *)
Follows(s, q, n) ==
  /\ s.attempt = q.reference /\ s.end \in {"no", "eof", "broken"}
  /\ From(s.wire, q.accepted)
  /\ From(s.replay, q.accepted + Len(s.wire))
  /\ From(s.live, q.accepted + Len(s.wire) + Len(s.replay))
  /\ s.end = "no" => s.sent = q.accepted + Len(s.wire)
  /\ s.end # "no" => s.replay = <<>> /\ s.live = <<>> /\ ~s.open
  /\ q.accepted + Carried(s) <= n
  /\ s.open => q.accepted + Carried(s) = n

(* A stream belongs to a pump that reads it. *)
StreamOf(p) == IF pump[p].pc = "read" THEN Follows(stream[p], pump[p], latest[stream[p].attempt])
               ELSE stream[p] = NoStream
Streams == \A p \in Pumps : StreamOf(p)

(* A pump at work has an attempt, and what it accepted is stored. *)
Accepted ==
  \A p \in Pumps :
    /\ pump[p].pc \in {"open", "read", "inspect", "done"} => pump[p].reference \in Attempt
    /\ \A n \in 1 .. pump[p].accepted : Found(pump[p].reference, n)

(* The log goes no further than its checkpoint. *)
LogEnds ==
  \A i \in DOMAIN log :
    \/ log[i].attempt < checkpoint.attempt
    \/ log[i].attempt = checkpoint.attempt /\ log[i].seq <= checkpoint.last

(* A turn is admitted only where there is a next attempt. *)
AdmissionHasNext == admission # NoAdmission => admission.attempt < MaxAttempt

IInv == TypeOK /\ Streams /\ Accepted /\ LogEnds /\ AdmissionHasNext /\ FaithfulCopy /\ CompletionIsComplete

----------------------------------------------------------------------------
(* Consecutive stretches.                                                  *)

(* Nothing is a stretch from anywhere. *)
LEMMA FromEmpty == ASSUME NEW k PROVE From(<<>>, k)
  BY DEF From

(* A stretch goes on by its next element. *)
LEMMA FromAppend ==
  ASSUME NEW s \in Seq(EventSeq), NEW k \in Nat, From(s, k), k + Len(s) + 1 \in EventSeq
  PROVE  From(Append(s, k + Len(s) + 1), k)
  BY AppendProperties DEF From

(* Without its first element it starts one later. *)
LEMMA FromTail ==
  ASSUME NEW s \in Seq(EventSeq), NEW k \in Nat, From(s, k), s # <<>>
  PROVE  Head(s) = k + 1 /\ From(Tail(s), k + 1)
  BY HeadTailProperties, EmptySeq DEF From

(* Its beginning is a stretch from the same place. *)
LEMMA FromPrefix ==
  ASSUME NEW s \in Seq(EventSeq), NEW k \in Nat, From(s, k), NEW j \in 0 .. Len(s)
  PROVE  SubSeq(s, 1, j) \in Seq(EventSeq) /\ Len(SubSeq(s, 1, j)) = j /\ From(SubSeq(s, 1, j), k)
  <1>1. \A i \in 1 .. j : s[i] \in EventSeq BY ElementOfSeq
  <1>2. j \in Int /\ 1 \in Int OBVIOUS
  <1>3. SubSeq(s, 1, j) \in Seq(EventSeq)
    BY <1>1, <1>2, SubSeqProperties
  <1>4. Len(SubSeq(s, 1, j)) = IF 1 <= j THEN j - 1 + 1 ELSE 0
    BY <1>1, <1>2, SubSeqProperties
  <1>5. \A i \in 1 .. j - 1 + 1 : SubSeq(s, 1, j)[i] = s[1 + i - 1]
    BY <1>1, <1>2, SubSeqProperties
  <1> QED BY <1>3, <1>4, <1>5 DEF From

(* What a worker replays after a cursor is a stretch from there. *)
LEMMA FromReplay ==
  ASSUME NEW n \in 0 .. MaxEvents, NEW k \in 0 .. n
  PROVE  LET r == [i \in 1 .. (n - k) |-> k + i]
         IN  r \in Seq(EventSeq) /\ Len(r) = n - k /\ From(r, k)
  <1> DEFINE r == [i \in 1 .. (n - k) |-> k + i]
  <1>1. r \in [1 .. (n - k) -> EventSeq] BY BoundsAssumption DEF EventSeq
  <1>2. r \in Seq(EventSeq)
    <2>1. n - k \in Nat BY BoundsAssumption
    <2> HIDE DEF r
    <2> QED BY <1>1, <2>1, SeqDef
  <1>3. Len(r) = n - k BY <1>1, <1>2, LenProperties, BoundsAssumption
  <1> QED BY <1>2, <1>3, BoundsAssumption DEF From

(* Two stretches make one when the second goes on where the first ends. *)
LEMMA FromConcat ==
  ASSUME NEW s \in Seq(EventSeq), NEW t \in Seq(EventSeq), NEW k \in Nat,
         From(s, k), From(t, k + Len(s))
  PROVE  From(s \o t, k)
  BY ConcatProperties DEF From

----------------------------------------------------------------------------
(* What happens to a stream leaves it carrying what it should.             *)

(* The lengths are numbers. *)
LEMMA LengthsAreNatural ==
  ASSUME NEW s \in StreamType, NEW q \in PumpType
  PROVE  /\ Len(s.wire) \in Nat /\ Len(s.replay) \in Nat /\ Len(s.live) \in Nat
         /\ q.accepted \in Nat
  BY LenProperties DEF StreamType, PumpType

(* A recorded event is published to the stream or its channel is closed. *)
LEMMA PublishedFollows ==
  ASSUME NEW s \in StreamType, NEW q \in PumpType, NEW n \in 0 .. MaxEvents,
         n + 1 \in EventSeq, Follows(s, q, n)
  PROVE  /\ Published(s, s.attempt, n + 1) \in StreamType
         /\ Follows(Published(s, s.attempt, n + 1), q, n + 1)
  <1>0. /\ Len(s.wire) \in Nat /\ Len(s.replay) \in Nat /\ Len(s.live) \in Nat
        /\ q.accepted \in Nat /\ n \in Nat
    BY LengthsAreNatural, BoundsAssumption
  <1>1. CASE ~s.open BY <1>1 DEF Published, StreamType, PumpType, Follows, Carried, EventSeq
  <1>2. CASE s.open /\ ~(Len(s.live) < BufferSize)
    <2> DEFINE t == [s EXCEPT !.open = FALSE]
    <2>1. Published(s, s.attempt, n + 1) = t BY <1>2 DEF Published
    <2>2. t \in StreamType BY DEF StreamType
    <2>3. /\ t.attempt = s.attempt /\ t.wire = s.wire /\ t.replay = s.replay /\ t.live = s.live
          /\ ~t.open /\ t.end = s.end /\ t.sent = s.sent
      BY DEF StreamType
    <2>4. Follows(t, q, n + 1)
      <3> HIDE DEF t
      <3> QED BY <1>2, <2>2, <2>3 DEF Follows, Carried, StreamType, PumpType
    <2> QED BY <2>1, <2>2, <2>4
  <1>3. CASE s.open /\ Len(s.live) < BufferSize
    <2> DEFINE k == q.accepted + Len(s.wire) + Len(s.replay)
    <2>1. n + 1 = k + Len(s.live) + 1 /\ k \in Nat
      BY <1>3 DEF StreamType, PumpType, Follows, Carried, EventSeq
    <2>2. From(Append(s.live, n + 1), k)
      BY <2>1, FromAppend DEF StreamType, Follows
    <2>3. Append(s.live, n + 1) \in Seq(EventSeq) /\ Len(Append(s.live, n + 1)) = Len(s.live) + 1
      BY AppendProperties DEF StreamType
    <2> DEFINE t == [s EXCEPT !.live = Append(s.live, n + 1)]
    <2>4. Published(s, s.attempt, n + 1) = t BY <1>3 DEF Published
    <2>5. t \in StreamType BY <2>3 DEF StreamType
    <2>6. /\ t.attempt = s.attempt /\ t.wire = s.wire /\ t.replay = s.replay
          /\ t.live = Append(s.live, n + 1) /\ t.open /\ t.end = s.end /\ t.sent = s.sent
      BY <1>3 DEF StreamType
    <2>7. Follows(t, q, n + 1)
      <3> HIDE DEF t
      <3>0. /\ Len(t.wire) = Len(s.wire) /\ Len(t.replay) = Len(s.replay)
            /\ Len(t.live) = Len(s.live) + 1
        BY <2>3, <2>6
      <3>1. q.accepted + Carried(t) = n + 1
        <4>1. q.accepted + Carried(s) = n BY <1>3 DEF Follows
        <4> QED BY <3>0, <4>1, <1>0, <2>5 DEF Carried, StreamType, PumpType
      <3>2. From(t.live, q.accepted + Len(t.wire) + Len(t.replay)) BY <2>2, <2>6
      <3> QED BY <1>3, <2>6, <3>1, <3>2 DEF Follows
    <2> QED BY <2>4, <2>5, <2>7
  <1> QED BY <1>1, <1>2, <1>3

(* A frame of the replay is written to the wire. *)
LEMMA ReplayedFollows ==
  ASSUME NEW s \in StreamType, NEW q \in PumpType, NEW n \in 0 .. MaxEvents,
         Follows(s, q, n), s.end = "no", s.replay # <<>>
  PROVE  LET t == [s EXCEPT !.replay = Tail(@), !.sent = Head(s.replay), !.wire = Append(@, Head(s.replay))]
         IN  t \in StreamType /\ Follows(t, q, n)
  <1>0. /\ Len(s.wire) \in Nat /\ Len(s.replay) \in Nat /\ Len(s.live) \in Nat
        /\ q.accepted \in Nat /\ n \in Nat
    BY LengthsAreNatural, BoundsAssumption
  <1> DEFINE k == q.accepted + Len(s.wire)
             h == Head(s.replay)
             t == [s EXCEPT !.replay = Tail(@), !.sent = h, !.wire = Append(@, h)]
  <1>1. k \in Nat BY DEF StreamType, PumpType
  <1>2. h = k + 1 /\ From(Tail(s.replay), k + 1) BY <1>1, FromTail DEF StreamType, Follows
  <1>3. /\ h \in EventSeq /\ Tail(s.replay) \in Seq(EventSeq)
        /\ Len(Tail(s.replay)) = Len(s.replay) - 1
    BY HeadTailProperties DEF StreamType
  <1>4. From(Append(s.wire, h), q.accepted)
    BY <1>2, <1>3, FromAppend DEF StreamType, PumpType, Follows
  <1>5. Append(s.wire, h) \in Seq(EventSeq) /\ Len(Append(s.wire, h)) = Len(s.wire) + 1
    BY <1>3, AppendProperties DEF StreamType
  <1>6. t \in StreamType
    <2> HIDE DEF h
    <2>1. h \in 0 .. MaxEvents BY <1>3, BoundsAssumption DEF EventSeq
    <2> QED BY <1>3, <1>5, <2>1 DEF StreamType
  <1>7. /\ t.attempt = s.attempt /\ t.wire = Append(s.wire, h) /\ t.replay = Tail(s.replay)
        /\ t.live = s.live /\ t.open = s.open /\ t.end = s.end /\ t.sent = h
    BY DEF StreamType
  <1>8. Follows(t, q, n)
    <2> HIDE DEF t
    <2>0. Len(t.wire) = Len(s.wire) + 1 /\ Len(t.replay) = Len(s.replay) - 1
      BY <1>3, <1>5, <1>7
    <2>1. q.accepted + Len(t.wire) = k + 1 BY <2>0, <1>0, <1>6 DEF StreamType, PumpType
    <2>2. q.accepted + Len(t.wire) + Len(t.replay) = k + Len(s.replay)
      BY <2>0, <1>0, <1>6, <2>1 DEF StreamType, PumpType
    <2>3. q.accepted + Carried(t) = q.accepted + Carried(s)
      BY <1>3, <1>5, <1>7 DEF StreamType, PumpType, Carried
    <2> QED BY <1>2, <1>4, <1>7, <2>1, <2>2, <2>3 DEF Follows
  <1> QED BY <1>6, <1>8

(* The next live event goes on where the replay ended. *)
LEMMA LiveFollows ==
  ASSUME NEW s \in StreamType, NEW q \in PumpType, NEW n \in 0 .. MaxEvents,
         Follows(s, q, n), s.end = "no", s.replay = <<>>, s.live # <<>>
  PROVE  LET t == [s EXCEPT !.live = Tail(@), !.sent = Head(s.live), !.wire = Append(@, Head(s.live))]
         IN  Head(s.live) = s.sent + 1 /\ t \in StreamType /\ Follows(t, q, n)
  <1>0. /\ Len(s.wire) \in Nat /\ Len(s.replay) \in Nat /\ Len(s.live) \in Nat
        /\ q.accepted \in Nat /\ n \in Nat
    BY LengthsAreNatural, BoundsAssumption
  <1> DEFINE k == q.accepted + Len(s.wire)
             h == Head(s.live)
             t == [s EXCEPT !.live = Tail(@), !.sent = h, !.wire = Append(@, h)]
  <1>1. k \in Nat /\ k + Len(s.replay) = k BY DEF StreamType, PumpType
  <1>2. h = k + 1 /\ From(Tail(s.live), k + 1) BY <1>1, FromTail DEF StreamType, Follows
  <1>3. /\ h \in EventSeq /\ Tail(s.live) \in Seq(EventSeq)
        /\ Len(Tail(s.live)) = Len(s.live) - 1
    BY HeadTailProperties DEF StreamType
  <1>4. From(Append(s.wire, h), q.accepted)
    BY <1>2, <1>3, FromAppend DEF StreamType, PumpType, Follows
  <1>5. Append(s.wire, h) \in Seq(EventSeq) /\ Len(Append(s.wire, h)) = Len(s.wire) + 1
    BY <1>3, AppendProperties DEF StreamType
  <1>6. t \in StreamType
    <2> HIDE DEF h
    <2>1. h \in 0 .. MaxEvents BY <1>3, BoundsAssumption DEF EventSeq
    <2> QED BY <1>3, <1>5, <2>1 DEF StreamType
  <1>7. /\ t.attempt = s.attempt /\ t.wire = Append(s.wire, h) /\ t.replay = <<>>
        /\ t.live = Tail(s.live) /\ t.open = s.open /\ t.end = s.end /\ t.sent = h
    BY DEF StreamType
  <1>8. Follows(t, q, n)
    <2> HIDE DEF t
    <2>0. Len(t.wire) = Len(s.wire) + 1 /\ Len(t.replay) = 0
      <3> HIDE DEF k, h
      <3> QED BY <1>5, <1>7, EmptySeq
    <2>1. q.accepted + Len(t.wire) = k + 1 /\ q.accepted + Len(t.wire) + Len(t.replay) = k + 1
      <3> HIDE DEF h
      <3> QED BY <1>0, <2>0
    <2>2. q.accepted + Carried(t) = q.accepted + Carried(s)
      BY <1>3, <1>5, <1>7 DEF StreamType, PumpType, Carried
    <2>3. From(t.replay, k + 1) BY <1>7, FromEmpty
    <2> QED BY <1>2, <1>4, <1>7, <2>1, <2>2, <2>3 DEF Follows
  <1> QED BY <1>2, <1>6, <1>8 DEF Follows

(* What a broken connection still delivers is the beginning of what it carried. *)
LEMMA BrokenFollows ==
  ASSUME NEW s \in StreamType, NEW q \in PumpType, NEW n \in 0 .. MaxEvents,
         Follows(s, q, n), NEW j \in 0 .. Len(s.wire)
  PROVE  Broken(s, j) \in StreamType /\ Follows(Broken(s, j), q, n)
  <1>0. /\ Len(s.wire) \in Nat /\ Len(s.replay) \in Nat /\ Len(s.live) \in Nat
        /\ q.accepted \in Nat /\ n \in Nat
    BY LengthsAreNatural, BoundsAssumption
  <1> DEFINE t == Broken(s, j)
             w == SubSeq(s.wire, 1, j)
  <1>1. w \in Seq(EventSeq) /\ Len(w) = j /\ From(w, q.accepted)
    BY FromPrefix DEF StreamType, PumpType, Follows
  <1>2. t \in StreamType BY <1>1, EmptySeq DEF Broken, StreamType
  <1>3. /\ t.attempt = s.attempt /\ t.wire = w /\ t.replay = <<>> /\ t.live = <<>>
        /\ ~t.open /\ t.end = "broken"
    BY DEF StreamType, Broken
  <1>4. Follows(t, q, n)
    <2> HIDE DEF t, w
    <2>1. q.accepted + Carried(t) <= q.accepted + Carried(s)
      BY <1>1, <1>3, EmptySeq DEF StreamType, PumpType, Carried
    <2>2. q.accepted + Carried(t) <= n
      BY <1>1, <1>3, <2>1, EmptySeq DEF Follows, StreamType, PumpType, Carried
    <2> QED BY <1>1, <1>3, <2>2, FromEmpty DEF Follows
  <1> QED BY <1>2, <1>4

(* The next frame is the event the pump waits for, and it was recorded. *)
LEMMA IngestedFollows ==
  ASSUME NEW s \in StreamType, NEW q \in PumpType, NEW n \in 0 .. MaxEvents,
         Follows(s, q, n), s.wire # <<>>
  PROVE  LET t == [s EXCEPT !.wire = Tail(@)]
             r == [q EXCEPT !.accepted = Head(s.wire)]
         IN  /\ Head(s.wire) = q.accepted + 1 /\ Head(s.wire) \in EventSeq /\ Head(s.wire) <= n
             /\ t \in StreamType /\ r \in PumpType /\ Follows(t, r, n)
  <1>0. /\ Len(s.wire) \in Nat /\ Len(s.replay) \in Nat /\ Len(s.live) \in Nat
        /\ q.accepted \in Nat /\ n \in Nat
    BY LengthsAreNatural, BoundsAssumption
  <1> DEFINE h == Head(s.wire)
             t == [s EXCEPT !.wire = Tail(@)]
             r == [q EXCEPT !.accepted = h]
  <1>1. q.accepted \in Nat BY DEF PumpType
  <1>2. h = q.accepted + 1 /\ From(Tail(s.wire), q.accepted + 1)
    BY <1>1, FromTail DEF StreamType, Follows
  <1>3. /\ h \in EventSeq /\ Tail(s.wire) \in Seq(EventSeq)
        /\ Len(Tail(s.wire)) = Len(s.wire) - 1 /\ Len(s.wire) > 0
    BY HeadTailProperties, EmptySeq DEF StreamType
  <1>4. t \in StreamType BY <1>3 DEF StreamType
  <1>5. r \in PumpType BY <1>3 DEF PumpType, EventSeq
  <1>6. /\ t.attempt = s.attempt /\ t.wire = Tail(s.wire) /\ t.replay = s.replay
        /\ t.live = s.live /\ t.open = s.open /\ t.end = s.end /\ t.sent = s.sent
    BY DEF StreamType
  <1>7. r.accepted = q.accepted + 1 /\ r.reference = q.reference BY <1>2 DEF PumpType
  <1>8. Follows(t, r, n)
    <2> HIDE DEF t, r
    <2>0. /\ Len(t.wire) = Len(s.wire) - 1 /\ Len(t.replay) = Len(s.replay) /\ Len(t.live) = Len(s.live)
      BY <1>3, <1>6
    <2>1. r.accepted + Len(t.wire) = q.accepted + Len(s.wire)
      BY <2>0, <1>7, <1>0, <1>4 DEF StreamType, PumpType
    <2>2. r.accepted + Carried(t) = q.accepted + Carried(s)
      BY <2>0, <1>7, <1>0, <1>4 DEF Carried, StreamType, PumpType
    <2> QED BY <1>2, <1>6, <1>7, <2>1, <2>2 DEF Follows
  <1>9. h <= n BY <1>2, <1>3 DEF StreamType, PumpType, Follows, Carried
  <1> QED BY <1>2, <1>3, <1>4, <1>5, <1>8, <1>9

(* A stream opened after what a pump accepted carries the rest. *)
LEMMA OpenedFollows ==
  ASSUME TypeOK, NEW q \in PumpType, q.reference \in Attempt, latest[q.reference] >= q.accepted
  PROVE  LET t == Opened(q.reference, q.accepted)
         IN  t \in StreamType /\ Follows(t, q, latest[q.reference])
  <1> DEFINE a == q.reference
             t == Opened(a, q.accepted)
             r == [i \in 1 .. (latest[a] - q.accepted) |-> q.accepted + i]
  <1>1. latest[a] \in 0 .. MaxEvents /\ q.accepted \in 0 .. latest[a]
    BY BoundsAssumption DEF TypeOK, PumpType
  <1>2. r \in Seq(EventSeq) /\ Len(r) = latest[a] - q.accepted /\ From(r, q.accepted)
    BY <1>1, FromReplay
  <1>3. /\ t.attempt = a /\ t.replay = r /\ t.live = <<>> /\ t.wire = <<>>
        /\ t.sent = q.accepted /\ t.end = "no"
    BY DEF Opened
  <1>4. t \in StreamType
    <2> HIDE DEF r
    <2>1. t = [attempt |-> a, replay |-> r, live |-> <<>>,
               open |-> state[a] = "active" /\ a \in owned, sent |-> q.accepted, wire |-> <<>>, end |-> "no"]
      BY DEF Opened, r
    <2> QED BY <1>2, <2>1, EmptySeq DEF StreamType, PumpType
  <1>5. Follows(t, q, latest[a])
    <2> HIDE DEF t, r
    <2>1. q.accepted + Len(t.wire) = q.accepted /\ q.accepted + Carried(t) = latest[a]
      BY <1>1, <1>2, <1>3, EmptySeq DEF Carried, PumpType
    <2> QED BY <1>1, <1>2, <1>3, <2>1, FromEmpty DEF Follows
  <1> QED BY <1>4, <1>5

----------------------------------------------------------------------------
(* Each step keeps the invariant.                                          *)

(* The rows of a stream and a pump, named. *)
LEMMA StreamTypes ==
  ASSUME TypeOK
  PROVE  stream \in [Pumps -> StreamType] /\ pump \in [Pumps -> PumpType]
  BY DEF TypeOK, StreamType, PumpType

(* A closed stream and an idle pump are of their types. *)
LEMMA ClosedTypes ==
  NoStream \in StreamType /\ IdlePump \in PumpType /\ Recovering \in PumpType
  BY BoundsAssumption, EmptySeq DEF NoStream, IdlePump, Recovering, StreamType, PumpType

(* What a step has to show of the streams. *)
StreamsKept == stream' \in [Pumps -> StreamType] /\ pump' \in [Pumps -> PumpType] /\ Streams'

(* A worker that records an event publishes it to the streams that follow it. *)
LEMMA RecordKeepsStreams ==
  ASSUME IInv, NEW a \in Attempt, RecordEvent(a) PROVE StreamsKept
  <1>1. stream \in [Pumps -> StreamType] /\ pump \in [Pumps -> PumpType]
    BY StreamTypes DEF IInv
  <1>2. latest[a] \in 0 .. MaxEvents /\ latest[a] + 1 \in EventSeq
    BY BoundsAssumption DEF IInv, TypeOK, RecordEvent, EventSeq
  <1>3. ASSUME NEW p \in Pumps PROVE stream'[p] \in StreamType /\ StreamOf(p)'
    <2> DEFINE s == stream[p]
    <2>1. s \in StreamType /\ pump[p] \in PumpType /\ StreamOf(p) BY <1>1 DEF IInv, Streams
    <2>2. stream'[p] = Published(s, a, latest[a] + 1) /\ pump'[p] = pump[p] BY DEF RecordEvent
    <2>3. CASE s.attempt # a
      <3>1. stream'[p] = s BY <2>2, <2>3 DEF Published
      <3>2. pump[p].pc = "read" => s.attempt \in Attempt
        BY <2>1 DEF StreamOf, Follows, IInv, Accepted
      <3>3. pump[p].pc = "read" => latest'[s.attempt] = latest[s.attempt]
        BY <3>2, <2>3 DEF RecordEvent, IInv, TypeOK
      <3> QED BY <2>1, <2>2, <3>1, <3>3 DEF StreamOf
    <2>4. CASE s.attempt = a
      <3>1. pump[p].pc = "read" BY <2>1, <2>4 DEF StreamOf, NoStream, Attempt
      <3>2. Follows(s, pump[p], latest[a]) BY <2>1, <2>4, <3>1 DEF StreamOf
      <3>3. /\ stream'[p] \in StreamType /\ Follows(stream'[p], pump[p], latest[a] + 1)
        BY <1>2, <2>1, <2>2, <2>4, <3>2, PublishedFollows
      <3>4. stream'[p].attempt = a
        BY <2>1, <2>2, <2>4, <3>2, <3>3 DEF Follows
      <3>5. latest'[a] = latest[a] + 1 BY DEF RecordEvent, IInv, TypeOK
      <3> QED BY <2>2, <3>1, <3>3, <3>4, <3>5 DEF StreamOf
    <2> QED BY <2>3, <2>4
  <1>4. DOMAIN stream' = Pumps /\ pump' = pump BY DEF RecordEvent
  <1> QED BY <1>1, <1>3, <1>4 DEF StreamsKept, Streams, RecordEvent

(* A stream that is closed or broken by the worker carries what it carried. *)
LEMMA CloseKeepsStreams ==
  ASSUME IInv, UNCHANGED <<pump, latest>>, stream' = [p \in Pumps |-> stream'[p]],
         \A p \in Pumps : \/ stream'[p] = stream[p]
                          \/ stream[p].attempt # 0 /\ stream'[p] = [stream[p] EXCEPT !.open = FALSE]
                          \/ /\ stream[p].end = "no"
                             /\ \E k \in 0 .. Len(stream[p].wire) : stream'[p] = Broken(stream[p], k)
  PROVE  StreamsKept
  <1>1. stream \in [Pumps -> StreamType] /\ pump \in [Pumps -> PumpType]
    BY StreamTypes DEF IInv
  <1>2. ASSUME NEW p \in Pumps PROVE stream'[p] \in StreamType /\ StreamOf(p)'
    <2> DEFINE s == stream[p]
               q == pump[p]
               n == latest[s.attempt]
    <2>1. s \in StreamType /\ q \in PumpType /\ StreamOf(p) BY <1>1 DEF IInv, Streams
    <2>2. q.pc = "read" => s.attempt \in Attempt /\ n \in 0 .. MaxEvents
      BY <2>1 DEF StreamOf, Follows, IInv, Accepted, TypeOK
    <2>3. CASE stream'[p] = s BY <2>1, <2>3 DEF StreamOf
    <2>4. CASE s.attempt # 0 /\ stream'[p] = [s EXCEPT !.open = FALSE]
      <3> DEFINE t == [s EXCEPT !.open = FALSE]
      <3>1. t \in StreamType BY <2>1 DEF StreamType
      <3>2. /\ t.attempt = s.attempt /\ t.wire = s.wire /\ t.replay = s.replay /\ t.live = s.live
            /\ ~t.open /\ t.end = s.end /\ t.sent = s.sent
        BY <2>1 DEF StreamType
      <3>3. Follows(s, q, n) => Follows(t, q, n)
        <4> HIDE DEF t, n
        <4> QED BY <3>2 DEF Follows, Carried
      <3>4. s # NoStream BY <2>4 DEF NoStream
      <3> QED BY <2>1, <2>4, <3>1, <3>2, <3>3, <3>4 DEF StreamOf
    <2>5. ASSUME s.end = "no", NEW k \in 0 .. Len(s.wire), stream'[p] = Broken(s, k)
          PROVE  stream'[p] \in StreamType /\ StreamOf(p)'
      <3>1. q.pc = "read" BY <2>1, <2>5 DEF StreamOf, NoStream
      <3>2. Follows(s, q, n) BY <2>1, <3>1 DEF StreamOf
      <3>3. Broken(s, k) \in StreamType /\ Follows(Broken(s, k), q, n)
        BY <2>1, <2>2, <2>5, <3>1, <3>2, BrokenFollows
      <3>4. Broken(s, k).attempt = s.attempt BY <3>2, <3>3 DEF Follows
      <3> QED BY <2>5, <3>1, <3>3, <3>4 DEF StreamOf
    <2> QED BY <2>3, <2>4, <2>5
  <1> QED BY <1>1, <1>2 DEF StreamsKept, Streams

(* A step that moves one stream, or one pump, or both. *)
LEMMA MoveKeepsStreams ==
  ASSUME IInv, NEW p \in Pumps, NEW s \in StreamType, NEW q \in PumpType,
         stream' = [stream EXCEPT ![p] = s], pump' = [pump EXCEPT ![p] = q], latest' = latest,
         IF q.pc = "read" THEN Follows(s, q, latest[s.attempt]) ELSE s = NoStream
  PROVE  StreamsKept
  <1>1. stream \in [Pumps -> StreamType] /\ pump \in [Pumps -> PumpType]
    BY StreamTypes DEF IInv
  <1>2. stream' \in [Pumps -> StreamType] /\ pump' \in [Pumps -> PumpType] BY <1>1
  <1>3. ASSUME NEW x \in Pumps PROVE StreamOf(x)'
    <2>1. CASE x = p BY <1>1, <2>1 DEF StreamOf
    <2>2. CASE x # p
      <3>1. stream'[x] = stream[x] /\ pump'[x] = pump[x] BY <2>2
      <3> QED BY <3>1 DEF StreamOf, IInv, Streams
    <2> QED BY <2>1, <2>2
  <1> QED BY <1>2, <1>3 DEF StreamsKept, Streams

(* Every step keeps the streams. *)
LEMMA NextKeepsStreams == ASSUME IInv, Next PROVE StreamsKept
  <1>1. stream \in [Pumps -> StreamType] /\ pump \in [Pumps -> PumpType] /\ Streams
    BY StreamTypes DEF IInv
  <1>2. ASSUME UNCHANGED <<stream, pump, latest>> PROVE StreamsKept
    BY <1>1, <1>2 DEF StreamsKept, Streams, StreamOf
  <1>3. CASE \/ PutAttempt \/ PrepareTurn
             \/ \E a \in Attempt : RegisterLive(a) \/ Supersede(a)
             \/ \E resumed \in SUBSET Attempt : WorkerRestart(resumed)
             \/ \E p \in Pumps : PrepareContinuation(p)
             \/ \E userMessage \in BOOLEAN : BeginTurn(userMessage)
    BY <1>2, <1>3 DEF PutAttempt, PrepareTurn, RegisterLive, Supersede, WorkerRestart, PrepareContinuation,
       BeginTurn, workerVars
  <1>4. CASE \E a \in Attempt : RecordEvent(a) BY <1>4, RecordKeepsStreams
  <1>5. ASSUME NEW a \in Attempt, NEW to, EndAttempt(a, to) PROVE StreamsKept
    <2>1. UNCHANGED <<pump, latest>> /\ stream' = [p \in Pumps |-> Unsubscribed(stream[p], a)]
      BY <1>5 DEF EndAttempt
    <2>2. \A p \in Pumps : \/ stream'[p] = stream[p]
                           \/ stream[p].attempt # 0 /\ stream'[p] = [stream[p] EXCEPT !.open = FALSE]
      BY <2>1 DEF Unsubscribed, Attempt
    <2>3. stream' = [p \in Pumps |-> stream'[p]] BY <2>1
    <2> QED BY <2>1, <2>2, <2>3, CloseKeepsStreams
  <1>6. CASE WorkerCrash
    <2>1. UNCHANGED <<pump, latest>>
      BY <1>6 DEF WorkerCrash
    <2>2. stream' = [p \in Pumps |-> IF stream[p].end = "no" THEN Broken(stream[p], 0) ELSE stream[p]]
      BY <1>6 DEF WorkerCrash
    <2>3. stream' = [p \in Pumps |-> stream'[p]] BY <2>2
    <2>4. \A p \in Pumps : 0 \in 0 .. Len(stream[p].wire)
      BY <1>1, LenProperties DEF StreamType
    <2>5. \A p \in Pumps : \/ stream'[p] = stream[p]
                           \/ /\ stream[p].end = "no"
                              /\ \E k \in 0 .. Len(stream[p].wire) : stream'[p] = Broken(stream[p], k)
      BY <2>2, <2>4
    <2> QED BY <2>1, <2>3, <2>5, CloseKeepsStreams
  <1>7. ASSUME NEW p \in Pumps, NEW k, BreakConnection(p, k) PROVE StreamsKept
    <2>1. /\ UNCHANGED <<pump, latest>> /\ stream[p].end = "no" /\ k \in 0 .. Len(stream[p].wire)
          /\ stream' = [stream EXCEPT ![p] = Broken(stream[p], k)]
      BY <1>1, <1>7 DEF BreakConnection, workerVars
    <2>2. stream' = [x \in Pumps |-> stream'[x]] BY <1>1, <2>1
    <2>3. \A x \in Pumps : \/ stream'[x] = stream[x]
                           \/ /\ stream[x].end = "no"
                              /\ \E j \in 0 .. Len(stream[x].wire) : stream'[x] = Broken(stream[x], j)
      BY <1>1, <2>1
    <2> QED BY <2>1, <2>2, <2>3, CloseKeepsStreams
  <1>8. CASE CoordinatorCrash
    BY <1>8, ClosedTypes DEF CoordinatorCrash, StreamsKept, Streams, StreamOf, Recovering, IdlePump
  <1>9. ASSUME NEW p \in Pumps, Server(p) PROVE StreamsKept
    <2> DEFINE s == stream[p]
               q == pump[p]
               n == latest[s.attempt]
    <2>1. pump' = [pump EXCEPT ![p] = q] /\ latest' = latest
      BY <1>1, <1>9 DEF Server, WriteReplay, WriteLive, EndBody, workerVars
    <2>2. s \in StreamType /\ q \in PumpType /\ StreamOf(p) BY <1>1 DEF Streams
    <2>3. s.end = "no" BY <1>9 DEF Server, WriteReplay, WriteLive, EndBody, WireHasRoom
    <2>4. q.pc = "read" /\ Follows(s, q, n) BY <2>2, <2>3 DEF StreamOf, NoStream
    <2>5. n \in 0 .. MaxEvents BY <2>4 DEF Follows, IInv, Accepted, TypeOK
    <2>6. ASSUME NEW t, t \in StreamType, Follows(t, q, n), stream' = [stream EXCEPT ![p] = t]
          PROVE  StreamsKept
      <3>1. t.attempt = s.attempt BY <2>4, <2>6 DEF Follows
      <3> QED BY <2>1, <2>2, <2>4, <2>6, <3>1, MoveKeepsStreams
    <2>7. CASE WriteReplay(p)
      <3> DEFINE t == [s EXCEPT !.replay = Tail(@), !.sent = Head(s.replay), !.wire = Append(@, Head(s.replay))]
      <3>1. s.replay # <<>> /\ stream' = [stream EXCEPT ![p] = t] BY <1>1, <2>7 DEF WriteReplay
      <3>2. t \in StreamType /\ Follows(t, q, n) BY <2>2, <2>3, <2>4, <2>5, <3>1, ReplayedFollows
      <3> QED BY <2>6, <3>1, <3>2
    <2>8. CASE WriteLive(p)
      <3> DEFINE t == [s EXCEPT !.live = Tail(@), !.sent = Head(s.live), !.wire = Append(@, Head(s.live))]
      <3>1. s.replay = <<>> /\ s.live # <<>> BY <2>8 DEF WriteLive
      <3>2. Head(s.live) = s.sent + 1 /\ t \in StreamType /\ Follows(t, q, n)
        BY <2>2, <2>3, <2>4, <2>5, <3>1, LiveFollows
      <3>3. stream' = [stream EXCEPT ![p] = t] BY <1>1, <2>8, <3>2 DEF WriteLive
      <3> QED BY <2>6, <3>2, <3>3
    <2>9. CASE EndBody(p)
      <3> DEFINE t == [s EXCEPT !.end = "eof"]
      <3>1. /\ s.replay = <<>> /\ s.live = <<>> /\ ~s.open /\ stream' = [stream EXCEPT ![p] = t]
        BY <1>1, <2>9 DEF EndBody
      <3>2. t \in StreamType BY <2>2 DEF StreamType
      <3>3. /\ t.attempt = s.attempt /\ t.wire = s.wire /\ t.replay = s.replay /\ t.live = s.live
            /\ t.open = s.open /\ t.end = "eof"
        BY <2>2 DEF StreamType
      <3>4. Follows(t, q, n)
        <4> HIDE DEF t, n
        <4> QED BY <2>4, <3>1, <3>3 DEF Follows, Carried
      <3> QED BY <2>6, <3>1, <3>2, <3>4
    <2> QED BY <1>9, <2>7, <2>8, <2>9 DEF Server
  <1>10. ASSUME NEW p \in Pumps, NEW q \in PumpType, q.pc # "read", pump[p].pc # "read", latest' = latest,
                stream' = stream, pump' = [pump EXCEPT ![p] = q]
         PROVE  StreamsKept
    <2>1. stream[p] = NoStream /\ stream' = [stream EXCEPT ![p] = NoStream]
      BY <1>1, <1>10 DEF Streams, StreamOf
    <2> QED BY <1>10, <2>1, ClosedTypes, MoveKeepsStreams
  <1>11. ASSUME NEW p \in Pumps, NEW c \in BOOLEAN,
                Start(p) \/ Load(p) \/ Inspect(p) \/ Reconnect(p) \/ GiveUp(p) \/ Finish(p, c)
         PROVE  StreamsKept
    <2>1. latest' = latest /\ stream' = stream /\ pump[p].pc # "read"
      BY <1>11 DEF Start, Load, Inspect, Reconnect, GiveUp, Finish, At, workerVars
    <2>2. \A to \in {"load", "retry", "done", "recover"} : GoTo(p, to) =>
             \E q \in PumpType : q.pc # "read" /\ pump' = [pump EXCEPT ![p] = q]
      <3>1. SUFFICES ASSUME NEW to \in {"load", "retry", "done", "recover"}, GoTo(p, to)
                     PROVE  \E q \in PumpType : q.pc # "read" /\ pump' = [pump EXCEPT ![p] = q]
        OBVIOUS
      <3>2. CASE to = "recover"
        BY <1>1, <3>1, <3>2, ClosedTypes DEF GoTo, Recovering, IdlePump
      <3>3. CASE to # "recover"
        <4> DEFINE q == [pump[p] EXCEPT !.pc = to]
        <4>1. q \in PumpType /\ q.pc = to BY <1>1 DEF PumpType
        <4>2. pump' = [pump EXCEPT ![p] = q] BY <1>1, <3>1, <3>3 DEF GoTo
        <4> QED BY <4>1, <4>2
      <3> QED BY <3>2, <3>3
    <2>3. CASE Start(p) \/ Reconnect(p)
      <3> DEFINE q == [IdlePump EXCEPT !.pc = "load"]
      <3>1. q \in PumpType /\ q.pc = "load" BY ClosedTypes DEF PumpType, IdlePump
      <3>2. pump' = [pump EXCEPT ![p] = q] BY <2>3 DEF Start, Reconnect
      <3> QED BY <1>10, <2>1, <3>1, <3>2
    <2>4. CASE Load(p)
      <3> DEFINE q == [pump[p] EXCEPT !.pc = "open", !.reference = checkpoint.attempt,
                                      !.accepted = checkpoint.last]
      <3>1. q \in PumpType /\ q.pc = "open" BY <1>1 DEF PumpType, IInv, TypeOK, Checkpoint
      <3>2. pump' = [pump EXCEPT ![p] = q] BY <1>1, <2>4 DEF Load
      <3> QED BY <1>10, <2>1, <3>1, <3>2
    <2>5. CASE Inspect(p)
      <3>1. pump[p].reference \in Attempt /\ pump[p].accepted \in Nat
        BY <1>1, <2>5 DEF Inspect, At, IInv, Accepted, PumpType
      <3>2. latest[pump[p].reference] \in Nat BY <3>1 DEF IInv, TypeOK
      <3>3. AfterEnd(p) \in {"retry", "recover", "done"} BY <3>1, <3>2 DEF AfterEnd
      <3> QED BY <1>10, <2>1, <2>2, <2>5, <3>3 DEF Inspect
    <2>6. CASE GiveUp(p) BY <1>10, <2>1, <2>2, <2>6 DEF GiveUp
    <2>7. CASE Finish(p, c) BY <1>10, <2>1, <2>7, ClosedTypes DEF Finish, IdlePump
    <2> QED BY <1>11, <2>3, <2>4, <2>5, <2>6, <2>7
  <1>12. ASSUME NEW p \in Pumps, Open(p) PROVE StreamsKept
    <2> DEFINE q == [pump[p] EXCEPT !.pc = "read"]
               t == Opened(pump[p].reference, pump[p].accepted)
    <2>1. pump[p] \in PumpType /\ pump[p].reference \in Attempt /\ latest' = latest /\ pump[p].pc = "open"
      BY <1>1, <1>12 DEF Open, At, IInv, Accepted, workerVars
    <2>2. CASE stream' = stream /\ (GoTo(p, "retry") \/ GoTo(p, "recover"))
      <3>1. CASE GoTo(p, "recover")
        BY <1>10, <2>1, <2>2, <3>1, ClosedTypes DEF GoTo, Recovering, IdlePump
      <3>2. CASE GoTo(p, "retry")
        <4> DEFINE r == [pump[p] EXCEPT !.pc = "retry"]
        <4>1. r \in PumpType /\ r.pc = "retry" BY <2>1 DEF PumpType
        <4>2. pump' = [pump EXCEPT ![p] = r] BY <1>1, <3>2 DEF GoTo
        <4> QED BY <1>10, <2>1, <2>2, <4>1, <4>2
      <3> QED BY <2>2, <3>1, <3>2
    <2>3. CASE latest[pump[p].reference] >= pump[p].accepted /\ GoTo(p, "read") /\ stream' = [stream EXCEPT ![p] = t]
      <3>1. /\ q \in PumpType /\ q.pc = "read" /\ q.reference = pump[p].reference
            /\ q.accepted = pump[p].accepted
        BY <2>1 DEF PumpType
      <3>2. pump' = [pump EXCEPT ![p] = q] BY <1>1, <2>3 DEF GoTo
      <3>3. t \in StreamType /\ Follows(t, q, latest[q.reference])
        <4> HIDE DEF q
        <4> QED BY <2>1, <2>3, <3>1, OpenedFollows DEF IInv
      <3>4. t.attempt = q.reference BY <3>3 DEF Follows
      <3> HIDE DEF q, t
      <3> QED BY <2>1, <2>3, <3>1, <3>2, <3>3, <3>4, MoveKeepsStreams
    <2> QED BY <1>12, <2>2, <2>3 DEF Open
  <1>13. ASSUME NEW p \in Pumps, IngestNext(p) \/ StreamEnds(p) PROVE StreamsKept
    <2> DEFINE s == stream[p]
               q == pump[p]
               n == latest[s.attempt]
    <2>1. /\ q.pc = "read" /\ latest' = latest /\ s \in StreamType /\ q \in PumpType
          /\ Follows(s, q, n) /\ n \in 0 .. MaxEvents
      BY <1>1, <1>13 DEF IngestNext, StreamEnds, At, Streams, StreamOf, workerVars, Follows, IInv,
         Accepted, TypeOK
    <2>2. ASSUME NEW c \in {"eof", "error"}, stream' = [stream EXCEPT ![p] = NoStream],
                 pump' = [pump EXCEPT ![p].pc = "inspect", ![p].cause = c]
          PROVE  StreamsKept
      <3> DEFINE r == [q EXCEPT !.pc = "inspect", !.cause = c]
      <3>1. r \in PumpType /\ r.pc = "inspect" BY <2>1 DEF PumpType
      <3>2. pump' = [pump EXCEPT ![p] = r] BY <1>1, <2>2
      <3> QED BY <2>1, <2>2, <3>1, <3>2, ClosedTypes, MoveKeepsStreams
    <2>3. CASE StreamEnds(p) BY <2>2, <2>3 DEF StreamEnds
    <2>4. CASE IngestNext(p)
      <3> DEFINE t == [s EXCEPT !.wire = Tail(@)]
                 r == [q EXCEPT !.accepted = Head(s.wire)]
      <3>1. \/ stream' = [stream EXCEPT ![p].wire = Tail(@)] /\ pump' = [pump EXCEPT ![p].accepted = Head(s.wire)]
            \/ /\ stream' = [stream EXCEPT ![p] = NoStream]
               /\ pump' = [pump EXCEPT ![p].pc = "inspect", ![p].cause = "error"]
        BY <2>4 DEF IngestNext
      <3>2. CASE stream' = [stream EXCEPT ![p].wire = Tail(@)] /\ pump' = [pump EXCEPT ![p].accepted = Head(s.wire)]
        <4>1. s.wire # <<>> /\ stream' = [stream EXCEPT ![p] = t] /\ pump' = [pump EXCEPT ![p] = r]
          BY <1>1, <2>4, <3>2 DEF IngestNext
        <4>2. t \in StreamType /\ r \in PumpType /\ Follows(t, r, n) BY <2>1, <4>1, IngestedFollows
        <4>3. t.attempt = s.attempt /\ r.pc = "read" BY <2>1 DEF StreamType, PumpType
        <4> QED BY <2>1, <4>1, <4>2, <4>3, MoveKeepsStreams
      <3> QED BY <2>2, <3>1, <3>2
    <2> QED BY <1>13, <2>3, <2>4
  <1> QED
    BY <1>3, <1>4, <1>5, <1>6, <1>7, <1>8, <1>9, <1>11, <1>12, <1>13 DEF Next, Worker, Pump

(* What an ingested frame does to the rows: a new event is the next one of *)
(* the checkpoint's attempt, and the worker recorded it. *)
LEMMA IngestStores ==
  ASSUME IInv, NEW p \in Pumps, IngestNext(p)
  PROVE  LET n == Head(stream[p].wire)
             a == pump[p].reference
         IN  /\ n = pump[p].accepted + 1 /\ n \in EventSeq /\ a \in Attempt
             /\ latest' = latest /\ UNCHANGED <<state, admission, session>>
             /\ \/ /\ pump' = [pump EXCEPT ![p].pc = "inspect", ![p].cause = "error"]
                   /\ UNCHANGED <<log, checkpoint>>
                \/ /\ pump' = [pump EXCEPT ![p].accepted = n]
                   /\ Found(a, n) /\ UNCHANGED <<log, checkpoint>>
                \/ /\ pump' = [pump EXCEPT ![p].accepted = n]
                   /\ checkpoint.attempt = a /\ n = checkpoint.last + 1 /\ checkpoint.last < latest[a]
                   /\ log' = Append(log, Entry(a, n)) /\ checkpoint' = [checkpoint EXCEPT !.last = n]
  <1> DEFINE n == Head(stream[p].wire)
             a == pump[p].reference
  <1>1. stream[p] \in StreamType /\ pump[p] \in PumpType BY StreamTypes DEF IInv
  <1>2. pump[p].pc = "read" /\ stream[p].wire # <<>> BY DEF IngestNext, At
  <1>3. a \in Attempt /\ stream[p].attempt = a /\ Follows(stream[p], pump[p], latest[a])
    BY <1>2 DEF IInv, Accepted, Streams, StreamOf, Follows
  <1>4. latest[a] \in 0 .. MaxEvents BY <1>3 DEF IInv, TypeOK
  <1>5. n = pump[p].accepted + 1 /\ n \in EventSeq /\ n <= latest[a]
    BY <1>1, <1>2, <1>3, <1>4, IngestedFollows
  <1>6. latest' = latest /\ UNCHANGED <<state, admission, session>> BY DEF IngestNext, workerVars
  <1>7. CASE Verdict(a, n) = "create"
    <2>1. checkpoint.attempt = a /\ n = checkpoint.last + 1 BY <1>7 DEF Verdict
    <2>2. checkpoint.last < latest[a]
      BY <1>4, <1>5, <2>1, BoundsAssumption DEF IInv, TypeOK, Checkpoint
    <2>3. /\ pump' = [pump EXCEPT ![p].accepted = n]
          /\ log' = Append(log, Entry(a, n)) /\ checkpoint' = [checkpoint EXCEPT !.last = n]
      BY <1>5, <1>7 DEF IngestNext
    <2> QED BY <1>3, <1>5, <1>6, <2>1, <2>2, <2>3
  <1>8. CASE Verdict(a, n) = "replay"
    <2>1. Found(a, n) BY <1>8 DEF Verdict
    <2>2. pump' = [pump EXCEPT ![p].accepted = n] /\ UNCHANGED <<log, checkpoint>>
      BY <1>5, <1>8 DEF IngestNext
    <2> QED BY <1>3, <1>5, <1>6, <2>1, <2>2
  <1>9. CASE Verdict(a, n) \notin {"create", "replay"}
    <2>1. pump' = [pump EXCEPT ![p].pc = "inspect", ![p].cause = "error"] /\ UNCHANGED <<log, checkpoint>>
      BY <1>5, <1>9 DEF IngestNext
    <2> QED BY <1>3, <1>5, <1>6, <2>1
  <1> QED BY <1>7, <1>8, <1>9

(* Every step of the copying is a step of OrderedCopy, or changes nothing of it. *)
LEMMA StepCopies == ASSUME IInv, [Next]_vars PROVE [Copy!Next]_(Copy!vars)
  <1> USE DEF Copy!vars
  <1>1. ASSUME UNCHANGED <<latest, log, checkpoint>> PROVE UNCHANGED Copy!vars BY <1>1
  <1>2. CASE \/ UNCHANGED vars \/ PutAttempt \/ PrepareTurn \/ WorkerCrash \/ CoordinatorCrash
             \/ \E a \in Attempt : RegisterLive(a) \/ Supersede(a)
             \/ \E a \in Attempt, to \in {"indeterminate", "terminal"} : EndAttempt(a, to)
             \/ \E resumed \in SUBSET Attempt : WorkerRestart(resumed)
    BY <1>1, <1>2 DEF PutAttempt, PrepareTurn, WorkerCrash, CoordinatorCrash, RegisterLive, Supersede,
       EndAttempt, WorkerRestart, vars, workerVars, storeVars
  <1>3. CASE \/ \E p \in Pumps : Server(p) \/ Start(p) \/ Reconnect(p) \/ GiveUp(p) \/ PrepareContinuation(p)
             \/ \E p \in Pumps : Load(p) \/ Open(p) \/ StreamEnds(p) \/ Inspect(p)
             \/ \E p \in Pumps, c \in BOOLEAN : Finish(p, c)
             \/ \E p \in Pumps, k \in 0 .. WireSize : BreakConnection(p, k)
    BY <1>1, <1>3 DEF Server, WriteReplay, WriteLive, EndBody, Start, Reconnect, GiveUp, Finish,
       PrepareContinuation, Load, Open, StreamEnds, Inspect, BreakConnection, workerVars, storeVars
  <1>4. ASSUME NEW a \in Attempt, RecordEvent(a) PROVE Copy!Record(a)
    BY <1>4 DEF RecordEvent, Copy!Record, storeVars
  <1>5. ASSUME NEW p \in Pumps, IngestNext(p) PROVE Copy!Copy \/ UNCHANGED Copy!vars
    <2>1. CASE UNCHANGED <<log, checkpoint>> BY <1>5, <2>1, <1>1, IngestStores
    <2>2. CASE ~UNCHANGED <<log, checkpoint>>
      <3> DEFINE n == Head(stream[p].wire)
                 a == pump[p].reference
      <3>1. /\ latest' = latest /\ checkpoint.attempt = a /\ n = checkpoint.last + 1 /\ checkpoint.last < latest[a]
            /\ log' = Append(log, Entry(a, n)) /\ checkpoint' = [checkpoint EXCEPT !.last = n]
        BY <1>5, <2>2, IngestStores
      <3> QED BY <3>1 DEF Copy!Copy, Entry
    <2> QED BY <2>1, <2>2
  <1>6. ASSUME NEW u \in BOOLEAN, BeginTurn(u) PROVE Copy!Turn \/ UNCHANGED Copy!vars
    <2>1. CASE checkpoint = admission /\ session = "waiting"
      <3>1. checkpoint.attempt < MaxAttempt BY <1>6, <2>1 DEF BeginTurn, IInv, AdmissionHasNext
      <3> QED BY <1>6, <2>1, <3>1 DEF BeginTurn, Copy!Turn, Entry, workerVars
    <2>2. CASE ~(checkpoint = admission /\ session = "waiting")
      BY <1>1, <1>6, <2>2 DEF BeginTurn, storeVars, workerVars
    <2> QED BY <2>1, <2>2
  <1> QED
    BY <1>2, <1>3, <1>4, <1>5, <1>6 DEF Next, Worker, Pump, Copy!Next, Attempt

(* The types of the rows, of the attempts and of the admission. *)
EntryType == [attempt : Attempt, seq : 0 .. MaxEvents]
RestTypes ==
  /\ state \in [Attempt -> {"none", "active", "indeterminate", "terminal"}]
  /\ latest \in [Attempt -> 0 .. MaxEvents]
  /\ owned \subseteq Attempt /\ up \in BOOLEAN
  /\ checkpoint \in Checkpoint
  /\ log \in Seq(EntryType)
  /\ session \in {"running", "waiting"}
  /\ admission \in Checkpoint \cup {NoAdmission}
  /\ faults \in 0 .. MaxFaults

(* TypeOK in these parts. *)
LEMMA TypesTogether ==
  TypeOK <=> RestTypes /\ stream \in [Pumps -> StreamType] /\ pump \in [Pumps -> PumpType]
  BY DEF TypeOK, RestTypes, StreamType, PumpType, EntryType

(* A step leaves the rows of their types. *)
LEMMA NextKeepsTypes == ASSUME IInv, Next PROVE RestTypes' /\ AdmissionHasNext'
  <1> USE BoundsAssumption DEF IInv, RestTypes, AdmissionHasNext, storeVars, workerVars, Attempt
  <1>1. RestTypes /\ pump \in [Pumps -> PumpType] BY TypesTogether
  <1>2. CASE PutAttempt BY <1>1, <1>2 DEF PutAttempt, Checkpoint
  <1>3. CASE PrepareTurn BY <1>1, <1>3 DEF PrepareTurn, Checkpoint, NoAdmission
  <1>4. CASE WorkerCrash 
    <2>1. /\ owned' = {} /\ up' = FALSE /\ faults' = faults + 1 /\ faults < MaxFaults
          /\ UNCHANGED <<state, latest, checkpoint, log, session, admission>>
      BY <1>4 DEF WorkerCrash
    <2>2. up' \in BOOLEAN BY <2>1, Zenon
    <2> QED BY <1>1, <2>1, <2>2
  <1>5. CASE CoordinatorCrash BY <1>1, <1>5 DEF CoordinatorCrash
  <1>6. ASSUME NEW a \in Attempt, RegisterLive(a) \/ Supersede(a) \/ RecordEvent(a)
        PROVE  RestTypes' /\ AdmissionHasNext'
    <2>1. CASE RegisterLive(a) BY <1>1, <2>1 DEF RegisterLive
    <2>2. CASE Supersede(a) BY <1>1, <2>2 DEF Supersede
    <2>3. CASE RecordEvent(a)
      <3>1. /\ latest' = [latest EXCEPT ![a] = @ + 1] /\ latest[a] < MaxEvents
            /\ UNCHANGED <<state, owned, up, checkpoint, log, session, admission, faults>>
        BY <2>3 DEF RecordEvent
      <3> QED BY <1>1, <3>1
    <2> QED BY <1>6, <2>1, <2>2, <2>3
  <1>7. ASSUME NEW a \in Attempt, NEW to \in {"indeterminate", "terminal"}, EndAttempt(a, to)
        PROVE  RestTypes' /\ AdmissionHasNext'
    BY <1>1, <1>7 DEF EndAttempt
  <1>8. ASSUME NEW resumed \in SUBSET Attempt, WorkerRestart(resumed)
        PROVE  RestTypes' /\ AdmissionHasNext'
    BY <1>1, <1>8 DEF WorkerRestart
  <1>9. ASSUME NEW p \in Pumps,
               \/ Server(p) \/ Start(p) \/ Reconnect(p) \/ GiveUp(p)
               \/ Load(p) \/ Open(p) \/ StreamEnds(p) \/ Inspect(p)
        PROVE  RestTypes' /\ AdmissionHasNext'
    BY <1>1, <1>9 DEF Server, WriteReplay, WriteLive, EndBody, Start, Reconnect, GiveUp, Load, Open,
       StreamEnds, Inspect
  <1>10. ASSUME NEW p \in Pumps, NEW k \in 0 .. WireSize, BreakConnection(p, k)
         PROVE  RestTypes' /\ AdmissionHasNext'
    BY <1>1, <1>10 DEF BreakConnection
  <1>11. ASSUME NEW p \in Pumps, NEW c \in BOOLEAN, Finish(p, c) \/ PrepareContinuation(p)
         PROVE  RestTypes' /\ AdmissionHasNext'
    BY <1>1, <1>11 DEF Finish, PrepareContinuation, Checkpoint, NoAdmission
  <1>12. ASSUME NEW p \in Pumps, IngestNext(p) PROVE RestTypes' /\ AdmissionHasNext'
    <2> DEFINE n == Head(stream[p].wire)
               a == pump[p].reference
    <2>1. /\ n \in EventSeq /\ a \in Attempt /\ latest' = latest /\ UNCHANGED <<state, admission, session>>
          /\ \/ UNCHANGED <<log, checkpoint>>
             \/ log' = Append(log, Entry(a, n)) /\ checkpoint' = [checkpoint EXCEPT !.last = n]
      BY <1>12, IngestStores
    <2>2. UNCHANGED <<owned, up, faults>> BY <1>12 DEF IngestNext
    <2>3. n \in 0 .. MaxEvents BY <2>1 DEF EventSeq
    <2>4. checkpoint' \in Checkpoint
      <3> HIDE DEF n
      <3> QED BY <1>1, <2>1, <2>3 DEF Checkpoint
    <2>5. log' \in Seq(EntryType)
      <3> HIDE DEF n, a
      <3>1. Entry(a, n) \in EntryType BY <2>1, <2>3 DEF Entry, EntryType
      <3>2. log \in Seq(EntryType) BY <1>1
      <3>3. Append(log, Entry(a, n)) \in Seq(EntryType) BY <3>1, <3>2, AppendProperties
      <3> QED BY <2>1, <3>2, <3>3
    <2> QED BY <1>1, <2>1, <2>2, <2>4, <2>5
  <1>13. ASSUME NEW u \in BOOLEAN, BeginTurn(u) PROVE RestTypes' /\ AdmissionHasNext'
    <2>1. admission \in Checkpoint /\ admission.attempt + 1 \in Attempt
      BY <1>1, <1>13 DEF BeginTurn, Checkpoint
    <2>2. [attempt |-> admission.attempt + 1, last |-> 0] \in Checkpoint BY <2>1 DEF Checkpoint
    <2>3. Entry(admission.attempt + 1, 0) \in EntryType BY <2>1 DEF Entry, EntryType
    <2>4. log' \in Seq(EntryType)
      <3>1. log \in Seq(EntryType) BY <1>1
      <3>2. Append(log, Entry(admission.attempt + 1, 0)) \in Seq(EntryType)
        BY <2>3, <3>1, AppendProperties
      <3> QED BY <1>13, <3>1, <3>2 DEF BeginTurn
    <2>5. checkpoint' \in Checkpoint /\ session' \in {"running", "waiting"}
      BY <1>1, <1>13, <2>2 DEF BeginTurn
    <2> QED BY <1>1, <1>13, <2>4, <2>5 DEF BeginTurn
  <1> QED
    BY <1>2, <1>3, <1>4, <1>5, <1>6, <1>7, <1>8, <1>9, <1>10, <1>11, <1>12, <1>13 DEF Next, Worker, Pump

(* The log only grows. *)
LEMMA LogGrows ==
  ASSUME IInv, [Next]_vars, NEW a, NEW n, Found(a, n) PROVE Found(a, n)'
  <1>1. log \in Seq(EntryType) /\ checkpoint \in Checkpoint
    BY DEF IInv, TypeOK, EntryType
  <1>2. \/ log' = log
        \/ \E e \in EntryType : log' = Append(log, e)
    <2>1. \/ log' = log \/ Copy!Copy \/ Copy!Turn
      BY StepCopies DEF Copy!Next, Copy!Record, Copy!vars
    <2>2. CASE Copy!Copy
      <3>1. checkpoint.attempt \in Attempt /\ latest[checkpoint.attempt] \in 0 .. MaxEvents
        BY <1>1 DEF Checkpoint, IInv, TypeOK
      <3>2. checkpoint.last + 1 \in 0 .. MaxEvents
        BY <1>1, <2>2, <3>1, BoundsAssumption DEF Copy!Copy, Checkpoint
      <3>3. [attempt |-> checkpoint.attempt, seq |-> checkpoint.last + 1] \in EntryType
        BY <3>1, <3>2 DEF EntryType
      <3> QED BY <2>2, <3>3 DEF Copy!Copy
    <2>3. CASE Copy!Turn
      <3>1. checkpoint.attempt + 1 \in Attempt
        BY <1>1, <2>3, BoundsAssumption DEF Copy!Turn, Checkpoint, Attempt
      <3>2. [attempt |-> checkpoint.attempt + 1, seq |-> 0] \in EntryType
        BY <3>1, BoundsAssumption DEF EntryType
      <3> QED BY <2>3, <3>2 DEF Copy!Turn
    <2> QED BY <2>1, <2>2, <2>3
  <1>3. CASE log' = log BY <1>3 DEF Found
  <1>4. ASSUME NEW e \in EntryType, log' = Append(log, e)
        PROVE  Found(a, n)'
    <2>1. DOMAIN log = 1 .. Len(log) /\ DOMAIN log' = 1 .. Len(log) + 1
      BY <1>1, <1>4, LenProperties, AppendProperties
    <2>2. \A i \in DOMAIN log : i \in DOMAIN log' /\ log'[i] = log[i]
      BY <1>1, <1>4, <2>1, LenProperties, AppendProperties
    <2> QED BY <2>2 DEF Found, Entry
  <1> QED BY <1>2, <1>3, <1>4

(* An entry was there before, or is the one a step of OrderedCopy appends. *)
LEMMA EntriesOfStep ==
  ASSUME IInv, [Next]_vars
  PROVE  \/ log' = log /\ checkpoint' = checkpoint
         \/ /\ checkpoint.last < latest[checkpoint.attempt] /\ latest' = latest
            /\ checkpoint' = [checkpoint EXCEPT !.last = @ + 1]
            /\ log' = Append(log, Entry(checkpoint.attempt, checkpoint.last + 1))
         \/ /\ checkpoint.attempt < MaxAttempt /\ latest' = latest
            /\ checkpoint' = [attempt |-> checkpoint.attempt + 1, last |-> 0]
            /\ log' = log \/ log' = Append(log, Entry(checkpoint.attempt + 1, 0))
  BY StepCopies DEF Copy!Next, Copy!Copy, Copy!Turn, Copy!Record, Copy!vars, Entry

(* The recorded events of an attempt only grow in number. *)
LEMMA LatestGrows ==
  ASSUME IInv, [Next]_vars, NEW a \in Attempt PROVE latest'[a] >= latest[a]
  <1>1. latest \in [Attempt -> 0 .. MaxEvents] BY DEF IInv, TypeOK
  <1>2. CASE latest' = latest BY <1>1, <1>2, BoundsAssumption
  <1>3. CASE \E b \in Attempt : latest' = [latest EXCEPT ![b] = @ + 1]
    BY <1>1, <1>3, BoundsAssumption
  <1> QED
    BY <1>2, <1>3, StepCopies
    DEF Copy!Next, Copy!Copy, Copy!Turn, Copy!Record, Copy!vars, Attempt

(* What an appended entry adds. *)
LEMMA AppendedEntry ==
  ASSUME NEW e \in EntryType, log \in Seq(EntryType), log' = Append(log, e)
  PROVE  /\ \A i \in DOMAIN log' : \/ i \in DOMAIN log /\ log'[i] = log[i]
                                   \/ i = Len(log) + 1 /\ log'[i] = e
         /\ DOMAIN log = 1 .. Len(log) /\ Len(log) \in Nat
         /\ \A x : (\E i \in DOMAIN log' : log'[i] = x) <=> (\E i \in DOMAIN log : log[i] = x) \/ e = x
  <1>1. DOMAIN log = 1 .. Len(log) /\ Len(log) \in Nat /\ DOMAIN log' = 1 .. Len(log) + 1
    BY LenProperties, AppendProperties
  <1>2. /\ \A i \in 1 .. Len(log) : log'[i] = log[i]
        /\ log'[Len(log) + 1] = e
    BY AppendProperties
  <1>3. \A i \in DOMAIN log' : \/ i \in DOMAIN log /\ log'[i] = log[i]
                               \/ i = Len(log) + 1 /\ log'[i] = e
    BY <1>1, <1>2
  <1>4. \A x : (\E i \in DOMAIN log' : log'[i] = x) <=> (\E i \in DOMAIN log : log[i] = x) \/ e = x
    BY <1>1, <1>2, <1>3
  <1> QED BY <1>1, <1>3, <1>4

(* The log stays in order, a prefix of each attempt, and within its        *)
(* checkpoint. *)
LEMMA NextKeepsLog == ASSUME IInv, [Next]_vars, RestTypes' PROVE LogEnds' /\ FaithfulCopy'
  <1>1. /\ log \in Seq(EntryType) /\ checkpoint \in Checkpoint
        /\ LogEnds /\ FaithfulCopy
    BY DEF IInv, TypeOK, EntryType
  <1>2. latest \in [Attempt -> 0 .. MaxEvents] /\ latest' \in [Attempt -> 0 .. MaxEvents]
    BY DEF IInv, TypeOK, RestTypes
  <1>3. \A i \in DOMAIN log : log[i].attempt \in Attempt /\ log[i].seq \in 0 .. MaxEvents
    <2>1. \A i \in DOMAIN log : log[i] \in EntryType BY <1>1, LenProperties, ElementOfSeq
    <2> QED BY <2>1 DEF EntryType
  <1>4. CASE log' = log /\ checkpoint' = checkpoint
    <2>1. LogEnds' BY <1>1, <1>4 DEF LogEnds
    <2>2. \A i \in DOMAIN log : log[i].seq <= latest'[log[i].attempt]
      BY <1>1, <1>2, <1>3, LatestGrows, BoundsAssumption DEF FaithfulCopy
    <2> QED BY <1>1, <1>4, <2>1, <2>2 DEF FaithfulCopy, Found
  <1>5. /\ checkpoint.attempt \in Attempt /\ checkpoint.last \in 0 .. MaxEvents
        /\ latest[checkpoint.attempt] \in 0 .. MaxEvents
    BY <1>1, <1>2 DEF Checkpoint
  <1>6. ASSUME NEW e \in EntryType, log' = Append(log, e), latest' = latest, checkpoint' \in Checkpoint,
               \/ checkpoint.attempt < e.attempt
               \/ checkpoint.attempt = e.attempt /\ checkpoint.last < e.seq,
               e.attempt = checkpoint'.attempt, e.seq = checkpoint'.last, e.seq <= latest[e.attempt],
               e.seq = 0 \/ (checkpoint.attempt = e.attempt /\ e.seq = checkpoint.last + 1)
        PROVE  LogEnds' /\ FaithfulCopy'
    <2>1. /\ \A i \in DOMAIN log' : \/ i \in DOMAIN log /\ log'[i] = log[i]
                                    \/ i = Len(log) + 1 /\ log'[i] = e
          /\ DOMAIN log = 1 .. Len(log) /\ Len(log) \in Nat
          /\ \A x : (\E i \in DOMAIN log' : log'[i] = x) <=> (\E i \in DOMAIN log : log[i] = x) \/ e = x
      BY <1>1, <1>6, AppendedEntry
    <2>2. /\ e.attempt \in Attempt /\ e.seq \in 0 .. MaxEvents /\ e = Entry(e.attempt, e.seq)
          /\ \A a, n : e = Entry(a, n) => a = e.attempt /\ n = e.seq
      BY DEF EntryType, Entry
    <2>3. \A i \in DOMAIN log : \/ log[i].attempt < e.attempt
                                \/ log[i].attempt = e.attempt /\ log[i].seq < e.seq
      <3> TAKE i \in DOMAIN log
      <3>1. /\ log[i].attempt \in Nat /\ log[i].seq \in Nat
            /\ checkpoint.attempt \in Nat /\ checkpoint.last \in Nat
            /\ e.attempt \in Nat /\ e.seq \in Nat
        BY <1>3, <1>5, <2>2, BoundsAssumption DEF Attempt
      <3>2. \/ log[i].attempt < checkpoint.attempt
            \/ log[i].attempt = checkpoint.attempt /\ log[i].seq <= checkpoint.last
        BY <1>1 DEF LogEnds
      <3> QED BY <1>6, <3>1, <3>2
    <2>4. LogEnds' BY <1>3, <1>6, <2>1, <2>2, <2>3, BoundsAssumption DEF LogEnds, Attempt
    <2>5. \A i, j \in DOMAIN log' : i < j =>
             \/ log'[i].attempt < log'[j].attempt
             \/ log'[i].attempt = log'[j].attempt /\ log'[i].seq < log'[j].seq
      <3> TAKE i, j \in DOMAIN log'
      <3> HAVE i < j
      <3>1. i \in DOMAIN log /\ log'[i] = log[i]
        BY <2>1
      <3>2. CASE j \in DOMAIN log /\ log'[j] = log[j] BY <1>1, <3>1, <3>2 DEF FaithfulCopy
      <3>3. CASE log'[j] = e BY <2>3, <3>1, <3>3
      <3> QED BY <2>1, <3>2, <3>3
    <2>6. \A n \in EventSeq : Found(e.attempt, n) => n < e.seq
      <3> TAKE n \in EventSeq
      <3> HAVE Found(e.attempt, n)
      <3>1. PICK i \in DOMAIN log : log[i] = Entry(e.attempt, n) BY DEF Found
      <3>2. log[i].attempt = e.attempt /\ log[i].seq = n BY <3>1 DEF Entry
      <3> QED BY <2>2, <2>3, <3>2 DEF Attempt
    <2> DEFINE FoundNext(a, n) == \E i \in DOMAIN log' : log'[i] = Entry(a, n)
    <2>7. \A a, n : FoundNext(a, n) <=> Found(a, n) \/ (a = e.attempt /\ n = e.seq)
      BY <2>1, <2>2 DEF Found
    <2> HIDE DEF FoundNext
    <2>8. \A n \in EventSeq : FoundNext(checkpoint'.attempt, n) <=> n <= checkpoint'.last
      <3>1. CASE e.seq = 0 BY <1>6, <2>7, <2>2, <2>6, <3>1, BoundsAssumption DEF EventSeq
      <3>2. CASE checkpoint.attempt = e.attempt /\ e.seq = checkpoint.last + 1
        BY <1>1, <1>5, <1>6, <2>7, <2>2, <3>2, BoundsAssumption DEF FaithfulCopy, EventSeq
      <3> QED BY <1>6, <3>1, <3>2
    <2>9. \A a \in Attempt, n \in EventSeq : FoundNext(a, n + 1) => FoundNext(a, n)
      <3> TAKE a \in Attempt, n \in EventSeq
      <3>1. CASE Found(a, n + 1) BY <1>1, <2>7, <3>1 DEF FaithfulCopy
      <3>2. CASE a = e.attempt /\ n + 1 = e.seq
        <4>1. a = checkpoint.attempt /\ n = checkpoint.last
          BY <1>5, <1>6, <2>2, <3>2, BoundsAssumption DEF EventSeq
        <4>2. Found(a, n) BY <1>1, <1>5, <4>1, BoundsAssumption DEF FaithfulCopy
        <4> QED BY <2>7, <4>2
      <3> QED BY <2>7, <3>1, <3>2
    <2>10. \A i \in DOMAIN log' : log'[i].seq <= latest'[log'[i].attempt]
      BY <1>1, <1>6, <2>1 DEF FaithfulCopy
    <2> QED BY <2>4, <2>5, <2>8, <2>9, <2>10 DEF FaithfulCopy, Found, FoundNext, Entry
  <1>7. CASE /\ checkpoint.last < latest[checkpoint.attempt] /\ latest' = latest
             /\ checkpoint' = [checkpoint EXCEPT !.last = @ + 1]
             /\ log' = Append(log, Entry(checkpoint.attempt, checkpoint.last + 1))
    <2> DEFINE e == Entry(checkpoint.attempt, checkpoint.last + 1)
    <2>1. /\ e \in EntryType /\ e.attempt = checkpoint.attempt /\ e.seq = checkpoint.last + 1
          /\ checkpoint'.attempt = checkpoint.attempt /\ checkpoint'.last = checkpoint.last + 1
          /\ checkpoint' \in Checkpoint
      <3>1. checkpoint.last + 1 \in 0 .. MaxEvents BY <1>5, <1>7, BoundsAssumption
      <3>2. e \in EntryType /\ e.attempt = checkpoint.attempt /\ e.seq = checkpoint.last + 1
        BY <1>5, <3>1 DEF Entry, EntryType
      <3>3. checkpoint' \in Checkpoint BY <1>1, <1>7, <3>1 DEF Checkpoint
      <3>4. checkpoint'.attempt = checkpoint.attempt /\ checkpoint'.last = checkpoint.last + 1
        BY <1>1, <1>7 DEF Checkpoint
      <3> QED BY <3>2, <3>3, <3>4
    <2>2. checkpoint.last < checkpoint.last + 1 /\ checkpoint.last + 1 <= latest[checkpoint.attempt]
      BY <1>5, <1>7, BoundsAssumption
    <2> HIDE DEF e
    <2> QED BY <1>6, <1>7, <2>1, <2>2 DEF e
  <1>8. CASE /\ checkpoint.attempt < MaxAttempt /\ latest' = latest
             /\ checkpoint' = [attempt |-> checkpoint.attempt + 1, last |-> 0]
             /\ log' = Append(log, Entry(checkpoint.attempt + 1, 0))
    <2> DEFINE e == Entry(checkpoint.attempt + 1, 0)
    <2>1. /\ e \in EntryType /\ e.attempt = checkpoint.attempt + 1 /\ e.seq = 0
          /\ checkpoint'.attempt = checkpoint.attempt + 1 /\ checkpoint'.last = 0
          /\ checkpoint' \in Checkpoint
      BY <1>5, <1>8, BoundsAssumption DEF Entry, EntryType, Checkpoint, Attempt
    <2>2. checkpoint.attempt < checkpoint.attempt + 1 /\ 0 <= latest[checkpoint.attempt + 1]
      BY <1>2, <1>5, <1>8, BoundsAssumption DEF Attempt
    <2> HIDE DEF e
    <2> QED BY <1>6, <1>8, <2>1, <2>2 DEF e
  <1>9. CASE /\ checkpoint.attempt < MaxAttempt /\ latest' = latest
             /\ checkpoint' = [attempt |-> checkpoint.attempt + 1, last |-> 0]
             /\ log' = log
    <2>1. checkpoint'.attempt = checkpoint.attempt + 1 /\ checkpoint'.last = 0 BY <1>9
    <2>2. \A i \in DOMAIN log : log[i].attempt < checkpoint.attempt + 1
      BY <1>1, <1>3, <1>5, BoundsAssumption DEF LogEnds, Attempt
    <2>3. LogEnds' BY <1>9, <2>1, <2>2 DEF LogEnds
    <2>4. \A n \in EventSeq : ~Found(checkpoint.attempt + 1, n) /\ ~(n <= 0)
      BY <1>3, <1>5, <2>2 DEF Found, Entry, EventSeq, Attempt
    <2> QED BY <1>1, <1>9, <2>1, <2>3, <2>4 DEF FaithfulCopy, Found
  <1> QED BY <1>4, <1>7, <1>8, <1>9, EntriesOfStep

(* What a pump accepted stays stored; it accepts only what is. *)
LEMMA NextKeepsAccepted == ASSUME IInv, [Next]_vars PROVE Accepted'
  <1>1. pump \in [Pumps -> PumpType] BY StreamTypes DEF IInv
  <1>2. checkpoint \in Checkpoint BY DEF IInv, TypeOK
  <1> DEFINE Holds(q) == /\ q.pc \in {"open", "read", "inspect", "done"} => q.reference \in Attempt
                         /\ \A n \in 1 .. q.accepted : \E i \in DOMAIN log' : log'[i] = Entry(q.reference, n)
  <1>3. SUFFICES \A p \in Pumps : Holds(pump'[p]) BY DEF Accepted, Found, Entry
  <1>4. \A a, n : Found(a, n) => \E i \in DOMAIN log' : log'[i] = Entry(a, n)
    BY LogGrows DEF Found, Entry
  <1>5. \A p \in Pumps : Holds(pump[p]) BY <1>4 DEF IInv, Accepted
  <1>6. Holds(IdlePump) /\ Holds(Recovering) /\ Holds([IdlePump EXCEPT !.pc = "load"])
    BY DEF IdlePump, Recovering
  <1>7. ASSUME NEW p \in Pumps, NEW q, Holds(q), pump' = [pump EXCEPT ![p] = q]
        PROVE  \A x \in Pumps : Holds(pump'[x])
    BY <1>1, <1>5, <1>7
  <1>8. ASSUME NEW p \in Pumps, NEW to \in {"open", "read", "inspect", "retry", "done", "recover"},
               pump[p].reference \in Attempt, GoTo(p, to)
        PROVE  \A x \in Pumps : Holds(pump'[x])
    <2>1. CASE to = "recover"
      <3> HIDE DEF Holds
      <3> QED BY <1>6, <1>7, <1>8, <2>1 DEF GoTo
    <2>2. CASE to # "recover"
      <3> DEFINE q == [pump[p] EXCEPT !.pc = to]
      <3>1. /\ q.reference \in Attempt /\ q.reference = pump[p].reference /\ q.accepted = pump[p].accepted
        BY <1>1, <1>8 DEF PumpType
      <3>2. Holds(q) BY <1>5, <3>1
      <3>3. pump' = [pump EXCEPT ![p] = q] BY <1>1, <1>8, <2>2 DEF GoTo
      <3> HIDE DEF Holds, q
      <3> QED BY <1>7, <3>2, <3>3
    <2> QED BY <2>1, <2>2
  <1>9. ASSUME NEW p \in Pumps, pump[p].pc \in {"open", "read", "inspect", "done"}
        PROVE  pump[p].reference \in Attempt
    BY <1>9 DEF IInv, Accepted
  <1>10. ASSUME NEW p \in Pumps, IngestNext(p) PROVE \A x \in Pumps : Holds(pump'[x])
    <2> DEFINE n == Head(stream[p].wire)
               a == pump[p].reference
               r == [pump[p] EXCEPT !.accepted = n]
               s == [pump[p] EXCEPT !.pc = "inspect", !.cause = "error"]
    <2>0. n = pump[p].accepted + 1 /\ n \in EventSeq /\ a \in Attempt BY <1>10, IngestStores
    <2>1. n = pump[p].accepted + 1 /\ a \in Attempt /\ pump[p].accepted \in Nat
      BY <1>1, <2>0 DEF PumpType
    <2>2. \/ pump' = [pump EXCEPT ![p] = s]
          \/ /\ pump' = [pump EXCEPT ![p] = r]
             /\ Found(a, n) \/ log' = Append(log, Entry(a, n))
      BY <1>1, <1>10, IngestStores
    <2>3. r.reference = a /\ r.accepted = n /\ s.reference = a /\ s.accepted = pump[p].accepted
      BY <1>1 DEF PumpType
    <2>4. Holds(s) BY <1>5, <2>1, <2>3
    <2>5. ASSUME Found(a, n) \/ log' = Append(log, Entry(a, n)) PROVE Holds(r)
      <3>1. \E i \in DOMAIN log' : log'[i] = Entry(a, n)
        <4>1. CASE Found(a, n) BY <1>4, <4>1
        <4>2. CASE log' = Append(log, Entry(a, n))
          <5>1. log \in Seq(EntryType) BY DEF IInv, TypeOK, EntryType
          <5>2. n \in 0 .. MaxEvents BY <2>0, BoundsAssumption DEF EventSeq
          <5>3. Entry(a, n) \in EntryType
            <6> HIDE DEF n, a
            <6> QED BY <2>1, <5>2 DEF EntryType, Entry
          <5> HIDE DEF n, a
          <5> QED BY <4>2, <5>1, <5>3, AppendedEntry
        <4> QED BY <2>5, <4>1, <4>2
      <3>2. \A m \in 1 .. n : m \in 1 .. pump[p].accepted \/ m = n BY <2>1
      <3>3. Holds(pump[p]) BY <1>5
      <3> HIDE DEF n
      <3> QED BY <2>1, <2>3, <3>1, <3>2, <3>3
    <2> HIDE DEF Holds, r, s
    <2> QED BY <1>7, <2>2, <2>4, <2>5
  <1>11. ASSUME NEW p \in Pumps, NEW c \in BOOLEAN,
                Start(p) \/ Load(p) \/ Inspect(p) \/ Reconnect(p) \/ GiveUp(p) \/ Finish(p, c)
         PROVE  \A x \in Pumps : Holds(pump'[x])
    <2>1. CASE Start(p) \/ Reconnect(p)
      <3> HIDE DEF Holds
      <3> QED BY <1>6, <1>7, <2>1 DEF Start, Reconnect
    <2>2. CASE Load(p)
      <3> DEFINE q == [pump[p] EXCEPT !.pc = "open", !.reference = checkpoint.attempt,
                                      !.accepted = checkpoint.last]
      <3>1. pump' = [pump EXCEPT ![p] = q] BY <1>1, <2>2 DEF Load
      <3>2. q.reference = checkpoint.attempt /\ q.accepted = checkpoint.last BY <1>1 DEF PumpType
      <3>3. \A n \in 1 .. checkpoint.last : Found(checkpoint.attempt, n)
        BY <1>2, BoundsAssumption DEF IInv, FaithfulCopy, EventSeq, Checkpoint
      <3>4. Holds(q) BY <1>2, <1>4, <3>2, <3>3 DEF Checkpoint
      <3> HIDE DEF Holds, q
      <3> QED BY <1>7, <3>1, <3>4
    <2>3. CASE Inspect(p)
      <3>1. pump[p].reference \in Attempt BY <1>9, <2>3 DEF Inspect, At
      <3>2. latest[pump[p].reference] \in Nat /\ pump[p].accepted \in Nat
        BY <1>1, <3>1 DEF IInv, TypeOK, PumpType
      <3>3. AfterEnd(p) \in {"retry", "recover", "done"} BY <3>1, <3>2 DEF AfterEnd
      <3> HIDE DEF Holds
      <3> QED BY <1>8, <2>3, <3>1, <3>3 DEF Inspect
    <2>4. CASE GiveUp(p)
      <3> HIDE DEF Holds
      <3> QED BY <1>6, <1>7, <2>4 DEF GiveUp, GoTo
    <2>5. CASE Finish(p, c)
      <3> HIDE DEF Holds
      <3> QED BY <1>6, <1>7, <2>5 DEF Finish
    <2> QED BY <1>11, <2>1, <2>2, <2>3, <2>4, <2>5
  <1>12. ASSUME NEW p \in Pumps, Open(p) PROVE \A x \in Pumps : Holds(pump'[x])
    <2>1. pump[p].reference \in Attempt BY <1>9, <1>12 DEF Open, At
    <2> HIDE DEF Holds
    <2> QED BY <1>8, <1>12, <2>1 DEF Open
  <1>13. ASSUME NEW p \in Pumps, StreamEnds(p) PROVE \A x \in Pumps : Holds(pump'[x])
    <2>1. pump[p].reference \in Attempt BY <1>9, <1>13 DEF StreamEnds, At
    <2> DEFINE c == IF stream[p].end = "eof" THEN "eof" ELSE "error"
               q == [pump[p] EXCEPT !.pc = "inspect", !.cause = c]
    <2>2. q.reference = pump[p].reference /\ q.accepted = pump[p].accepted BY <1>1 DEF PumpType
    <2>3. Holds(q) BY <1>5, <2>1, <2>2
    <2>4. pump' = [pump EXCEPT ![p] = q] BY <1>1, <1>13 DEF StreamEnds
    <2> HIDE DEF Holds, q
    <2> QED BY <1>7, <2>3, <2>4
  <1>14. ASSUME UNCHANGED pump PROVE \A x \in Pumps : Holds(pump'[x]) BY <1>5, <1>14
  <1>15. CASE CoordinatorCrash BY <1>6, <1>15 DEF CoordinatorCrash
  <1> HIDE DEF Holds
  <1>16. CASE \/ UNCHANGED vars \/ PutAttempt \/ PrepareTurn \/ WorkerCrash
              \/ \E a \in Attempt : RegisterLive(a) \/ Supersede(a) \/ RecordEvent(a)
              \/ \E a \in Attempt, to \in {"indeterminate", "terminal"} : EndAttempt(a, to)
              \/ \E resumed \in SUBSET Attempt : WorkerRestart(resumed)
              \/ \E p \in Pumps : Server(p) \/ PrepareContinuation(p)
              \/ \E u \in BOOLEAN : BeginTurn(u)
              \/ \E p \in Pumps, k \in 0 .. WireSize : BreakConnection(p, k)
    <2>1. UNCHANGED pump
      BY <1>16 DEF PutAttempt, PrepareTurn, WorkerCrash, RegisterLive, Supersede, RecordEvent, EndAttempt,
         WorkerRestart, Server, WriteReplay, WriteLive, EndBody, PrepareContinuation, BeginTurn,
         BreakConnection, vars
    <2> QED BY <1>14, <2>1
  <1> QED BY <1>10, <1>11, <1>12, <1>13, <1>15, <1>16 DEF Next, Worker, Pump

(* An ended attempt stays ended and records no more. *)
LEMMA EndedStaysEnded ==
  ASSUME IInv, [Next]_vars, NEW a \in Attempt, state[a] = "terminal"
  PROVE  state'[a] = "terminal" /\ latest'[a] = latest[a]
  <1>1. state \in [Attempt -> {"none", "active", "indeterminate", "terminal"}]
        /\ latest \in [Attempt -> 0 .. MaxEvents]
    BY DEF IInv, TypeOK
  <1>2. CASE UNCHANGED <<state, latest>> BY <1>2
  <1>3. CASE \/ PutAttempt \/ \E b \in Attempt : Supersede(b) \/ RecordEvent(b)
             \/ \E b \in Attempt, to \in {"indeterminate", "terminal"} : EndAttempt(b, to)
             \/ \E resumed \in SUBSET Attempt : WorkerRestart(resumed)
    BY <1>1, <1>3 DEF PutAttempt, Supersede, RecordEvent, EndAttempt, WorkerRestart
  <1>4. CASE ~(\/ PutAttempt \/ \E b \in Attempt : Supersede(b) \/ RecordEvent(b)
               \/ \E b \in Attempt, to \in {"indeterminate", "terminal"} : EndAttempt(b, to)
               \/ \E resumed \in SUBSET Attempt : WorkerRestart(resumed))
    <2>1. UNCHANGED <<state, latest>>
      BY <1>4
      DEF Next, Worker, WorkerCrash, RegisterLive, Server, WriteReplay, WriteLive, EndBody, Pump, Load, Open,
          IngestNext, StreamEnds, Inspect, Start, Reconnect, GiveUp, BreakConnection, PrepareContinuation,
          Finish, PrepareTurn, CoordinatorCrash, BeginTurn, vars, workerVars
    <2> QED BY <1>2, <2>1
  <1> QED BY <1>3, <1>4

(* A pump reports completion only when everything recorded is stored. *)
LEMMA NextKeepsCompletion == ASSUME IInv, [Next]_vars PROVE CompletionIsComplete'
  <1>1. pump \in [Pumps -> PumpType] BY StreamTypes DEF IInv
  <1>2. SUFFICES ASSUME NEW p \in Pumps, pump'[p].pc = "done"
                 PROVE  /\ state'[pump'[p].reference] = "terminal"
                        /\ \A n \in 1 .. latest'[pump'[p].reference] :
                              \E i \in DOMAIN log' : log'[i] = Entry(pump'[p].reference, n)
    BY DEF CompletionIsComplete, At, Found, Entry
  <1> DEFINE a == pump[p].reference
  <1>3. ASSUME pump'[p].reference = a, a \in Attempt, state[a] = "terminal",
               \A n \in 1 .. latest[a] : Found(a, n)
        PROVE  /\ state'[pump'[p].reference] = "terminal"
               /\ \A n \in 1 .. latest'[pump'[p].reference] :
                     \E i \in DOMAIN log' : log'[i] = Entry(pump'[p].reference, n)
    <2>1. state'[a] = "terminal" /\ latest'[a] = latest[a] BY <1>3, EndedStaysEnded
    <2>2. \A n : Found(a, n) => \E i \in DOMAIN log' : log'[i] = Entry(a, n)
      BY LogGrows DEF Found, Entry
    <2> QED BY <1>3, <2>1, <2>2
  <1>4. CASE pump'[p] = pump[p]
    <2>1. /\ a \in Attempt /\ state[a] = "terminal" /\ \A n \in 1 .. latest[a] : Found(a, n)
      BY <1>2, <1>4 DEF IInv, Accepted, CompletionIsComplete, At
    <2> QED BY <1>3, <1>4, <2>1
  <1>5. CASE Inspect(p)
    <2>1. pump[p].pc = "inspect" /\ GoTo(p, AfterEnd(p)) BY <1>5 DEF Inspect, At
    <2>2. /\ a \in Attempt /\ latest[a] \in Nat /\ pump[p].accepted \in Nat
          /\ \A n \in 1 .. pump[p].accepted : Found(a, n)
      BY <1>1, <2>1 DEF IInv, Accepted, TypeOK, PumpType
    <2>3. AfterEnd(p) = "done" /\ pump'[p].reference = a
      BY <1>1, <1>2, <2>1 DEF GoTo, PumpType, Recovering, IdlePump
    <2>4. state[a] = "terminal" /\ latest[a] = pump[p].accepted
      BY <2>2, <2>3 DEF AfterEnd
    <2> QED BY <1>3, <2>2, <2>3, <2>4
  <1>6. pump'[p] = pump[p] \/ Inspect(p)
    <2>1. ASSUME NEW x \in Pumps, NEW q, pump' = [pump EXCEPT ![x] = q], q.pc # "done"
          PROVE  pump'[p] = pump[p]
      BY <1>1, <1>2, <2>1
    <2>2. ASSUME NEW x \in Pumps, NEW to, GoTo(x, to), to # "done" PROVE pump'[p] = pump[p]
      BY <1>1, <1>2, <2>2 DEF GoTo, Recovering, IdlePump, PumpType
    <2>3. CASE \E x \in Pumps : Start(x) \/ Reconnect(x) \/ \E c \in BOOLEAN : Finish(x, c)
      BY <2>1, <2>3 DEF Start, Reconnect, Finish, IdlePump
    <2>4. CASE \E x \in Pumps : GiveUp(x) \/ Open(x) BY <2>2, <2>4 DEF GiveUp, Open
    <2>5. CASE \E x \in Pumps : Load(x) \/ StreamEnds(x) \/ IngestNext(x)
      BY <1>1, <1>2, <2>5 DEF Load, StreamEnds, IngestNext, At, PumpType
    <2>6. CASE CoordinatorCrash BY <1>2, <2>6 DEF CoordinatorCrash, Recovering, IdlePump
    <2>7. CASE \E x \in Pumps : Inspect(x) BY <1>1, <2>7 DEF Inspect, GoTo
    <2>8. CASE \/ UNCHANGED vars \/ PutAttempt \/ PrepareTurn \/ WorkerCrash
               \/ \E b \in Attempt : RegisterLive(b) \/ Supersede(b) \/ RecordEvent(b)
               \/ \E b \in Attempt, to \in {"indeterminate", "terminal"} : EndAttempt(b, to)
               \/ \E resumed \in SUBSET Attempt : WorkerRestart(resumed)
               \/ \E x \in Pumps : Server(x) \/ PrepareContinuation(x)
               \/ \E u \in BOOLEAN : BeginTurn(u)
               \/ \E x \in Pumps, k \in 0 .. WireSize : BreakConnection(x, k)
      BY <2>8 DEF PutAttempt, PrepareTurn, WorkerCrash, RegisterLive, Supersede, RecordEvent, EndAttempt,
         WorkerRestart, Server, WriteReplay, WriteLive, EndBody, PrepareContinuation, BeginTurn,
         BreakConnection, vars
    <2> QED BY <2>3, <2>4, <2>5, <2>6, <2>7, <2>8 DEF Next, Worker, Pump
  <1> QED BY <1>4, <1>5, <1>6

----------------------------------------------------------------------------
(* The invariant.                                                          *)

(* It holds before anything was copied. *)
LEMMA InitIngests == ASSUME Init PROVE IInv
  <1>1. TypeOK
    <2>1. stream \in [Pumps -> StreamType] /\ pump \in [Pumps -> PumpType] BY ClosedTypes DEF Init
    <2>2. RestTypes BY BoundsAssumption, EmptySeq DEF Init, RestTypes, Checkpoint, Attempt
    <2> QED BY <2>1, <2>2, TypesTogether
  <1>2. Streams BY DEF Init, Streams, StreamOf, IdlePump
  <1>3. Accepted BY DEF Init, Accepted, IdlePump
  <1>4. LogEnds /\ AdmissionHasNext BY DEF Init, LogEnds, AdmissionHasNext
  <1>5. FaithfulCopy BY BoundsAssumption DEF Init, FaithfulCopy, Found, EventSeq
  <1>6. CompletionIsComplete BY DEF Init, CompletionIsComplete, At, IdlePump
  <1> QED BY <1>1, <1>2, <1>3, <1>4, <1>5, <1>6 DEF IInv

(* Every step keeps it. *)
LEMMA NextIngests == ASSUME IInv, [Next]_vars PROVE IInv'
  <1>1. CASE UNCHANGED vars
    BY <1>1 DEF IInv, vars, TypeOK, Streams, StreamOf, Accepted, LogEnds, AdmissionHasNext, FaithfulCopy,
       CompletionIsComplete, Found, At, Follows
  <1>2. CASE Next
    <2>1. StreamsKept BY <1>2, NextKeepsStreams
    <2>2. RestTypes' /\ AdmissionHasNext' BY <1>2, NextKeepsTypes
    <2>3. TypeOK' BY <2>1, <2>2 DEF StreamsKept, TypeOK, RestTypes, StreamType, PumpType, EntryType
    <2>4. LogEnds' /\ FaithfulCopy' BY <2>2, NextKeepsLog
    <2>5. Accepted' /\ CompletionIsComplete' BY NextKeepsAccepted, NextKeepsCompletion
    <2> QED BY <2>1, <2>2, <2>3, <2>4, <2>5 DEF IInv, StreamsKept
  <1> QED BY <1>1, <1>2

(* The invariant holds in every behaviour. *)
THEOREM IngestsSoundly == Spec => []IInv
  <1>1. Init => IInv BY InitIngests
  <1>2. IInv /\ [Next]_vars => IInv' BY NextIngests
  <1> QED BY <1>1, <1>2, PTL DEF Spec

(* What the three stretches of a stream come to. *)
LEMMA StreamsLackNothing == ASSUME IInv PROVE NothingFallsBetween
  <1> SUFFICES ASSUME NEW p \in Pumps, At(p, "read")
               PROVE  /\ \A i \in DOMAIN Underway(p) : Underway(p)[i] = pump[p].accepted + i
                      /\ stream[p].end # "protocol_error"
                      /\ stream[p].open => pump[p].accepted + Len(Underway(p)) = latest[stream[p].attempt]
    BY DEF NothingFallsBetween
  <1> DEFINE s == stream[p]
             k == pump[p].accepted
             w == s.wire
             r == s.replay
             l == s.live
  <1>1. s \in StreamType /\ pump[p] \in PumpType BY StreamTypes DEF IInv
  <1>2. Follows(s, pump[p], latest[s.attempt]) BY DEF IInv, Streams, StreamOf, At
  <1>3. /\ w \in Seq(EventSeq) /\ r \in Seq(EventSeq) /\ l \in Seq(EventSeq) /\ k \in Nat
        /\ Len(w) \in Nat /\ Len(r) \in Nat /\ Len(l) \in Nat
    BY <1>1, LengthsAreNatural DEF StreamType
  <1>4. /\ From(w, k) /\ From(r, k + Len(w)) /\ From(l, k + Len(w) + Len(r))
        /\ s.end # "protocol_error"
        /\ s.open => k + (Len(w) + Len(r) + Len(l)) = latest[s.attempt]
    BY <1>2 DEF Follows, Carried
  <1>5. Underway(p) = (w \o r) \o l BY DEF Underway
  <1> HIDE DEF w, r, l, k
  <1>6. w \o r \in Seq(EventSeq) /\ Len(w \o r) = Len(w) + Len(r) /\ From(w \o r, k)
    BY <1>3, <1>4, FromConcat, ConcatProperties
  <1>7. From(l, k + Len(w \o r)) BY <1>3, <1>4, <1>6
  <1>8. (w \o r) \o l \in Seq(EventSeq) /\ Len((w \o r) \o l) = Len(w) + Len(r) + Len(l)
    BY <1>3, <1>6, ConcatProperties
  <1>9. From((w \o r) \o l, k) BY <1>3, <1>6, <1>7, FromConcat
  <1>10. DOMAIN Underway(p) = 1 .. Len(Underway(p)) BY <1>5, <1>8, LenProperties
  <1>11. \A i \in DOMAIN Underway(p) : Underway(p)[i] = k + i BY <1>5, <1>9, <1>10 DEF From
  <1>12. s.open => k + Len(Underway(p)) = latest[s.attempt] BY <1>4, <1>5, <1>8
  <1> QED BY <1>4, <1>11, <1>12 DEF k

(* The session log is a faithful copy at every moment, however often       *)
(* connections break, processes restart and pumps run twice, and nothing   *)
(* falls between a replay and the subscription (AppendWorkerEvent,         *)
(* OpenEventStream). *)
THEOREM CopyAlwaysSound == Spec => []CopyIsSound
  <1>1. IInv => CopyIsSound BY StreamsLackNothing DEF IInv, CopyIsSound
  <1> QED BY <1>1, IngestsSoundly, PTL

(* A pump that reports completion has stored every event the worker says   *)
(* exists (classifyStreamEnd). *)
THEOREM CompletionAlwaysComplete == Spec => []CompletionIsComplete
  <1>1. IInv => CompletionIsComplete BY DEF IInv
  <1> QED BY <1>1, IngestsSoundly, PTL

(* The copying implements OrderedCopy: the log takes the recorded events   *)
(* of one attempt after the other, each once and in order, and never turns *)
(* back (AppendWorkerEvent, BeginWorkerTurn). *)
THEOREM CopyImplementsOrderedCopy == Spec => ImplementsOrderedCopy
  <1>1. Init => Copy!Init BY DEF Init, Copy!Init, Attempt
  <1>2. IInv /\ [Next]_vars => [Copy!Next]_(Copy!vars) BY StepCopies
  <1> QED BY <1>1, <1>2, IngestsSoundly, PTL DEF Spec, ImplementsOrderedCopy, Copy!Spec

=============================================================================
