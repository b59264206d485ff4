--------------------------- MODULE FrontDoorProofs ---------------------------
(***************************************************************************)
(* For every set of deploys, options and profiles and any number of        *)
(* crashes, lost acknowledgements and retries: the state file of deploy,   *)
(* the runtimes and the remote application tell one story.  For every set  *)
(* of messages and every limit of the DingTalk channel: after a stop       *)
(* nothing that was awaited is still connected, unless the stop came while *)
(* the SDK was loading, and a message is answered once, whole and in       *)
(* order.                                                                  *)
(***************************************************************************)
EXTENDS DingTalk, Deploy, FiniteSetTheorems, SequenceTheorems, SetInduction

-----------------------------------------------------------------------------
(* The DingTalk channel. *)

SupFields == {"st", "timer", "connect", "rec", "idle", "drift"}
ClientFields == {"link", "late", "via"}

ChFields == {"state", "start", "stop"}

\* The three records keep their fields.
DingRecords ==
  /\ sup = [f \in SupFields |-> sup[f]] /\ client = [f \in ClientFields |-> client[f]]
  /\ ch = [f \in ChFields |-> ch[f]]
  /\ sup.st \in {"none", "live", "stopped"} /\ ch.stop \in {"none", "loading", "done"}

\* Where start() is, and what its supervisor does: none yet, live during the
\* first connect() or while the adapter runs, or stopped.
StartFollows ==
  /\ ch.state = "idle" => ch.start = "none" /\ ch.stop = "none" /\ sup.st = "none"
  /\ ch.start = "loading" => sup.st = "none"
  /\ sup.st = "none" => /\ ch.start \in {"none", "loading"} /\ sup.connect = "none"
                        /\ sup.timer = FALSE /\ ~Connected /\ client.late = FALSE
  /\ sup.st = "live" =>
       \/ /\ ch.start = "connecting" /\ sup.connect = "start" /\ sup.timer = FALSE
          /\ ~Connected /\ client.late = FALSE
       \/ ch.start = "none" /\ ch.state = "running" /\ sup.connect # "start"

\* A stop() that found start() past the loading of its SDK is final: nothing
\* was started, or the supervisor stopped.  A stopped supervisor is connected
\* only by a connect() that had been given up.
DingInv ==
  /\ DingRecords /\ StartFollows
  /\ ch.stop = "done" => sup.st = "stopped" \/ (sup.st = "none" /\ ch.start = "none")
  /\ sup.st = "stopped" /\ Connected => client.via = "late"

\* After a stop no connection is left but one that nobody awaited, whatever was
\* under way when it came, except that of a start() that was loading its SDK:
\* StopDisconnects of stream supervisor and adapter.
THEOREM StoppedIsDisconnected == DingSpec => []StopDisconnects
<1>1. DingInit => DingInv
  BY DEF DingInit, DingInv, DingRecords, StartFollows, SupFields, ClientFields, ChFields, Connected
<1>2. DingInv /\ [DingNext]_dingVars => DingInv'
  <2> SUFFICES ASSUME DingInv, [DingNext]_dingVars PROVE DingInv'
    OBVIOUS
  <2> USE DEF DingInv, DingRecords, StartFollows, SupFields, ClientFields, ChFields
  <2>1. CASE StartChannel \/ ClientUnavailable
    BY <2>1 DEF StartChannel, ClientUnavailable, Connected
  <2>2. CASE SdkLoaded
    BY <2>2 DEF SdkLoaded, Connected
  <2>3. CASE StopChannel
    BY <2>3 DEF StopChannel, Connected, Down
  <2>4. CASE ConnectRejects \/ ConnectTimesOut
    BY <2>4 DEF ConnectRejects, ConnectTimesOut, ConnectFailed, Connected
  <2>5. CASE ConnectSucceeds
    BY <2>5 DEF ConnectSucceeds, ConnectResolved, ConnectFailed, Connected
  <2>6. CASE LateConnect
    BY <2>6 DEF LateConnect, Connected
  <2>7. CASE BackoffEnds
    BY <2>7 DEF BackoffEnds, Connected
  <2>8. CASE WatchdogTick
    BY <2>8 DEF WatchdogTick, Connected, Down
  <2>9. CASE Heartbeat
    BY <2>9 DEF Heartbeat, MarkAlive, Connected
  <2>10. CASE LinkBreaks
    BY <2>10 DEF LinkBreaks, Down, Connected
  <2>11. CASE RetentionTick
    BY <2>11 DEF RetentionTick, Connected
  <2>12. CASE \E m \in DOMAIN Messages : Deliver(m)
    <3>1. sup' = MarkAlive /\ UNCHANGED <<client, ch>>
      BY <2>12 DEF Deliver
    <3> QED
      BY <3>1 DEF MarkAlive, Connected
  <2>13. CASE \E k \in DOMAIN handling : BeginReply(k) \/ PostSegment(k) \/ HandlerEnds(k)
    <3>1. UNCHANGED <<sup, client, ch>>
      BY <2>13, Zenon DEF BeginReply, PostSegment, HandlerEnds, HandlerSet
    <3> QED
      BY <3>1 DEF Connected
  <2>14. CASE UNCHANGED dingVars
    BY <2>14 DEF dingVars, Connected
  <2> QED
    BY <2>1, <2>2, <2>3, <2>4, <2>5, <2>6, <2>7, <2>8, <2>9, <2>10, <2>11, <2>12, <2>13, <2>14
       DEF DingNext, Connecting
<1>3. DingInv => StopDisconnects
  BY DEF DingInv, DingRecords, StartFollows, StopDisconnects
<1> QED
  BY <1>1, <1>2, <1>3, PTL DEF DingSpec

-----------------------------------------------------------------------------
(* The segments of a reply.                                                 *)

\* A set of numbers with an upper bound has a greatest one, and Max is it.
LEMMA GreatestOfBounded ==
  ASSUME NEW S, NEW n \in Nat, S \subseteq 0..n, S # {}
  PROVE  Max(S) \in S /\ \A x \in S : x <= Max(S)
<1> DEFINE T == {n - x : x \in S}
<1>1. T \subseteq Nat /\ T # {}
  <2>1. \A x \in S : x \in 0..n
    OBVIOUS
  <2>2. \A x \in S : n - x \in Nat
    BY <2>1
  <2>3. PICK x \in S : TRUE
    OBVIOUS
  <2>4. n - x \in T
    OBVIOUS
  <2> QED
    BY <2>2, <2>4
<1>2. PICK t \in T : \A u \in T : t <= u
  <2> HIDE DEF T
  <2> QED
    BY <1>1, LeastNat
<1>3. PICK x \in S : t = n - x
  OBVIOUS
<1>4. \A y \in S : x >= y
  BY <1>2, <1>3
<1>5. Max(S) \in S /\ \A y \in S : Max(S) >= y
  BY <1>4, Zenon DEF Max
<1> QED
  BY <1>5

\* A segment takes at least one character and at most MaxLength.
LEMMA SegmentFits ==
  ASSUME NEW C, NEW text \in Seq(C), NEW start \in Nat, start < Len(text)
  PROVE  /\ SegmentEnd(text, start) \in start + 1 .. Len(text)
         /\ SegmentEnd(text, start) <= start + MaxLength
<1> DEFINE end == IF start + MaxLength < Len(text) THEN start + MaxLength ELSE Len(text)
           breaks == {k \in (start + MaxLength \div 2) + 1 .. end : text[k] = Newline}
<1>1. Len(text) \in Nat /\ MaxLength \in Nat \ {0} /\ MaxLength \div 2 \in Nat
  BY DingAssumption
<1>2. end \in start + 1 .. Len(text) /\ end <= start + MaxLength
  BY <1>1
<1>3. breaks \subseteq start + 1 .. end
  BY <1>1, <1>2
<1>4. SegmentEnd(text, start) = IF end < Len(text) /\ breaks # {} THEN Max(breaks) ELSE end
  BY DEF SegmentEnd
<1> HIDE DEF end, breaks
<1>5. breaks # {} => Max(breaks) \in breaks
  <2> SUFFICES ASSUME breaks # {} PROVE Max(breaks) \in breaks
    OBVIOUS
  <2>1. end \in Nat /\ breaks \subseteq 0..end
    BY <1>1, <1>2, <1>3
  <2> QED
    BY <2>1, GreatestOfBounded
<1>6. end \in Nat /\ Len(text) \in Nat
  BY <1>1, <1>2
<1>7. SegmentEnd(text, start) \in breaks \cup {end}
  BY <1>4, <1>5
<1>8. SegmentEnd(text, start) \in start + 1 .. end
  <2>1. end \in start + 1 .. end
    BY <1>2, <1>6
  <2>2. breaks \cup {end} \subseteq start + 1 .. end
    BY <1>3, <2>1, Zenon
  <2> QED
    BY <1>7, <2>2, Zenon
<1> QED
  BY <1>1, <1>2, <1>6, <1>8

\* What cutting a text from a place on gives: consecutive pieces up to its end.
Pieces(segs, text, start) ==
  /\ segs \in Seq(Seq(Characters))
  /\ \E e \in [0..Len(segs) -> start..Len(text)] :
       /\ e[0] = start /\ e[Len(segs)] = Len(text)
       /\ \A i \in 1..Len(segs) :
            /\ e[i - 1] < e[i] /\ e[i] <= e[i - 1] + MaxLength
            /\ segs[i] = SubSeq(text, e[i - 1] + 1, e[i])

\* The pieces of the rest of a text and the one before it are pieces too.
LEMMA PiecesGrow ==
  ASSUME NEW text \in Seq(Characters), NEW segs, NEW start \in Nat, NEW next \in Nat,
         start < next, next <= start + MaxLength, next <= Len(text),
         Pieces(segs, text, next)
  PROVE  Pieces(<<SubSeq(text, start + 1, next)>> \o segs, text, start)
<1> DEFINE piece == SubSeq(text, start + 1, next)
           all == <<piece>> \o segs
           L == Len(segs)
<1>1. segs \in Seq(Seq(Characters)) /\ L \in Nat /\ Len(text) \in Nat /\ MaxLength \in Nat
  BY DingAssumption DEF Pieces
<1>2. piece \in Seq(Characters)
  BY <1>1
<1>3. all \in Seq(Seq(Characters)) /\ Len(all) = L + 1
  BY <1>1, <1>2
<1>4. all[1] = piece /\ \A i \in 2..L + 1 : all[i] = segs[i - 1]
  BY <1>1, <1>2
<1>5. PICK e \in [0..L -> next..Len(text)] :
        /\ e[0] = next /\ e[L] = Len(text)
        /\ \A i \in 1..L :
            /\ e[i - 1] < e[i] /\ e[i] <= e[i - 1] + MaxLength
            /\ segs[i] = SubSeq(text, e[i - 1] + 1, e[i])
  BY DEF Pieces
<1> DEFINE d == [i \in 0..L + 1 |-> IF i = 0 THEN start ELSE e[i - 1]]
<1>6. d \in [0..L + 1 -> start..Len(text)]
  BY <1>1, <1>5
<1>7. d[0] = start /\ d[L + 1] = Len(text) /\ \A i \in 1..L + 1 : d[i] = e[i - 1]
  BY <1>1, <1>5
<1> HIDE DEF d, all, piece, L
<1>8. ASSUME NEW i \in 1..L + 1
      PROVE  /\ d[i - 1] < d[i] /\ d[i] <= d[i - 1] + MaxLength
             /\ all[i] = SubSeq(text, d[i - 1] + 1, d[i])
  <2>1. CASE i = 1
    <3>1. d[i - 1] = start /\ d[i] = next /\ all[i] = piece
      BY <1>1, <1>4, <1>5, <1>7, <2>1
    <3> QED
      BY <3>1 DEF piece
  <2>2. CASE i # 1
    <3>1. i - 1 \in 1..L /\ i \in 2..L + 1
      BY <1>1, <2>2
    <3>2. d[i - 1] = e[(i - 1) - 1] /\ d[i] = e[i - 1] /\ all[i] = segs[i - 1]
      BY <1>1, <1>4, <1>7, <3>1
    <3> QED
      BY <1>5, <3>1, <3>2
  <2> QED
    BY <2>1, <2>2
<1>9. /\ d \in [0..Len(all) -> start..Len(text)]
      /\ d[0] = start /\ d[Len(all)] = Len(text)
      /\ \A i \in 1..Len(all) :
            /\ d[i - 1] < d[i] /\ d[i] <= d[i - 1] + MaxLength
            /\ all[i] = SubSeq(text, d[i - 1] + 1, d[i])
  BY <1>3, <1>6, <1>7, <1>8
<1>10. Pieces(all, text, start)
  BY <1>3, <1>9 DEF Pieces
<1> QED
  BY <1>10 DEF all, piece

\* Cut of SplitDingTalkText is the function its recursion describes: backwards
\* from the end of the text there is one.
Cuts(text, f) ==
  f = [start \in 0 .. Len(text) |->
         IF start = Len(text) THEN <<>>
         ELSE <<SubSeq(text, start + 1, SegmentEnd(text, start))>> \o f[SegmentEnd(text, start)]]

LEMMA CutsExist ==
  ASSUME NEW C, NEW text \in Seq(C)
  PROVE  \E f : Cuts(text, f)
<1> DEFINE L == Len(text)
           End(start) == SegmentEnd(text, start)
           Piece(start) == <<SubSeq(text, start + 1, End(start))>>
           Part(from, f) ==
             f = [start \in from..L |-> IF start = L THEN <<>> ELSE Piece(start) \o f[End(start)]]
           S == {n \in Nat : n <= L => \E f : Part(L - n, f)}
<1>1. L \in Nat
  OBVIOUS
<1>2. \A start \in 0 .. L - 1 : End(start) \in start + 1 .. L
  BY SegmentFits
<1> HIDE DEF End, Piece, L
<1>3. 0 \in S
  <2> DEFINE f == [start \in L..L |-> <<>>]
  <2>1. L - 0 = L /\ \A start \in L..L : start = L
    BY <1>1
  <2>2. f = [start \in L..L |-> IF start = L THEN <<>> ELSE Piece(start) \o f[End(start)]]
    BY <2>1
  <2>3. Part(L - 0, f)
    BY <2>1, <2>2
  <2> QED
    BY <1>1, <2>3
<1>4. ASSUME NEW n \in Nat, n \in S PROVE n + 1 \in S
  <2> SUFFICES ASSUME n + 1 <= L PROVE \E g : Part(L - (n + 1), g)
    BY <1>1
  <2> DEFINE s == L - (n + 1)
  <2>1. s \in Nat /\ s < L /\ L - n = s + 1
    BY <1>1
  <2>2. n <= L
    BY <1>1
  <2>3. PICK f : Part(L - n, f)
    BY <1>4, <2>2
  <2> HIDE DEF s
  <2>4. f = [start \in s + 1 .. L |-> IF start = L THEN <<>> ELSE Piece(start) \o f[End(start)]]
    BY <2>1, <2>3
  <2> DEFINE g == [start \in s..L |-> IF start = s THEN Piece(s) \o f[End(s)] ELSE f[start]]
  <2>5. \A start \in s + 1 .. L : g[start] = f[start]
    BY <1>1, <2>1
  <2>6. \A start \in s .. L - 1 : g[End(start)] = f[End(start)]
    <3>1. \A start \in s .. L - 1 : start \in 0 .. L - 1 /\ (start + 1 .. L) \subseteq s + 1 .. L
      BY <1>1, <2>1
    <3> HIDE DEF g
    <3> QED
      BY <1>2, <2>5, <3>1, Zenon
  <2>7. ASSUME NEW start \in s..L
        PROVE  g[start] = IF start = L THEN <<>> ELSE Piece(start) \o g[End(start)]
    <3>1. CASE start = s
      <4>1. g[start] = Piece(s) \o f[End(s)]
        BY <3>1
      <4>2. start # L /\ start \in s .. L - 1
        BY <1>1, <2>1, <3>1
      <4> QED
        BY <2>6, <3>1, <4>1, <4>2
    <3>2. CASE start # s
      <4>1. start \in s + 1 .. L
        BY <1>1, <2>1, <3>2
      <4>2. g[start] = f[start]
        BY <2>5, <4>1
      <4>3. f[start] = IF start = L THEN <<>> ELSE Piece(start) \o f[End(start)]
        BY <2>4, <4>1, Zenon
      <4>4. start # L => start \in s .. L - 1
        BY <1>1, <2>1
      <4> QED
        BY <2>6, <4>2, <4>3, <4>4
    <3> QED
      BY <3>1, <3>2
  <2>8. g = [start \in s..L |-> IF start = L THEN <<>> ELSE Piece(start) \o g[End(start)]]
    <3>1. g = [start \in s..L |-> g[start]]
      OBVIOUS
    <3> HIDE DEF g
    <3> QED
      BY <2>7, <3>1
  <2> HIDE DEF g
  <2> QED
    BY <2>8 DEF s
<1>5. L \in S
  <2> HIDE DEF S
  <2> QED
    BY <1>1, <1>3, <1>4, InductionOnNat
<1>6. \E f : Part(L - L, f)
  <2>1. L <= L
    BY <1>1
  <2> HIDE DEF Part
  <2> QED
    BY <1>5, <2>1
<1>7. PICK f : Part(0, f)
  <2>1. L - L = 0
    BY <1>1
  <2> HIDE DEF Part
  <2> QED
    BY <1>6, <2>1
<1>8. Cuts(text, f)
  BY <1>7, Zenon DEF Cuts, L, Piece, End
<1> QED
  BY <1>8

\* The segments of a text are pieces of it that add up to it.
LEMMA SplitsIntoPieces ==
  ASSUME NEW text \in Seq(Characters), text # <<>>
  PROVE  Pieces(SplitDingTalkText(text), text, 0)
<1> DEFINE L == Len(text)
           cut == CHOOSE f : Cuts(text, f)
           S == {n \in Nat : \A m \in 0..n : m <= L => Pieces(cut[L - m], text, L - m)}
<1>1. L \in Nat \ {0} /\ MaxLength \in Nat \ {0}
  BY DingAssumption
<1>2. Cuts(text, cut)
  BY CutsExist, Zenon
<1>3. SplitDingTalkText(text) = IF L <= MaxLength THEN <<text>> ELSE cut[0]
  BY DEF SplitDingTalkText, Cuts
<1> HIDE DEF cut
<1>4. cut[L] = <<>>
  BY <1>1, <1>2 DEF Cuts
<1>5. ASSUME NEW start \in 0 .. L - 1
      PROVE  cut[start] = <<SubSeq(text, start + 1, SegmentEnd(text, start))>>
                            \o cut[SegmentEnd(text, start)]
  <2>1. start \in 0..L /\ start # L
    BY <1>1
  <2> QED
    BY <1>2, <2>1 DEF Cuts
<1>6. Pieces(<<>>, text, L)
  <2> DEFINE e == [i \in 0..0 |-> L]
  <2>1. <<>> \in Seq(Seq(Characters)) /\ Len(<<>>) = 0
    OBVIOUS
  <2>2. e \in [0..0 -> L..L] /\ e[0] = L
    BY <1>1
  <2> HIDE DEF e
  <2> QED
    BY <2>1, <2>2 DEF Pieces
<1>7. 0 \in S
  <2>1. \A m \in 0..0 : m = 0
    OBVIOUS
  <2> QED
    BY <1>1, <1>4, <1>6, <2>1
<1>8. ASSUME NEW n \in Nat, n \in S PROVE n + 1 \in S
  <2> SUFFICES ASSUME n + 1 <= L PROVE Pieces(cut[L - (n + 1)], text, L - (n + 1))
    <3>1. \A m \in 0 .. n + 1 : m \in 0..n \/ m = n + 1
      OBVIOUS
    <3> QED
      BY <1>8, <3>1
  <2> DEFINE s == L - (n + 1)
             end == SegmentEnd(text, s)
  <2>1. s \in 0 .. L - 1 /\ s \in Nat /\ s < L
    BY <1>1
  <2>2. end \in s + 1 .. L /\ end <= s + MaxLength
    BY <2>1, SegmentFits
  <2>3. cut[s] = <<SubSeq(text, s + 1, end)>> \o cut[end]
    BY <1>5, <2>1
  <2> HIDE DEF end
  <2>4. L - end \in 0..n /\ L - end <= L /\ L - (L - end) = end
    BY <1>1, <2>1, <2>2
  <2>5. Pieces(cut[end], text, end)
    BY <1>8, <2>4
  <2> HIDE DEF s
  <2>6. end \in Nat /\ s < end /\ end <= L
    BY <1>1, <2>1, <2>2
  <2>7. Pieces(<<SubSeq(text, s + 1, end)>> \o cut[end], text, s)
    BY <2>1, <2>2, <2>5, <2>6, PiecesGrow
  <2>8. Pieces(cut[s], text, s)
    BY <2>3, <2>7
  <2> QED
    BY <2>8 DEF s
<1>9. Pieces(cut[0], text, 0)
  <2>1. L \in S
    <3> HIDE DEF S
    <3> QED
      BY <1>1, <1>7, <1>8, InductionOnNat
  <2>2. L \in 0..L /\ L <= L /\ L - L = 0
    BY <1>1
  <2> QED
    BY <2>1, <2>2
<1>10. ASSUME L <= MaxLength PROVE Pieces(<<text>>, text, 0)
  <2> DEFINE e == [i \in 0..1 |-> IF i = 0 THEN 0 ELSE L]
  <2>1. <<text>> \in Seq(Seq(Characters)) /\ Len(<<text>>) = 1 /\ <<text>>[1] = text
    OBVIOUS
  <2>2. e \in [0..1 -> 0..L] /\ e[0] = 0 /\ e[1] = L
    BY <1>1
  <2>3. text = SubSeq(text, 1, L)
    OBVIOUS
  <2>4. \A i \in 1..1 : i = 1 /\ i - 1 = 0
    OBVIOUS
  <2> HIDE DEF e
  <2>5. \A i \in 1..1 : /\ e[i - 1] < e[i] /\ e[i] <= e[i - 1] + MaxLength
                         /\ <<text>>[i] = SubSeq(text, e[i - 1] + 1, e[i])
    BY <1>1, <1>10, <2>1, <2>2, <2>3, <2>4
  <2> QED
    BY <2>1, <2>2, <2>5 DEF Pieces
<1> QED
  BY <1>3, <1>9, <1>10

\* FlattenSeq is the last of the joins of the beginnings of a sequence.
LEMMA FlattenExists ==
  ASSUME NEW C, NEW s \in Seq(Seq(C)), Len(s) # 0
  PROVE  \E f : /\ f[1] = s[1] /\ \A i \in 2..Len(s) : f[i] = f[i - 1] \o s[i]
                /\ FlattenSeq(s) = f[Len(s)]
<1> DEFINE Flat(n, f) == f = [i \in 1..n |-> IF i = 1 THEN s[i] ELSE f[i - 1] \o s[i]]
           S == {n \in Nat : \E f : Flat(n, f)}
           f == CHOOSE f : Flat(Len(s), f)
<1>1. Len(s) \in Nat \ {0}
  OBVIOUS
<1>2. 0 \in S
  <2>1. Flat(0, <<>>)
    OBVIOUS
  <2> QED
    BY <2>1
<1>3. ASSUME NEW n \in Nat, n \in S PROVE n + 1 \in S
  <2>1. PICK g : Flat(n, g)
    BY <1>3
  <2> DEFINE h == [i \in 1 .. n + 1 |-> IF i = n + 1 THEN IF i = 1 THEN s[i] ELSE g[i - 1] \o s[i]
                                        ELSE g[i]]
  <2>2. \A i \in 1..n : h[i] = g[i]
    OBVIOUS
  <2>3. ASSUME NEW i \in 1 .. n + 1 PROVE h[i] = IF i = 1 THEN s[i] ELSE h[i - 1] \o s[i]
    <3>1. i # 1 => h[i - 1] = g[i - 1]
      BY <2>2
    <3>2. CASE i = n + 1
      BY <3>1, <3>2
    <3>3. CASE i # n + 1
      <4>1. i \in 1..n /\ h[i] = g[i]
        BY <3>3
      <4>2. g[i] = IF i = 1 THEN s[i] ELSE g[i - 1] \o s[i]
        BY <2>1, <4>1
      <4> QED
        BY <3>1, <4>1, <4>2
    <3> QED
      BY <3>2, <3>3
  <2>4. h = [i \in 1 .. n + 1 |-> h[i]]
    OBVIOUS
  <2> HIDE DEF h
  <2>5. Flat(n + 1, h)
    BY <2>3, <2>4
  <2> HIDE DEF Flat
  <2> QED
    BY <2>5
<1>4. Len(s) \in S
  <2> HIDE DEF S
  <2> QED
    BY <1>1, <1>2, <1>3, InductionOnNat
<1>5. Flat(Len(s), f)
  BY <1>4, Zenon
<1>6. FlattenSeq(s) = f[Len(s)]
  BY <1>1 DEF FlattenSeq
<1> HIDE DEF f
<1>7. f[1] = s[1]
  BY <1>1, <1>5
<1>8. ASSUME NEW i \in 2..Len(s) PROVE f[i] = f[i - 1] \o s[i]
  <2>1. i \in 1..Len(s) /\ i # 1
    BY <1>1
  <2> QED
    BY <1>5, <2>1
<1> QED
  BY <1>6, <1>7, <1>8

\* Two consecutive pieces of a text are one.
LEMMA PiecesJoin ==
  ASSUME NEW C, NEW text \in Seq(C), NEW a \in 0..Len(text), NEW b \in a..Len(text)
  PROVE  SubSeq(text, 1, a) \o SubSeq(text, a + 1, b) = SubSeq(text, 1, b)
<1> DEFINE x == SubSeq(text, 1, a)
           y == SubSeq(text, a + 1, b)
           z == SubSeq(text, 1, b)
<1>1. Len(text) \in Nat /\ a \in Nat /\ b \in Nat /\ a <= b /\ b <= Len(text)
  OBVIOUS
<1>2. x \in Seq(C) /\ Len(x) = a /\ \A i \in 1..a : x[i] = text[i]
  BY <1>1
<1>3. y \in Seq(C) /\ Len(y) = b - a /\ \A i \in 1 .. b - a : y[i] = text[i + a]
  BY <1>1
<1>4. z \in Seq(C) /\ Len(z) = b /\ \A i \in 1..b : z[i] = text[i]
  BY <1>1
<1> HIDE DEF x, y, z
<1>5. x \o y \in Seq(C) /\ Len(x \o y) = b
  <2>1. x \o y \in Seq(C) /\ Len(x \o y) = a + (b - a)
    BY <1>2, <1>3, ConcatProperties
  <2> QED
    BY <1>1, <2>1
<1>6. ASSUME NEW i \in 1..b PROVE (x \o y)[i] = z[i]
  <2>0. i \in 1 .. a + (b - a) /\ (x \o y)[i] = IF i <= a THEN x[i] ELSE y[i - a]
    <3>1. i \in 1 .. a + (b - a)
      BY <1>1
    <3> QED
      BY <1>2, <1>3, <3>1, ConcatProperties
  <2>1. CASE i <= a
    <3>1. i \in 1..a
      BY <1>1, <2>1
    <3> QED
      BY <1>2, <1>4, <2>0, <2>1, <3>1, Zenon
  <2>2. CASE i > a
    <3>1. i - a \in 1 .. b - a /\ (i - a) + a = i
      BY <1>1, <2>2
    <3>2. ~(i <= a)
      BY <1>1, <2>2
    <3>3. (x \o y)[i] = y[i - a]
      BY <2>0, <3>2, Zenon
    <3> QED
      BY <1>3, <1>4, <3>1, <3>3, Zenon
  <2>3. i <= a \/ i > a
    <3>1. i \in Nat /\ a \in Nat
      BY <1>1
    <3> QED
      BY <3>1
  <2> QED
    BY <2>1, <2>2, <2>3, Zenon
<1>7. x \o y = z
  <2> DEFINE w == x \o y
  <2>1. w \in Seq(C) /\ Len(w) = Len(z) /\ \A i \in 1..Len(w) : w[i] = z[i]
    BY <1>4, <1>5, <1>6
  <2> HIDE DEF w
  <2>2. w = z
    BY <1>4, <2>1, SeqEqual
  <2> QED
    BY <2>2 DEF w
<1> QED
  BY <1>7 DEF x, y, z

\* What arrived of a text is a beginning of it if it is its first segments, and
\* the text if it is all of them; no segment is empty or too long.
LEMMA PiecesAddUp ==
  ASSUME NEW text \in Seq(Characters), NEW segs, Pieces(segs, text, 0),
         NEW n \in 0..Len(segs), NEW q, q = SubSeq(segs, 1, n)
  PROVE  /\ IsPrefix(FlattenSeq(q), text)
         /\ n = Len(segs) => FlattenSeq(q) = text
         /\ \A s \in Range(q) : 0 < Len(s) /\ Len(s) <= MaxLength
<1>1. segs \in Seq(Seq(Characters)) /\ Len(segs) \in Nat /\ Len(text) \in Nat /\ n \in Nat
  BY DEF Pieces
<1>2. PICK e \in [0..Len(segs) -> 0..Len(text)] :
        /\ e[0] = 0 /\ e[Len(segs)] = Len(text)
        /\ \A i \in 1..Len(segs) :
            /\ e[i - 1] < e[i] /\ e[i] <= e[i - 1] + MaxLength
            /\ segs[i] = SubSeq(text, e[i - 1] + 1, e[i])
  BY DEF Pieces
<1>3. q \in Seq(Seq(Characters)) /\ Len(q) = n /\ \A i \in 1..n : q[i] = segs[i]
  <2> DEFINE T == Seq(Characters)
  <2>1. segs \in Seq(T)
    BY <1>1
  <2>2. n \in 0..Len(segs)
    OBVIOUS
  <2> HIDE DEF T
  <2>3. SubSeq(segs, 1, n) \in Seq(T) /\ Len(SubSeq(segs, 1, n)) = n
    BY <1>1, <2>1, <2>2
  <2>4. \A i \in 1..n : SubSeq(segs, 1, n)[i] = segs[i]
    BY <1>1, <2>1, <2>2
  <2> QED
    BY <2>3, <2>4 DEF T
<1>4. ASSUME NEW i \in 0..n PROVE e[i] \in 0..Len(text) /\ e[i] \in Nat
  <2>1. i \in 0..Len(segs)
    BY <1>1
  <2>2. e[i] \in 0..Len(text)
    BY <1>2, <2>1
  <2> QED
    BY <1>1, <2>2
<1>5. ASSUME NEW i \in 1..n
      PROVE  /\ i - 1 \in 0..n /\ i \in 0..n /\ e[i - 1] < e[i] /\ e[i] <= e[i - 1] + MaxLength
             /\ q[i] = SubSeq(text, e[i - 1] + 1, e[i])
  <2>1. i \in 1..Len(segs) /\ i - 1 \in 0..n /\ i \in 0..n
    BY <1>1
  <2> QED
    BY <1>2, <1>3, <2>1
<1>6. \A s \in Range(q) : 0 < Len(s) /\ Len(s) <= MaxLength
  <2> SUFFICES ASSUME NEW i \in 1..n PROVE 0 < Len(q[i]) /\ Len(q[i]) <= MaxLength
    BY <1>3 DEF Range
  <2>1. e[i - 1] \in 0..Len(text) /\ e[i] \in 0..Len(text)
    BY <1>4, <1>5
  <2> DEFINE a == e[i - 1]
             b == e[i]
  <2>2. a < b /\ b <= a + MaxLength /\ q[i] = SubSeq(text, a + 1, b)
    BY <1>5
  <2>3. a \in 0..Len(text) /\ b \in 0..Len(text) /\ a \in Nat /\ b \in Nat
    BY <1>1, <2>1
  <2> HIDE DEF a, b
  <2>4. Len(SubSeq(text, a + 1, b)) = b - a
    BY <1>1, <2>2, <2>3
  <2>5. 0 < b - a /\ b - a <= MaxLength
    BY <2>2, <2>3, DingAssumption
  <2> QED
    BY <2>2, <2>4, <2>5
<1>7. FlattenSeq(q) = SubSeq(text, 1, e[n])
  <2>1. CASE n = 0
    <3>1. FlattenSeq(q) = q /\ q = <<>>
      BY <1>3, <2>1 DEF FlattenSeq
    <3>2. SubSeq(text, 1, 0) = <<>>
      BY <1>1
    <3> QED
      BY <1>2, <2>1, <3>1, <3>2
  <2>2. CASE n # 0
    <3>1. PICK f : /\ f[1] = q[1] /\ \A i \in 2..n : f[i] = f[i - 1] \o q[i]
                   /\ FlattenSeq(q) = f[n]
      BY <1>3, <2>2, FlattenExists
    <3> DEFINE S == {m \in Nat : m + 1 <= n => f[m + 1] = SubSeq(text, 1, e[m + 1])}
    <3>2. 0 \in S
      <4>1. 1 \in 1..n /\ 1 - 1 = 0 /\ 0 + 1 = 1
        BY <1>1, <2>2
      <4>2. q[1] = SubSeq(text, e[0] + 1, e[1])
        BY <1>5, <4>1
      <4> QED
        BY <1>2, <3>1, <4>1, <4>2
    <3>3. ASSUME NEW m \in Nat, m \in S PROVE m + 1 \in S
      <4> SUFFICES ASSUME (m + 1) + 1 <= n
                   PROVE  f[(m + 1) + 1] = SubSeq(text, 1, e[(m + 1) + 1])
        OBVIOUS
      <4> DEFINE a == e[m + 1]
                 b == e[(m + 1) + 1]
      <4>1. /\ (m + 1) + 1 \in 2..n /\ (m + 1) + 1 \in 1..n /\ ((m + 1) + 1) - 1 = m + 1
            /\ m + 1 \in 0..n /\ m + 1 <= n /\ (m + 1) + 1 \in 0..n
        BY <1>1
      <4>2. f[(m + 1) + 1] = f[m + 1] \o q[(m + 1) + 1]
        BY <3>1, <4>1
      <4>3. f[m + 1] = SubSeq(text, 1, a)
        BY <3>3, <4>1
      <4>4. q[(m + 1) + 1] = SubSeq(text, a + 1, b) /\ a < b
        BY <1>5, <4>1
      <4>5. a \in 0..Len(text) /\ b \in 0..Len(text)
        BY <1>4, <4>1
      <4> HIDE DEF a, b
      <4>6. b \in a..Len(text)
        BY <1>1, <4>4, <4>5
      <4>7. f[(m + 1) + 1] = SubSeq(text, 1, b)
        BY <4>2, <4>3, <4>4, <4>5, <4>6, PiecesJoin
      <4> QED
        BY <4>7 DEF b
    <3>4. n - 1 \in S
      <4> HIDE DEF S
      <4>1. n - 1 \in Nat
        BY <1>1, <2>2
      <4> QED
        BY <3>2, <3>3, <4>1, InductionOnNat
    <3>5. (n - 1) + 1 = n /\ n <= n
      BY <1>1
    <3>6. f[n] = SubSeq(text, 1, e[n])
      BY <3>4, <3>5
    <3> QED
      BY <3>1, <3>6
  <2> QED
    BY <2>1, <2>2
<1> DEFINE sent == SubSeq(text, 1, e[n])
<1>8. n \in 0..n
  BY <1>1
<1>9. e[n] \in 0..Len(text) /\ e[n] \in Nat
  BY <1>4, <1>8
<1>10. Len(sent) = e[n] /\ sent \in Seq(Characters)
  BY <1>1, <1>9
<1>11. SubSeq(sent, 1, Len(sent)) = sent /\ SubSeq(text, 1, Len(text)) = text
  <2> HIDE DEF sent
  <2> QED
    BY <1>10
<1>12. IsPrefix(sent, text)
  BY <1>1, <1>9, <1>10, <1>11 DEF IsPrefix
<1>13. n = Len(segs) => sent = text
  BY <1>2, <1>11
<1> QED
  BY <1>6, <1>7, <1>12, <1>13

-----------------------------------------------------------------------------
(* The cache of the messages handled. *)

Entries == [key : Keys, left : 0..Ttl]
Distinct(es) == \A i, j \in DOMAIN es : es[i].key = es[j].key => i = j

\* A key handled so long ago is remembered: there is an entry of it that has not
\* expired before its time, and what came after it are the others.
Remembered(es, k, age, others) ==
  \E i \in DOMAIN es :
    /\ es[i].key = k /\ es[i].left + age >= Ttl
    /\ \A j \in DOMAIN es : j > i => es[j].key \in others

\* Places before and after some were dropped.
LEMMA ShiftedPlaces ==
  ASSUME NEW n \in Nat, NEW c \in Nat, NEW i \in 1 .. n - c
  PROVE  i + c \in 1..n /\ \A j \in Nat : (j + c = i + c => j = i) /\ (i > j - c => i + c > j)
OBVIOUS

\* A place behind which there is less than the room that is left is kept.
LEMMA RoomBehind ==
  ASSUME NEW n \in Nat, NEW i \in 1..n, NEW size \in Nat, NEW room \in Nat, NEW drop \in Nat,
         drop > 0 => drop = n - room, n - i <= size, size < room
  PROVE  i > drop
OBVIOUS

\* Dropping the oldest entries keeps the order of the rest.
LEMMA DropOldest ==
  ASSUME NEW es \in Seq(Entries), Distinct(es), NEW c \in 0..Len(es),
         NEW fs, fs = SubSeq(es, c + 1, Len(es))
  PROVE  /\ fs \in Seq(Entries) /\ Len(fs) = Len(es) - c /\ Distinct(fs)
         /\ \A i \in 1 .. Len(es) - c : fs[i] = es[i + c]
<1>1. Len(es) \in Nat /\ c \in Nat /\ c <= Len(es)
  OBVIOUS
<1>2. \A i \in c + 1 .. Len(es) : es[i] \in Entries
  BY <1>1
<1>3. fs \in Seq(Entries) /\ Len(fs) = Len(es) - c
  <2>1. c + 1 \in Int /\ Len(es) \in Int
    BY <1>1
  <2>2. fs \in Seq(Entries)
    BY <1>2, <2>1, SubSeqProperties
  <2>3. Len(fs) = IF c + 1 <= Len(es) THEN Len(es) - (c + 1) + 1 ELSE 0
    BY <1>2, <2>1, SubSeqProperties
  <2> QED
    BY <1>1, <2>2, <2>3
<1>4. ASSUME NEW i \in 1 .. Len(es) - c PROVE fs[i] = es[i + c]
  <2>1. c + 1 \in Int /\ Len(es) \in Int
    BY <1>1
  <2>2. i \in 1 .. Len(es) - (c + 1) + 1 /\ (c + 1) + i - 1 = i + c
    BY <1>1
  <2>3. fs[i] = es[(c + 1) + i - 1]
    BY <1>2, <2>1, <2>2, SubSeqProperties
  <2> QED
    BY <2>2, <2>3
<1>5. Distinct(fs)
  <2> SUFFICES ASSUME NEW i \in DOMAIN fs, NEW j \in DOMAIN fs, fs[i].key = fs[j].key
               PROVE  i = j
    BY DEF Distinct
  <2>1. i \in 1 .. Len(es) - c /\ j \in 1 .. Len(es) - c
    BY <1>3
  <2>2. i + c \in DOMAIN es /\ j + c \in DOMAIN es
    <3>1. DOMAIN es = 1..Len(es)
      OBVIOUS
    <3> QED
      BY <1>1, <2>1, <3>1, ShiftedPlaces, Zenon
  <2>3. es[i + c].key = es[j + c].key
    BY <1>4, <2>1
  <2>4. i + c = j + c
    BY <2>2, <2>3 DEF Distinct
  <2>5. i \in Nat
    BY <1>1, <2>1
  <2> QED
    BY <1>1, <2>1, <2>4, <2>5, ShiftedPlaces, Zenon
<1> QED
  BY <1>3, <1>4, <1>5

\* An entry that is not dropped is remembered as before.
LEMMA DropRemembers ==
  ASSUME NEW es \in Seq(Entries), Distinct(es), NEW c \in 0..Len(es),
         NEW fs, fs = SubSeq(es, c + 1, Len(es)),
         NEW k, NEW age, NEW others, NEW i \in DOMAIN es, i > c,
         es[i].key = k, es[i].left + age >= Ttl,
         \A j \in DOMAIN es : j > i => es[j].key \in others
  PROVE  Remembered(fs, k, age, others)
<1>1. Len(es) \in Nat /\ c \in Nat /\ i \in 1..Len(es)
  OBVIOUS
<1>2. /\ fs \in Seq(Entries) /\ Len(fs) = Len(es) - c
      /\ \A j \in 1 .. Len(es) - c : fs[j] = es[j + c]
  BY DropOldest
<1>3. i - c \in 1 .. Len(es) - c /\ (i - c) + c = i
  BY <1>1
<1>4. fs[i - c] = es[i]
  BY <1>2, <1>3
<1>5. ASSUME NEW j \in DOMAIN fs, j > i - c PROVE fs[j].key \in others
  <2>1. j \in 1 .. Len(es) - c
    BY <1>2
  <2>2. j + c \in DOMAIN es /\ j + c > i
    <3>1. DOMAIN es = 1..Len(es) /\ i \in Nat
      BY <1>1
    <3> QED
      BY <1>1, <1>5, <2>1, <3>1, ShiftedPlaces, Zenon
  <2> QED
    BY <1>2, <2>1, <2>2
<1>6. i - c \in DOMAIN fs
  BY <1>2, <1>3
<1> QED
  BY <1>4, <1>5, <1>6 DEF Remembered

\* pruneExpired drops entries that have expired and no other.
LEMMA PruneDrops ==
  ASSUME NEW es \in Seq(Entries)
  PROVE  \E c \in 0..Len(es) :
           /\ PruneExpired(es) = SubSeq(es, c + 1, Len(es))
           /\ \A i \in DOMAIN es : i <= c => es[i].left = 0
<1> DEFINE live == {k \in DOMAIN es : es[k].left > 0}
<1>1. Len(es) \in Nat /\ DOMAIN es = 1..Len(es) /\ \A i \in DOMAIN es : es[i].left \in 0..Ttl
  <2>1. \A i \in DOMAIN es : es[i] \in Entries
    OBVIOUS
  <2>2. \A i \in DOMAIN es : es[i].left \in 0..Ttl
    BY <2>1 DEF Entries
  <2> QED
    BY <2>2
<1>2. Ttl \in Nat
  BY DingAssumption
<1>3. PruneExpired(es) = IF live = {} THEN <<>> ELSE SubSeq(es, Min(live), Len(es))
  BY DEF PruneExpired
<1>4. \A i \in DOMAIN es : i \notin live => es[i].left = 0
  BY <1>1, <1>2
<1>5. live \subseteq Nat /\ live \subseteq 1..Len(es)
  BY <1>1
<1> HIDE DEF live
<1>6. CASE live = {}
  <2>1. SubSeq(es, Len(es) + 1, Len(es)) = <<>>
    BY <1>1, SubSeqEmpty
  <2>2. Len(es) \in 0..Len(es)
    BY <1>1
  <2> QED
    BY <1>3, <1>4, <1>6, <2>1, <2>2
<1>7. CASE live # {}
  <2>1. PICK m \in live : m = Min(live) /\ \A x \in live : m <= x
    <3>1. PICK m \in live : \A x \in live : m <= x
      BY <1>5, <1>7, LeastNat
    <3>2. Min(live) \in live /\ \A x \in live : Min(live) <= x
      BY <3>1, Zenon DEF Min
    <3> QED
      BY <3>2
  <2>2. m \in Nat /\ m \in 1..Len(es)
    BY <1>5
  <2>3. m - 1 \in 0..Len(es) /\ (m - 1) + 1 = m
    BY <1>1, <2>2
  <2>4. ASSUME NEW i \in DOMAIN es, i <= m - 1 PROVE es[i].left = 0
    <3>1. ~(m <= i)
      <4>1. i \in Nat
        BY <1>1
      <4> QED
        BY <2>2, <2>4, <4>1
    <3> QED
      BY <1>4, <2>1, <3>1
  <2>5. PruneExpired(es) = SubSeq(es, (m - 1) + 1, Len(es))
    BY <1>3, <1>7, <2>1, <2>3
  <2> QED
    BY <2>3, <2>4, <2>5
<1> QED
  BY <1>6, <1>7

\* A sequence without the element at one place.
LEMMA RemoveAtSeq ==
  ASSUME NEW S, NEW s \in Seq(S), NEW h \in 1..Len(s), NEW r, r = RemoveAt(s, h)
  PROVE  /\ r \in Seq(S) /\ Len(r) = Len(s) - 1
         /\ \A j \in 1 .. Len(s) - 1 : r[j] = IF j < h THEN s[j] ELSE s[j + 1]
<1> DEFINE x == SubSeq(s, 1, h - 1)
           y == SubSeq(s, h + 1, Len(s))
           n == Len(s)
<1>1. n \in Nat /\ h \in Nat /\ 1 <= h /\ h <= n
  OBVIOUS
<1>2. x \in Seq(S) /\ Len(x) = h - 1 /\ \A j \in 1 .. h - 1 : x[j] = s[j]
  BY <1>1
<1>3. y \in Seq(S) /\ Len(y) = n - h /\ \A j \in 1 .. n - h : y[j] = s[j + h]
  BY <1>1
<1>4. r = x \o y
  BY DEF RemoveAt
<1> HIDE DEF x, y, n
<1>5. /\ r \in Seq(S) /\ Len(r) = (h - 1) + (n - h)
      /\ \A j \in 1 .. (h - 1) + (n - h) : r[j] = IF j <= h - 1 THEN x[j] ELSE y[j - (h - 1)]
  BY <1>2, <1>3, <1>4, ConcatProperties
<1>6. (h - 1) + (n - h) = n - 1
  BY <1>1
<1>7. ASSUME NEW j \in 1 .. n - 1 PROVE r[j] = IF j < h THEN s[j] ELSE s[j + 1]
  <2>1. j \in Nat /\ r[j] = IF j <= h - 1 THEN x[j] ELSE y[j - (h - 1)]
    BY <1>1, <1>5, <1>6
  <2>2. CASE j < h
    BY <1>1, <1>2, <2>1, <2>2
  <2>3. CASE ~(j < h)
    <3>1. ~(j <= h - 1) /\ j - (h - 1) \in 1 .. n - h /\ (j - (h - 1)) + h = j + 1
      BY <1>1, <2>1, <2>3
    <3> QED
      BY <1>3, <2>1, <2>3, <3>1
  <2> QED
    BY <2>2, <2>3
<1> QED
  BY <1>5, <1>6, <1>7 DEF n

Holding(es, key) == {k \in DOMAIN es : es[k].key = key}

\* Deleting a key leaves what is remembered of the others.
LEMMA DeleteKey ==
  ASSUME NEW es \in Seq(Entries), Distinct(es), NEW key,
         NEW held, held = Holding(es, key),
         NEW r, r = IF held = {} THEN es ELSE RemoveAt(es, Max(held))
  PROVE  /\ r \in Seq(Entries) /\ Distinct(r) /\ \A i \in DOMAIN r : r[i].key # key
         /\ \A k, age, others : k # key /\ Remembered(es, k, age, others)
                                => Remembered(r, k, age, others)
<1>1. Len(es) \in Nat /\ DOMAIN es = 1..Len(es)
  OBVIOUS
<1>2. CASE held = {}
  <2>1. r = es /\ \A i \in DOMAIN r : r[i].key # key
    BY <1>2 DEF Holding
  <2> QED
    BY <2>1
<1>3. CASE held # {}
  <2>1. held \subseteq 0..Len(es)
    BY <1>1 DEF Holding
  <2>2. PICK h \in held : h = Max(held)
    BY <1>1, <1>3, <2>1, GreatestOfBounded
  <2>3. h \in 1..Len(es) /\ es[h].key = key /\ r = RemoveAt(es, h)
    BY <1>1, <1>3, <2>2 DEF Holding
  <2>4. /\ r \in Seq(Entries) /\ Len(r) = Len(es) - 1
        /\ \A j \in 1 .. Len(es) - 1 : r[j] = IF j < h THEN es[j] ELSE es[j + 1]
    <3> DEFINE d == RemoveAt(es, h)
    <3>1. d = RemoveAt(es, h)
      OBVIOUS
    <3> HIDE DEF d
    <3>2. /\ d \in Seq(Entries) /\ Len(d) = Len(es) - 1
          /\ \A j \in 1 .. Len(es) - 1 : d[j] = IF j < h THEN es[j] ELSE es[j + 1]
      <4>1. h \in 1..Len(es)
        BY <2>3
      <4> QED
        BY <3>1, <4>1, RemoveAtSeq, Zenon
    <3> QED
      BY <2>3, <3>1, <3>2, Zenon
  <2> DEFINE old(j) == IF j < h THEN j ELSE j + 1
  <2>5. ASSUME NEW j \in DOMAIN r
        PROVE  j \in Nat /\ old(j) \in DOMAIN es /\ old(j) # h /\ r[j] = es[old(j)]
    <3>1. j \in 1 .. Len(es) - 1
      BY <2>4
    <3>2. j \in Nat /\ h \in Nat /\ j \in 1..Len(es) /\ j + 1 \in 1..Len(es)
      BY <1>1, <2>3, <3>1
    <3>3. old(j) \in 1..Len(es) /\ old(j) # h
      BY <3>2
    <3>4. r[j] = es[old(j)]
      BY <2>4, <3>1, Zenon
    <3> QED
      BY <1>1, <3>2, <3>3, <3>4
  <2>6. ASSUME NEW i \in DOMAIN es, i # h
        PROVE  \E j \in DOMAIN r : old(j) = i
    <3>1. DOMAIN r = 1 .. Len(es) - 1
      BY <2>4
    <3>2. CASE i < h
      <4>1. i \in DOMAIN r /\ old(i) = i
        BY <1>1, <2>3, <3>1, <3>2
      <4> QED
        BY <4>1
    <3>3. CASE ~(i < h)
      <4>1. i - 1 \in DOMAIN r /\ old(i - 1) = i
        BY <1>1, <2>3, <2>6, <3>1, <3>3
      <4> QED
        BY <4>1
    <3> QED
      BY <3>2, <3>3
  <2>7. \A i, j \in DOMAIN r : (i > j <=> old(i) > old(j)) /\ (old(i) = old(j) => i = j)
    <3>1. h \in Nat
      BY <1>1, <2>3
    <3> QED
      BY <2>5, <3>1
  <2> HIDE DEF old
  <2>8. Distinct(r)
    BY <2>5, <2>7 DEF Distinct
  <2>9. \A j \in DOMAIN r : r[j].key # key
    BY <1>1, <2>3, <2>5 DEF Distinct
  <2>10. ASSUME NEW k, NEW age, NEW others, k # key, Remembered(es, k, age, others)
         PROVE  Remembered(r, k, age, others)
    <3>1. PICK i \in DOMAIN es :
            /\ es[i].key = k /\ es[i].left + age >= Ttl
            /\ \A j \in DOMAIN es : j > i => es[j].key \in others
      BY <2>10 DEF Remembered
    <3>2. PICK j \in DOMAIN r : old(j) = i
      BY <2>3, <2>6, <2>10, <3>1
    <3>3. r[j].key = k /\ r[j].left + age >= Ttl
      BY <2>5, <3>1, <3>2
    <3>4. \A l \in DOMAIN r : l > j => r[l].key \in others
      BY <2>5, <2>7, <3>1, <3>2
    <3> QED
      BY <3>3, <3>4 DEF Remembered
  <2> QED
    BY <2>4, <2>8, <2>9, <2>10
<1> QED
  BY <1>2, <1>3

\* A key that was not there is remembered, and is another one to the rest.
LEMMA AppendKey ==
  ASSUME NEW es \in Seq(Entries), Distinct(es), NEW key \in Keys,
         \A i \in DOMAIN es : es[i].key # key,
         NEW fs, fs = Append(es, [key |-> key, left |-> Ttl])
  PROVE  /\ fs \in Seq(Entries) /\ Distinct(fs) /\ Remembered(fs, key, 0, {})
         /\ \A k, age, others : Remembered(es, k, age, others)
                                => Remembered(fs, k, age, others \cup {key})
<1> DEFINE new == [key |-> key, left |-> Ttl]
           n == Len(es)
<1>1. n \in Nat /\ DOMAIN es = 1..n /\ Ttl \in Nat
  BY DingAssumption
<1>2. new \in Entries /\ new.key = key /\ new.left = Ttl
  BY <1>1 DEF Entries
<1> HIDE DEF new
<1>3. /\ fs \in Seq(Entries) /\ DOMAIN fs = 1 .. n + 1 /\ fs[n + 1] = new
      /\ \A i \in 1..n : fs[i] = es[i]
  BY <1>2 DEF new
<1> HIDE DEF n
<1>4. Distinct(fs)
  <2> SUFFICES ASSUME NEW i \in 1 .. n + 1, NEW j \in 1 .. n + 1, fs[i].key = fs[j].key
               PROVE  i = j
    BY <1>3 DEF Distinct
  <2>1. (i \in 1..n \/ i = n + 1) /\ (j \in 1..n \/ j = n + 1)
    BY <1>1
  <2> QED
    BY <1>1, <1>2, <1>3, <2>1 DEF Distinct
<1>5. n + 1 \in DOMAIN fs /\ fs[n + 1].left + 0 >= Ttl /\ \A j \in DOMAIN fs : ~(j > n + 1)
  BY <1>1, <1>2, <1>3
<1>6. Remembered(fs, key, 0, {})
  BY <1>2, <1>3, <1>5 DEF Remembered
<1>7. ASSUME NEW k, NEW age, NEW others, Remembered(es, k, age, others)
      PROVE  Remembered(fs, k, age, others \cup {key})
  <2>1. PICK i \in 1..n :
          /\ es[i].key = k /\ es[i].left + age >= Ttl
          /\ \A j \in 1..n : j > i => es[j].key \in others
    BY <1>1, <1>7 DEF Remembered
  <2>2. i \in DOMAIN fs /\ fs[i] = es[i]
    BY <1>1, <1>3
  <2>3. ASSUME NEW j \in DOMAIN fs, j > i PROVE fs[j].key \in others \cup {key}
    <3>1. j \in 1..n \/ j = n + 1
      BY <1>1, <1>3
    <3> QED
      BY <1>2, <1>3, <2>1, <2>3, <3>1
  <2> QED
    BY <2>1, <2>2, <2>3 DEF Remembered
<1> QED
  BY <1>3, <1>4, <1>6, <1>7

\* No more entries follow one than there were other messages since.
LEMMA FewerThanOthers ==
  ASSUME NEW es \in Seq(Entries), Distinct(es), NEW i \in DOMAIN es, NEW others,
         IsFiniteSet(others), \A j \in DOMAIN es : j > i => es[j].key \in others
  PROVE  Len(es) - i <= Cardinality(others)
<1> DEFINE later == i + 1 .. Len(es)
           f == [j \in later |-> es[j].key]
<1>1. Len(es) \in Nat /\ i \in 1..Len(es) /\ DOMAIN es = 1..Len(es)
  OBVIOUS
<1>2. \A j \in later : j \in DOMAIN es /\ j > i
  BY <1>1
<1>3. f \in [later -> others]
  BY <1>2
<1>4. \A a, b \in later : f[a] = f[b] => a = b
  BY <1>2 DEF Distinct
<1>5. f \in Injection(later, others)
  <2>1. DOMAIN f = later
    OBVIOUS
  <2> HIDE DEF f, later
  <2> QED
    BY <1>3, <1>4, <2>1, Zenon DEF Injection, IsInjective
<1>6. Cardinality(later) <= Cardinality(others)
  <2> HIDE DEF f, later
  <2> QED
    BY <1>5, FS_Injection
<1>7. Cardinality(later) = Len(es) - i
  <2>1. i + 1 \in Int /\ Len(es) \in Int
    BY <1>1
  <2>2. Cardinality(later) = IF i + 1 > Len(es) THEN 0 ELSE Len(es) - (i + 1) + 1
    BY <2>1, FS_Interval
  <2> QED
    BY <1>1, <2>2
<1> QED
  BY <1>6, <1>7

\* What claim() does to the cache: it remembers the key, and what it remembered
\* of another key unless too many others came since.
LEMMA ClaimRemembers ==
  ASSUME dedupe \in Seq(Entries), Distinct(dedupe), NEW key \in Keys
  PROVE  /\ Claim(key) \in Seq(Entries) /\ Distinct(Claim(key))
         /\ Remembered(Claim(key), key, 0, {})
         /\ \A k \in Keys \ {key}, age \in 0 .. Ttl - 1, others \in SUBSET Keys :
              /\ Remembered(dedupe, k, age, others)
              /\ IsFiniteSet(others \cup {key}) /\ Cardinality(others \cup {key}) < MaxEntries
              => Remembered(Claim(key), k, age, others \cup {key})
<1>1. Ttl \in Nat /\ MaxEntries \in Nat \ {0} /\ Len(dedupe) \in Nat
  BY DingAssumption
<1> DEFINE kept == PruneExpired(dedupe)
           held == {k \in DOMAIN kept : kept[k].key = key}
           rest == IF held = {} THEN kept ELSE RemoveAt(kept, Max(held))
           es == Append(rest, [key |-> key, left |-> Ttl])
           drop == IF Len(es) > MaxEntries THEN Len(es) - MaxEntries ELSE 0
           final == SubSeq(es, drop + 1, Len(es))
<1>2. Claim(key) = final
  BY DEF Claim
<1>3. PICK c \in 0..Len(dedupe) :
        /\ kept = SubSeq(dedupe, c + 1, Len(dedupe))
        /\ \A i \in DOMAIN dedupe : i <= c => dedupe[i].left = 0
  BY PruneDrops
<1>4. held = Holding(kept, key)
  BY DEF Holding
<1>5. rest = IF held = {} THEN kept ELSE RemoveAt(kept, Max(held))
  OBVIOUS
<1>6. es = Append(rest, [key |-> key, left |-> Ttl])
  OBVIOUS
<1>7. drop = IF Len(es) > MaxEntries THEN Len(es) - MaxEntries ELSE 0
  OBVIOUS
<1>8. final = SubSeq(es, drop + 1, Len(es))
  OBVIOUS
<1> HIDE DEF final, drop, es, rest, held, kept
<1>9. kept \in Seq(Entries) /\ Distinct(kept)
  BY <1>3, DropOldest
<1>10. /\ rest \in Seq(Entries) /\ Distinct(rest) /\ \A i \in DOMAIN rest : rest[i].key # key
       /\ \A k, age, others : k # key /\ Remembered(kept, k, age, others)
                              => Remembered(rest, k, age, others)
  BY <1>4, <1>5, <1>9, DeleteKey, Zenon
<1>11. /\ es \in Seq(Entries) /\ Distinct(es) /\ Remembered(es, key, 0, {})
       /\ \A k, age, others : Remembered(rest, k, age, others)
                              => Remembered(es, k, age, others \cup {key})
  BY <1>6, <1>10, AppendKey
<1>12. Len(es) \in Nat /\ drop \in 0..Len(es) /\ (drop > 0 => drop = Len(es) - MaxEntries)
  <2>1. Len(es) \in Nat
    BY <1>11
  <2> QED
    BY <1>1, <1>7, <2>1
<1>13. final \in Seq(Entries) /\ Distinct(final)
  BY <1>8, <1>11, <1>12, DropOldest
<1>14. ASSUME NEW k, NEW age, NEW others, IsFiniteSet(others), Cardinality(others) < MaxEntries,
              Remembered(es, k, age, others)
       PROVE  Remembered(final, k, age, others)
  <2>1. PICK i \in DOMAIN es :
          /\ es[i].key = k /\ es[i].left + age >= Ttl
          /\ \A j \in DOMAIN es : j > i => es[j].key \in others
    BY <1>14 DEF Remembered
  <2>2. Len(es) - i <= Cardinality(others) /\ Cardinality(others) \in Nat
    BY <1>11, <1>14, <2>1, FewerThanOthers, FS_CardinalityType
  <2>3. i > drop
    <3>1. i \in 1..Len(es)
      BY <1>11
    <3>2. MaxEntries \in Nat /\ drop \in Nat
      BY <1>1, <1>12
    <3> QED
      BY <1>1, <1>12, <1>14, <2>2, <3>1, <3>2, RoomBehind, Zenon
  <2> QED
    BY <1>8, <1>11, <1>12, <2>1, <2>3, DropRemembers
<1>15. Remembered(final, key, 0, {})
  BY <1>1, <1>11, <1>14, FS_EmptySet
<1>16. ASSUME NEW k \in Keys \ {key}, NEW age \in 0 .. Ttl - 1, NEW others \in SUBSET Keys,
              Remembered(dedupe, k, age, others),
              IsFiniteSet(others \cup {key}), Cardinality(others \cup {key}) < MaxEntries
       PROVE  Remembered(final, k, age, others \cup {key})
  <2>1. PICK i \in DOMAIN dedupe :
          /\ dedupe[i].key = k /\ dedupe[i].left + age >= Ttl
          /\ \A j \in DOMAIN dedupe : j > i => dedupe[j].key \in others
    BY <1>16 DEF Remembered
  <2>2. i > c
    <3>1. dedupe[i].left # 0
      BY <1>1, <2>1
    <3>2. i \in Nat /\ c \in Nat
      BY <1>1
    <3> QED
      BY <1>3, <3>1, <3>2
  <2>3. Remembered(kept, k, age, others)
    BY <1>3, <2>1, <2>2, DropRemembers
  <2>4. Remembered(es, k, age, others \cup {key})
    BY <1>10, <1>11, <2>3
  <2> QED
    BY <1>14, <1>16, <2>4
<1> QED
  BY <1>2, <1>13, <1>15, <1>16

-----------------------------------------------------------------------------
(* The messages that are handled and their replies. *)

Replies == {"none", "posting", "unavailable", "failed", "sent"}
Handlings == [msg : DOMAIN Messages, reply : Replies, posted : Seq(Seq(Characters))]
TextOf(h) == Messages[h.msg].text
Segments(h) == SplitDingTalkText(TextOf(h))

\* What was posted of a reply is its first segments: not all of them while it is
\* posting, and all of them when it reports success.
Whole(h) ==
  \/ h.reply = "none" /\ h.posted = <<>>
  \/ /\ h.reply # "none" /\ TextOf(h) # <<>>
     /\ Len(h.posted) <= Len(Segments(h)) /\ h.posted = SubSeq(Segments(h), 1, Len(h.posted))
     /\ h.reply = "posting" => Len(h.posted) < Len(Segments(h))
     /\ h.reply = "sent" => Len(h.posted) = Len(Segments(h))
WholeHandlings == {h \in Handlings : Whole(h)}
HandlingInv == handling \in Seq(WholeHandlings)

LEMMA SegmentsOfText ==
  ASSUME NEW h \in Handlings, TextOf(h) # <<>>
  PROVE  /\ TextOf(h) \in Seq(Characters) /\ Pieces(Segments(h), TextOf(h), 0)
         /\ Segments(h) \in Seq(Seq(Characters)) /\ Len(Segments(h)) \in Nat \ {0}
<1>1. TextOf(h) \in Seq(Characters)
  <2>1. h.msg \in DOMAIN Messages
    BY DEF Handlings
  <2> QED
    BY <2>1, DingAssumption DEF TextOf
<1>2. Pieces(Segments(h), TextOf(h), 0)
  BY <1>1, SplitsIntoPieces DEF Segments
<1>3. Segments(h) \in Seq(Seq(Characters))
  BY <1>2 DEF Pieces
<1>4. Len(Segments(h)) # 0
  <2> SUFFICES ASSUME Len(Segments(h)) = 0 PROVE FALSE
    OBVIOUS
  <2>1. \E e : e[0] = 0 /\ e[Len(Segments(h))] = Len(TextOf(h))
    BY <1>2 DEF Pieces
  <2>2. Len(TextOf(h)) = 0
    BY <2>1
  <2> QED
    BY <1>1, <2>2
<1>5. Len(Segments(h)) \in Nat
  <2> DEFINE T == Seq(Characters)
  <2>1. Segments(h) \in Seq(T)
    BY <1>3
  <2> HIDE DEF T
  <2> QED
    BY <2>1
<1> QED
  BY <1>1, <1>2, <1>3, <1>4, <1>5

\* The segments that arrived of a reply are a beginning of its text, and its
\* text if it reports success.
LEMMA ReplyIsWhole ==
  ASSUME NEW h \in Handlings, Whole(h)
  PROVE  /\ IsPrefix(FlattenSeq(h.posted), TextOf(h))
         /\ h.reply = "sent" => FlattenSeq(h.posted) = TextOf(h)
         /\ \A s \in Range(h.posted) : 0 < Len(s) /\ Len(s) <= MaxLength
<1>1. CASE h.reply = "none" /\ h.posted = <<>>
  <2>1. FlattenSeq(<<>>) = <<>> /\ Range(<<>>) = {}
    BY DEF FlattenSeq, Range
  <2>2. TextOf(h) \in Seq(Characters)
    <3>1. h.msg \in DOMAIN Messages
      BY DEF Handlings
    <3> QED
      BY <3>1, DingAssumption DEF TextOf
  <2>3. IsPrefix(<<>>, TextOf(h))
    <3>1. SubSeq(<<>>, 1, 0) = <<>> /\ SubSeq(TextOf(h), 1, 0) = <<>> /\ Len(<<>>) = 0
      BY SubSeqEmpty
    <3>2. Len(TextOf(h)) \in Nat
      BY <2>2
    <3> QED
      BY <3>1, <3>2 DEF IsPrefix
  <2> QED
    BY <1>1, <2>1, <2>3
<1>2. CASE /\ h.reply # "none" /\ TextOf(h) # <<>>
           /\ Len(h.posted) <= Len(Segments(h)) /\ h.posted = SubSeq(Segments(h), 1, Len(h.posted))
           /\ h.reply = "posting" => Len(h.posted) < Len(Segments(h))
           /\ h.reply = "sent" => Len(h.posted) = Len(Segments(h))
  <2> DEFINE n == Len(h.posted)
             text == TextOf(h)
             segs == Segments(h)
             q == h.posted
  <2>1. text \in Seq(Characters) /\ Pieces(segs, text, 0) /\ Len(segs) \in Nat
    BY <1>2, SegmentsOfText
  <2>2. n \in Nat
    <3> DEFINE T == Seq(Characters)
    <3>1. h.posted \in Seq(T)
      BY DEF Handlings
    <3> HIDE DEF T
    <3> QED
      BY <3>1
  <2>3. n \in 0..Len(segs) /\ q = SubSeq(segs, 1, n) /\ (h.reply = "sent" => n = Len(segs))
    BY <1>2, <2>1, <2>2
  <2> HIDE DEF n, text, segs, q
  <2>4. /\ IsPrefix(FlattenSeq(q), text)
        /\ n = Len(segs) => FlattenSeq(q) = text
        /\ \A s \in Range(q) : 0 < Len(s) /\ Len(s) <= MaxLength
    BY <2>1, <2>3, PiecesAddUp
  <2> QED
    BY <2>3, <2>4 DEF q, text
<1> QED
  BY <1>1, <1>2 DEF Whole

\* Posting the next segment: one more that arrived, or the same ones.
LEMMA PostKeepsWhole ==
  ASSUME NEW h \in Handlings, Whole(h), h.reply = "posting", NEW o \in PostOutcomes,
         NEW next, next = Append(h.posted, Segments(h)[Len(h.posted) + 1]),
         NEW d, d = [msg |-> h.msg,
                     reply |-> IF ~o.ok THEN "failed"
                               ELSE IF Len(next) = Len(Segments(h)) THEN "sent" ELSE "posting",
                     posted |-> IF o.arrives THEN next ELSE h.posted]
  PROVE  d \in Handlings /\ Whole(d)
<1> DEFINE n == Len(h.posted)
           segs == Segments(h)
           T == Seq(Characters)
<1>1. /\ TextOf(h) # <<>> /\ n < Len(segs) /\ h.posted = SubSeq(segs, 1, n)
  BY DEF Whole
<1>2. segs \in Seq(T) /\ Len(segs) \in Nat
  BY <1>1, SegmentsOfText
<1>3. h.posted \in Seq(T) /\ h.msg \in DOMAIN Messages
  BY DEF Handlings
<1>4. TextOf(d) = TextOf(h) /\ Segments(d) = segs
  BY DEF TextOf, Segments
<1> HIDE DEF T
<1>5. n \in Nat /\ n + 1 \in 1..Len(segs)
  BY <1>1, <1>2, <1>3
<1>6. segs[n + 1] \in T
  BY <1>2, <1>5
<1>7. next \in Seq(T) /\ Len(next) = n + 1
  BY <1>3, <1>6
<1>8. next = SubSeq(segs, 1, n + 1)
  <2> DEFINE w == SubSeq(segs, 1, n + 1)
  <2>1. w \in Seq(T) /\ Len(w) = n + 1 /\ \A i \in 1 .. n + 1 : w[i] = segs[i]
    BY <1>2, <1>5
  <2>2. ASSUME NEW i \in 1 .. n + 1 PROVE next[i] = segs[i]
    <3>1. CASE i = n + 1
      BY <1>3, <1>6, <3>1
    <3>2. CASE i # n + 1
      <4>1. i \in 1..n
        BY <1>5, <3>2
      <4>2. next[i] = h.posted[i]
        BY <1>3, <1>6, <4>1
      <4>3. SubSeq(segs, 1, n)[i] = segs[i]
        BY <1>1, <1>2, <1>5, <4>1
      <4> QED
        BY <1>1, <4>2, <4>3
    <3> QED
      BY <3>1, <3>2
  <2> HIDE DEF w
  <2>3. next = w
    BY <1>7, <2>1, <2>2, SeqEqual
  <2> QED
    BY <2>3 DEF w
<1> HIDE DEF n, segs
<1>9. d \in Handlings
  BY <1>3, <1>7 DEF Handlings, Replies, T
<1>10. o.ok => o.arrives
  BY DEF PostOutcomes
<1>11. d.posted = SubSeq(segs, 1, Len(d.posted)) /\ Len(d.posted) <= Len(segs)
  <2>1. CASE o.arrives
    BY <1>2, <1>5, <1>7, <1>8, <2>1
  <2>2. CASE ~o.arrives
    <3>1. d.posted = h.posted
      BY <2>2
    <3>2. Len(d.posted) = n
      BY <3>1 DEF n
    <3>3. d.posted = SubSeq(segs, 1, n)
      BY <1>1, <3>1
    <3> QED
      BY <1>1, <1>2, <1>5, <3>2, <3>3
  <2> QED
    BY <2>1, <2>2
<1>12. d.reply \in {"failed", "sent", "posting"}
  OBVIOUS
<1>13. d.reply = "posting" => Len(d.posted) < Len(segs)
  <2> SUFFICES ASSUME d.reply = "posting" PROVE Len(d.posted) < Len(segs)
    OBVIOUS
  <2>1. o.ok /\ Len(next) # Len(segs)
    BY DEF segs
  <2>2. d.posted = next
    BY <1>10, <2>1
  <2> QED
    BY <1>2, <1>5, <1>7, <2>1, <2>2
<1>14. d.reply = "sent" => Len(d.posted) = Len(segs)
  BY <1>10 DEF segs
<1> QED
  BY <1>1, <1>4, <1>9, <1>11, <1>12, <1>13, <1>14 DEF Whole

\* A handling whose two fields about the reply change.
LEMMA ReplyChanges ==
  ASSUME NEW h \in Handlings, NEW posted, NEW reply
  PROVE  [h EXCEPT !.posted = posted, !.reply = reply]
           = [msg |-> h.msg, reply |-> reply, posted |-> posted]
<1> DEFINE g == [h EXCEPT !.posted = posted, !.reply = reply]
<1>1. DOMAIN g = {"msg", "reply", "posted"}
  BY DEF Handlings
<1>2. g.msg = h.msg /\ g.reply = reply /\ g.posted = posted
  BY DEF Handlings
<1>3. g = [f \in {"msg", "reply", "posted"} |-> g[f]]
  BY DEF Handlings
<1> HIDE DEF g
<1>4. g = [msg |-> h.msg, reply |-> reply, posted |-> posted]
  BY <1>1, <1>2, <1>3
<1> QED
  BY <1>4 DEF g

\* The handlings stay whole through every action, and only a delivery adds one.
LEMMA HandlingKept ==
  ASSUME HandlingInv, [DingNext]_dingVars
  PROVE  /\ HandlingInv'
         /\ \/ Len(handling') <= Len(handling)
            \/ \E m \in DOMAIN Messages :
                 Deliver(m) /\ Last(handling').msg = m
                 /\ client.link = "up" /\ ~Claimed(Messages[m].key)
<1>1. handling \in Seq(WholeHandlings) /\ Len(handling) \in Nat /\ DOMAIN handling = 1..Len(handling)
  BY DEF HandlingInv
<1>2. ASSUME NEW k \in DOMAIN handling
      PROVE  handling[k] \in Handlings /\ Whole(handling[k]) /\ handling[k] \in WholeHandlings
  BY <1>1 DEF WholeHandlings
<1>3. CASE UNCHANGED handling
  BY <1>1, <1>3 DEF HandlingInv
<1>4. CASE \E m \in DOMAIN Messages : Deliver(m)
  <2>1. PICK m \in DOMAIN Messages : Deliver(m)
    BY <1>4
  <2> DEFINE new == [msg |-> m, reply |-> "none", posted |-> <<>>]
  <2>2. CASE ch.state \notin {"running", "starting"} \/ ~Messages[m].usable \/ Claimed(Messages[m].key)
    <3>1. UNCHANGED handling
      BY <2>1, <2>2 DEF Deliver
    <3> QED
      BY <1>3, <3>1
  <2>3. CASE ~(ch.state \notin {"running", "starting"} \/ ~Messages[m].usable
                 \/ Claimed(Messages[m].key))
    <3>1. handling' = Append(handling, new) /\ client.link = "up" /\ ~Claimed(Messages[m].key)
      BY <2>1, <2>3 DEF Deliver
    <3>2. new \in WholeHandlings
      <4>1. new \in Handlings
        BY DEF Handlings, Replies
      <4> QED
        BY <4>1 DEF Whole, WholeHandlings
    <3>3. new.msg = m
      OBVIOUS
    <3> HIDE DEF new
    <3>4. handling' \in Seq(WholeHandlings) /\ handling'[Len(handling')] = new
      BY <1>1, <3>1, <3>2
    <3> QED
      BY <2>1, <3>1, <3>3, <3>4 DEF HandlingInv, Last
  <2> QED
    BY <2>2, <2>3
<1>5. ASSUME NEW k \in DOMAIN handling, NEW d \in WholeHandlings, handling' = [handling EXCEPT ![k] = d]
      PROVE  HandlingInv' /\ Len(handling') = Len(handling)
  <2>1. [handling EXCEPT ![k] = d] \in Seq(WholeHandlings)
    BY <1>1, ExceptSeq
  <2>2. Len([handling EXCEPT ![k] = d]) = Len(handling)
    BY <1>1, ExceptSeq
  <2> QED
    BY <1>5, <2>1, <2>2 DEF HandlingInv
<1>6. ASSUME NEW k \in DOMAIN handling, BeginReply(k) PROVE HandlingInv' /\ Len(handling') = Len(handling)
  <2> DEFINE h == handling[k]
             reply == IF Messages[h.msg].key \in targets /\ WebhookAllowed(Messages[h.msg].webhook)
                        THEN "posting" ELSE "unavailable"
             d == [msg |-> h.msg, reply |-> reply, posted |-> h.posted]
  <2>1. h \in Handlings /\ Whole(h) /\ h.reply = "none" /\ TextOf(h) # <<>>
    BY <1>2, <1>6 DEF BeginReply, TextOf
  <2>2. handling' = [handling EXCEPT ![k].reply = reply]
    BY <1>6 DEF BeginReply, HandlerSet
  <2>3. reply \in {"posting", "unavailable"}
    OBVIOUS
  <2> HIDE DEF reply
  <2>4. [h EXCEPT !.reply = reply] = d
    BY <2>1 DEF Handlings
  <2>5. handling' = [handling EXCEPT ![k] = d]
    BY <2>2, <2>4
  <2> HIDE DEF h
  <2>6. d \in Handlings /\ h.posted = <<>>
    BY <2>1, <2>3 DEF Handlings, Replies, Whole
  <2>7. TextOf(d) = TextOf(h) /\ Segments(d) = Segments(h)
    BY DEF TextOf, Segments
  <2>8. Segments(h) \in Seq(Seq(Characters)) /\ Len(Segments(h)) \in Nat \ {0}
    BY <2>1, SegmentsOfText
  <2>9. Len(<<>>) = 0 /\ SubSeq(Segments(h), 1, 0) = <<>>
    BY SubSeqEmpty
  <2>10. d.reply = reply /\ d.posted = <<>>
    BY <2>6
  <2>11. 0 <= Len(Segments(h)) /\ 0 < Len(Segments(h))
    BY <2>8
  <2> HIDE DEF d
  <2>12. Whole(d)
    BY <2>1, <2>3, <2>7, <2>9, <2>10, <2>11 DEF Whole
  <2> QED
    BY <1>5, <2>5, <2>6, <2>12 DEF WholeHandlings
<1>7. ASSUME NEW k \in DOMAIN handling, PostSegment(k) PROVE HandlingInv' /\ Len(handling') = Len(handling)
  <2> DEFINE h == handling[k]
             next == Append(h.posted, Segments(h)[Len(h.posted) + 1])
  <2>1. h \in Handlings /\ Whole(h) /\ h.reply = "posting"
    BY <1>2, <1>7 DEF PostSegment
  <2>2. PICK o \in PostOutcomes :
          handling' = [handling EXCEPT
            ![k].posted = IF o.arrives THEN next ELSE h.posted,
            ![k].reply = IF ~o.ok THEN "failed"
                         ELSE IF Len(next) = Len(Segments(h)) THEN "sent" ELSE "posting"]
    BY <1>7, Zenon DEF PostSegment, HandlerSet, Segments, TextOf
  <2> DEFINE posted == IF o.arrives THEN next ELSE h.posted
             reply == IF ~o.ok THEN "failed"
                      ELSE IF Len(next) = Len(Segments(h)) THEN "sent" ELSE "posting"
             d == [msg |-> h.msg, reply |-> reply, posted |-> posted]
  <2>3. d \in Handlings /\ Whole(d)
    <3> HIDE DEF next, h
    <3> QED
      BY <2>1, PostKeepsWhole DEF next
  <2>4. handling' = [handling EXCEPT ![k].posted = posted, ![k].reply = reply]
    BY <2>2, Zenon
  <2> HIDE DEF next, posted, reply
  <2>5. [h EXCEPT !.posted = posted, !.reply = reply] = d
    <3> HIDE DEF h
    <3> QED
      BY <2>1, ReplyChanges, Zenon
  <2>6. handling' = [handling EXCEPT ![k] = d]
    BY <2>4, <2>5
  <2> HIDE DEF d
  <2>7. d \in WholeHandlings
    BY <2>3 DEF WholeHandlings
  <2> QED
    BY <1>5, <2>6, <2>7
<1>8. ASSUME NEW k \in DOMAIN handling, HandlerEnds(k) PROVE HandlingInv' /\ Len(handling') <= Len(handling)
  <2> DEFINE r == RemoveAt(handling, k)
  <2>1. handling' = r
    BY <1>8, Zenon DEF HandlerEnds, HandlerSet
  <2>2. r \in Seq(WholeHandlings) /\ Len(r) = Len(handling) - 1
    <3>1. k \in 1..Len(handling)
      BY <1>1
    <3> QED
      BY <1>1, <3>1, RemoveAtSeq, Zenon
  <2> HIDE DEF r
  <2> QED
    BY <1>1, <2>1, <2>2 DEF HandlingInv
<1>9. \/ UNCHANGED handling
      \/ \E m \in DOMAIN Messages : Deliver(m)
      \/ \E k \in DOMAIN handling : BeginReply(k) \/ PostSegment(k) \/ HandlerEnds(k)
  <2>1. Connecting => UNCHANGED handling
    BY DEF Connecting, StartChannel, SdkLoaded, ClientUnavailable, StopChannel, ConnectSucceeds,
           ConnectRejects, ConnectTimesOut, LateConnect, BackoffEnds, WatchdogTick, Untouched
  <2>2. Heartbeat \/ LinkBreaks \/ RetentionTick \/ UNCHANGED dingVars => UNCHANGED handling
    BY DEF Heartbeat, LinkBreaks, RetentionTick, Untouched, dingVars
  <2> QED
    BY <2>1, <2>2 DEF DingNext
<1>10. Len(handling') = Len(handling) => Len(handling') <= Len(handling)
  BY <1>1
<1> QED
  BY <1>3, <1>4, <1>6, <1>7, <1>8, <1>9, <1>10

-----------------------------------------------------------------------------
(* Redeliveries. *)

Histories == [age : 0..Ttl, others : SUBSET Keys, cleared : BOOLEAN]

\* What must not be handled again yet: not stopped, not expired, not too many others.
Due(k) ==
  ~since[k].cleared /\ since[k].age < Ttl /\ Cardinality(since[k].others) < MaxEntries

\* The cache has one entry for a key, and remembers what must not be handled.
CacheInv ==
  /\ dedupe \in Seq(Entries) /\ Distinct(dedupe)
  /\ since \in [Keys -> Histories] /\ \A k \in Keys : IsFiniteSet(since[k].others)
  /\ \A k \in Keys : Due(k) => Remembered(dedupe, k, since[k].age, since[k].others)

LEMMA CacheInit == DingInit => CacheInv
<1> SUFFICES ASSUME DingInit PROVE CacheInv
  OBVIOUS
<1>1. Ttl \in Nat
  BY DingAssumption
<1>2. dedupe = <<>> /\ since = [k \in Keys |-> [age |-> Ttl, others |-> {}, cleared |-> FALSE]]
  BY DEF DingInit
<1>3. dedupe \in Seq(Entries) /\ Distinct(dedupe)
  BY <1>2 DEF Distinct
<1>4. since \in [Keys -> Histories] /\ \A k \in Keys : IsFiniteSet(since[k].others)
  <2>1. since \in [Keys -> Histories]
    BY <1>1, <1>2 DEF Histories
  <2>2. \A k \in Keys : since[k].others = {}
    BY <1>2
  <2> QED
    BY <2>1, <2>2, FS_EmptySet
<1>5. \A k \in Keys : ~Due(k)
  BY <1>1, <1>2 DEF Due
<1> QED
  BY <1>3, <1>4, <1>5 DEF CacheInv

\* Nothing is due once the channel was stopped.
LEMMA CacheStop == CacheInv /\ StopChannel => CacheInv'
<1> SUFFICES ASSUME CacheInv, StopChannel PROVE CacheInv'
  OBVIOUS
<1>1. dedupe' = <<>> /\ since' = [k \in Keys |-> [since[k] EXCEPT !.cleared = TRUE]]
  BY DEF StopChannel
<1>2. (dedupe \in Seq(Entries) /\ Distinct(dedupe))'
  BY <1>1 DEF Distinct
<1>3. ASSUME NEW k \in Keys
      PROVE  since'[k] \in Histories /\ since'[k].others = since[k].others /\ since'[k].cleared
  <2>1. since[k] \in Histories /\ since'[k] = [since[k] EXCEPT !.cleared = TRUE]
    BY <1>1 DEF CacheInv
  <2> QED
    BY <2>1 DEF Histories
<1>4. (since \in [Keys -> Histories] /\ \A k \in Keys : IsFiniteSet(since[k].others))'
  BY <1>1, <1>3 DEF CacheInv
<1>5. \A k \in Keys : ~Due(k)'
  BY <1>3 DEF Due
<1> QED
  BY <1>2, <1>4, <1>5 DEF CacheInv

\* Entries and histories grow older together.
LEMMA CacheTick == CacheInv /\ RetentionTick => CacheInv'
<1> SUFFICES ASSUME CacheInv, RetentionTick PROVE CacheInv'
  OBVIOUS
<1>1. Ttl \in Nat /\ Len(dedupe) \in Nat /\ DOMAIN dedupe = 1..Len(dedupe)
  BY DingAssumption DEF CacheInv
<1> DEFINE Older(e) == [e EXCEPT !.left = IF e.left = 0 THEN 0 ELSE e.left - 1]
<1>2. /\ dedupe' = [k \in DOMAIN dedupe |-> Older(dedupe[k])]
      /\ since' = [k \in Keys |-> [since[k] EXCEPT !.age = AtMost(since[k].age, Ttl)]]
  BY DEF RetentionTick
<1>3. ASSUME NEW e \in Entries
      PROVE  Older(e) \in Entries /\ Older(e).key = e.key
             /\ Older(e).left = IF e.left = 0 THEN 0 ELSE e.left - 1
  BY <1>1 DEF Entries
<1> HIDE DEF Older
<1>4. ASSUME NEW i \in DOMAIN dedupe
      PROVE  /\ dedupe[i] \in Entries /\ dedupe[i].left \in 0..Ttl
             /\ dedupe'[i] \in Entries /\ dedupe'[i].key = dedupe[i].key
             /\ dedupe'[i].left = IF dedupe[i].left = 0 THEN 0 ELSE dedupe[i].left - 1
  <2>1. dedupe[i] \in Entries
    BY DEF CacheInv
  <2> QED
    BY <1>2, <1>3, <2>1 DEF Entries
<1>5. DOMAIN dedupe' = DOMAIN dedupe
  BY <1>2
<1>6. dedupe' \in Seq(Entries)
  BY <1>1, <1>2, <1>4
<1>7. Distinct(dedupe)'
  BY <1>4, <1>5 DEF CacheInv, Distinct
<1>8. ASSUME NEW k \in Keys
      PROVE  /\ since[k] \in Histories /\ since[k].age \in 0..Ttl
             /\ since'[k] \in Histories /\ since'[k].others = since[k].others
             /\ since'[k].cleared = since[k].cleared
             /\ since'[k].age = IF since[k].age < Ttl THEN since[k].age + 1 ELSE Ttl
  <2>1. since[k] \in Histories
    BY DEF CacheInv
  <2>2. AtMost(since[k].age, Ttl) = IF since[k].age < Ttl THEN since[k].age + 1 ELSE Ttl
    BY DEF AtMost
  <2>3. since[k].age \in 0..Ttl /\ AtMost(since[k].age, Ttl) \in 0..Ttl
    BY <1>1, <2>1, <2>2 DEF Histories
  <2> QED
    BY <1>2, <2>1, <2>2, <2>3 DEF Histories
<1>9. (since \in [Keys -> Histories] /\ \A k \in Keys : IsFiniteSet(since[k].others))'
  BY <1>2, <1>8 DEF CacheInv
<1>10. ASSUME NEW k \in Keys, Due(k)'
       PROVE  Remembered(dedupe, k, since[k].age, since[k].others)'
  <2>1. Due(k) /\ since'[k].age = since[k].age + 1 /\ since[k].age < Ttl
    BY <1>1, <1>8, <1>10 DEF Due
  <2>2. PICK i \in DOMAIN dedupe :
          /\ dedupe[i].key = k /\ dedupe[i].left + since[k].age >= Ttl
          /\ \A j \in DOMAIN dedupe : j > i => dedupe[j].key \in since[k].others
    BY <2>1 DEF CacheInv, Remembered
  <2>3. dedupe'[i].left + since'[k].age >= Ttl
    BY <1>1, <1>4, <1>8, <2>1, <2>2
  <2>4. dedupe'[i].key = k /\ \A j \in DOMAIN dedupe' : j > i => dedupe'[j].key \in since'[k].others
    BY <1>4, <1>5, <1>8, <2>2
  <2> QED
    BY <1>5, <2>3, <2>4 DEF Remembered
<1> QED
  BY <1>6, <1>7, <1>9, <1>10 DEF CacheInv

\* A delivery that is claimed: the key is remembered, and one more to the others.
LEMMA CacheDeliver ==
  ASSUME CacheInv, NEW m \in DOMAIN Messages, Deliver(m)
  PROVE  CacheInv'
<1> DEFINE key == Messages[m].key
<1>1. key \in Keys
  BY DEF Keys
<1>2. CASE ch.state \notin {"running", "starting"} \/ ~Messages[m].usable \/ Claimed(key)
  <2>1. UNCHANGED <<dedupe, since>>
    BY <1>2 DEF Deliver
  <2> QED
    BY <2>1 DEF CacheInv, Due
<1>3. CASE ~(ch.state \notin {"running", "starting"} \/ ~Messages[m].usable \/ Claimed(key))
  <2>1. /\ dedupe' = Claim(key)
        /\ since' = [k \in Keys |->
             IF k = key THEN [age |-> 0, others |-> {}, cleared |-> FALSE]
             ELSE [since[k] EXCEPT !.others = since[k].others \cup {key}]]
    BY <1>3 DEF Deliver
  <2> HIDE DEF key
  <2>2. /\ Claim(key) \in Seq(Entries) /\ Distinct(Claim(key))
        /\ Remembered(Claim(key), key, 0, {})
        /\ \A k \in Keys \ {key}, age \in 0 .. Ttl - 1, others \in SUBSET Keys :
              /\ Remembered(dedupe, k, age, others)
              /\ IsFiniteSet(others \cup {key}) /\ Cardinality(others \cup {key}) < MaxEntries
              => Remembered(Claim(key), k, age, others \cup {key})
    BY <1>1, ClaimRemembers DEF CacheInv
  <2>3. Ttl \in Nat
    BY DingAssumption
  <2>4. since'[key] = [age |-> 0, others |-> {}, cleared |-> FALSE]
    BY <1>1, <2>1
  <2>5. ASSUME NEW k \in Keys \ {key}
        PROVE  /\ since[k] \in Histories /\ since'[k] \in Histories
               /\ since'[k].age = since[k].age /\ since'[k].cleared = since[k].cleared
               /\ since'[k].others = since[k].others \cup {key}
    <3>1. since[k] \in Histories
      BY DEF CacheInv
    <3>2. since'[k] = [since[k] EXCEPT !.others = since[k].others \cup {key}]
      BY <2>1
    <3> QED
      BY <1>1, <3>1, <3>2 DEF Histories
  <2>6. \A k \in Keys : IsFiniteSet(since'[k].others) /\ since'[k] \in Histories
    <3>1. IsFiniteSet(since'[key].others) /\ since'[key] \in Histories
      BY <2>3, <2>4, FS_EmptySet DEF Histories
    <3>2. ASSUME NEW k \in Keys \ {key} PROVE IsFiniteSet(since'[k].others)
      <4>1. IsFiniteSet(since[k].others)
        BY DEF CacheInv
      <4> QED
        BY <2>5, <4>1, FS_AddElement
    <3> QED
      BY <2>5, <3>1, <3>2
  <2>7. since' \in [Keys -> Histories]
    BY <2>1, <2>6
  <2>8. Remembered(dedupe', key, since'[key].age, since'[key].others)
    <3>1. since'[key].age = 0 /\ since'[key].others = {}
      BY <2>4
    <3> QED
      BY <2>1, <2>2, <3>1, Zenon
  <2>9. ASSUME NEW k \in Keys \ {key}, Due(k)'
        PROVE  Remembered(dedupe', k, since'[k].age, since'[k].others)
    <3>1. since[k].age \in 0 .. Ttl - 1 /\ since[k].others \in SUBSET Keys
      BY <2>3, <2>5, <2>9 DEF Due, Histories
    <3>2. IsFiniteSet(since[k].others \cup {key}) /\ Cardinality(since[k].others \cup {key}) < MaxEntries
      BY <2>5, <2>6, <2>9 DEF Due
    <3>3. Cardinality(since[k].others) < MaxEntries
      <4>1. IsFiniteSet(since[k].others \cup {key}) /\ since[k].others \subseteq since[k].others \cup {key}
        BY <3>2
      <4>2. /\ Cardinality(since[k].others) <= Cardinality(since[k].others \cup {key})
            /\ IsFiniteSet(since[k].others)
        BY <4>1, FS_Subset
      <4>3. Cardinality(since[k].others) \in Nat /\ Cardinality(since[k].others \cup {key}) \in Nat
        BY <3>2, <4>2, FS_CardinalityType
      <4> QED
        BY <3>2, <4>2, <4>3, DingAssumption
    <3>4. Due(k)
      BY <2>5, <2>9, <3>3 DEF Due
    <3>5. Remembered(dedupe, k, since[k].age, since[k].others)
      BY <3>4 DEF CacheInv
    <3>6. Remembered(Claim(key), k, since[k].age, since[k].others \cup {key})
      BY <2>2, <3>1, <3>2, <3>5
    <3> QED
      BY <2>1, <2>5, <3>6, Zenon
  <2>10. \A k \in Keys : Due(k)' => Remembered(dedupe', k, since'[k].age, since'[k].others)
    BY <2>8, <2>9
  <2> QED
    BY <2>1, <2>2, <2>6, <2>7, <2>10 DEF CacheInv
<1> QED
  BY <1>2, <1>3

\* The channel answers a message once, whole and in order: a redelivery is handled
\* again only when the cache may have forgotten it, and a reply that reports
\* success arrived as its text (createDingTalkDedupeCache, createDingTalkReplier).
THEOREM MessagesRepliedOnce == DingSpec => RepliedOnce
<1>1. DingInit => HandlingInv
  BY DEF DingInit, HandlingInv
<1>2. HandlingInv /\ [DingNext]_dingVars => HandlingInv'
  BY HandlingKept
<1>3. HandlingInv => RepliesWhole
  <2> SUFFICES ASSUME HandlingInv, NEW k \in DOMAIN handling
               PROVE  LET text == Messages[handling[k].msg].text
                          sent == FlattenSeq(handling[k].posted)
                      IN  /\ IsPrefix(sent, text)
                          /\ handling[k].reply = "sent" => sent = text
                          /\ \A s \in Range(handling[k].posted) : 0 < Len(s) /\ Len(s) <= MaxLength
    BY DEF RepliesWhole
  <2>1. handling[k] \in Handlings /\ Whole(handling[k])
    BY DEF HandlingInv, WholeHandlings
  <2> QED
    BY <2>1, ReplyIsWhole DEF TextOf
<1>4. CacheInv /\ [DingNext]_dingVars => CacheInv'
  <2> SUFFICES ASSUME CacheInv, [DingNext]_dingVars PROVE CacheInv'
    OBVIOUS
  <2>1. CASE UNCHANGED <<dedupe, since>>
    BY <2>1 DEF CacheInv, Due
  <2>2. \/ UNCHANGED <<dedupe, since>> \/ StopChannel \/ RetentionTick
        \/ \E m \in DOMAIN Messages : Deliver(m)
    <3>1. Connecting => UNCHANGED <<dedupe, since>> \/ StopChannel
      BY DEF Connecting, StartChannel, SdkLoaded, ClientUnavailable, ConnectSucceeds,
             ConnectRejects, ConnectTimesOut, LateConnect, BackoffEnds, WatchdogTick, Untouched
    <3>2. Heartbeat \/ LinkBreaks \/ UNCHANGED dingVars => UNCHANGED <<dedupe, since>>
      BY DEF Heartbeat, LinkBreaks, Untouched, dingVars
    <3>3. ASSUME NEW k \in DOMAIN handling, BeginReply(k) \/ PostSegment(k) \/ HandlerEnds(k)
          PROVE  UNCHANGED <<dedupe, since>>
      BY <3>3, Zenon DEF BeginReply, PostSegment, HandlerEnds, HandlerSet
    <3> QED
      BY <3>1, <3>2, <3>3 DEF DingNext
  <2> QED
    BY <2>1, <2>2, CacheStop, CacheTick, CacheDeliver
<1>5. CacheInv /\ HandlingInv /\ [DingNext]_dingVars
        => [Len(handling') > Len(handling) =>
             LET h == since[Messages[Last(handling').msg].key] IN
             h.age >= Ttl \/ Cardinality(h.others) >= MaxEntries \/ h.cleared]_dingVars
  <2> SUFFICES ASSUME CacheInv, HandlingInv, [DingNext]_dingVars, Len(handling') > Len(handling)
               PROVE  LET h == since[Messages[Last(handling').msg].key] IN
                      h.age >= Ttl \/ Cardinality(h.others) >= MaxEntries \/ h.cleared
    OBVIOUS
  <2>1. HandlingInv' /\ Len(handling) \in Nat /\ Len(handling') \in Nat
    BY HandlingKept DEF HandlingInv
  <2>2. PICK m \in DOMAIN Messages : Last(handling').msg = m /\ ~Claimed(Messages[m].key)
    BY <2>1, HandlingKept
  <2> DEFINE key == Messages[m].key
  <2>3. key \in Keys
    BY DEF Keys
  <2> HIDE DEF key
  <2>4. ~Remembered(dedupe, key, since[key].age, since[key].others) \/ since[key].age >= Ttl
    <3> SUFFICES ASSUME Remembered(dedupe, key, since[key].age, since[key].others)
                 PROVE  since[key].age >= Ttl
      OBVIOUS
    <3>1. PICK i \in DOMAIN dedupe : dedupe[i].key = key /\ dedupe[i].left + since[key].age >= Ttl
      BY DEF Remembered
    <3>2. dedupe[i].left \in Nat /\ since[key].age \in Nat /\ Ttl \in Nat
      <4>1. dedupe[i] \in Entries /\ since[key] \in Histories
        BY <2>3 DEF CacheInv
      <4> QED
        BY <4>1, DingAssumption DEF Entries, Histories
    <3>3. ~(dedupe[i].left > 0)
      BY <2>2, <3>1 DEF Claimed, key
    <3> QED
      BY <3>1, <3>2, <3>3
  <2>5. since[key].age >= Ttl \/ Cardinality(since[key].others) >= MaxEntries \/ since[key].cleared
    <3>1. since[key] \in Histories /\ IsFiniteSet(since[key].others)
      BY <2>3 DEF CacheInv
    <3>2. since[key].age \in Nat /\ Cardinality(since[key].others) \in Nat
      BY <3>1, FS_CardinalityType DEF Histories
    <3>3. ~Due(key) \/ since[key].age >= Ttl
      BY <2>3, <2>4 DEF CacheInv
    <3> QED
      BY <3>2, <3>3, DingAssumption DEF Due
  <2> QED
    BY <2>2, <2>5 DEF key
<1>6. DingInit /\ [][DingNext]_dingVars => [](HandlingInv /\ CacheInv)
  BY <1>1, <1>2, <1>4, CacheInit, PTL
<1>7. DingInit /\ [][DingNext]_dingVars => HandledOnce
  BY <1>5, <1>6, PTL DEF HandledOnce
<1> QED
  BY <1>3, <1>6, <1>7, PTL DEF DingSpec, RepliedOnce

-----------------------------------------------------------------------------
(* The deploy command.  What each position of a deploy knows, in three      *)
(* parts: who holds the lock, what the state file says, and what a deploy   *)
(* has found out about it.                                                  *)

\* Nobody stands for the null of the fields of config.json it may be in.
Names == {o.name : o \in Options} \cup {Nobody}
Packages == {o.pkg : o \in Options} \cup {Nobody}
Scopes == Profiles \cup {Nobody}

Slots == [channel : Channels \cup {"none"}, name : Names, pkg : Packages,
          outcome : {"none", "pending", "ready", "failed", "unsupported"},
          proc : Deploys \cup {Nobody}, act : {"none", "prepared", "authorized"},
          prov : Scopes, op : Scopes]

\* From the lock on: the state file examined, a DingTalk application looked
\* for, an HTTP runtime launched.
FilePcs == {"existing", "resume", "resumed"}
CreatePcs == {"list", "fence", "create", "created", "identify"}
DingPcs == {"session", "get", "bound"} \cup CreatePcs
LaunchPcs == {"save", "send", "await", "poll", "final", "cleanup", "reapOnly", "unpublish",
              "reap", "reapQuietly"}
ExaminedPcs == {"begin", "spawn"} \cup DingPcs \cup LaunchPcs
Held == FilePcs \cup ExaminedPcs
UnbornPcs == {"idle", "lock", "begin", "spawn"} \cup FilePcs \cup DingPcs
EndPcs == {"done", "dead"}
DepPcs == {"idle", "lock"} \cup EndPcs \cup Held
Results == {"none", "refused", "lock_timeout", "unsupported", "pending", "unsafe", "ready",
            "failed"}

DepRecords == [pc : DepPcs, opt : Options \cup {Nobody}, prov : Scopes, op : Scopes,
               ph : 0..Release, promoted : BOOLEAN, acked : BOOLEAN, scope : Scopes,
               result : Results, target : Deploys \cup {Nobody}]
Runtimes == [st : {"none", "run", "stopping", "dead"}, inbox : 0..Release, acked : 0..Release,
             connected : BOOLEAN, listening : BOOLEAN, autonomous : BOOLEAN, termed : BOOLEAN]

DeployTypes ==
  /\ slot \in Slots /\ profile \in Profiles
  /\ dep \in [Deploys -> DepRecords] /\ run \in [Deploys -> Runtimes]

\* The lock is held by a deploy past its lock phase and by a runtime that is
\* not released: the two may be one deploy and its own runtime, never others.
Involved(d) == dep[d].pc \in Held \/ (Alive(d) /\ ~run[d].autonomous)
Leases(d) ==
  /\ Parent(d) \in lease <=> dep[d].pc \in Held
  /\ Child(d) \in lease <=> Alive(d) /\ ~run[d].autonomous
LockInv ==
  /\ \A d \in Deploys : Leases(d)
  /\ \A d, e \in Deploys : Involved(d) /\ Involved(e) => d = e

\* The state file: an application at the provider is known to it.
SlotInv ==
  /\ ValidConfig(slot) /\ FailedMeansStopped
  /\ apps = {} \/ \E a \in apps : apps = {a}
  /\ apps # {} => slot.op # Nobody \/ slot.prov # Nobody
  /\ slot.prov # Nobody => HasApp(slot.prov)

Authorized(d) == slot.channel = "http" /\ slot.proc = d /\ slot.act = "authorized"

\* A runtime serves on its own once it has acknowledged the release, and its
\* deploy sent the release as its last message.
RuntimeInv(d) ==
  /\ run[d].autonomous <=> run[d].acked = Release
  /\ run[d].acked = Release => run[d].inbox = Release
  /\ run[d].inbox = Release =>
       dep[d].pc \in {"final"} \cup EndPcs \/ (dep[d].pc = "await" /\ dep[d].ph = Release)
  /\ run[d].autonomous /\ Alive(d) => Authorized(d)

\* What a deploy found in the state file stays so while it holds the lock.
ResumeInv(d) ==
  dep[d].pc \in {"resume", "resumed"} =>
    slot.proc \in Deploys /\ Authorized(slot.proc) /\ slot.outcome \in {"ready", "pending"}

\* After the examination no other runtime lives.
ExaminedInv(d) ==
  dep[d].pc \in ExaminedPcs =>
    /\ \A e \in Deploys \ {d} : ~Alive(e)
    /\ dep[d].opt.channel # "dingtalk" => dep[d].prov = Nobody /\ dep[d].op = Nobody
    /\ dep[d].op # Nobody => dep[d].prov = Nobody

ReconcileInv(d) ==
  /\ dep[d].pc \in DingPcs => dep[d].opt.channel = "dingtalk"
  /\ dep[d].pc \in {"begin"} \cup DingPcs => slot.prov = dep[d].prov /\ slot.op = dep[d].op
  /\ dep[d].pc \in DingPcs \ {"session"} => dep[d].scope \in Profiles
  /\ dep[d].pc \in CreatePcs => dep[d].prov = Nobody /\ dep[d].op \in {Nobody, dep[d].scope}
  /\ dep[d].pc = "fence" => dep[d].op = Nobody
  /\ dep[d].pc = "create" => dep[d].op = dep[d].scope /\ apps = {}
  /\ dep[d].pc = "created" => dep[d].op = dep[d].scope
  /\ dep[d].pc = "identify" => HasApp(dep[d].scope)

LaunchInv(d) ==
  /\ dep[d].pc \in {"spawn"} \cup LaunchPcs =>
       dep[d].opt.channel = "http" /\ slot.channel = "http"
  /\ dep[d].pc = "spawn" => slot.outcome = "pending"
  /\ dep[d].pc \in LaunchPcs => dep[d].ph \in 1..Release
  /\ dep[d].pc = "poll" => dep[d].ph = 4
  /\ dep[d].pc = "save" => dep[d].ph \in {1, 2, 5, 6}
  /\ dep[d].pc = "save" /\ dep[d].ph = Release => Authorized(d)
  /\ dep[d].pc \in {"send", "await"} /\ dep[d].ph >= 5 => Authorized(d)
  /\ dep[d].pc \in {"final", "unpublish"} => Authorized(d)

DepInv(d) ==
  /\ dep[d].pc \notin {"idle"} \cup EndPcs => dep[d].opt \in Options /\ InputsAccepted(dep[d].opt)
  /\ dep[d].pc \in UnbornPcs => run[d] = NoRuntime
  /\ dep[d].acked => run[d].acked = Release
  /\ dep[d].result = "ready" => dep[d].target \in Deploys /\ run[dep[d].target].autonomous
  /\ ResumeInv(d) /\ ExaminedInv(d) /\ ReconcileInv(d) /\ LaunchInv(d)

DeployInv ==
  /\ DeployTypes /\ LockInv /\ SlotInv
  /\ \A d \in Deploys : RuntimeInv(d) /\ DepInv(d)

\* The invariant implies what the run checks.
LEMMA DeployInvIsEnough == DeployInv => DeploySound
<1> SUFFICES ASSUME DeployInv PROVE DeploySound
  OBVIOUS
<1>1. Cardinality(apps) <= 1
  <2>1. apps = {} \/ \E a \in apps : apps = {a}
    BY DEF DeployInv, SlotInv
  <2>2. CASE apps = {}
    BY <2>2, FS_EmptySet
  <2>3. CASE \E a \in apps : apps = {a}
    <3>1. PICK a : apps = {a}
      BY <2>3
    <3>2. Cardinality({a}) = 1
      BY FS_Singleton
    <3> QED
      BY <3>1, <3>2
  <2> QED
    BY <2>1, <2>2, <2>3
<1> QED
  BY <1>1 DEF DeployInv, DeploySound, SlotInv, DeployStateValid, NoOrphanRuntime, RuntimeInv,
     Authorized, ReadyMeansReleased, DepInv, CreatedOnce

\* Descriptors of different processes differ.
LEMMA DescriptorsDiffer ==
  \A d, e : /\ Parent(d) # Child(e)
            /\ Parent(d) = Parent(e) => d = e
            /\ Child(d) = Child(e) => d = e
BY DEF Parent, Child

\* At most one deploy is past its lock phase, and no other has a runtime that
\* is not released.
LEMMA OneHolder ==
  ASSUME DeployInv, NEW d \in Deploys, dep[d].pc \in Held
  PROVE  \A e \in Deploys \ {d} : dep[e].pc \notin Held /\ (Alive(e) => run[e].autonomous)
BY DEF DeployInv, LockInv, Involved

\* A deploy that does not hold the lock has found nothing out.
LEMMA NothingHeld ==
  ASSUME NEW d, dep'[d].pc \notin Held
  PROVE  (ResumeInv(d) /\ ExaminedInv(d) /\ ReconcileInv(d) /\ LaunchInv(d))'
<1>1. dep'[d].pc \notin {"resume", "resumed"} \cup ExaminedPcs
  BY DEF Held, FilePcs
<1>2. dep'[d].pc \notin {"begin", "spawn"} \cup DingPcs \cup LaunchPcs
  BY <1>1 DEF ExaminedPcs
<1>3. dep'[d].pc \notin CreatePcs \cup {"fence", "create", "created", "identify"}
  BY <1>2 DEF DingPcs, CreatePcs
<1>4. dep'[d].pc \notin {"poll", "save", "send", "await", "final", "unpublish"}
  BY <1>2 DEF LaunchPcs
<1>5. (ResumeInv(d) /\ ExaminedInv(d))'
  BY <1>1 DEF ResumeInv, ExaminedInv
<1>6. ReconcileInv(d)'
  BY <1>2, <1>3 DEF ReconcileInv
<1>7. LaunchInv(d)'
  BY <1>2, <1>4 DEF LaunchInv
<1> QED
  BY <1>5, <1>6, <1>7

\* A step of the deploy d that holds the lock, and of its runtime, keeps the
\* invariant if it keeps what the invariant says of d and of the state file.
LEMMA HolderSteps ==
  ASSUME DeployInv, NEW d \in Deploys, dep[d].pc \in Held,
         DeployTypes', SlotInv', RuntimeInv(d)', DepInv(d)', Leases(d)',
         \A e \in Deploys \ {d} : dep'[e] = dep[e] /\ run'[e] = run[e],
         \A e \in Deploys \ {d} : Alive(e) => Authorized(e)',
         run[d].autonomous => run'[d].autonomous,
         \A x : x \notin {Parent(d), Child(d)} => (x \in lease' <=> x \in lease)
  PROVE  DeployInv'
<1>1. \A e \in Deploys \ {d} : dep[e].pc \notin Held /\ (Alive(e) => run[e].autonomous)
  BY OneHolder
<1>2. LockInv'
  <2>1. ASSUME NEW e \in Deploys \ {d} PROVE Leases(e)' /\ ~Involved(e)'
    <3>1. Leases(e) /\ ~Involved(e)
      BY <1>1 DEF DeployInv, LockInv, Involved
    <3>2. /\ Parent(e) \in lease' <=> Parent(e) \in lease
          /\ Child(e) \in lease' <=> Child(e) \in lease
      BY DescriptorsDiffer
    <3> QED
      BY <3>1, <3>2 DEF Leases, Involved, Alive, Parent, Child
  <2> QED
    BY <2>1 DEF LockInv
<1>3. ASSUME NEW e \in Deploys \ {d} PROVE RuntimeInv(e)' /\ DepInv(e)'
  <2>1. RuntimeInv(e) /\ DepInv(e) /\ dep[e].pc \notin Held /\ dep'[e] = dep[e] /\ run'[e] = run[e]
    BY <1>1 DEF DeployInv
  <2>2. RuntimeInv(e)'
    BY <2>1 DEF RuntimeInv, Alive
  <2>3. dep'[e].result = "ready" => dep'[e].target \in Deploys /\ run'[dep'[e].target].autonomous
    BY <2>1 DEF DepInv
  <2> QED
    BY <2>1, <2>2, <2>3, NothingHeld DEF DepInv
<1> QED
  BY <1>2, <1>3 DEF DeployInv

\* A step of a deploy that holds the lock and goes on holding it.
LEMMA HolderMoves ==
  ASSUME DeployInv, NEW d \in Deploys, dep[d].pc \in Held, dep'[d].pc \in Held,
         DeployTypes', SlotInv', DepInv(d)',
         \A e \in Deploys \ {d} : dep'[e] = dep[e],
         UNCHANGED <<run, lease>>,
         \A e \in Deploys : Alive(e) /\ run[e].autonomous => Authorized(e)',
         run[d].inbox = Release =>
           dep'[d].pc \in {"final"} \cup EndPcs \/ (dep'[d].pc = "await" /\ dep'[d].ph = Release)
  PROVE  DeployInv'
<1>1. \A e \in Deploys \ {d} : Alive(e) => Authorized(e)'
  BY OneHolder
<1>2. RuntimeInv(d)'
  BY DEF DeployInv, RuntimeInv, Alive
<1>3. Leases(d)'
  BY DEF DeployInv, LockInv, Leases, Alive, Parent, Child
<1> QED
  BY <1>1, <1>2, <1>3, HolderSteps

\* The phase of a deploy that has not launched a runtime.
LEMMA NoPhase == 0 \in 0..Release
BY DEF Release

\* A deploy that ends, whatever it reports, releases the lock and its channel.
LEMMA HolderEnds ==
  ASSUME DeployInv, NEW d \in Deploys, dep[d].pc \in Held,
         NEW l \in DepRecords, l.pc \in EndPcs, l.acked = FALSE,
         dep' = [dep EXCEPT ![d] = l],
         lease' = lease \ {Parent(d)},
         run' = [run EXCEPT ![d].connected = FALSE],
         slot' \in Slots, profile' = profile, SlotInv',
         l.result = "ready" => l.target \in Deploys /\ run[l.target].autonomous,
         \A e \in Deploys : Alive(e) /\ run[e].autonomous => Authorized(e)'
  PROVE  DeployInv'
<1>1. DeployTypes /\ RuntimeInv(d) /\ Leases(d)
  BY DEF DeployInv, LockInv
<1>2. /\ dep'[d] = l
      /\ \A e \in Deploys \ {d} : dep'[e] = dep[e] /\ run'[e] = run[e]
      /\ run'[d] = [run[d] EXCEPT !.connected = FALSE]
  BY <1>1 DEF DeployTypes
<1>3. dep'[d] \in DepRecords
  BY <1>2
<1>4. run'[d] \in Runtimes
  <2>1. run[d] \in Runtimes
    BY <1>1 DEF DeployTypes
  <2>2. [run[d] EXCEPT !.connected = FALSE] \in Runtimes
    BY <2>1 DEF Runtimes
  <2> QED
    BY <1>2, <2>2
<1>5. DeployTypes'
  BY <1>1, <1>2, <1>3, <1>4 DEF DeployTypes
<1>6. /\ run'[d].st = run[d].st /\ run'[d].inbox = run[d].inbox /\ run'[d].acked = run[d].acked
      /\ run'[d].autonomous = run[d].autonomous
  <2>1. run[d] \in Runtimes
    BY <1>1 DEF DeployTypes
  <2> QED
    BY <1>2, <2>1 DEF Runtimes
<1>7. Alive(d)' <=> Alive(d)
  BY <1>6 DEF Alive
<1>8. l.pc \notin Held /\ l.pc \notin UnbornPcs
  BY DEF Held, FilePcs, ExaminedPcs, DingPcs, CreatePcs, LaunchPcs, UnbornPcs, EndPcs
<1>9. RuntimeInv(d)'
  BY <1>1, <1>2, <1>6, <1>7 DEF RuntimeInv
<1>10. DepInv(d)'
  <2>1. dep'[d].pc \in EndPcs /\ dep'[d].acked = FALSE /\ dep'[d].pc \notin Held
        /\ dep'[d].pc \notin UnbornPcs
    BY <1>2, <1>8
  <2>2. dep'[d].result = "ready" => dep'[d].target \in Deploys /\ run'[dep'[d].target].autonomous
    BY <1>2, <1>6
  <2> QED
    BY <2>1, <2>2, NothingHeld DEF DepInv
<1>11. Leases(d)'
  BY <1>1, <1>2, <1>6, <1>7, <1>8, DescriptorsDiffer DEF Leases, Parent, Child
<1>12. \A e \in Deploys \ {d} : Alive(e) => Authorized(e)'
  BY OneHolder
<1>13. \A x : x \notin {Parent(d), Child(d)} => (x \in lease' <=> x \in lease)
  BY DEF Parent, Child
<1> QED
  BY <1>2, <1>5, <1>6, <1>9, <1>10, <1>11, <1>12, <1>13, HolderSteps

\* The end of a deploy: LeaveDeploy.
LEMMA LeavingKeeps ==
  ASSUME DeployInv, NEW d \in Deploys, dep[d].pc \in Held,
         NEW r \in Results, NEW t \in Deploys \cup {Nobody}, LeaveDeploy(d, r, t),
         slot' \in Slots, profile' = profile, SlotInv',
         r = "ready" => t \in Deploys /\ run[t].autonomous,
         \A e \in Deploys : Alive(e) /\ run[e].autonomous => Authorized(e)'
  PROVE  DeployInv'
<1> DEFINE l == [NoDep EXCEPT !.pc = "done", !.result = r, !.target = t]
<1>1. /\ dep' = [dep EXCEPT ![d] = l]
      /\ lease' = lease \ {Parent(d)}
      /\ run' = [run EXCEPT ![d].connected = FALSE]
  BY DEF LeaveDeploy
<1>2. "done" \in EndPcs /\ "done" \in DepPcs
  BY DEF EndPcs, DepPcs
<1>3. l \in DepRecords /\ l.pc = "done" /\ l.acked = FALSE /\ l.result = r /\ l.target = t
  BY <1>2, NoPhase DEF NoDep, DepRecords, Scopes
<1> HIDE DEF l
<1> QED
  BY <1>1, <1>2, <1>3, HolderEnds

\* The state file is as good as before if neither it nor the provider
\* changes and no runtime is started.
LEMMA SlotKept ==
  ASSUME SlotInv, UNCHANGED <<slot, apps>>,
         \A e \in Deploys : Alive(e)' => Alive(e)
  PROVE  SlotInv'
BY DEF SlotInv, ValidConfig, FailedMeansStopped, HasApp, AllowedOutcomes

\* A deploy that leaves without writing.
LEMMA LeavingUnwritten ==
  ASSUME DeployInv, NEW d \in Deploys, dep[d].pc \in Held,
         NEW r \in Results \ {"ready"}, LeaveDeploy(d, r, Nobody),
         UNCHANGED <<slot, apps, profile>>
  PROVE  DeployInv'
<1>1. run' = [run EXCEPT ![d].connected = FALSE]
  BY DEF LeaveDeploy
<1>2. \A e \in Deploys : run'[e].st = run[e].st
  BY <1>1 DEF DeployInv, DeployTypes, Runtimes
<1>3. \A e \in Deploys : Alive(e)' => Alive(e)
  BY <1>2 DEF Alive
<1>4. SlotInv'
  BY <1>3, SlotKept DEF DeployInv
<1>5. slot' \in Slots
  BY DEF DeployInv, DeployTypes
<1>6. \A e \in Deploys : Alive(e) /\ run[e].autonomous => Authorized(e)'
  BY DEF DeployInv, RuntimeInv, Authorized
<1>7. r \in Results /\ Nobody \in Deploys \cup {Nobody}
  OBVIOUS
<1> QED
  BY <1>4, <1>5, <1>6, <1>7, LeavingKeeps

\* A deploy that holds the lock and goes on without writing.
LEMMA MovingUnwritten ==
  ASSUME DeployInv, NEW d \in Deploys, dep[d].pc \in Held, dep'[d].pc \in Held,
         dep'[d] \in DepRecords, DepInv(d)', dep' = [dep EXCEPT ![d] = dep'[d]],
         UNCHANGED <<slot, run, lease, apps, profile>>,
         run[d].inbox = Release =>
           dep'[d].pc \in {"final"} \cup EndPcs \/ (dep'[d].pc = "await" /\ dep'[d].ph = Release)
  PROVE  DeployInv'
<1>1. SlotInv'
  <2>1. \A e \in Deploys : Alive(e)' => Alive(e)
    BY DEF Alive
  <2> QED
    BY <2>1, SlotKept DEF DeployInv
<1>2. DeployTypes'
  BY DEF DeployInv, DeployTypes
<1>3. \A e \in Deploys \ {d} : dep'[e] = dep[e]
  BY DEF DeployInv, DeployTypes
<1>4. \A e \in Deploys : Alive(e) /\ run[e].autonomous => Authorized(e)'
  BY DEF DeployInv, RuntimeInv, Authorized
<1> QED
  BY <1>1, <1>2, <1>3, <1>4, HolderMoves

\* A deploy that does not hold the lock changes only itself.
LEMMA OutsideKeeps ==
  ASSUME DeployInv, NEW d \in Deploys, dep[d].pc \notin Held, dep'[d].pc \notin Held,
         dep' = [dep EXCEPT ![d] = dep'[d]], dep'[d] \in DepRecords,
         UNCHANGED <<slot, run, lease, apps, profile>>,
         run[d] = NoRuntime, dep'[d].acked = FALSE, dep'[d].result # "ready",
         dep'[d].pc \notin {"idle"} \cup EndPcs =>
           dep'[d].opt \in Options /\ InputsAccepted(dep'[d].opt)
  PROVE  DeployInv'
<1>1. SlotInv'
  <2>1. \A e \in Deploys : Alive(e)' => Alive(e)
    BY DEF Alive
  <2> QED
    BY <2>1, SlotKept DEF DeployInv
<1>2. DeployTypes'
  BY DEF DeployInv, DeployTypes
<1>3. \A e \in Deploys \ {d} : dep'[e] = dep[e]
  BY DEF DeployInv, DeployTypes
<1>4. LockInv'
  <2>1. \A e \in Deploys : dep'[e].pc \in Held <=> dep[e].pc \in Held
    BY <1>3
  <2>2. \A e \in Deploys : (Leases(e)' <=> Leases(e)) /\ (Involved(e)' <=> Involved(e))
    BY <2>1 DEF Leases, Involved, Alive, Parent, Child
  <2> QED
    BY <2>2 DEF DeployInv, LockInv
<1>5. RuntimeInv(d)' /\ DepInv(d)'
  <2>1. run'[d].acked = 0 /\ run'[d].inbox = 0 /\ run'[d].autonomous = FALSE
    BY DEF NoRuntime
  <2>2. RuntimeInv(d)'
    BY <2>1 DEF RuntimeInv, Release
  <2>3. (ResumeInv(d) /\ ExaminedInv(d) /\ ReconcileInv(d) /\ LaunchInv(d))'
    BY NothingHeld
  <2> QED
    BY <2>2, <2>3 DEF DepInv
<1>6. ASSUME NEW e \in Deploys \ {d} PROVE RuntimeInv(e)' /\ DepInv(e)'
  <2>1. RuntimeInv(e) /\ DepInv(e) /\ dep'[e] = dep[e]
    BY <1>3 DEF DeployInv
  <2>2. RuntimeInv(e)'
    BY <2>1 DEF RuntimeInv, Alive, Authorized
  <2>3. (ResumeInv(e) /\ ExaminedInv(e) /\ ReconcileInv(e) /\ LaunchInv(e))'
    BY <2>1 DEF DepInv, ResumeInv, ExaminedInv, ReconcileInv, LaunchInv, Authorized, Alive, HasApp
  <2> QED
    BY <2>1, <2>2, <2>3 DEF DepInv
<1> QED
  BY <1>1, <1>2, <1>4, <1>5, <1>6 DEF DeployInv

\* A runtime that goes on, stops or ends changes only itself and the lock.
LEMMA RuntimeKeeps ==
  ASSUME DeployInv, NEW d \in Deploys, Alive(d) \/ run[d].st = "stopping",
         UNCHANGED <<slot, dep, apps, profile>>,
         run' = [run EXCEPT ![d] = run'[d]], run'[d] \in Runtimes,
         Alive(d)' => Alive(d), run[d].autonomous => run'[d].autonomous,
         run'[d].inbox = run[d].inbox, run[d].acked = Release => run'[d].acked = Release,
         run'[d].autonomous <=> run'[d].acked = Release,
         run'[d].acked = Release => run'[d].inbox = Release,
         run'[d].autonomous /\ Alive(d)' => Authorized(d)',
         lease' = IF Alive(d)' /\ ~run'[d].autonomous THEN lease ELSE lease \ {Child(d)}
  PROVE  DeployInv'
<1>1. \A e \in Deploys \ {d} : run'[e] = run[e]
  BY DEF DeployInv, DeployTypes
<1>2. \A e \in Deploys : Alive(e)' => Alive(e)
  BY <1>1 DEF Alive
<1>3. SlotInv'
  BY <1>2, SlotKept DEF DeployInv
<1>4. DeployTypes'
  BY DEF DeployInv, DeployTypes
<1>5. \A e \in Deploys : Involved(e)' => Involved(e)
  BY <1>1, <1>2 DEF Involved, Alive
<1>6. ASSUME NEW e \in Deploys PROVE Leases(e)'
  <2>1. Leases(e) /\ (Parent(e) \in lease' <=> Parent(e) \in lease)
    BY DescriptorsDiffer DEF DeployInv, LockInv
  <2>2. CASE e = d
    BY <2>1, <2>2 DEF Leases, Parent, Child
  <2>3. CASE e # d
    <3>1. Child(e) \in lease' <=> Child(e) \in lease
      BY <2>3, DescriptorsDiffer
    <3> QED
      BY <1>1, <2>1, <2>3, <3>1 DEF Leases, Alive, Parent, Child
  <2> QED
    BY <2>2, <2>3
<1>7. LockInv'
  BY <1>5, <1>6 DEF DeployInv, LockInv
<1>8. ASSUME NEW e \in Deploys PROVE RuntimeInv(e)'
  <2>1. RuntimeInv(e)
    BY DEF DeployInv
  <2> QED
    BY <1>1, <2>1 DEF RuntimeInv, Authorized, Alive
<1>9. ASSUME NEW e \in Deploys PROVE DepInv(e)'
  <2>1. DepInv(e)
    BY DEF DeployInv
  <2>2. run[d] # NoRuntime
    BY DEF Alive, NoRuntime
  <2>3. dep'[e].pc \in UnbornPcs => run'[e] = NoRuntime
    BY <1>1, <2>1, <2>2 DEF DepInv
  <2>4. dep'[e].acked => run'[e].acked = Release
    BY <1>1, <2>1 DEF DepInv
  <2>5. dep'[e].result = "ready" => dep'[e].target \in Deploys /\ run'[dep'[e].target].autonomous
    BY <1>1, <2>1 DEF DepInv
  <2>6. (ResumeInv(e) /\ ExaminedInv(e) /\ ReconcileInv(e) /\ LaunchInv(e))'
    BY <1>2, <2>1 DEF DepInv, ResumeInv, ExaminedInv, ReconcileInv, LaunchInv, Authorized, HasApp
  <2> QED
    BY <2>1, <2>3, <2>4, <2>5, <2>6 DEF DepInv
<1> QED
  BY <1>3, <1>4, <1>7, <1>8, <1>9 DEF DeployInv

\* The step of a deploy from one place to another changes nothing else of it.
LEMMA Moved ==
  ASSUME DeployTypes, NEW d \in Deploys, NEW pc \in DepPcs, To(d, pc)
  PROVE  /\ dep'[d] \in DepRecords /\ dep' = [dep EXCEPT ![d] = dep'[d]]
         /\ dep'[d].pc = pc /\ dep'[d].opt = dep[d].opt /\ dep'[d].prov = dep[d].prov
         /\ dep'[d].op = dep[d].op /\ dep'[d].ph = dep[d].ph /\ dep'[d].acked = dep[d].acked
         /\ dep'[d].scope = dep[d].scope /\ dep'[d].result = dep[d].result
         /\ dep'[d].target = dep[d].target
<1>1. dep[d] \in DepRecords /\ dep' = [dep EXCEPT ![d].pc = pc]
  BY DEF DeployTypes, To
<1>2. dep'[d] = [dep[d] EXCEPT !.pc = pc] /\ dep' = [dep EXCEPT ![d] = dep'[d]]
  BY <1>1 DEF DeployTypes
<1>3. \A l \in DepRecords :
        LET m == [l EXCEPT !.pc = pc] IN
        /\ m \in DepRecords
        /\ m.pc = pc /\ m.opt = l.opt /\ m.prov = l.prov /\ m.op = l.op /\ m.ph = l.ph
        /\ m.acked = l.acked /\ m.scope = l.scope /\ m.result = l.result /\ m.target = l.target
  BY DEF DepRecords
<1>4. PICK l \in DepRecords : l = dep[d]
  BY <1>1
<1> DEFINE m == [l EXCEPT !.pc = pc]
<1>5. dep'[d] = m /\ dep' = [dep EXCEPT ![d] = dep'[d]]
  BY <1>2, <1>4
<1>6. /\ m \in DepRecords
      /\ m.pc = pc /\ m.opt = l.opt /\ m.prov = l.prov /\ m.op = l.op /\ m.ph = l.ph
      /\ m.acked = l.acked /\ m.scope = l.scope /\ m.result = l.result /\ m.target = l.target
  BY <1>3
<1> HIDE DEF m
<1> QED
  BY <1>4, <1>5, <1>6

\* Start keeps the invariant.
LEMMA StartKeeps ==
  ASSUME DeployInv, NEW d \in Deploys, Start(d)
  PROVE  DeployInv'
<1>1. dep[d].pc = "idle" /\ UNCHANGED <<slot, run, lease, apps, profile>>
  BY DEF Start
<1>2. PICK o \in Options :
        dep' = [dep EXCEPT ![d] = IF InputsAccepted(o)
                                  THEN [NoDep EXCEPT !.pc = "lock", !.opt = o]
                                  ELSE [NoDep EXCEPT !.pc = "done", !.result = "refused"]]
  BY DEF Start
<1>3. /\ "lock" \in DepPcs /\ "done" \in DepPcs /\ "refused" \in Results
      /\ "lock" \notin Held /\ "done" \notin Held /\ "idle" \notin Held /\ "idle" \in UnbornPcs
      /\ "done" \in EndPcs
  BY DEF DepPcs, EndPcs, Results, Held, FilePcs, ExaminedPcs, DingPcs, CreatePcs, LaunchPcs,
     UnbornPcs
<1>4. run[d] = NoRuntime
  BY <1>1, <1>3 DEF DeployInv, DepInv
<1>5. CASE InputsAccepted(o)
  <2> DEFINE l == [NoDep EXCEPT !.pc = "lock", !.opt = o]
  <2>1. l \in DepRecords /\ l.pc = "lock" /\ l.acked = FALSE /\ l.result = "none" /\ l.opt = o
    BY <1>3, NoPhase DEF NoDep, DepRecords, Scopes, Results
  <2>2. dep' = [dep EXCEPT ![d] = l]
    BY <1>2, <1>5
  <2> HIDE DEF l
  <2>3. dep'[d] = l
    BY <2>2 DEF DeployInv, DeployTypes
  <2> QED
    BY <1>1, <1>3, <1>4, <1>5, <2>1, <2>2, <2>3, OutsideKeeps
<1>6. CASE ~InputsAccepted(o)
  <2> DEFINE l == [NoDep EXCEPT !.pc = "done", !.result = "refused"]
  <2>1. l \in DepRecords /\ l.pc = "done" /\ l.acked = FALSE /\ l.result = "refused"
    BY <1>2, <1>3, NoPhase DEF NoDep, DepRecords, Scopes, Results
  <2>2. dep' = [dep EXCEPT ![d] = l]
    BY <1>2, <1>6
  <2> HIDE DEF l
  <2>3. dep'[d] = l
    BY <2>2 DEF DeployInv, DeployTypes
  <2> QED
    BY <1>1, <1>3, <1>4, <2>1, <2>2, <2>3, OutsideKeeps
<1> QED
  BY <1>5, <1>6

\* LockTimesOut keeps the invariant.
LEMMA LockTimesOutKeeps ==
  ASSUME DeployInv, NEW d \in Deploys, LockTimesOut(d)
  PROVE  DeployInv'
<1> DEFINE l == [NoDep EXCEPT !.pc = "done", !.result = "lock_timeout"]
<1>1. /\ dep[d].pc = "lock" /\ dep' = [dep EXCEPT ![d] = l]
      /\ UNCHANGED <<slot, run, lease, apps, profile>>
  BY DEF LockTimesOut
<1>2. /\ "done" \in DepPcs /\ "lock_timeout" \in Results /\ "lock" \in UnbornPcs
      /\ "done" \notin Held /\ "lock" \notin Held /\ "done" \in EndPcs
  BY DEF DepPcs, EndPcs, Results, Held, FilePcs, ExaminedPcs, DingPcs, CreatePcs, LaunchPcs,
     UnbornPcs
<1>3. run[d] = NoRuntime
  BY <1>1, <1>2 DEF DeployInv, DepInv
<1>4. PICK o : o = dep[d].opt
  OBVIOUS
<1>5. o \in Options
  BY <1>1, <1>4 DEF DeployInv, DepInv, EndPcs
<1>6. l \in DepRecords /\ l.pc = "done" /\ l.acked = FALSE /\ l.result = "lock_timeout"
  BY <1>2, <1>5, NoPhase DEF NoDep, DepRecords, Scopes, Results
<1> HIDE DEF l
<1>7. dep'[d] = l
  BY <1>1 DEF DeployInv, DeployTypes
<1> QED
  BY <1>1, <1>2, <1>3, <1>6, <1>7, OutsideKeeps

\* AcquireLock keeps the invariant: nobody else has the lock, so no deploy is
\* past its lock phase and no runtime lives that is not released.
LEMMA AcquireLockKeeps ==
  ASSUME DeployInv, NEW d \in Deploys, AcquireLock(d)
  PROVE  DeployInv'
<1>1. /\ dep[d].pc = "lock" /\ lease = {} /\ lease' = {Parent(d)} /\ To(d, "existing")
      /\ UNCHANGED <<slot, run, apps, profile>>
  BY DEF AcquireLock
<1>2. /\ "existing" \in DepPcs /\ "existing" \in Held /\ "existing" \in UnbornPcs
      /\ "lock" \in UnbornPcs /\ "lock" \notin EndPcs /\ "existing" \notin EndPcs
      /\ "existing" \notin ExaminedPcs
  BY DEF DepPcs, EndPcs, Held, FilePcs, ExaminedPcs, DingPcs, CreatePcs, LaunchPcs, UnbornPcs
<1>3. DeployTypes
  BY DEF DeployInv
<1>4. /\ dep'[d] \in DepRecords /\ dep' = [dep EXCEPT ![d] = dep'[d]]
      /\ dep'[d].pc = "existing" /\ dep'[d].opt = dep[d].opt /\ dep'[d].acked = dep[d].acked
      /\ dep'[d].result = dep[d].result /\ dep'[d].target = dep[d].target
  BY <1>1, <1>2, <1>3, Moved
<1>5. \A e \in Deploys \ {d} : dep'[e] = dep[e]
  BY <1>3, <1>4 DEF DeployTypes
<1>6. \A e \in Deploys : dep[e].pc \notin Held /\ (Alive(e) => run[e].autonomous)
  BY <1>1 DEF DeployInv, LockInv, Leases
<1>7. DeployTypes'
  BY <1>1, <1>3, <1>4 DEF DeployTypes
<1>8. SlotInv'
  <2>1. \A e \in Deploys : Alive(e)' => Alive(e)
    BY <1>1 DEF Alive
  <2> QED
    BY <1>1, <2>1, SlotKept DEF DeployInv
<1>9. LockInv'
  <2>1. \A e \in Deploys : Leases(e)'
    BY <1>1, <1>2, <1>4, <1>5, <1>6, DescriptorsDiffer DEF Leases, Alive, Parent, Child
  <2>2. \A e \in Deploys \ {d} : ~Involved(e)'
    BY <1>1, <1>5, <1>6 DEF Involved, Alive
  <2> QED
    BY <2>1, <2>2 DEF LockInv
<1>10. RuntimeInv(d)' /\ DepInv(d)'
  <2>1. RuntimeInv(d) /\ DepInv(d) /\ run[d] = NoRuntime
    BY <1>1, <1>2 DEF DeployInv, DepInv
  <2>2. RuntimeInv(d)'
    BY <1>1, <2>1 DEF RuntimeInv, NoRuntime, Release
  <2>3. (ResumeInv(d) /\ ExaminedInv(d) /\ ReconcileInv(d) /\ LaunchInv(d))'
    BY <1>4 DEF ResumeInv, ExaminedInv, ReconcileInv, LaunchInv, ExaminedPcs, DingPcs, CreatePcs,
       LaunchPcs
  <2> QED
    BY <1>1, <1>2, <1>4, <2>1, <2>2, <2>3 DEF DepInv
<1>11. ASSUME NEW e \in Deploys \ {d} PROVE RuntimeInv(e)' /\ DepInv(e)'
  <2>1. RuntimeInv(e) /\ DepInv(e) /\ dep'[e] = dep[e] /\ dep'[e].pc \notin Held
    BY <1>5, <1>6 DEF DeployInv
  <2>2. RuntimeInv(e)'
    BY <1>1, <2>1 DEF RuntimeInv, Alive, Authorized
  <2>3. (ResumeInv(e) /\ ExaminedInv(e) /\ ReconcileInv(e) /\ LaunchInv(e))'
    BY <2>1, NothingHeld
  <2> QED
    BY <1>1, <2>1, <2>2, <2>3 DEF DepInv
<1> QED
  BY <1>7, <1>8, <1>9, <1>10, <1>11 DEF DeployInv

\* ProfileSwitches keeps the invariant, which speaks of no current profile.
LEMMA ProfileSwitchesKeeps ==
  ASSUME DeployInv, ProfileSwitches
  PROVE  DeployInv'
<1>1. profile' \in Profiles /\ UNCHANGED <<slot, dep, run, lease, apps>>
  BY DEF ProfileSwitches
<1>2. SlotInv'
  <2>1. \A e \in Deploys : Alive(e)' => Alive(e)
    BY <1>1 DEF Alive
  <2> QED
    BY <1>1, <2>1, SlotKept DEF DeployInv
<1>3. DeployTypes'
  BY <1>1 DEF DeployInv, DeployTypes
<1>4. LockInv'
  BY <1>1 DEF DeployInv, LockInv, Leases, Involved, Alive, Parent, Child
<1>5. ASSUME NEW e \in Deploys PROVE RuntimeInv(e)' /\ DepInv(e)'
  <2>1. RuntimeInv(e) /\ DepInv(e)
    BY DEF DeployInv
  <2>2. RuntimeInv(e)'
    BY <1>1, <2>1 DEF RuntimeInv, Alive, Authorized
  <2>3. (ResumeInv(e) /\ ExaminedInv(e) /\ ReconcileInv(e) /\ LaunchInv(e))'
    BY <1>1, <2>1 DEF DepInv, ResumeInv, ExaminedInv, ReconcileInv, LaunchInv, Authorized, Alive, HasApp
  <2> QED
    BY <1>1, <2>1, <2>2, <2>3 DEF DepInv
<1> QED
  BY <1>2, <1>3, <1>4, <1>5 DEF DeployInv

\* DeployCrashes keeps the invariant.
LEMMA DeployCrashesKeeps ==
  ASSUME DeployInv, NEW d \in Deploys, DeployCrashes(d)
  PROVE  DeployInv'
<1> DEFINE l == [NoDep EXCEPT !.pc = "dead"]
<1>1. /\ Parent(d) \in lease /\ dep' = [dep EXCEPT ![d] = l]
      /\ lease' = lease \ {Parent(d)} /\ run' = [run EXCEPT ![d].connected = FALSE]
      /\ UNCHANGED <<slot, apps, profile>>
  BY DEF DeployCrashes
<1>2. "dead" \in DepPcs /\ "dead" \in EndPcs /\ "none" \in Results
  BY DEF DepPcs, EndPcs, Results
<1>3. dep[d].pc \in Held
  BY <1>1 DEF DeployInv, LockInv, Leases
<1>4. PICK o : o = dep[d].opt
  OBVIOUS
<1>5. o \in Options
  BY <1>3, <1>4 DEF DeployInv, DepInv, EndPcs, Held, FilePcs, ExaminedPcs, DingPcs, CreatePcs,
     LaunchPcs
<1>6. l \in DepRecords /\ l.pc = "dead" /\ l.acked = FALSE /\ l.result = "none"
  BY <1>2, <1>5, NoPhase DEF NoDep, DepRecords, Scopes, Results
<1> HIDE DEF l
<1>7. \A e \in Deploys : run'[e].st = run[e].st
  BY <1>1 DEF DeployInv, DeployTypes, Runtimes
<1>8. SlotInv'
  <2>1. \A e \in Deploys : Alive(e)' => Alive(e)
    BY <1>7 DEF Alive
  <2> QED
    BY <1>1, <2>1, SlotKept DEF DeployInv
<1>9. slot' \in Slots
  BY <1>1 DEF DeployInv, DeployTypes
<1>10. \A e \in Deploys : Alive(e) /\ run[e].autonomous => Authorized(e)'
  BY <1>1 DEF DeployInv, RuntimeInv, Authorized
<1> QED
  BY <1>1, <1>2, <1>3, <1>6, <1>8, <1>9, <1>10, HolderEnds

\* RuntimeStep keeps the invariant: the release is acknowledged only while the
\* state file authorises this runtime.
LEMMA RuntimeStepKeeps ==
  ASSUME DeployInv, NEW d \in Deploys, RuntimeStep(d)
  PROVE  DeployInv'
<1> DEFINE r == [run[d] EXCEPT !.acked = run[d].inbox,
                   !.listening = @ \/ run[d].inbox = 4,
                   !.autonomous = (run[d].inbox = Release),
                   !.connected = (run[d].inbox # Release)]
<1>1. /\ run[d].st = "run" /\ run[d].inbox = run[d].acked + 1
      /\ ActivatedConfig(d, run[d].inbox) /\ UNCHANGED <<slot, dep, apps, profile>>
      /\ lease' = IF run[d].inbox = Release THEN lease \ {Child(d)} ELSE lease
  BY DEF RuntimeStep
<1>2. run[d] \in Runtimes /\ RuntimeInv(d) /\ run \in [Deploys -> Runtimes] /\ LockInv
  BY DEF DeployInv, DeployTypes
<1>3. run' = [run EXCEPT ![d] = r]
  BY <1>2 DEF RuntimeStep, Runtimes
<1>4. run'[d] = r
  BY <1>2, <1>3
<1>5. /\ r \in Runtimes /\ r.st = "run" /\ r.inbox = run[d].inbox /\ r.acked = run[d].inbox
      /\ r.autonomous = (run[d].inbox = Release)
  BY <1>1, <1>2 DEF Runtimes
<1> HIDE DEF r
<1>6. Alive(d) /\ Alive(d)'
  BY <1>1, <1>4, <1>5 DEF Alive
<1>7. run[d].acked # Release /\ ~run[d].autonomous
  BY <1>1, <1>2 DEF RuntimeInv, Release
<1>8. run[d].inbox = Release => Authorized(d)'
  BY <1>1 DEF ActivatedConfig, Authorized, Release
<1>9. lease' = IF Alive(d)' /\ ~run'[d].autonomous THEN lease ELSE lease \ {Child(d)}
  BY <1>1, <1>4, <1>5, <1>6
<1>10. run' = [run EXCEPT ![d] = run'[d]]
  BY <1>3, <1>4
<1> QED
  BY <1>1, <1>4, <1>5, <1>6, <1>7, <1>8, <1>9, <1>10, RuntimeKeeps

\* The runtime that stops, ends or dies keeps the invariant.
LEMMA RuntimeEndsKeeps ==
  ASSUME DeployInv, NEW d \in Deploys, RuntimeStops(d) \/ RuntimeExits(d) \/ RuntimeCrashes(d)
  PROVE  DeployInv'
<1>1. run[d] \in Runtimes /\ RuntimeInv(d) /\ run \in [Deploys -> Runtimes] /\ Leases(d)
  BY DEF DeployInv, DeployTypes, LockInv
<1>2. CASE RuntimeStops(d)
  <2> DEFINE r == [run[d] EXCEPT !.st = "stopping", !.listening = FALSE, !.connected = FALSE]
  <2>1. /\ run[d].st = "run" /\ ~run[d].autonomous /\ UNCHANGED <<slot, dep, apps, profile, lease>>
    BY <1>2 DEF RuntimeStops
  <2>2. run' = [run EXCEPT ![d] = r] /\ run'[d] = r
    BY <1>1, <1>2 DEF RuntimeStops, Runtimes
  <2>3. /\ r \in Runtimes /\ r.st = "stopping" /\ r.inbox = run[d].inbox
        /\ r.acked = run[d].acked /\ r.autonomous = run[d].autonomous
    BY <1>1 DEF Runtimes
  <2> HIDE DEF r
  <2>4. Alive(d) /\ Alive(d)'
    BY <2>1, <2>2, <2>3 DEF Alive
  <2>5. lease' = IF Alive(d)' /\ ~run'[d].autonomous THEN lease ELSE lease \ {Child(d)}
    BY <2>1, <2>2, <2>3, <2>4
  <2>6. run' = [run EXCEPT ![d] = run'[d]]
    BY <2>2
  <2> QED
    BY <1>1, <2>1, <2>2, <2>3, <2>4, <2>5, <2>6, RuntimeKeeps DEF RuntimeInv
<1>3. CASE RuntimeExits(d) \/ RuntimeCrashes(d)
  <2>1. /\ run[d].st \in {"run", "stopping"} /\ UNCHANGED <<slot, dep, apps, profile>>
        /\ lease' = lease \ {Child(d)}
    BY <1>3 DEF RuntimeExits, RuntimeCrashes, Alive
  <2>2. PICK r \in Runtimes :
          /\ run' = [run EXCEPT ![d] = r] /\ r.st = "dead" /\ r.inbox = run[d].inbox
          /\ r.acked = run[d].acked /\ r.autonomous = run[d].autonomous
    <3>1. CASE RuntimeExits(d)
      <4> DEFINE r == [run[d] EXCEPT !.st = "dead"]
      <4>1. run' = [run EXCEPT ![d] = r]
        BY <1>1, <3>1 DEF RuntimeExits, Runtimes
      <4>2. /\ r \in Runtimes /\ r.st = "dead" /\ r.inbox = run[d].inbox
            /\ r.acked = run[d].acked /\ r.autonomous = run[d].autonomous
        BY <1>1 DEF Runtimes
      <4> HIDE DEF r
      <4> QED
        BY <4>1, <4>2
    <3>2. CASE RuntimeCrashes(d)
      <4> DEFINE r == [run[d] EXCEPT !.st = "dead", !.listening = FALSE, !.connected = FALSE]
      <4>1. run' = [run EXCEPT ![d] = r]
        BY <1>1, <3>2 DEF RuntimeCrashes, Runtimes
      <4>2. /\ r \in Runtimes /\ r.st = "dead" /\ r.inbox = run[d].inbox
            /\ r.acked = run[d].acked /\ r.autonomous = run[d].autonomous
        BY <1>1 DEF Runtimes
      <4> HIDE DEF r
      <4> QED
        BY <4>1, <4>2
    <3> QED
      BY <1>3, <3>1, <3>2
  <2>3. run'[d] = r /\ run' = [run EXCEPT ![d] = run'[d]]
    BY <1>1, <2>2
  <2>4. Alive(d) /\ ~Alive(d)'
    BY <2>1, <2>2, <2>3 DEF Alive
  <2>5. lease' = IF Alive(d)' /\ ~run'[d].autonomous THEN lease ELSE lease \ {Child(d)}
    BY <2>1, <2>4
  <2> QED
    BY <1>1, <2>1, <2>2, <2>3, <2>4, <2>5, RuntimeKeeps DEF RuntimeInv
<1> QED
  BY <1>2, <1>3

\* What deploy would write for its inputs.
LEMMA CandidateFields ==
  ASSUME DeployTypes, NEW d \in Deploys, dep[d].opt \in Options, InputsAccepted(dep[d].opt)
  PROVE  /\ Cand(d) \in Slots
         /\ Cand(d).channel = dep[d].opt.channel /\ dep[d].opt.channel \in Channels
         /\ Cand(d).name = dep[d].opt.name /\ Cand(d).pkg = dep[d].opt.pkg
         /\ Cand(d).outcome = "pending" /\ Cand(d).proc = Nobody /\ Cand(d).act = "none"
         /\ Cand(d).prov = dep[d].prov /\ Cand(d).op = dep[d].op
<1>1. /\ dep[d].opt.channel \in Channels /\ dep[d].opt.name \in Names /\ dep[d].opt.pkg \in Packages
      /\ dep[d].prov \in Scopes /\ dep[d].op \in Scopes
  BY DEF InputsAccepted, Names, Packages, DeployTypes, DepRecords
<1>2. NoSlot \in Slots
  BY DEF NoSlot, Slots, Names, Packages, Scopes
<1>3. NoSlot.proc = Nobody /\ NoSlot.act = "none"
  BY DEF NoSlot
<1>4. Candidate(dep[d].opt) \in Slots
  BY <1>1, <1>2 DEF Candidate, Slots
<1>5. LET c == Candidate(dep[d].opt) IN
      /\ c.channel = dep[d].opt.channel /\ c.name = dep[d].opt.name /\ c.pkg = dep[d].opt.pkg
      /\ c.outcome = "pending" /\ c.proc = Nobody /\ c.act = "none"
  BY <1>1, <1>2, <1>3 DEF Candidate, Slots
<1> QED
  BY <1>1, <1>4, <1>5 DEF Cand, Slots

\* The places of a deploy are different words.
LEMMA Places ==
  /\ Held \subseteq DepPcs /\ "idle" \notin Held /\ \A pc \in Held : pc \notin EndPcs
  /\ FilePcs \subseteq Held /\ ExaminedPcs \subseteq Held
  /\ DingPcs \subseteq ExaminedPcs /\ LaunchPcs \subseteq ExaminedPcs
  /\ CreatePcs \subseteq DingPcs
  /\ FilePcs \subseteq UnbornPcs /\ DingPcs \subseteq UnbornPcs
  /\ "begin" \in UnbornPcs /\ "spawn" \in UnbornPcs
BY DEF Held, DepPcs, EndPcs, FilePcs, ExaminedPcs, DingPcs, CreatePcs, LaunchPcs, UnbornPcs

\* A step from one place to another keeps the invariant if it keeps what is
\* known at the new place.
LEMMA WalkKeeps ==
  ASSUME DeployInv, NEW d \in Deploys, dep[d].pc \in Held, NEW pc \in Held, To(d, pc),
         UNCHANGED <<slot, run, lease, apps, profile>>,
         pc \in UnbornPcs => dep[d].pc \in UnbornPcs,
         (ResumeInv(d) /\ ExaminedInv(d) /\ ReconcileInv(d) /\ LaunchInv(d))',
         run[d].inbox = Release => pc = "final" \/ (pc = "await" /\ dep[d].ph = Release)
  PROVE  DeployInv'
<1>1. pc \in DepPcs /\ DeployTypes
  BY Places DEF DeployInv
<1>2. /\ dep'[d] \in DepRecords /\ dep' = [dep EXCEPT ![d] = dep'[d]]
      /\ dep'[d].pc = pc /\ dep'[d].opt = dep[d].opt /\ dep'[d].acked = dep[d].acked
      /\ dep'[d].ph = dep[d].ph /\ dep'[d].result = dep[d].result
      /\ dep'[d].target = dep[d].target
  BY <1>1, Moved
<1>3. DepInv(d)
  BY DEF DeployInv
<1>4. DepInv(d)'
  BY <1>2, <1>3, Places DEF DepInv
<1> QED
  BY <1>2, <1>4, MovingUnwritten

\* Examine keeps the invariant: a deploy goes on only if the runtime that the
\* state file names is gone, and any other runtime that is released is that one.
LEMMA ExamineKeeps ==
  ASSUME DeployInv, NEW d \in Deploys, Examine(d)
  PROVE  DeployInv'
<1>1. dep[d].pc = "existing" /\ UNCHANGED <<slot, apps, profile>>
  BY DEF Examine
<1>2. /\ "existing" \in Held /\ "resume" \in Held /\ "begin" \in Held /\ "existing" \in UnbornPcs
      /\ "resume" \in UnbornPcs /\ {"unsupported", "pending", "unsafe"} \subseteq Results \ {"ready"}
  BY DEF Held, FilePcs, ExaminedPcs, UnbornPcs, Results
<1>3. /\ DeployTypes /\ SlotInv /\ DepInv(d) /\ RuntimeInv(d) /\ run[d] = NoRuntime
      /\ dep[d].opt \in Options /\ InputsAccepted(dep[d].opt)
  BY <1>1, <1>2, Places DEF DeployInv, DepInv
<1>4. /\ Cand(d).channel = dep[d].opt.channel /\ Cand(d).name = dep[d].opt.name
      /\ Cand(d).pkg = dep[d].opt.pkg
  BY <1>3, CandidateFields
<1>5. run[d].inbox # Release
  BY <1>3 DEF NoRuntime, Release
<1>6. PICK seen \in BOOLEAN, overwrite \in BOOLEAN :
        LET e == slot
            c == Cand(d)
            st == Inspect(e, seen)
            resumable == /\ e.outcome \in {"ready", "pending"} /\ SameDeployment(e, c)
                         /\ c.channel = "http" /\ st = "ready"
        IN  IF e.prov # Nobody /\ ~(c.channel = "dingtalk" /\ e.name = c.name)
            THEN LeaveDeploy(d, "unsupported", Nobody)
            ELSE IF e.op # Nobody /\ ~SameDeployment(e, c)
            THEN LeaveDeploy(d, "pending", Nobody)
            ELSE IF resumable
            THEN To(d, "resume") /\ UNCHANGED <<lease, run>>
            ELSE IF (e.proc # Nobody /\ st # "absent") \/ (e.outcome # "none" /\ ~overwrite)
            THEN LeaveDeploy(d, "unsafe", Nobody)
            ELSE /\ dep' = [dep EXCEPT ![d].pc = "begin", ![d].prov = e.prov, ![d].op = e.op]
                 /\ UNCHANGED <<lease, run>>
  BY DEF Examine
<1>7. \/ \E r \in Results \ {"ready"} : LeaveDeploy(d, r, Nobody)
      \/ /\ slot.outcome \in {"ready", "pending"} /\ SameDeployment(slot, Cand(d))
         /\ Cand(d).channel = "http" /\ Inspect(slot, seen) = "ready"
         /\ To(d, "resume") /\ UNCHANGED <<lease, run>>
      \/ /\ slot.prov # Nobody => Cand(d).channel = "dingtalk"
         /\ slot.op # Nobody => SameDeployment(slot, Cand(d))
         /\ slot.proc # Nobody => Inspect(slot, seen) = "absent"
         /\ dep' = [dep EXCEPT ![d].pc = "begin", ![d].prov = slot.prov, ![d].op = slot.op]
         /\ UNCHANGED <<lease, run>>
  BY <1>2, <1>6
<1>8. CASE \E r \in Results \ {"ready"} : LeaveDeploy(d, r, Nobody)
  BY <1>1, <1>2, <1>8, LeavingUnwritten
<1>9. CASE /\ slot.outcome \in {"ready", "pending"} /\ SameDeployment(slot, Cand(d))
           /\ Cand(d).channel = "http" /\ Inspect(slot, seen) = "ready"
           /\ To(d, "resume") /\ UNCHANGED <<lease, run>>
  <2>1. slot.proc # Nobody /\ slot.act = "authorized"
    BY <1>9 DEF Inspect
  <2>2. slot.proc \in Deploys /\ slot.channel = "http"
    BY <1>3, <1>9, <2>1 DEF DeployTypes, Slots, SameDeployment
  <2>3. dep'[d].pc = "resume"
    BY <1>2, <1>3, <1>9, Moved, Places
  <2>4. (ResumeInv(d) /\ ExaminedInv(d) /\ ReconcileInv(d) /\ LaunchInv(d))'
    BY <1>1, <1>9, <2>1, <2>2, <2>3 DEF ResumeInv, Authorized, ExaminedInv, ReconcileInv, LaunchInv,
       ExaminedPcs, DingPcs, CreatePcs, LaunchPcs
  <2> QED
    BY <1>1, <1>2, <1>5, <1>9, <2>4, WalkKeeps
<1>10. CASE /\ slot.prov # Nobody => Cand(d).channel = "dingtalk"
            /\ slot.op # Nobody => SameDeployment(slot, Cand(d))
            /\ slot.proc # Nobody => Inspect(slot, seen) = "absent"
            /\ dep' = [dep EXCEPT ![d].pc = "begin", ![d].prov = slot.prov, ![d].op = slot.op]
            /\ UNCHANGED <<lease, run>>
  <2> DEFINE l == [dep[d] EXCEPT !.pc = "begin", !.prov = slot.prov, !.op = slot.op]
  <2>1. dep' = [dep EXCEPT ![d] = l] /\ dep'[d] = l
    BY <1>3, <1>10 DEF DeployTypes
  <2>2. dep[d] \in DepRecords /\ slot.prov \in Scopes /\ slot.op \in Scopes /\ "begin" \in DepPcs
    BY <1>2, <1>3, Places DEF DeployTypes, Slots
  <2>3. /\ l \in DepRecords /\ l.pc = "begin" /\ l.prov = slot.prov /\ l.op = slot.op
        /\ l.opt = dep[d].opt /\ l.acked = dep[d].acked /\ l.result = dep[d].result
        /\ l.target = dep[d].target
    BY <2>2 DEF DepRecords
  <2> HIDE DEF l
  <2>4. dep' = [dep EXCEPT ![d] = dep'[d]]
    BY <2>1
  <2>5. \A e \in Deploys \ {d} : ~Alive(e)
    <3>1. SUFFICES ASSUME NEW e \in Deploys \ {d}, Alive(e) PROVE FALSE
      OBVIOUS
    <3>2. Authorized(e)
      BY <1>1, <1>2, <3>1, OneHolder DEF DeployInv, RuntimeInv
    <3>3. Inspect(slot, seen) # "absent" /\ slot.proc # Nobody
      BY <3>1, <3>2, DeployAssumption DEF Inspect, Authorized
    <3> QED
      BY <1>10, <3>3
  <2>6. /\ slot.op # Nobody => slot.channel = "dingtalk" /\ slot.prov = Nobody
    BY <1>3 DEF SlotInv, ValidConfig, NoSlot
  <2>7. (ResumeInv(d) /\ ExaminedInv(d) /\ ReconcileInv(d) /\ LaunchInv(d))'
    <3>1. ExaminedInv(d)'
      <4>1. \A e \in Deploys \ {d} : ~Alive(e)'
        BY <1>10, <2>5 DEF Alive
      <4>2. dep[d].opt.channel # "dingtalk" => slot.prov = Nobody /\ slot.op = Nobody
        BY <1>4, <1>10, <2>6 DEF SameDeployment
      <4> QED
        BY <2>1, <2>3, <2>6, <4>1, <4>2 DEF ExaminedInv
    <3>2. (ResumeInv(d) /\ ReconcileInv(d) /\ LaunchInv(d))'
      BY <1>1, <2>1, <2>3 DEF ResumeInv, ReconcileInv, LaunchInv, DingPcs, CreatePcs, LaunchPcs
    <3> QED
      BY <3>1, <3>2
  <2>8. DepInv(d)'
    BY <1>3, <1>10, <2>1, <2>3, <2>7, Places DEF DepInv
  <2> QED
    BY <1>1, <1>2, <1>5, <1>10, <2>1, <2>3, <2>4, <2>8, MovingUnwritten
<1> QED
  BY <1>7, <1>8, <1>9, <1>10

\* The outcome of a deployment whose runtime is authorised can be promoted to
\* ready and back to pending.
LEMMA Promoted ==
  ASSUME DeployTypes, SlotInv, NEW p \in Deploys, Authorized(p),
         NEW o \in {"ready", "pending"}, slot' = [slot EXCEPT !.outcome = o], apps' = apps
  PROVE  /\ SlotInv' /\ slot' \in Slots /\ slot'.outcome = o /\ slot'.proc = slot.proc
         /\ \A e \in Deploys : Authorized(e) => Authorized(e)'
<1>1. slot \in Slots
  BY DEF DeployTypes
<1>2. /\ slot' \in Slots /\ slot'.outcome = o /\ slot'.proc = slot.proc /\ slot'.act = slot.act
      /\ slot'.channel = slot.channel /\ slot'.prov = slot.prov /\ slot'.op = slot.op
  BY <1>1 DEF Slots
<1>3. slot.proc # Nobody /\ slot.channel = "http" /\ slot.act = "authorized"
  BY DeployAssumption DEF Authorized
<1>4. slot.prov = Nobody /\ slot.op = Nobody
  BY <1>3 DEF SlotInv, ValidConfig, NoSlot
<1>5. ValidConfig(slot')
  BY <1>2, <1>3, <1>4 DEF ValidConfig, Channels, AllowedOutcomes
<1>6. SlotInv'
  BY <1>2, <1>5 DEF SlotInv, ValidConfig, FailedMeansStopped, HasApp
<1> QED
  BY <1>2, <1>6 DEF Authorized

\* Resume keeps the invariant.
LEMMA ResumeKeeps ==
  ASSUME DeployInv, NEW d \in Deploys, Resume(d)
  PROVE  DeployInv'
<1>1. dep[d].pc = "resume" /\ UNCHANGED <<apps, profile>>
  BY DEF Resume
<1>2. /\ "resume" \in Held /\ "resumed" \in Held /\ "resume" \in UnbornPcs
      /\ "unsafe" \in Results \ {"ready"}
  BY DEF Held, FilePcs, UnbornPcs, Results
<1>3. /\ DeployTypes /\ SlotInv /\ DepInv(d) /\ run[d] = NoRuntime
      /\ slot.proc \in Deploys /\ Authorized(slot.proc)
  BY <1>1, <1>2 DEF DeployInv, DepInv, ResumeInv
<1>4. run[d].inbox # Release
  BY <1>3 DEF NoRuntime, Release
<1>5. CASE LeaveDeploy(d, "unsafe", Nobody) /\ UNCHANGED slot
  BY <1>1, <1>2, <1>5, LeavingUnwritten
<1>6. CASE /\ slot' = [slot EXCEPT !.outcome = "ready"]
           /\ dep' = [dep EXCEPT ![d].pc = "resumed", ![d].promoted = slot.outcome # "ready"]
           /\ UNCHANGED <<lease, run>>
  <2>1. PICK p \in Deploys : p = slot.proc
    BY <1>3
  <2>2. /\ SlotInv' /\ slot' \in Slots /\ slot'.outcome = "ready" /\ slot'.proc = slot.proc
        /\ \A e \in Deploys : Authorized(e) => Authorized(e)'
    BY <1>1, <1>3, <1>6, <2>1, Promoted
  <2> DEFINE l == [dep[d] EXCEPT !.pc = "resumed", !.promoted = slot.outcome # "ready"]
  <2>3. dep[d] \in DepRecords /\ "resumed" \in DepPcs
    BY <1>2, <1>3, Places DEF DeployTypes
  <2>4. dep' = [dep EXCEPT ![d] = l] /\ dep'[d] = l
    BY <1>3, <1>6 DEF DeployTypes
  <2>5. /\ l \in DepRecords /\ l.pc = "resumed" /\ l.opt = dep[d].opt /\ l.acked = dep[d].acked
        /\ l.result = dep[d].result /\ l.target = dep[d].target
    BY <2>3 DEF DepRecords
  <2> HIDE DEF l
  <2>6. DeployTypes'
    BY <1>1, <1>3, <1>6, <2>2, <2>4, <2>5 DEF DeployTypes
  <2>7. \A e \in Deploys \ {d} : dep'[e] = dep[e]
    BY <1>3, <2>4 DEF DeployTypes
  <2>8. (ResumeInv(d) /\ ExaminedInv(d) /\ ReconcileInv(d) /\ LaunchInv(d))'
    BY <1>3, <2>1, <2>2, <2>4, <2>5 DEF ResumeInv, Authorized, ExaminedInv, ReconcileInv, LaunchInv,
       ExaminedPcs, DingPcs, CreatePcs, LaunchPcs
  <2>9. DepInv(d)'
    <3>1. run' = run /\ dep'[d].pc = "resumed" /\ dep[d].pc = "resume"
      BY <1>1, <1>6, <2>4, <2>5
    <3> QED
      BY <1>2, <1>3, <2>4, <2>5, <2>8, <3>1, Places DEF DepInv
  <2>10. \A e \in Deploys : Alive(e) /\ run[e].autonomous => Authorized(e)'
    BY <2>2 DEF DeployInv, RuntimeInv
  <2> QED
    BY <1>1, <1>2, <1>4, <1>6, <2>2, <2>4, <2>5, <2>6, <2>7, <2>9, <2>10, HolderMoves
<1> QED
  BY <1>5, <1>6 DEF Resume

\* Resumed keeps the invariant: the runtime reported ready is alive, holds no
\* lock, and so has been released.
LEMMA ResumedKeeps ==
  ASSUME DeployInv, NEW d \in Deploys, Resumed(d)
  PROVE  DeployInv'
<1>1. dep[d].pc = "resumed" /\ UNCHANGED <<apps, profile>>
  BY DEF Resumed
<1>2. /\ "resumed" \in Held /\ "resumed" \in UnbornPcs
      /\ "unsafe" \in Results \ {"ready"} /\ "ready" \in Results
  BY DEF Held, FilePcs, UnbornPcs, Results
<1>3. /\ DeployTypes /\ SlotInv /\ DepInv(d) /\ run[d] = NoRuntime
      /\ slot.proc \in Deploys /\ Authorized(slot.proc)
  BY <1>1, <1>2 DEF DeployInv, DepInv, ResumeInv
<1>4. PICK p \in Deploys : p = slot.proc
  BY <1>3
<1>5. CASE Healthy(p) /\ LeaveDeploy(d, "ready", p) /\ UNCHANGED slot
  <2>1. Alive(p) /\ p # d
    BY <1>3, <1>5 DEF Healthy, Alive, NoRuntime
  <2>2. run[p].autonomous
    BY <1>1, <1>2, <2>1, OneHolder
  <2>3. run' = [run EXCEPT ![d].connected = FALSE]
    BY <1>5 DEF LeaveDeploy
  <2>4. \A e \in Deploys : Alive(e)' => Alive(e)
    BY <1>3, <2>3 DEF Alive, DeployTypes, Runtimes
  <2>5. SlotInv' /\ slot' \in Slots
    BY <1>1, <1>3, <1>5, <2>4, SlotKept DEF DeployTypes
  <2>6. \A e \in Deploys : Alive(e) /\ run[e].autonomous => Authorized(e)'
    BY <1>5 DEF DeployInv, RuntimeInv, Authorized
  <2> QED
    BY <1>1, <1>2, <1>5, <2>2, <2>5, <2>6, LeavingKeeps
<1>6. CASE LeaveDeploy(d, "unsafe", Nobody) /\ UNCHANGED slot
  BY <1>1, <1>2, <1>6, LeavingUnwritten
<1>7. CASE LeaveDeploy(d, "unsafe", Nobody) /\ slot' = [slot EXCEPT !.outcome = "pending"]
  <2>1. /\ SlotInv' /\ slot' \in Slots /\ \A e \in Deploys : Authorized(e) => Authorized(e)'
    BY <1>1, <1>3, <1>4, <1>7, Promoted
  <2>2. \A e \in Deploys : Alive(e) /\ run[e].autonomous => Authorized(e)'
    BY <2>1 DEF DeployInv, RuntimeInv
  <2> QED
    BY <1>1, <1>2, <1>7, <2>1, <2>2, LeavingKeeps
<1> QED
  BY <1>4, <1>5, <1>6, <1>7 DEF Resumed

\* A candidate without a process is a state file sanitizeConfig accepts, and
\* as good a one as before if it keeps what is known of the provider.
LEMMA CandidateWritten ==
  ASSUME DeployInv, NEW d \in Deploys, dep[d].pc \in ExaminedPcs, ~Alive(d),
         NEW o, o \in AllowedOutcomes(dep[d].opt.channel), o # "ready",
         slot' = [Cand(d) EXCEPT !.outcome = o] \/ (o = "pending" /\ slot' = Cand(d)),
         apps' = apps, slot.prov = dep[d].prov, slot.op = dep[d].op,
         \A e \in Deploys : Alive(e)' => Alive(e)
  PROVE  SlotInv' /\ slot' \in Slots
<1>1. /\ DeployTypes /\ SlotInv /\ dep[d].pc \in Held /\ dep[d].opt \in Options
      /\ InputsAccepted(dep[d].opt) /\ ExaminedInv(d)
  BY Places DEF DeployInv, DepInv
<1>2. /\ Cand(d) \in Slots
      /\ Cand(d).channel = dep[d].opt.channel /\ dep[d].opt.channel \in Channels
      /\ Cand(d).proc = Nobody /\ Cand(d).act = "none" /\ Cand(d).outcome = "pending"
      /\ Cand(d).prov = dep[d].prov /\ Cand(d).op = dep[d].op
  BY <1>1, CandidateFields
<1>3. o \in {"none", "pending", "ready", "failed", "unsupported"}
  BY DEF AllowedOutcomes
<1>4. /\ slot' \in Slots /\ slot'.channel = dep[d].opt.channel /\ slot'.outcome = o
      /\ slot'.proc = Nobody /\ slot'.act = "none" /\ slot'.prov = slot.prov
      /\ slot'.op = slot.op
  BY <1>2, <1>3 DEF Slots
<1>5. ValidConfig(slot')
  BY <1>1, <1>2, <1>4 DEF ValidConfig, ExaminedInv
<1>6. \A e \in Deploys : ~Alive(e)'
  BY <1>1 DEF ExaminedInv
<1> QED
  BY <1>1, <1>4, <1>5, <1>6 DEF SlotInv, ValidConfig, FailedMeansStopped, HasApp

\* BeginDeploy keeps the invariant: a deployment without a process is recorded
\* while no runtime lives.
LEMMA BeginDeployKeeps ==
  ASSUME DeployInv, NEW d \in Deploys, BeginDeploy(d)
  PROVE  DeployInv'
<1> DEFINE how == dep[d].opt.channel
<1>1. dep[d].pc = "begin" /\ UNCHANGED <<apps, profile>>
  BY DEF BeginDeploy
<1>2. /\ "begin" \in ExaminedPcs /\ "begin" \in UnbornPcs /\ "spawn" \in Held /\ "session" \in Held
      /\ {"failed", "pending", "unsupported"} \subseteq Results \ {"ready"}
  BY DEF ExaminedPcs, DingPcs, UnbornPcs, Held, Results
<1>3. /\ DeployTypes /\ SlotInv /\ DepInv(d) /\ run[d] = NoRuntime /\ ExaminedInv(d)
      /\ dep[d].opt \in Options /\ InputsAccepted(dep[d].opt) /\ dep[d].pc \in Held
      /\ slot.prov = dep[d].prov /\ slot.op = dep[d].op
  BY <1>1, <1>2, Places DEF DeployInv, DepInv, ReconcileInv
<1>4. run[d].inbox # Release /\ \A e \in Deploys : ~Alive(e)
  BY <1>1, <1>2, <1>3 DEF NoRuntime, Release, Alive, ExaminedInv
<1>5. ASSUME NEW o, o \in AllowedOutcomes(how), o # "ready",
             slot' = [Cand(d) EXCEPT !.outcome = o] \/ (o = "pending" /\ slot' = Cand(d)),
             NEW r \in Results \ {"ready"}, LeaveDeploy(d, r, Nobody)
      PROVE  DeployInv'
  <2>1. run' = [run EXCEPT ![d].connected = FALSE]
    BY <1>5 DEF LeaveDeploy
  <2>2. \A e \in Deploys : Alive(e)' => Alive(e)
    BY <1>3, <2>1 DEF Alive, DeployTypes, Runtimes
  <2>3. SlotInv' /\ slot' \in Slots
    BY <1>1, <1>2, <1>3, <1>4, <1>5, <2>2, CandidateWritten
  <2> QED
    BY <1>1, <1>3, <1>4, <1>5, <2>3, LeavingKeeps
<1>6. CASE how = "http" /\ slot' = Cand(d) /\ To(d, "spawn") /\ UNCHANGED <<lease, run>>
  <2>1. \A e \in Deploys : ~Alive(e)'
    BY <1>4, <1>6 DEF Alive
  <2>2. "pending" \in AllowedOutcomes(how)
    BY <1>6 DEF AllowedOutcomes
  <2>3. SlotInv' /\ slot' \in Slots
    BY <1>1, <1>2, <1>3, <1>4, <1>6, <2>1, <2>2, CandidateWritten
  <2>4. "spawn" \in DepPcs
    BY <1>2, Places
  <2>5. /\ dep'[d] \in DepRecords /\ dep' = [dep EXCEPT ![d] = dep'[d]]
        /\ dep'[d].pc = "spawn" /\ dep'[d].opt = dep[d].opt /\ dep'[d].prov = dep[d].prov
        /\ dep'[d].op = dep[d].op /\ dep'[d].acked = dep[d].acked
        /\ dep'[d].result = dep[d].result /\ dep'[d].target = dep[d].target
    BY <1>3, <1>6, <2>4, Moved
  <2>6. \A e \in Deploys \ {d} : dep'[e] = dep[e]
    BY <1>3, <2>5 DEF DeployTypes
  <2>7. DeployTypes'
    BY <1>1, <1>3, <1>6, <2>3, <2>5 DEF DeployTypes
  <2>8. slot'.channel = "http" /\ slot'.outcome = "pending"
    BY <1>3, <1>6, CandidateFields
  <2>9. (ResumeInv(d) /\ ExaminedInv(d) /\ ReconcileInv(d) /\ LaunchInv(d))'
    <3>1. ExaminedInv(d)'
      BY <1>1, <1>2, <1>3, <2>1, <2>5 DEF ExaminedInv
    <3> QED
      BY <1>6, <2>5, <2>8, <3>1 DEF ResumeInv, ReconcileInv, LaunchInv, DingPcs, CreatePcs, LaunchPcs
  <2>10. DepInv(d)'
    BY <1>1, <1>2, <1>3, <1>6, <2>5, <2>9, Places DEF DepInv
  <2> QED
    BY <1>2, <1>3, <1>4, <1>6, <2>3, <2>5, <2>6, <2>7, <2>10, HolderMoves
<1>7. CASE how = "console" /\ slot' = Cand(d) /\ LeaveDeploy(d, "pending", Nobody)
  <2>1. "pending" \in AllowedOutcomes(how)
    BY <1>7 DEF AllowedOutcomes
  <2> QED
    BY <1>2, <1>5, <1>7, <2>1
<1>8. CASE /\ how \in {"lark", "wecom"} /\ slot' = [Cand(d) EXCEPT !.outcome = "unsupported"]
           /\ LeaveDeploy(d, "unsupported", Nobody)
  <2>1. "unsupported" \in AllowedOutcomes(how)
    BY <1>8 DEF AllowedOutcomes
  <2> QED
    BY <1>2, <1>5, <1>8, <2>1
<1>9. CASE how = "dingtalk" /\ To(d, "session") /\ UNCHANGED <<slot, lease, run>>
  <2>1. "session" \in DepPcs
    BY <1>2, Places
  <2>2. /\ dep'[d].pc = "session" /\ dep'[d].opt = dep[d].opt /\ dep'[d].prov = dep[d].prov
        /\ dep'[d].op = dep[d].op
    BY <1>3, <1>9, <2>1, Moved
  <2>3. ExaminedInv(d)'
    BY <1>1, <1>2, <1>3, <1>9, <2>2 DEF ExaminedInv, Alive
  <2>4. (ResumeInv(d) /\ ReconcileInv(d) /\ LaunchInv(d))'
    BY <1>3, <1>9, <2>2 DEF ResumeInv, ReconcileInv, LaunchInv, CreatePcs, LaunchPcs
  <2> QED
    BY <1>1, <1>2, <1>3, <1>4, <1>9, <2>3, <2>4, WalkKeeps
<1>10. CASE LeaveDeploy(d, "failed", Nobody) /\ UNCHANGED slot
  BY <1>1, <1>2, <1>3, <1>10, LeavingUnwritten
<1> QED
  BY <1>6, <1>7, <1>8, <1>9, <1>10 DEF BeginDeploy

\* The steps of a deploy that launches its runtime: they change its place,
\* its phase and its messages.
LEMMA LaunchSteps ==
  ASSUME DeployInv, NEW d \in Deploys, dep[d].pc \in LaunchPcs,
         dep'[d].pc \in LaunchPcs, dep'[d] \in DepRecords, dep' = [dep EXCEPT ![d] = dep'[d]],
         dep'[d].opt = dep[d].opt, dep'[d].prov = dep[d].prov, dep'[d].op = dep[d].op,
         dep'[d].result = dep[d].result, dep'[d].target = dep[d].target,
         dep'[d].acked => run[d].acked = Release,
         run'[d] \in Runtimes, run' = [run EXCEPT ![d] = run'[d]],
         run'[d].st = run[d].st, run'[d].autonomous = run[d].autonomous,
         run'[d].acked = run[d].acked, run[d].acked = Release => run'[d].inbox = Release,
         run'[d].inbox = Release => \/ dep'[d].pc = "final"
                                    \/ dep'[d].pc = "await" /\ dep'[d].ph = Release,
         run[d].acked = Release => Authorized(d)',
         UNCHANGED <<lease, apps, profile>>, slot' \in Slots, SlotInv', LaunchInv(d)'
  PROVE  DeployInv'
<1>1. DeployTypes /\ DepInv(d) /\ RuntimeInv(d) /\ Leases(d) /\ ExaminedInv(d)
  BY DEF DeployInv, DepInv, LockInv
<1>2. dep[d].pc \in Held /\ dep'[d].pc \in Held /\ dep'[d].pc \notin UnbornPcs
      /\ dep'[d].pc \in ExaminedPcs /\ dep[d].pc \in ExaminedPcs
  BY Places DEF LaunchPcs, UnbornPcs, FilePcs, DingPcs, CreatePcs
<1>3. DeployTypes'
  BY <1>1 DEF DeployTypes
<1>4. \A e \in Deploys \ {d} : dep'[e] = dep[e] /\ run'[e] = run[e]
  BY <1>1 DEF DeployTypes
<1>5. Alive(d)' <=> Alive(d)
  BY DEF Alive
<1>6. RuntimeInv(d)'
  BY <1>1, <1>5 DEF RuntimeInv
<1>7. Leases(d)'
  BY <1>1, <1>2, <1>5 DEF Leases, Parent, Child
<1>8. \A e \in Deploys \ {d} : ~Alive(e) /\ ~Alive(e)'
  BY <1>1, <1>2, <1>4 DEF ExaminedInv, Alive
<1>9. (ResumeInv(d) /\ ExaminedInv(d) /\ ReconcileInv(d) /\ LaunchInv(d))'
  <2>1. ExaminedInv(d)'
    BY <1>1, <1>2, <1>8 DEF ExaminedInv
  <2> QED
    BY <2>1 DEF ResumeInv, ReconcileInv, LaunchPcs, DingPcs, CreatePcs
<1>10. DepInv(d)'
  <2>1. dep'[d].opt \in Options /\ InputsAccepted(dep'[d].opt)
    BY <1>1, <1>2, Places DEF DepInv
  <2>2. dep'[d].result = "ready" => dep'[d].target \in Deploys /\ run'[dep'[d].target].autonomous
    BY <1>1, <1>4 DEF DepInv
  <2> QED
    BY <1>2, <1>9, <2>1, <2>2 DEF DepInv
<1> QED
  BY <1>2, <1>3, <1>4, <1>6, <1>7, <1>8, <1>10, HolderSteps

\* What deploy publishes with the process of its runtime is a state file that
\* sanitizeConfig accepts.
LEMMA PhaseWritten ==
  ASSUME DeployInv, NEW d \in Deploys, dep[d].pc \in LaunchPcs,
         NEW a \in {"prepared", "authorized"},
         slot' = [Cand(d) EXCEPT !.proc = d, !.act = a], apps' = apps
  PROVE  SlotInv' /\ slot' \in Slots /\ slot'.channel = "http" /\ slot'.proc = d /\ slot'.act = a
<1>1. /\ DeployTypes /\ SlotInv /\ dep[d].opt \in Options /\ InputsAccepted(dep[d].opt)
      /\ dep[d].opt.channel = "http" /\ slot.channel = "http"
      /\ dep[d].prov = Nobody /\ dep[d].op = Nobody
  <2>1. dep[d].pc \in Held /\ dep[d].pc \in ExaminedPcs
    BY Places
  <2> QED
    BY <2>1, Places DEF DeployInv, DepInv, LaunchInv, ExaminedInv
<1>2. /\ Cand(d) \in Slots /\ Cand(d).channel = "http" /\ Cand(d).outcome = "pending"
      /\ Cand(d).prov = Nobody /\ Cand(d).op = Nobody
  BY <1>1, CandidateFields
<1>3. /\ slot' \in Slots /\ slot'.channel = "http" /\ slot'.outcome = "pending"
      /\ slot'.prov = Nobody /\ slot'.op = Nobody /\ slot'.proc = d /\ slot'.act = a
  BY <1>2 DEF Slots
<1>4. slot.prov = Nobody /\ slot.op = Nobody
  BY <1>1 DEF SlotInv, ValidConfig, NoSlot
<1>5. ValidConfig(slot')
  BY <1>3, DeployAssumption DEF ValidConfig, Channels, AllowedOutcomes
<1> QED
  BY <1>1, <1>3, <1>4, <1>5 DEF SlotInv, ValidConfig, FailedMeansStopped, HasApp

\* A launch that ends, its runtime not released and perhaps gone.
LEMMA LaunchEnds ==
  ASSUME DeployInv, NEW d \in Deploys, dep[d].pc \in LaunchPcs, run[d].inbox # Release,
         UNCHANGED <<apps, profile>>,
         NEW r \in Results \ {"ready"}, LeaveDeploy(d, r, Nobody),
         \/ slot' = slot
         \/ slot' = [Cand(d) EXCEPT !.outcome = "failed"] /\ ~Alive(d)
         \/ \E a \in {"prepared", "authorized"} : slot' = [Cand(d) EXCEPT !.proc = d, !.act = a]
  PROVE  DeployInv'
<1>1. /\ DeployTypes /\ SlotInv /\ RuntimeInv(d) /\ ExaminedInv(d) /\ LaunchInv(d)
      /\ dep[d].pc \in Held /\ dep[d].pc \in ExaminedPcs
  BY Places DEF DeployInv, DepInv
<1>2. \A e \in Deploys : ~(Alive(e) /\ run[e].autonomous)
  BY <1>1 DEF ExaminedInv, RuntimeInv
<1>3. CASE slot' = slot
  BY <1>1, <1>3, LeavingUnwritten
<1>4. CASE slot' = [Cand(d) EXCEPT !.outcome = "failed"] /\ ~Alive(d)
  <2>1. run' = [run EXCEPT ![d].connected = FALSE]
    BY DEF LeaveDeploy
  <2>2. \A e \in Deploys : Alive(e)' => Alive(e)
    BY <1>1, <2>1 DEF Alive, DeployTypes, Runtimes
  <2>3. slot.prov = dep[d].prov /\ slot.op = dep[d].op
    BY <1>1 DEF LaunchInv, ExaminedInv, SlotInv, ValidConfig, NoSlot
  <2>4. "failed" \in AllowedOutcomes(dep[d].opt.channel)
    BY <1>1 DEF LaunchInv, AllowedOutcomes
  <2>5. SlotInv' /\ slot' \in Slots
    BY <1>1, <1>4, <2>2, <2>3, <2>4, CandidateWritten
  <2> QED
    BY <1>1, <1>2, <2>5, LeavingKeeps
<1>5. CASE \E a \in {"prepared", "authorized"} : slot' = [Cand(d) EXCEPT !.proc = d, !.act = a]
  <2>1. SlotInv' /\ slot' \in Slots
    BY <1>5, PhaseWritten
  <2> QED
    BY <1>1, <1>2, <2>1, LeavingKeeps
<1> QED
  BY <1>3, <1>4, <1>5

\* SpawnRuntime keeps the invariant: the new runtime inherits the lock.
LEMMA SpawnRuntimeKeeps ==
  ASSUME DeployInv, NEW d \in Deploys, SpawnRuntime(d)
  PROVE  DeployInv'
<1>1. dep[d].pc = "spawn" /\ UNCHANGED <<apps, profile>>
  BY DEF SpawnRuntime
<1>2. /\ "spawn" \in ExaminedPcs /\ "spawn" \in UnbornPcs /\ "spawn" \in Held
      /\ "save" \in LaunchPcs /\ "save" \in Held /\ "save" \notin UnbornPcs
      /\ "save" \in ExaminedPcs /\ "failed" \in Results \ {"ready"}
  BY DEF ExaminedPcs, DingPcs, CreatePcs, FilePcs, LaunchPcs, UnbornPcs, Held, Results
<1>3. /\ DeployTypes /\ SlotInv /\ DepInv(d) /\ run[d] = NoRuntime /\ ExaminedInv(d)
      /\ LaunchInv(d) /\ dep[d].opt \in Options /\ InputsAccepted(dep[d].opt) /\ Leases(d)
      /\ slot.channel = "http" /\ slot.outcome = "pending" /\ dep[d].opt.channel = "http"
  BY <1>1, <1>2, Places DEF DeployInv, DepInv, LaunchInv, LockInv
<1>4. \A e \in Deploys : ~Alive(e)
  BY <1>1, <1>2, <1>3 DEF NoRuntime, Alive, ExaminedInv
<1>5. CASE /\ run' = [run EXCEPT ![d] = [NoRuntime EXCEPT !.st = "run", !.connected = TRUE]]
           /\ lease' = lease \cup {Child(d)}
           /\ dep' = [dep EXCEPT ![d].pc = "save", ![d].ph = 1]
           /\ UNCHANGED slot
  <2> DEFINE r == [NoRuntime EXCEPT !.st = "run", !.connected = TRUE]
             l == [dep[d] EXCEPT !.pc = "save", !.ph = 1]
  <2>1. run' = [run EXCEPT ![d] = r] /\ run'[d] = r
    BY <1>3, <1>5 DEF DeployTypes
  <2>2. dep' = [dep EXCEPT ![d] = l] /\ dep'[d] = l
    BY <1>3, <1>5 DEF DeployTypes
  <2>3. /\ r \in Runtimes /\ r.st = "run" /\ r.inbox = 0 /\ r.acked = 0 /\ r.autonomous = FALSE
    BY NoPhase DEF NoRuntime, Runtimes
  <2>4. dep[d] \in DepRecords /\ "save" \in DepPcs /\ 1 \in 0..Release /\ 1 \in 1..Release
        /\ Release = 6
    BY <1>2, <1>3, Places DEF DeployTypes, Release
  <2>5. /\ l \in DepRecords /\ l.pc = "save" /\ l.ph = 1 /\ l.opt = dep[d].opt
        /\ l.prov = dep[d].prov /\ l.op = dep[d].op /\ l.acked = dep[d].acked
        /\ l.result = dep[d].result /\ l.target = dep[d].target
    BY <2>4 DEF DepRecords
  <2> HIDE DEF r, l
  <2>6. \A e \in Deploys \ {d} : dep'[e] = dep[e] /\ run'[e] = run[e]
    BY <1>3, <2>1, <2>2 DEF DeployTypes
  <2>7. DeployTypes'
    BY <1>1, <1>3, <1>5, <2>1, <2>2, <2>3, <2>5 DEF DeployTypes
  <2>8. SlotInv'
    BY <1>1, <1>3, <1>5 DEF SlotInv, ValidConfig, FailedMeansStopped, HasApp, AllowedOutcomes
  <2>9. RuntimeInv(d)'
    BY <2>1, <2>3, <2>4 DEF RuntimeInv
  <2>10. Alive(d)' /\ \A e \in Deploys \ {d} : ~Alive(e)'
    BY <1>4, <2>1, <2>3, <2>6 DEF Alive
  <2>11. (ResumeInv(d) /\ ExaminedInv(d) /\ ReconcileInv(d) /\ LaunchInv(d))'
    <3>1. ExaminedInv(d)'
      BY <1>1, <1>2, <1>3, <2>2, <2>5, <2>10 DEF ExaminedInv
    <3> QED
      BY <1>3, <1>5, <2>2, <2>4, <2>5, <3>1 DEF ResumeInv, ReconcileInv, LaunchInv, LaunchPcs, DingPcs,
         CreatePcs
  <2>12. dep'[d].acked = FALSE
    BY <1>3, <2>2, <2>4, <2>5 DEF DepInv, NoRuntime, DepRecords
  <2>13. dep'[d].result = "ready" => dep'[d].target \in Deploys /\ run'[dep'[d].target].autonomous
    BY <1>3, <2>2, <2>5, <2>6 DEF DepInv, NoRuntime
  <2>14. DepInv(d)'
    BY <1>2, <1>3, <2>2, <2>5, <2>11, <2>12, <2>13 DEF DepInv
  <2>15. Leases(d)'
    BY <1>1, <1>2, <1>3, <1>5, <2>1, <2>2, <2>3, <2>5, <2>10, DescriptorsDiffer
       DEF Leases, Parent, Child
  <2>16. \A x : x \notin {Parent(d), Child(d)} => (x \in lease' <=> x \in lease)
    BY <1>5
  <2>17. run[d].autonomous => run'[d].autonomous
    BY <1>3 DEF NoRuntime
  <2> QED
    BY <1>1, <1>2, <1>4, <2>6, <2>7, <2>8, <2>9, <2>14, <2>15, <2>16, <2>17, HolderSteps
<1>6. CASE slot' = [Cand(d) EXCEPT !.outcome = "failed"] /\ LeaveDeploy(d, "failed", Nobody)
  <2>1. run' = [run EXCEPT ![d].connected = FALSE]
    BY <1>6 DEF LeaveDeploy
  <2>2. \A e \in Deploys : Alive(e)' => Alive(e)
    BY <1>3, <2>1 DEF Alive, DeployTypes, Runtimes
  <2>3. slot.prov = dep[d].prov /\ slot.op = dep[d].op
    BY <1>1, <1>2, <1>3 DEF ExaminedInv, SlotInv, ValidConfig, NoSlot
  <2>4. "failed" \in AllowedOutcomes(dep[d].opt.channel)
    BY <1>3 DEF AllowedOutcomes
  <2>5. SlotInv' /\ slot' \in Slots
    BY <1>1, <1>2, <1>4, <1>6, <2>2, <2>3, <2>4, CandidateWritten
  <2> QED
    BY <1>1, <1>2, <1>4, <1>6, <2>5, LeavingKeeps
<1> QED
  BY <1>5, <1>6 DEF SpawnRuntime

\* The launch goes on to another place.
LEMMA LaunchWalks ==
  ASSUME DeployInv, NEW d \in Deploys, dep[d].pc \in LaunchPcs, NEW pc \in LaunchPcs, To(d, pc),
         UNCHANGED <<run, lease, apps, profile>>, slot' \in Slots, SlotInv',
         slot'.channel = "http",
         run[d].inbox = Release => pc = "final" \/ (pc = "await" /\ dep[d].ph = Release),
         run[d].acked = Release => Authorized(d)',
         pc = "poll" => dep[d].ph = 4, pc = "save" => dep[d].ph \in {1, 2, 5, 6},
         pc \in {"save", "send", "await"} /\ dep[d].ph >= 5 => Authorized(d)',
         pc \in {"final", "unpublish"} => Authorized(d)'
  PROVE  DeployInv'
<1>1. /\ DeployTypes /\ DepInv(d) /\ RuntimeInv(d) /\ LaunchInv(d) /\ run[d] \in Runtimes
      /\ dep[d].ph \in 1..Release /\ dep[d].opt.channel = "http" /\ run \in [Deploys -> Runtimes]
  BY DEF DeployInv, DeployTypes, DepInv, LaunchInv
<1>2. pc \in DepPcs
  BY Places
<1>3. /\ dep'[d] \in DepRecords /\ dep' = [dep EXCEPT ![d] = dep'[d]]
      /\ dep'[d].pc = pc /\ dep'[d].opt = dep[d].opt /\ dep'[d].prov = dep[d].prov
      /\ dep'[d].op = dep[d].op /\ dep'[d].ph = dep[d].ph /\ dep'[d].acked = dep[d].acked
      /\ dep'[d].result = dep[d].result /\ dep'[d].target = dep[d].target
  BY <1>1, <1>2, Moved
<1>4. LaunchInv(d)'
  <2>1. pc # "spawn"
    BY DEF LaunchPcs
  <2>2. pc = "save" /\ dep[d].ph = Release => Authorized(d)'
    BY DEF Release
  <2> QED
    BY <1>1, <1>3, <2>1, <2>2 DEF LaunchInv
<1>5. run' = [run EXCEPT ![d] = run'[d]] /\ run'[d] = run[d]
  BY <1>1
<1>6. dep'[d].acked => run[d].acked = Release
  BY <1>1, <1>3 DEF DepInv
<1>7. run[d].acked = Release => run'[d].inbox = Release
  BY <1>1, <1>5 DEF RuntimeInv
<1> QED
  BY <1>1, <1>3, <1>4, <1>5, <1>6, <1>7, LaunchSteps

\* What every place of a launch has in common.
LEMMA Launching ==
  ASSUME DeployInv, NEW d \in Deploys, dep[d].pc \in LaunchPcs
  PROVE  /\ DeployTypes /\ SlotInv /\ RuntimeInv(d) /\ DepInv(d) /\ LaunchInv(d)
         /\ ExaminedInv(d) /\ dep[d].pc \in Held /\ dep[d].ph \in 1..Release
         /\ slot.channel = "http" /\ slot \in Slots
         /\ dep[d].pc \notin {"final", "await"} =>
              run[d].inbox # Release /\ run[d].acked # Release /\ ~run[d].autonomous
BY Places DEF DeployInv, DeployTypes, DepInv, LaunchInv, RuntimeInv, EndPcs

\* The three state files of a launch.
LEMMA PhaseStates ==
  ASSUME NEW d
  PROVE  /\ PhaseState(d, 1) = [Cand(d) EXCEPT !.proc = d, !.act = "prepared"]
         /\ PhaseState(d, 2) = [Cand(d) EXCEPT !.proc = d, !.act = "authorized"]
         /\ PhaseState(d, 5) = [Cand(d) EXCEPT !.proc = d, !.act = "authorized"]
         /\ PhaseState(d, 6) = [slot EXCEPT !.outcome = "ready"]
<1>1. PhaseState(d, 1) = [Cand(d) EXCEPT !.proc = d, !.act = "prepared"]
  BY DEF PhaseState, Release
<1>2. PhaseState(d, 2) = [Cand(d) EXCEPT !.proc = d, !.act = "authorized"]
  BY DEF PhaseState, Release
<1>3. PhaseState(d, 5) = [Cand(d) EXCEPT !.proc = d, !.act = "authorized"]
  BY DEF PhaseState, Release
<1>4. PhaseState(d, 6) = [slot EXCEPT !.outcome = "ready"]
  BY DEF PhaseState, Release
<1> QED
  BY <1>1, <1>2, <1>3, <1>4

\* SavePhase and SaveFails keep the invariant: the release is published only
\* over a state file that already authorises the runtime.
LEMMA SavingKeeps ==
  ASSUME DeployInv, NEW d \in Deploys, SavePhase(d) \/ SaveFails(d)
  PROVE  DeployInv'
<1>1. dep[d].pc = "save" /\ UNCHANGED <<run, lease, apps, profile>>
  BY DEF SavePhase, SaveFails
<1>2. dep[d].pc \in LaunchPcs
  BY <1>1 DEF LaunchPcs
<1>3. /\ DeployTypes /\ SlotInv /\ RuntimeInv(d) /\ LaunchInv(d) /\ dep[d].ph \in {1, 2, 5, 6}
      /\ run[d].inbox # Release /\ run[d].acked # Release /\ slot \in Slots
      /\ slot.channel = "http" /\ Release = 6
  BY <1>1, <1>2, Launching DEF LaunchInv, Release
<1>4. CASE slot' = PhaseState(d, dep[d].ph)
  <2>1. /\ SlotInv' /\ slot' \in Slots /\ slot'.channel = "http"
        /\ dep[d].ph >= 5 => Authorized(d)'
    <3>1. CASE dep[d].ph = 1
      <4>1. slot' = [Cand(d) EXCEPT !.proc = d, !.act = "prepared"]
        BY <1>4, <3>1, PhaseStates
      <4>2. SlotInv' /\ slot' \in Slots /\ slot'.channel = "http"
        BY <1>1, <1>2, <4>1, PhaseWritten
      <4> QED
        BY <3>1, <4>2
    <3>2. CASE dep[d].ph \in {2, 5}
      <4>1. slot' = [Cand(d) EXCEPT !.proc = d, !.act = "authorized"]
        BY <1>4, <3>2, PhaseStates
      <4>2. SlotInv' /\ slot' \in Slots /\ slot'.channel = "http" /\ slot'.proc = d
            /\ slot'.act = "authorized"
        BY <1>1, <1>2, <4>1, PhaseWritten
      <4> QED
        BY <4>2 DEF Authorized
    <3>3. CASE dep[d].ph = 6
      <4>1. Authorized(d)
        BY <1>1, <1>3, <3>3 DEF LaunchInv
      <4>2. slot' = [slot EXCEPT !.outcome = "ready"]
        BY <1>4, <3>3, PhaseStates
      <4>3. SlotInv' /\ slot' \in Slots /\ Authorized(d)'
        BY <1>1, <1>3, <4>1, <4>2, Promoted
      <4> QED
        BY <4>3 DEF Authorized
    <3> QED
      BY <1>3, <3>1, <3>2, <3>3
  <2>2. CASE To(d, "send")
    <3>1. "send" \in LaunchPcs
      BY DEF LaunchPcs
    <3> QED
      BY <1>1, <1>2, <1>3, <2>1, <2>2, <3>1, LaunchWalks
  <2>3. CASE \E pc \in {"cleanup", "reapOnly"} : To(d, pc)
    <3>1. PICK pc \in {"cleanup", "reapOnly"} : To(d, pc)
      BY <2>3
    <3>2. pc \in LaunchPcs
      BY DEF LaunchPcs
    <3> QED
      BY <1>1, <1>2, <1>3, <2>1, <3>1, <3>2, LaunchWalks
  <2> QED
    BY <2>2, <2>3 DEF SavePhase, SaveFails
<1>5. CASE slot' = slot /\ SaveFails(d)
  <2>1. SlotInv'
    BY <1>1, <1>3, <1>5, SlotKept DEF Alive
  <2>2. PICK pc \in {"cleanup", "reapOnly"} : To(d, pc)
    BY <1>5 DEF SaveFails
  <2>3. pc \in LaunchPcs
    BY DEF LaunchPcs
  <2> QED
    BY <1>1, <1>2, <1>3, <1>5, <2>1, <2>2, <2>3, LaunchWalks
<1> QED
  BY <1>4, <1>5 DEF SavePhase, SaveFails

\* SendPhase keeps the invariant: the release is the last message.
LEMMA SendPhaseKeeps ==
  ASSUME DeployInv, NEW d \in Deploys, SendPhase(d)
  PROVE  DeployInv'
<1>1. dep[d].pc = "send" /\ UNCHANGED <<slot, lease, apps, profile>>
  BY DEF SendPhase
<1>2. dep[d].pc \in LaunchPcs /\ "await" \in LaunchPcs /\ "cleanup" \in LaunchPcs
      /\ "unpublish" \in LaunchPcs
  BY <1>1 DEF LaunchPcs
<1>3. /\ DeployTypes /\ SlotInv /\ RuntimeInv(d) /\ LaunchInv(d) /\ DepInv(d)
      /\ run[d].inbox # Release /\ run[d].acked # Release /\ slot \in Slots
      /\ slot.channel = "http" /\ dep[d].ph \in 1..Release /\ Release = 6
      /\ dep[d].ph >= 5 => Authorized(d)
  BY <1>1, <1>2, Launching DEF LaunchInv, Release
<1>4. CASE run' = [run EXCEPT ![d].inbox = dep[d].ph] /\ To(d, "await")
  <2> DEFINE r == [run[d] EXCEPT !.inbox = dep[d].ph]
  <2>1. run' = [run EXCEPT ![d] = r] /\ run'[d] = r
    BY <1>3, <1>4 DEF DeployTypes
  <2>2. run[d] \in Runtimes /\ dep[d].ph \in 0..Release
    BY <1>3 DEF DeployTypes
  <2>3. /\ r \in Runtimes /\ r.st = run[d].st /\ r.autonomous = run[d].autonomous
        /\ r.acked = run[d].acked /\ r.inbox = dep[d].ph
    BY <2>2 DEF Runtimes
  <2> HIDE DEF r
  <2>4. "await" \in DepPcs
    BY <1>2, Places
  <2>5. /\ dep'[d] \in DepRecords /\ dep' = [dep EXCEPT ![d] = dep'[d]]
        /\ dep'[d].pc = "await" /\ dep'[d].opt = dep[d].opt /\ dep'[d].prov = dep[d].prov
        /\ dep'[d].op = dep[d].op /\ dep'[d].ph = dep[d].ph /\ dep'[d].acked = dep[d].acked
        /\ dep'[d].result = dep[d].result /\ dep'[d].target = dep[d].target
    BY <1>3, <1>4, <2>4, Moved
  <2>6. \A e \in Deploys : Alive(e)' => Alive(e)
    BY <1>3, <2>1, <2>3 DEF Alive, DeployTypes
  <2>7. SlotInv' /\ slot' \in Slots
    BY <1>1, <1>3, <2>6, SlotKept
  <2>8. LaunchInv(d)'
    BY <1>1, <1>2, <1>3, <2>5 DEF LaunchInv, Authorized
  <2>9. dep'[d].acked => run[d].acked = Release
    BY <1>3, <2>5 DEF DepInv
  <2>10. run' = [run EXCEPT ![d] = run'[d]]
    BY <2>1
  <2>11. /\ run'[d] \in Runtimes /\ run'[d].st = run[d].st /\ run'[d].autonomous = run[d].autonomous
         /\ run'[d].acked = run[d].acked /\ run'[d].inbox = dep'[d].ph
    BY <2>1, <2>3, <2>5
  <2>12. dep'[d].pc \in LaunchPcs
    BY <1>2, <2>5
  <2> QED
    BY <1>1, <1>2, <1>3, <2>5, <2>7, <2>8, <2>9, <2>10, <2>11, <2>12, LaunchSteps
<1>5. CASE To(d, FailurePc(dep[d].ph)) /\ UNCHANGED run
  <2>1. PICK pc : pc = FailurePc(dep[d].ph)
    OBVIOUS
  <2>2. pc \in LaunchPcs /\ pc \in {"cleanup", "unpublish"} /\ (pc = "unpublish" => dep[d].ph >= 5)
    BY <1>2, <1>3, <2>1 DEF FailurePc
  <2>3. SlotInv'
    BY <1>1, <1>3, <1>5, SlotKept DEF Alive
  <2>4. Authorized(d) => Authorized(d)'
    BY <1>1 DEF Authorized
  <2> QED
    BY <1>1, <1>2, <1>3, <1>5, <2>1, <2>2, <2>3, <2>4, LaunchWalks
<1> QED
  BY <1>4, <1>5 DEF SendPhase

\* AckArrives keeps the invariant.
LEMMA AckArrivesKeeps ==
  ASSUME DeployInv, NEW d \in Deploys, AckArrives(d)
  PROVE  DeployInv'
<1> DEFINE ph == dep[d].ph
           next == IF ph \in {4, Release} THEN ph ELSE ph + 1
           pc == CASE ph \in {1, 5} -> "save"
                   [] ph \in {2, 3} -> "send"
                   [] ph = 4 -> "poll"
                   [] ph = Release -> "final"
           l == [dep[d] EXCEPT !.acked = (ph = Release), !.ph = next, !.pc = pc]
<1>1. dep' = [dep EXCEPT ![d].acked = (ph = Release), ![d].ph = next, ![d].pc = pc]
  BY DEF AckArrives
<1>2. /\ dep[d].pc = "await" /\ run[d].acked = ph
      /\ UNCHANGED <<slot, run, lease, apps, profile>>
  BY DEF AckArrives
<1>3. dep[d].pc \in LaunchPcs
  BY <1>2 DEF LaunchPcs
<1>4. /\ DeployTypes /\ SlotInv /\ RuntimeInv(d) /\ LaunchInv(d) /\ slot \in Slots
      /\ slot.channel = "http" /\ ph \in 1..Release /\ dep[d].opt.channel = "http"
      /\ ph >= 5 => Authorized(d)
  BY <1>2, <1>3, Launching DEF LaunchInv
<1>5. /\ pc \in {"save", "send", "poll", "final"} /\ next \in 1..Release
      /\ pc = "save" => next \in {2, 6} /\ (next = 6 => ph = 5)
      /\ pc = "send" => next \in {3, 4}
      /\ pc = "poll" => next = 4
      /\ pc = "final" <=> ph = Release
  BY <1>4 DEF Release
<1> HIDE DEF next, pc
<1>6. dep' = [dep EXCEPT ![d] = l] /\ dep'[d] = l
  BY <1>1, <1>4 DEF DeployTypes
<1>7. pc \in LaunchPcs /\ pc \in DepPcs /\ next \in 0..Release
  BY <1>5, Places DEF LaunchPcs
<1>8. dep[d] \in DepRecords
  BY <1>4 DEF DeployTypes
<1>9. /\ l \in DepRecords /\ l.pc = pc /\ l.ph = next /\ l.acked = (ph = Release)
      /\ l.opt = dep[d].opt /\ l.prov = dep[d].prov /\ l.op = dep[d].op
      /\ l.result = dep[d].result /\ l.target = dep[d].target
  BY <1>7, <1>8 DEF DepRecords
<1> HIDE DEF l, ph
<1>10. LaunchInv(d)'
  <2>1. Authorized(d) => Authorized(d)'
    BY <1>2 DEF Authorized
  <2>2. ph = 5 => Authorized(d)
    BY <1>4
  <2>3. ph = Release => Authorized(d)
    BY <1>4 DEF Release
  <2>4. slot'.channel = "http" /\ Release = 6
    BY <1>2, <1>4 DEF Release
  <2>5. pc \notin {"spawn", "await", "unpublish"}
    BY <1>5
  <2>6. pc = "send" => next < 5
    BY <1>5
  <2> QED
    BY <1>4, <1>6, <1>5, <1>9, <2>1, <2>2, <2>3, <2>4, <2>5, <2>6 DEF LaunchInv
<1>11. SlotInv' /\ slot' \in Slots
  BY <1>2, <1>4, SlotKept DEF Alive
<1>12. /\ run' = [run EXCEPT ![d] = run'[d]] /\ run'[d] = run[d] /\ run'[d] \in Runtimes
       /\ dep' = [dep EXCEPT ![d] = dep'[d]]
  BY <1>2, <1>4, <1>6 DEF DeployTypes
<1>13. run'[d].inbox = Release => dep'[d].pc = "final"
  <2>1. run[d].inbox = Release => dep[d].ph = Release
    BY <1>2, <1>4 DEF RuntimeInv, EndPcs
  <2> QED
    BY <1>6, <1>5, <1>9, <1>12, <2>1 DEF ph
<1>14. run[d].acked = Release => Authorized(d)' /\ run'[d].inbox = Release
  <2>1. run[d].acked = Release => Authorized(d)
    BY <1>2, <1>4 DEF Release
  <2> QED
    BY <1>2, <1>4, <1>12, <2>1 DEF RuntimeInv, Authorized
<1>15. dep'[d].acked => run[d].acked = Release
  BY <1>2, <1>6, <1>9
<1>16. dep'[d].pc \in LaunchPcs /\ dep'[d] \in DepRecords
  BY <1>6, <1>7, <1>9
<1>17. /\ dep'[d].opt = dep[d].opt /\ dep'[d].prov = dep[d].prov /\ dep'[d].op = dep[d].op
       /\ dep'[d].result = dep[d].result /\ dep'[d].target = dep[d].target
  BY <1>6, <1>9
<1>18. /\ run'[d].st = run[d].st /\ run'[d].autonomous = run[d].autonomous
       /\ run'[d].acked = run[d].acked
  BY <1>12
<1> QED
  BY <1>2, <1>3, <1>10, <1>11, <1>12, <1>13, <1>14, <1>15, <1>16, <1>17, <1>18, LaunchSteps

\* AckMissing, PollDeploy and Unpublish keep the invariant.
LEMMA WaitingKeeps ==
  ASSUME DeployInv, NEW d \in Deploys, AckMissing(d) \/ PollDeploy(d) \/ Unpublish(d)
  PROVE  DeployInv'
<1>1. dep[d].pc \in LaunchPcs /\ UNCHANGED <<run, lease, apps, profile>>
  BY DEF AckMissing, PollDeploy, Unpublish, LaunchPcs
<1>2. {"final", "cleanup", "unpublish", "save", "reapOnly"} \subseteq LaunchPcs
  BY DEF LaunchPcs
<1>3. /\ DeployTypes /\ SlotInv /\ RuntimeInv(d) /\ LaunchInv(d) /\ slot \in Slots
      /\ slot.channel = "http" /\ dep[d].ph \in 1..Release /\ Release = 6 /\ DepInv(d)
      /\ dep[d].pc \notin {"final", "await"} => run[d].inbox # Release /\ run[d].acked # Release
  BY <1>1, Launching DEF Release
<1>4. CASE AckMissing(d)
  <2>1. dep[d].pc = "await" /\ slot' = slot
    BY <1>4 DEF AckMissing
  <2>2. dep[d].ph >= 5 => Authorized(d)
    BY <1>3, <2>1 DEF LaunchInv
  <2>3. PICK pc : pc = IF dep[d].ph = Release THEN "final" ELSE FailurePc(dep[d].ph)
    OBVIOUS
  <2>4. /\ To(d, pc) /\ pc \in LaunchPcs /\ pc \in {"final", "cleanup", "unpublish"}
        /\ pc = "final" <=> dep[d].ph = Release
        /\ pc \in {"final", "unpublish"} => dep[d].ph >= 5
    BY <1>2, <1>3, <1>4, <2>3 DEF AckMissing, FailurePc
  <2>5. run[d].inbox = Release => pc = "final"
    BY <1>3, <2>1, <2>4 DEF RuntimeInv, EndPcs
  <2>6. run[d].acked = Release => Authorized(d)
    BY <1>3, <2>2, <2>4, <2>5 DEF RuntimeInv
  <2>7. SlotInv' /\ slot' \in Slots /\ slot'.channel = "http"
    BY <1>1, <1>3, <2>1, SlotKept DEF Alive
  <2>8. Authorized(d) => Authorized(d)'
    BY <2>1 DEF Authorized
  <2> QED
    BY <1>1, <1>3, <2>1, <2>2, <2>4, <2>5, <2>6, <2>7, <2>8, LaunchWalks
<1>5. CASE PollDeploy(d)
  <2>1. dep[d].pc = "poll" /\ slot' = slot
    BY <1>5 DEF PollDeploy
  <2>2. run[d].inbox # Release /\ run[d].acked # Release
    BY <1>3, <2>1
  <2>3. SlotInv' /\ slot' \in Slots /\ slot'.channel = "http"
    BY <1>1, <1>3, <2>1, SlotKept DEF Alive
  <2>4. CASE To(d, "cleanup")
    BY <1>1, <1>2, <1>3, <2>2, <2>3, <2>4, LaunchWalks
  <2>5. CASE dep' = [dep EXCEPT ![d].pc = "save", ![d].ph = 5]
    <3> DEFINE l == [dep[d] EXCEPT !.pc = "save", !.ph = 5]
    <3>1. dep' = [dep EXCEPT ![d] = l] /\ dep'[d] = l
      BY <1>3, <2>5 DEF DeployTypes
    <3>2. "save" \in DepPcs /\ 5 \in 0..Release /\ 5 \in 1..Release /\ dep[d] \in DepRecords
      BY <1>2, <1>3, Places DEF DeployTypes
    <3>3. /\ l \in DepRecords /\ l.pc = "save" /\ l.ph = 5 /\ l.acked = dep[d].acked
          /\ l.opt = dep[d].opt /\ l.prov = dep[d].prov /\ l.op = dep[d].op
          /\ l.result = dep[d].result /\ l.target = dep[d].target
      BY <3>2 DEF DepRecords
    <3> HIDE DEF l
    <3>4. LaunchInv(d)'
      BY <1>1, <1>3, <2>1, <2>3, <3>1, <3>2, <3>3 DEF LaunchInv
    <3>5. /\ run' = [run EXCEPT ![d] = run'[d]] /\ run'[d] = run[d] /\ run'[d] \in Runtimes
          /\ dep' = [dep EXCEPT ![d] = dep'[d]]
      BY <1>1, <1>3, <3>1 DEF DeployTypes
    <3>6. dep'[d].acked => run[d].acked = Release
      BY <1>3, <3>1, <3>3 DEF DepInv
    <3>7. dep'[d].pc \in LaunchPcs /\ dep'[d] \in DepRecords
      BY <1>2, <3>1, <3>3
    <3> QED
      BY <1>1, <2>2, <2>3, <3>1, <3>3, <3>4, <3>5, <3>6, <3>7, LaunchSteps
  <2> QED
    BY <1>5, <2>4, <2>5 DEF PollDeploy
<1>6. CASE Unpublish(d)
  <2>1. dep[d].pc = "unpublish"
    BY <1>6 DEF Unpublish
  <2>2. run[d].inbox # Release /\ run[d].acked # Release /\ Authorized(d)
    BY <1>3, <2>1 DEF LaunchInv
  <2>3. CASE slot' = [slot EXCEPT !.outcome = "pending"] /\ To(d, "cleanup")
    <3>1. SlotInv' /\ slot' \in Slots /\ Authorized(d)'
      BY <1>1, <1>3, <2>2, <2>3, Promoted
    <3>2. slot'.channel = "http"
      BY <3>1 DEF Authorized
    <3> QED
      BY <1>1, <1>2, <1>3, <2>2, <2>3, <3>1, <3>2, LaunchWalks
  <2>4. CASE To(d, "reapOnly") /\ UNCHANGED slot
    <3>1. SlotInv' /\ slot' \in Slots /\ slot'.channel = "http"
      BY <1>1, <1>3, <2>4, SlotKept DEF Alive
    <3> QED
      BY <1>1, <1>2, <1>3, <2>2, <2>4, <3>1, LaunchWalks
  <2> QED
    BY <1>6, <2>3, <2>4 DEF Unpublish
<1> QED
  BY <1>4, <1>5, <1>6

\* Final keeps the invariant: what is reported ready was acknowledged.
LEMMA FinalKeeps ==
  ASSUME DeployInv, NEW d \in Deploys, Final(d)
  PROVE  DeployInv'
<1>1. dep[d].pc = "final" /\ UNCHANGED <<slot, apps, profile>>
  BY DEF Final
<1>2. dep[d].pc \in LaunchPcs /\ "failed" \in Results \ {"ready"} /\ "ready" \in Results
  BY <1>1 DEF LaunchPcs, Results
<1>3. /\ DeployTypes /\ SlotInv /\ RuntimeInv(d) /\ DepInv(d) /\ slot \in Slots
      /\ dep[d].pc \in Held
  BY <1>2, Launching
<1>4. CASE LeaveDeploy(d, "failed", Nobody)
  BY <1>1, <1>2, <1>3, <1>4, LeavingUnwritten
<1>5. CASE dep[d].acked /\ LeaveDeploy(d, "ready", d)
  <2>1. run[d].autonomous
    BY <1>3, <1>5 DEF DepInv, RuntimeInv
  <2>2. run' = [run EXCEPT ![d].connected = FALSE]
    BY <1>5 DEF LeaveDeploy
  <2>3. \A e \in Deploys : Alive(e)' => Alive(e)
    BY <1>3, <2>2 DEF Alive, DeployTypes, Runtimes
  <2>4. SlotInv' /\ slot' \in Slots
    BY <1>1, <1>3, <2>3, SlotKept
  <2>5. \A e \in Deploys : Alive(e) /\ run[e].autonomous => Authorized(e)'
    BY <1>1 DEF DeployInv, RuntimeInv, Authorized
  <2> QED
    BY <1>1, <1>2, <1>3, <1>5, <2>1, <2>4, <2>5, LeavingKeeps
<1> QED
  BY <1>4, <1>5 DEF Final

\* Cleanup keeps the invariant.
LEMMA CleanupKeeps ==
  ASSUME DeployInv, NEW d \in Deploys, Cleanup(d)
  PROVE  DeployInv'
<1>1. dep[d].pc \in {"cleanup", "reapOnly"} /\ UNCHANGED <<slot, lease, apps, profile>>
  BY DEF Cleanup
<1>2. PICK pc \in {"reap", "reapQuietly"} : To(d, pc)
  BY DEF Cleanup
<1>3. dep[d].pc \in LaunchPcs /\ pc \in LaunchPcs /\ pc \in DepPcs
  BY <1>1, Places DEF LaunchPcs
<1>4. /\ DeployTypes /\ SlotInv /\ RuntimeInv(d) /\ LaunchInv(d) /\ DepInv(d)
      /\ run[d].inbox # Release /\ run[d].acked # Release /\ slot \in Slots
      /\ slot.channel = "http" /\ dep[d].ph \in 1..Release /\ dep[d].opt.channel = "http"
  BY <1>1, <1>3, Launching DEF LaunchInv
<1> DEFINE r == [run[d] EXCEPT !.termed = TRUE]
<1>5. run' = [run EXCEPT ![d] = r] /\ run'[d] = r
  BY <1>4 DEF Cleanup, DeployTypes
<1>6. run[d] \in Runtimes
  BY <1>4 DEF DeployTypes
<1>7. /\ r \in Runtimes /\ r.st = run[d].st /\ r.autonomous = run[d].autonomous
      /\ r.acked = run[d].acked /\ r.inbox = run[d].inbox
  BY <1>6 DEF Runtimes
<1> HIDE DEF r
<1>8. /\ dep'[d] \in DepRecords /\ dep' = [dep EXCEPT ![d] = dep'[d]]
      /\ dep'[d].pc = pc /\ dep'[d].opt = dep[d].opt /\ dep'[d].prov = dep[d].prov
      /\ dep'[d].op = dep[d].op /\ dep'[d].ph = dep[d].ph /\ dep'[d].acked = dep[d].acked
      /\ dep'[d].result = dep[d].result /\ dep'[d].target = dep[d].target
  BY <1>2, <1>3, <1>4, Moved
<1>9. \A e \in Deploys : Alive(e)' => Alive(e)
  BY <1>4, <1>5, <1>7 DEF Alive, DeployTypes
<1>10. SlotInv' /\ slot' \in Slots
  BY <1>1, <1>4, <1>9, SlotKept
<1>11. LaunchInv(d)'
  BY <1>1, <1>2, <1>3, <1>4, <1>8 DEF LaunchInv
<1>12. dep'[d].acked => run[d].acked = Release
  BY <1>4, <1>8 DEF DepInv
<1>13. /\ run' = [run EXCEPT ![d] = run'[d]] /\ run'[d] \in Runtimes /\ run'[d].st = run[d].st
       /\ run'[d].autonomous = run[d].autonomous /\ run'[d].acked = run[d].acked
       /\ run'[d].inbox # Release
  BY <1>4, <1>5, <1>7
<1>14. dep'[d].pc \in LaunchPcs
  BY <1>3, <1>8
<1> QED
  BY <1>1, <1>3, <1>4, <1>8, <1>10, <1>11, <1>12, <1>13, <1>14, LaunchSteps

\* Reap and ReapQuietly keep the invariant: a failure is recorded of a
\* runtime that was seen to end.
LEMMA ReapKeeps ==
  ASSUME DeployInv, NEW d \in Deploys, Reap(d) \/ ReapQuietly(d)
  PROVE  DeployInv'
<1>1. dep[d].pc \in {"reap", "reapQuietly"} /\ UNCHANGED <<apps, profile>>
  BY DEF Reap, ReapQuietly
<1>2. dep[d].pc \in LaunchPcs /\ {"failed", "pending"} \subseteq Results \ {"ready"}
  BY <1>1 DEF LaunchPcs, Results
<1>3. run[d].inbox # Release /\ dep[d].pc \in Held
  BY <1>1, <1>2, Launching
<1>4. CASE ReapQuietly(d)
  <2>1. LeaveDeploy(d, "failed", Nobody) /\ slot' = slot
    BY <1>4 DEF ReapQuietly
  <2> QED
    BY <1>1, <1>2, <1>3, <2>1, LaunchEnds
<1>5. CASE Reap(d)
  <2>1. PICK saved \in BOOLEAN :
          \/ /\ ~Alive(d) /\ slot' = IF saved THEN [Cand(d) EXCEPT !.outcome = "failed"] ELSE slot
             /\ LeaveDeploy(d, "failed", Nobody)
          \/ /\ slot' = IF saved
                        THEN [Cand(d) EXCEPT !.proc = d,
                                !.act = IF dep[d].ph = 1 THEN "prepared" ELSE "authorized"]
                        ELSE slot
             /\ LeaveDeploy(d, "pending", Nobody)
    BY <1>5 DEF Reap
  <2>2. PICK a \in {"prepared", "authorized"} :
          a = IF dep[d].ph = 1 THEN "prepared" ELSE "authorized"
    OBVIOUS
  <2>3. CASE ~Alive(d) /\ slot' = [Cand(d) EXCEPT !.outcome = "failed"]
             /\ LeaveDeploy(d, "failed", Nobody)
    BY <1>1, <1>2, <1>3, <2>3, LaunchEnds
  <2>4. CASE slot' = slot /\ \E r \in {"failed", "pending"} : LeaveDeploy(d, r, Nobody)
    BY <1>1, <1>2, <1>3, <2>4, LaunchEnds
  <2>5. CASE slot' = [Cand(d) EXCEPT !.proc = d, !.act = a] /\ LeaveDeploy(d, "pending", Nobody)
    BY <1>1, <1>2, <1>3, <2>5, LaunchEnds
  <2> QED
    BY <2>1, <2>2, <2>3, <2>4, <2>5
<1> QED
  BY <1>4, <1>5

\* What every place of a DingTalk reconciliation has in common.
LEMMA Reconciling ==
  ASSUME DeployInv, NEW d \in Deploys, dep[d].pc \in DingPcs
  PROVE  /\ DeployTypes /\ SlotInv /\ RuntimeInv(d) /\ DepInv(d) /\ ReconcileInv(d) /\ ExaminedInv(d)
         /\ dep[d].pc \in Held /\ dep[d].pc \in ExaminedPcs /\ slot \in Slots
         /\ run[d] = NoRuntime /\ run[d].inbox # Release
         /\ slot.prov = dep[d].prov /\ slot.op = dep[d].op
         /\ dep[d].opt \in Options /\ InputsAccepted(dep[d].opt)
         /\ dep[d].opt.channel = "dingtalk" /\ \A e \in Deploys : ~Alive(e)
<1>1. /\ DeployTypes /\ SlotInv /\ RuntimeInv(d) /\ DepInv(d) /\ ReconcileInv(d) /\ ExaminedInv(d)
      /\ dep[d].pc \in Held /\ dep[d].pc \in ExaminedPcs /\ slot \in Slots /\ run[d] = NoRuntime
  BY Places DEF DeployInv, DeployTypes, DepInv
<1>2. run[d].inbox # Release /\ ~Alive(d)
  BY <1>1 DEF NoRuntime, Release, Alive
<1> QED
  BY <1>1, <1>2, Places DEF DepInv, ReconcileInv, ExaminedInv

\* The steps of a reconciliation.
LEMMA DingSteps ==
  ASSUME DeployInv, NEW d \in Deploys, dep[d].pc \in DingPcs,
         dep'[d].pc \in DingPcs, dep'[d] \in DepRecords, dep' = [dep EXCEPT ![d] = dep'[d]],
         dep'[d].opt = dep[d].opt, dep'[d].acked = dep[d].acked,
         dep'[d].result = dep[d].result, dep'[d].target = dep[d].target,
         dep'[d].op # Nobody => dep'[d].prov = Nobody,
         UNCHANGED <<run, lease>>, profile' = profile, slot' \in Slots, SlotInv', ReconcileInv(d)'
  PROVE  DeployInv'
<1>1. /\ DeployTypes /\ DepInv(d) /\ run[d].inbox # Release /\ run[d] = NoRuntime
      /\ dep[d].pc \in Held /\ dep[d].opt \in Options /\ InputsAccepted(dep[d].opt)
      /\ dep[d].opt.channel = "dingtalk" /\ \A e \in Deploys : ~Alive(e)
  BY Reconciling
<1>2. dep'[d].pc \in Held /\ dep'[d].pc \in ExaminedPcs
  BY Places
<1>3. DeployTypes'
  BY <1>1 DEF DeployTypes
<1>4. \A e \in Deploys \ {d} : dep'[e] = dep[e]
  BY <1>1 DEF DeployTypes
<1>5. (ResumeInv(d) /\ ExaminedInv(d) /\ ReconcileInv(d) /\ LaunchInv(d))'
  <2>1. \A e \in Deploys : ~Alive(e)'
    BY <1>1 DEF Alive
  <2>2. ExaminedInv(d)'
    BY <1>1, <2>1 DEF ExaminedInv
  <2> QED
    BY <2>2 DEF ResumeInv, LaunchInv, DingPcs, CreatePcs, LaunchPcs
<1>6. DepInv(d)'
  BY <1>1, <1>5 DEF DepInv
<1> QED
  BY <1>1, <1>2, <1>3, <1>4, <1>6, HolderMoves

\* The end of a reconciliation: ConcludeDingTalk and Preserve.
LEMMA DingEnds ==
  ASSUME DeployInv, NEW d \in Deploys, dep[d].pc \in DingPcs, UNCHANGED <<apps, profile>>,
         \/ \E o \in {"pending", "failed"} : ConcludeDingTalk(d, o)
         \/ Preserve(d)
  PROVE  DeployInv'
<1>1. /\ DeployTypes /\ SlotInv /\ dep[d].pc \in Held /\ dep[d].pc \in ExaminedPcs
      /\ slot.prov = dep[d].prov /\ slot.op = dep[d].op
      /\ dep[d].opt.channel = "dingtalk" /\ \A e \in Deploys : ~Alive(e)
  BY Reconciling
<1>2. {"pending", "failed"} \subseteq Results \ {"ready"}
  BY DEF Results
<1>3. CASE slot' = slot /\ \E o \in {"pending", "failed"} : LeaveDeploy(d, o, Nobody)
  BY <1>1, <1>2, <1>3, LeavingUnwritten
<1>4. ASSUME NEW o \in {"pending", "failed"}, slot' = [Cand(d) EXCEPT !.outcome = o],
             LeaveDeploy(d, o, Nobody)
      PROVE  DeployInv'
  <2>1. run' = [run EXCEPT ![d].connected = FALSE]
    BY <1>4 DEF LeaveDeploy
  <2>2. \A e \in Deploys : Alive(e)' => Alive(e)
    BY <1>1, <2>1 DEF Alive, DeployTypes, Runtimes
  <2>3. o \in AllowedOutcomes(dep[d].opt.channel)
    BY <1>1 DEF AllowedOutcomes
  <2>4. SlotInv' /\ slot' \in Slots
    BY <1>1, <1>4, <2>2, <2>3, CandidateWritten
  <2> QED
    BY <1>1, <1>2, <1>4, <2>4, LeavingKeeps
<1> QED
  BY <1>3, <1>4 DEF ConcludeDingTalk, Preserve

\* OpenSession keeps the invariant.
LEMMA OpenSessionKeeps ==
  ASSUME DeployInv, NEW d \in Deploys, OpenSession(d)
  PROVE  DeployInv'
<1>1. dep[d].pc = "session" /\ UNCHANGED <<slot, apps, profile>>
  BY DEF OpenSession
<1>2. dep[d].pc \in DingPcs
  BY <1>1 DEF DingPcs
<1>3. /\ DeployTypes /\ SlotInv /\ ReconcileInv(d) /\ slot \in Slots /\ ExaminedInv(d)
      /\ dep[d].pc \in ExaminedPcs /\ dep[d] \in DepRecords /\ profile \in Profiles
      /\ slot.prov = dep[d].prov /\ slot.op = dep[d].op /\ dep[d].opt.channel = "dingtalk"
  BY <1>2, Reconciling DEF DeployTypes
<1>4. CASE /\ {dep[d].prov, dep[d].op} \subseteq {Nobody, profile}
           /\ dep' = [dep EXCEPT ![d].pc = IF dep[d].prov = Nobody THEN "list" ELSE "get",
                                 ![d].scope = profile]
           /\ UNCHANGED <<lease, run>>
  <2>1. PICK pc \in {"list", "get"} : pc = IF dep[d].prov = Nobody THEN "list" ELSE "get"
    OBVIOUS
  <2> DEFINE l == [dep[d] EXCEPT !.pc = pc, !.scope = profile]
  <2>2. dep' = [dep EXCEPT ![d] = l] /\ dep'[d] = l
    BY <1>3, <1>4, <2>1 DEF DeployTypes
  <2>3. pc \in DepPcs /\ profile \in Scopes /\ pc \in DingPcs /\ pc \notin {"fence", "create", "created",
          "identify", "session"} /\ (pc \in CreatePcs => pc = "list")
    BY <1>3, Places DEF DingPcs, CreatePcs, Scopes
  <2>4. /\ l \in DepRecords /\ l.pc = pc /\ l.scope = profile /\ l.opt = dep[d].opt
        /\ l.prov = dep[d].prov /\ l.op = dep[d].op /\ l.acked = dep[d].acked
        /\ l.result = dep[d].result /\ l.target = dep[d].target
    BY <1>3, <2>3 DEF DepRecords
  <2> HIDE DEF l
  <2>5. ReconcileInv(d)'
    BY <1>1, <1>3, <1>4, <2>1, <2>2, <2>3, <2>4 DEF ReconcileInv
  <2>6. SlotInv' /\ slot' \in Slots
    BY <1>1, <1>3, <1>4, SlotKept DEF Alive
  <2>7. dep'[d].op # Nobody => dep'[d].prov = Nobody
    BY <1>3, <2>2, <2>4 DEF ExaminedInv
  <2>8. dep' = [dep EXCEPT ![d] = dep'[d]]
    BY <2>2
  <2> QED
    BY <1>1, <1>2, <1>4, <2>2, <2>3, <2>4, <2>5, <2>6, <2>7, <2>8, DingSteps
<1>5. CASE LeaveDeploy(d, "pending", Nobody)
  BY <1>1, <1>2, <1>5, DingEnds DEF Preserve
<1> QED
  BY <1>4, <1>5 DEF OpenSession

\* A reconciliation that goes on without writing.
LEMMA DingWalks ==
  ASSUME DeployInv, NEW d \in Deploys, dep[d].pc \in DingPcs, NEW pc \in DingPcs, To(d, pc),
         UNCHANGED <<slot, run, lease, profile>>, SlotInv',
         pc # "session" => dep[d].scope \in Profiles,
         pc \in CreatePcs => dep[d].prov = Nobody /\ dep[d].op \in {Nobody, dep[d].scope},
         pc = "fence" => dep[d].op = Nobody,
         pc = "create" => FALSE,
         pc = "created" => dep[d].op = dep[d].scope,
         pc = "identify" => HasApp(dep[d].scope)'
  PROVE  DeployInv'
<1>1. /\ DeployTypes /\ ReconcileInv(d) /\ slot \in Slots /\ ExaminedInv(d)
      /\ dep[d].pc \in ExaminedPcs
      /\ slot.prov = dep[d].prov /\ slot.op = dep[d].op /\ dep[d].opt.channel = "dingtalk"
  BY Reconciling
<1>2. pc \in DepPcs
  BY Places
<1>3. /\ dep'[d] \in DepRecords /\ dep' = [dep EXCEPT ![d] = dep'[d]]
      /\ dep'[d].pc = pc /\ dep'[d].opt = dep[d].opt /\ dep'[d].prov = dep[d].prov
      /\ dep'[d].op = dep[d].op /\ dep'[d].acked = dep[d].acked
      /\ dep'[d].scope = dep[d].scope /\ dep'[d].result = dep[d].result
      /\ dep'[d].target = dep[d].target
  BY <1>1, <1>2, Moved
<1>4. ReconcileInv(d)'
  BY <1>1, <1>3 DEF ReconcileInv, HasApp
<1>5. dep'[d].op # Nobody => dep'[d].prov = Nobody
  BY <1>1, <1>3 DEF ExaminedInv
<1> QED
  BY <1>1, <1>3, <1>4, <1>5, DingSteps

\* GetBound and Bound keep the invariant: a bound application is read back.
LEMMA BoundKeeps ==
  ASSUME DeployInv, NEW d \in Deploys, GetBound(d) \/ Bound(d)
  PROVE  DeployInv'
<1>1. dep[d].pc \in DingPcs /\ UNCHANGED <<apps, profile>>
  BY DEF GetBound, Bound, DingPcs
<1>2. (\E o \in {"pending", "failed"} : ConcludeDingTalk(d, o)) \/ Preserve(d)
  BY DEF GetBound, Bound
<1> QED
  BY <1>1, <1>2, DingEnds

\* ListApps keeps the invariant.
LEMMA ListAppsKeeps ==
  ASSUME DeployInv, NEW d \in Deploys, ListApps(d)
  PROVE  DeployInv'
<1>1. dep[d].pc = "list" /\ UNCHANGED <<apps, profile>>
  BY DEF ListApps
<1>2. /\ dep[d].pc \in DingPcs /\ "list" \in CreatePcs /\ "identify" \in DingPcs
      /\ "fence" \in DingPcs
  BY <1>1 DEF DingPcs, CreatePcs
<1>3. /\ SlotInv /\ dep[d].scope \in Profiles /\ dep[d].prov = Nobody
      /\ dep[d].op \in {Nobody, dep[d].scope}
  BY <1>1, <1>2, Reconciling DEF ReconcileInv
<1>4. CASE (\E o \in {"pending", "failed"} : ConcludeDingTalk(d, o)) \/ Preserve(d)
  BY <1>1, <1>2, <1>4, DingEnds
<1>5. CASE HasApp(dep[d].scope) /\ To(d, "identify") /\ UNCHANGED <<slot, lease, run>>
  <2>1. SlotInv'
    BY <1>1, <1>3, <1>5, SlotKept DEF Alive
  <2>2. HasApp(dep[d].scope)'
    <3>1. dep'[d].scope = dep[d].scope
      BY <1>2, <1>5, Moved, Reconciling, Places
    <3> QED
      BY <1>1, <1>5, <3>1 DEF HasApp
  <2> QED
    BY <1>1, <1>2, <1>3, <1>5, <2>1, <2>2, DingWalks
<1>6. CASE dep[d].op = Nobody /\ To(d, "fence") /\ UNCHANGED <<slot, lease, run>>
  <2>1. SlotInv'
    BY <1>1, <1>3, <1>6, SlotKept DEF Alive
  <2> QED
    BY <1>1, <1>2, <1>3, <1>6, <2>1, DingWalks
<1> QED
  BY <1>4, <1>5, <1>6 DEF ListApps

\* Fence keeps the invariant: the operation is in the state file before the
\* application is created, and none has been created before.
LEMMA FenceKeeps ==
  ASSUME DeployInv, NEW d \in Deploys, Fence(d)
  PROVE  DeployInv'
<1>1. dep[d].pc = "fence" /\ UNCHANGED <<apps, profile>>
  BY DEF Fence
<1>2. /\ dep[d].pc \in DingPcs /\ dep[d].pc \in CreatePcs /\ "create" \in DingPcs
      /\ "create" \in CreatePcs
  BY <1>1 DEF DingPcs, CreatePcs
<1>3. /\ DeployTypes /\ SlotInv /\ dep[d].scope \in Profiles /\ dep[d].prov = Nobody
      /\ dep[d].op = Nobody /\ slot.prov = Nobody /\ slot.op = Nobody
      /\ dep[d].opt \in Options /\ InputsAccepted(dep[d].opt) /\ dep[d].opt.channel = "dingtalk"
  BY <1>1, <1>2, Reconciling DEF ReconcileInv
<1>4. apps = {}
  BY <1>3 DEF SlotInv
<1>5. CASE Preserve(d)
  BY <1>1, <1>2, <1>5, DingEnds
<1>6. CASE /\ slot' = [Cand(d) EXCEPT !.op = dep[d].scope]
           /\ dep' = [dep EXCEPT ![d].pc = "create", ![d].op = dep[d].scope]
           /\ UNCHANGED <<lease, run>>
  <2>1. /\ Cand(d) \in Slots /\ Cand(d).channel = "dingtalk" /\ Cand(d).outcome = "pending"
        /\ Cand(d).proc = Nobody /\ Cand(d).act = "none" /\ Cand(d).prov = Nobody
    BY <1>3, CandidateFields
  <2>2. dep[d].scope \in Scopes /\ "create" \in DepPcs /\ dep[d] \in DepRecords
    BY <1>2, <1>3, Places DEF Scopes, DeployTypes
  <2>3. /\ slot' \in Slots /\ slot'.channel = "dingtalk" /\ slot'.outcome = "pending"
        /\ slot'.proc = Nobody /\ slot'.act = "none" /\ slot'.prov = Nobody
        /\ slot'.op = dep[d].scope
    BY <1>6, <2>1, <2>2 DEF Slots
  <2>4. ValidConfig(slot')
    BY <2>3 DEF ValidConfig, Channels, AllowedOutcomes
  <2>5. SlotInv'
    BY <1>1, <1>4, <2>3, <2>4 DEF SlotInv, ValidConfig, FailedMeansStopped
  <2> DEFINE l == [dep[d] EXCEPT !.pc = "create", !.op = dep[d].scope]
  <2>6. dep' = [dep EXCEPT ![d] = l] /\ dep'[d] = l
    BY <1>3, <1>6 DEF DeployTypes
  <2>7. /\ l \in DepRecords /\ l.pc = "create" /\ l.op = dep[d].scope /\ l.scope = dep[d].scope
        /\ l.opt = dep[d].opt /\ l.prov = dep[d].prov /\ l.acked = dep[d].acked
        /\ l.result = dep[d].result /\ l.target = dep[d].target
    BY <2>2 DEF DepRecords
  <2> HIDE DEF l
  <2>8. ReconcileInv(d)'
    BY <1>1, <1>3, <1>4, <2>3, <2>6, <2>7 DEF ReconcileInv
  <2>9. dep' = [dep EXCEPT ![d] = dep'[d]] /\ dep'[d].prov = Nobody
    BY <1>3, <2>6, <2>7
  <2> QED
    BY <1>1, <1>2, <1>6, <2>3, <2>5, <2>6, <2>7, <2>8, <2>9, DingSteps
<1> QED
  BY <1>5, <1>6 DEF Fence

\* Create keeps the invariant: the first application, known to the state file.
LEMMA CreateKeeps ==
  ASSUME DeployInv, NEW d \in Deploys, Create(d)
  PROVE  DeployInv'
<1>1. dep[d].pc = "create" /\ profile' = profile
  BY DEF Create
<1>2. /\ dep[d].pc \in DingPcs /\ dep[d].pc \in CreatePcs /\ "created" \in DingPcs
      /\ "created" \in CreatePcs
  BY <1>1 DEF DingPcs, CreatePcs
<1>3. /\ DeployTypes /\ SlotInv /\ dep[d].scope \in Profiles /\ dep[d].prov = Nobody
      /\ dep[d].op = dep[d].scope /\ slot.prov = Nobody /\ slot.op = dep[d].scope /\ apps = {}
      /\ \A e \in Deploys : ~Alive(e)
  BY <1>1, <1>2, Reconciling DEF ReconcileInv
<1>4. CASE Preserve(d) /\ UNCHANGED apps
  BY <1>1, <1>2, <1>4, DingEnds
<1>5. CASE /\ apps' = apps \cup {<<dep[d].scope, d>>} \/ UNCHANGED apps
           /\ dep' = [dep EXCEPT ![d] = [dep[d] EXCEPT !.pc = "created"]]
           /\ UNCHANGED <<slot, lease, run>>
  <2>1. apps' = {<<dep[d].scope, d>>} \/ apps' = {}
    BY <1>3, <1>5
  <2>2. slot'.op # Nobody /\ slot'.prov = Nobody
    BY <1>3, <1>5, DeployAssumption
  <2>3. SlotInv'
    BY <1>3, <1>5, <2>1, <2>2 DEF SlotInv, ValidConfig, FailedMeansStopped, Alive, AllowedOutcomes
  <2>4. To(d, "created")
    BY <1>3, <1>5 DEF To, DeployTypes
  <2> QED
    BY <1>1, <1>2, <1>3, <1>5, <2>3, <2>4, DingWalks
<1> QED
  BY <1>3, <1>4, <1>5 DEF Create, DeployTypes

\* Created keeps the invariant.
LEMMA CreatedKeeps ==
  ASSUME DeployInv, NEW d \in Deploys, Created(d)
  PROVE  DeployInv'
<1>1. dep[d].pc = "created" /\ UNCHANGED <<apps, profile>>
  BY DEF Created
<1>2. /\ dep[d].pc \in DingPcs /\ dep[d].pc \in CreatePcs /\ "identify" \in DingPcs
  BY <1>1 DEF DingPcs, CreatePcs
<1>3. /\ SlotInv /\ dep[d].scope \in Profiles /\ dep[d].prov = Nobody
      /\ dep[d].op \in {Nobody, dep[d].scope}
  BY <1>1, <1>2, Reconciling DEF ReconcileInv
<1>4. CASE (\E o \in {"pending", "failed"} : ConcludeDingTalk(d, o)) \/ Preserve(d)
  BY <1>1, <1>2, <1>4, DingEnds
<1>5. CASE HasApp(dep[d].scope) /\ To(d, "identify") /\ UNCHANGED <<slot, lease, run>>
  <2>1. SlotInv'
    BY <1>1, <1>3, <1>5, SlotKept DEF Alive
  <2>2. HasApp(dep[d].scope)'
    <3>1. dep'[d].scope = dep[d].scope
      BY <1>2, <1>5, Moved, Reconciling, Places
    <3> QED
      BY <1>1, <1>5, <3>1 DEF HasApp
  <2> QED
    BY <1>1, <1>2, <1>3, <1>5, <2>1, <2>2, DingWalks
<1> QED
  BY <1>4, <1>5 DEF Created

\* IdentifyApplication keeps the invariant: the provider that takes the place
\* of the operation is the application that was found.
LEMMA IdentifyApplicationKeeps ==
  ASSUME DeployInv, NEW d \in Deploys, IdentifyApplication(d)
  PROVE  DeployInv'
<1>1. dep[d].pc = "identify" /\ UNCHANGED <<apps, profile>>
  BY DEF IdentifyApplication
<1>2. dep[d].pc \in DingPcs /\ dep[d].pc \in CreatePcs /\ "bound" \in DingPcs
      /\ "bound" \notin CreatePcs
  BY <1>1 DEF DingPcs, CreatePcs
<1>3. /\ DeployTypes /\ SlotInv /\ dep[d].scope \in Profiles /\ HasApp(dep[d].scope)
      /\ dep[d].opt \in Options /\ InputsAccepted(dep[d].opt) /\ dep[d].opt.channel = "dingtalk"
  BY <1>1, <1>2, Reconciling DEF ReconcileInv
<1>4. CASE (\E o \in {"pending", "failed"} : ConcludeDingTalk(d, o)) \/ Preserve(d)
  BY <1>1, <1>2, <1>4, DingEnds
<1>5. CASE /\ slot' = [Cand(d) EXCEPT !.prov = dep[d].scope, !.op = Nobody]
           /\ dep' = [dep EXCEPT ![d].pc = "bound", ![d].prov = dep[d].scope, ![d].op = Nobody]
           /\ UNCHANGED <<lease, run>>
  <2>1. /\ Cand(d) \in Slots /\ Cand(d).channel = "dingtalk" /\ Cand(d).outcome = "pending"
        /\ Cand(d).proc = Nobody /\ Cand(d).act = "none"
    BY <1>3, CandidateFields
  <2>2. dep[d].scope \in Scopes /\ Nobody \in Scopes /\ "bound" \in DepPcs /\ dep[d] \in DepRecords
    BY <1>2, <1>3, Places DEF Scopes, DeployTypes
  <2>3. /\ slot' \in Slots /\ slot'.channel = "dingtalk" /\ slot'.outcome = "pending"
        /\ slot'.proc = Nobody /\ slot'.act = "none" /\ slot'.prov = dep[d].scope
        /\ slot'.op = Nobody
    BY <1>5, <2>1, <2>2 DEF Slots
  <2>4. ValidConfig(slot')
    BY <2>3 DEF ValidConfig, Channels, AllowedOutcomes
  <2>5. HasApp(slot.prov)'
    BY <1>1, <1>3, <2>3 DEF HasApp
  <2>6. dep[d].scope # Nobody
    BY <1>3, DeployAssumption
  <2>7. SlotInv'
    BY <1>1, <1>3, <2>3, <2>4, <2>5, <2>6 DEF SlotInv, ValidConfig, FailedMeansStopped, HasApp
  <2> DEFINE l == [dep[d] EXCEPT !.pc = "bound", !.prov = dep[d].scope, !.op = Nobody]
  <2>8. dep' = [dep EXCEPT ![d] = l] /\ dep'[d] = l
    BY <1>3, <1>5 DEF DeployTypes
  <2>9. /\ l \in DepRecords /\ l.pc = "bound" /\ l.op = Nobody /\ l.scope = dep[d].scope
        /\ l.opt = dep[d].opt /\ l.prov = dep[d].scope /\ l.acked = dep[d].acked
        /\ l.result = dep[d].result /\ l.target = dep[d].target
    BY <2>2 DEF DepRecords
  <2> HIDE DEF l
  <2>10. ReconcileInv(d)'
    BY <1>2, <1>3, <2>3, <2>8, <2>9 DEF ReconcileInv
  <2>11. dep' = [dep EXCEPT ![d] = dep'[d]]
    BY <2>8
  <2> QED
    BY <1>1, <1>2, <1>5, <2>3, <2>7, <2>8, <2>9, <2>10, <2>11, DingSteps
<1> QED
  BY <1>4, <1>5 DEF IdentifyApplication

\* No deployment is recorded, nothing runs and nobody has the lock at first.
LEMMA DeployInitInv == DeployInit => DeployInv
<1> SUFFICES ASSUME DeployInit PROVE DeployInv
  OBVIOUS
<1>1. /\ slot = NoSlot /\ dep = [d \in Deploys |-> NoDep] /\ run = [d \in Deploys |-> NoRuntime]
      /\ lease = {} /\ apps = {} /\ profile \in Profiles
  BY DEF DeployInit
<1>2. NoSlot \in Slots /\ NoSlot.prov = Nobody /\ NoSlot.outcome = "none"
  BY DEF NoSlot, Slots, Names, Packages, Scopes
<1>3. NoDep \in DepRecords /\ NoDep.pc = "idle" /\ ~NoDep.acked /\ NoDep.result = "none"
  BY NoPhase DEF NoDep, DepRecords, DepPcs, Scopes, Results
<1>4. /\ NoRuntime \in Runtimes /\ NoRuntime.st = "none" /\ NoRuntime.inbox = 0
      /\ NoRuntime.acked = 0 /\ NoRuntime.autonomous = FALSE
  BY NoPhase DEF NoRuntime, Runtimes
<1>5. "idle" \notin Held /\ Release = 6
  BY Places DEF Release
<1>6. DeployTypes
  BY <1>1, <1>2, <1>3, <1>4 DEF DeployTypes
<1>7. \A d \in Deploys : ~Alive(d) /\ dep[d].pc = "idle"
  BY <1>1, <1>3, <1>4 DEF Alive
<1>8. LockInv
  BY <1>1, <1>5, <1>7 DEF LockInv, Leases, Involved
<1>9. SlotInv
  BY <1>1, <1>2 DEF SlotInv, ValidConfig, FailedMeansStopped
<1>10. ASSUME NEW d \in Deploys PROVE RuntimeInv(d) /\ DepInv(d)
  <2>1. RuntimeInv(d)
    BY <1>1, <1>4, <1>5 DEF RuntimeInv
  <2>2. ResumeInv(d) /\ ExaminedInv(d) /\ ReconcileInv(d) /\ LaunchInv(d)
    BY <1>7 DEF ResumeInv, ExaminedInv, ReconcileInv, LaunchInv, ExaminedPcs, DingPcs, CreatePcs,
       LaunchPcs
  <2> QED
    BY <1>1, <1>3, <1>7, <2>2, <2>1 DEF DepInv
<1> QED
  BY <1>6, <1>8, <1>9, <1>10 DEF DeployInv

\* The state file, the runtimes and the remote application tell one story,
\* over any number of deploys, crashes and retries: DeploySound of deploy.
THEOREM DeploymentConsistent == DeploySpec => []DeploySound
<1>1. DeployInv /\ [DeployNext]_deployVars => DeployInv'
  <2> SUFFICES ASSUME DeployInv, [DeployNext]_deployVars PROVE DeployInv'
    OBVIOUS
  <2>1. ASSUME NEW d \in Deploys, Start(d) PROVE DeployInv'
    BY <2>1, StartKeeps
  <2>2. ASSUME NEW d \in Deploys, DeployStep(d) PROVE DeployInv'
    <3>1. CASE AcquireLock(d)
      BY <3>1, AcquireLockKeeps
    <3>2. CASE LockTimesOut(d)
      BY <3>2, LockTimesOutKeeps
    <3>3. CASE Examine(d)
      BY <3>3, ExamineKeeps
    <3>4. CASE Resume(d)
      BY <3>4, ResumeKeeps
    <3>5. CASE Resumed(d)
      BY <3>5, ResumedKeeps
    <3>6. CASE BeginDeploy(d)
      BY <3>6, BeginDeployKeeps
    <3>7. CASE SpawnRuntime(d)
      BY <3>7, SpawnRuntimeKeeps
    <3>8. CASE SavePhase(d) \/ SaveFails(d)
      BY <3>8, SavingKeeps
    <3>9. CASE SendPhase(d)
      BY <3>9, SendPhaseKeeps
    <3>10. CASE AckArrives(d)
      BY <3>10, AckArrivesKeeps
    <3>11. CASE AckMissing(d) \/ PollDeploy(d) \/ Unpublish(d)
      BY <3>11, WaitingKeeps
    <3>12. CASE Final(d)
      BY <3>12, FinalKeeps
    <3>13. CASE Cleanup(d)
      BY <3>13, CleanupKeeps
    <3>14. CASE Reap(d) \/ ReapQuietly(d)
      BY <3>14, ReapKeeps
    <3>15. CASE OpenSession(d)
      BY <3>15, OpenSessionKeeps
    <3>16. CASE GetBound(d) \/ Bound(d)
      BY <3>16, BoundKeeps
    <3>17. CASE ListApps(d)
      BY <3>17, ListAppsKeeps
    <3>18. CASE Fence(d)
      BY <3>18, FenceKeeps
    <3>19. CASE Create(d)
      BY <3>19, CreateKeeps
    <3>20. CASE Created(d)
      BY <3>20, CreatedKeeps
    <3>21. CASE IdentifyApplication(d)
      BY <3>21, IdentifyApplicationKeeps
    <3> QED
      BY <2>2, <3>1, <3>2, <3>3, <3>4, <3>5, <3>6, <3>7, <3>8, <3>9, <3>10, <3>11, <3>12, <3>13,
         <3>14, <3>15, <3>16, <3>17, <3>18, <3>19, <3>20, <3>21 DEF DeployStep
  <2>3. ASSUME NEW d \in Deploys, DeployCrashes(d) PROVE DeployInv'
    BY <2>3, DeployCrashesKeeps
  <2>4. ASSUME NEW d \in Deploys, RuntimeStep(d) PROVE DeployInv'
    BY <2>4, RuntimeStepKeeps
  <2>5. ASSUME NEW d \in Deploys, RuntimeStops(d) \/ RuntimeExits(d) \/ RuntimeCrashes(d)
        PROVE  DeployInv'
    BY <2>5, RuntimeEndsKeeps
  <2>6. CASE ProfileSwitches
    BY <2>6, ProfileSwitchesKeeps
  <2>7. CASE UNCHANGED deployVars
    BY <2>7 DEF deployVars, DeployInv, DeployTypes, LockInv, Leases, Involved, SlotInv, RuntimeInv,
       DepInv, ResumeInv, ExaminedInv, ReconcileInv, LaunchInv, Alive, Authorized, HasApp,
       FailedMeansStopped, ValidConfig, AllowedOutcomes, Parent, Child
  <2> QED
    BY <2>1, <2>2, <2>3, <2>4, <2>5, <2>6, <2>7 DEF DeployNext
<1> QED
  BY <1>1, DeployInitInv, DeployInvIsEnough, PTL DEF DeploySpec
=============================================================================
