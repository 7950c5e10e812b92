--------------------------- MODULE TransferProofs ---------------------------
(***************************************************************************)
(* Proofs about the bus, for all limits, any number of reports and any     *)
(* requests.                                                               *)
(***************************************************************************)
EXTENDS Bus, SequenceTheorems, TLAPS

(* A poll that goes on has reached neither limit.                          *)
LimitsAhead ==
  at = "dispatch" => nakCount < NAK_LIMIT /\ retryCount < RETRY_LIMIT

(* Acknowledgements never run ahead of the reports.                        *)
AckedAreMade == acked <= made /\ taken <= made

TransferInv == TransferTypeOK /\ TogglesAgree /\ LimitsAhead /\ AckedAreMade

LEMMA InitTransferInv == TransferInit => TransferInv
BY PacketAssumption
   DEF PacketAssumption, TransferInit, TransferInv, TransferTypeOK, TogglesAgree, LimitsAhead, AckedAreMade

LEMMA NextTransferInv == TransferInv /\ [TransferNext]_transferVars => TransferInv'
<1> SUFFICES ASSUME TransferInv, [TransferNext]_transferVars PROVE TransferInv'
  OBVIOUS
<1> USE PacketAssumption
    DEF PacketAssumption, TransferInv, TransferTypeOK, TogglesAgree, LimitsAhead,
        AckedAreMade
<1>1. CASE MakeReport
  BY <1>1 DEF MakeReport, counters
<1>2. CASE Configure
  BY <1>2 DEF Configure, counters
<1>3. CASE Poll
  BY <1>3 DEF Poll, keyboardVars
<1>4. CASE Nak
  BY <1>4 DEF Nak, keyboardVars
<1>5. CASE NoAnswer
  BY <1>5 DEF NoAnswer, keyboardVars
<1>6. CASE Fails
  BY <1>6 DEF Fails, keyboardVars, counters
<1>7. CASE Receive
  BY <1>7 DEF Receive, Acknowledged, counters
<1>8. CASE ToggleError
  BY <1>8 DEF ToggleError, Acknowledged, counters
<1>9. CASE UNCHANGED transferVars
  BY <1>9 DEF transferVars, keyboardVars, counters
<1> QED
  BY <1>1, <1>2, <1>3, <1>4, <1>5, <1>6, <1>7, <1>8, <1>9 DEF TransferNext, Dispatch

(* A step of the bus is one of a poll, or one of a request.                *)
LEMMA BusSteps ==
  ASSUME [BusNext]_busVars
  PROVE  [TransferNext]_transferVars /\ [ControlNext]_controlVars
BY Zenon DEF BusNext, Control, Polling, busVars

(* The invariant holds in every state of every behaviour of the bus.       *)
THEOREM TransferInvariant == BusSpec => []TransferInv
<1>1. BusInit => TransferInv
  BY InitTransferInv DEF BusInit
<1>2. TransferInv /\ [BusNext]_busVars => TransferInv'
  BY BusSteps, NextTransferInv
<1> QED
  BY <1>1, <1>2, PTL DEF BusSpec

(* The counters of a poll stay within the limits of transfer.c:168, 177.   *)
THEOREM TransferTypeCorrect == BusSpec => []TransferTypeOK
BY TransferInvariant, PTL DEF TransferInv

(* The saved toggle always tells whether the keyboard's report has been    *)
(* read (transfer.c:197, 218-223), whatever is lost.                       *)
THEOREM TogglesStayInStep == BusSpec => []TogglesAgree
BY TransferInvariant, PTL DEF TransferInv

(* Every step of a poll is a step of the channel or leaves it alone: no    *)
(* report is lost, doubled or out of order.                                *)
LEMMA StepImplementsChannel ==
  TransferInv /\ [TransferNext]_transferVars
    => [Channel!Make \/ Channel!Take \/ Channel!Forget]_<<made, taken>>
<1> SUFFICES ASSUME TransferInv, [TransferNext]_transferVars
             PROVE  [Channel!Make \/ Channel!Take \/ Channel!Forget]_<<made, taken>>
  OBVIOUS
<1> USE DEF TransferInv, TransferTypeOK, TogglesAgree, AckedAreMade
<1>1. CASE MakeReport
  BY <1>1 DEF MakeReport, Channel!Make
<1>2. CASE Configure
  BY <1>2 DEF Configure, Channel!Forget
<1>3. CASE Receive
  BY <1>3 DEF Receive, Channel!Take
<1>4. CASE Poll \/ Nak \/ NoAnswer \/ Fails \/ ToggleError \/ UNCHANGED transferVars
  BY <1>4 DEF Poll, Nak, NoAnswer, Fails, ToggleError, keyboardVars, transferVars
<1> QED
  BY <1>1, <1>2, <1>3, <1>4 DEF TransferNext, Dispatch

(* The polling implements the channel of reports.                          *)
THEOREM TransferImplementsChannel == BusSpec => ImplementsChannel
<1>1. BusInit => Channel!ChannelInit
  BY DEF BusInit, TransferInit, Channel!ChannelInit
<1>2. TransferInv /\ [BusNext]_busVars
        => [Channel!Make \/ Channel!Take \/ Channel!Forget]_<<made, taken>>
  BY BusSteps, StepImplementsChannel
<1> QED
  BY <1>1, <1>2, TransferInvariant, PTL
     DEF BusSpec, ImplementsChannel, Channel!ChannelSpec

-----------------------------------------------------------------------------
(* Requests.  The device carries a request out in its last stage, and when *)
(* the host sends the status packet again, the device knows that it has.   *)
CarriedOnce ==
  /\ stage # "idle" => result = "none"
  /\ stage \in {"setup", "data"} => carried = 0
  /\ stage = "data" => request.reads /\ expects = "data"
  /\ stage = "status" /\ request.reads =>
       \/ expects = "data" /\ carried = 0
       \/ expects = "idle" /\ carried = 1
  /\ stage = "status" /\ ~request.reads => expects = "status" /\ carried = 0
  /\ carried \in {0, 1}

LEMMA InitCarriedOnce == ControlInit => CarriedOnce
BY DEF ControlInit, CarriedOnce

LEMMA NextCarriedOnce == CarriedOnce /\ [ControlNext]_controlVars => CarriedOnce'
<1> SUFFICES ASSUME CarriedOnce, [ControlNext]_controlVars PROVE CarriedOnce'
  OBVIOUS
<1> USE DEF CarriedOnce, Ends, GoesOn, Unanswered, deviceVars, counts
<1>1. CASE AskForSize \/ AskNext
  <2>1. stage' = "setup" /\ result' = "none" /\ carried' = 0
    BY <1>1, Zenon DEF AskForSize, AskNext, Begin
  <2> QED
    BY <2>1
<1>2. CASE SetupTaken
  BY <1>2 DEF SetupTaken
<1>3. CASE ReceivePacket
  <2>1. stage = "data" /\ stage' \in {"data", "status"} /\ UNCHANGED <<expects, carried, request, result>>
    BY <1>3, Zenon DEF ReceivePacket, Delivered
  <2> QED
    BY <2>1
<1>4. CASE RepeatedPacket
  BY <1>4 DEF RepeatedPacket, Delivered
<1>5. CASE StatusOut
  BY <1>5 DEF StatusOut
<1>6. CASE StatusIn
  BY <1>6 DEF StatusIn
<1>7. CASE StagePacketNak \/ PacketLost \/ PacketFails
  BY <1>7 DEF StagePacketNak, PacketLost, PacketFails
<1>8. CASE UNCHANGED controlVars
  BY <1>8 DEF controlVars
<1> QED
  BY <1>1, <1>2, <1>3, <1>4, <1>5, <1>6, <1>7, <1>8, Zenon DEF ControlNext, SendPacket

LEMMA StepImplementsRequest ==
  CarriedOnce /\ [ControlNext]_controlVars
    => [R!Ask \/ R!CarryOut \/ R!Succeed \/ R!Fail]_<<stage # "idle", carried, result>>
<1> SUFFICES ASSUME CarriedOnce, [ControlNext]_controlVars
             PROVE  \/ R!Ask \/ R!CarryOut \/ R!Succeed \/ R!Fail
                    \/ UNCHANGED <<stage # "idle", carried, result>>
  OBVIOUS
<1> USE DEF CarriedOnce, Ends, GoesOn, Unanswered, counts, R!Ask, R!CarryOut, R!Succeed, R!Fail
<1>1. CASE AskForSize \/ AskNext
  <2>1. stage = "idle" /\ stage' = "setup" /\ result' = "none" /\ carried' = 0
    BY <1>1, Zenon DEF AskForSize, AskNext, Begin
  <2> QED
    BY <2>1
<1>2. CASE SetupTaken
  BY <1>2 DEF SetupTaken
<1>3. CASE ReceivePacket
  <2>1. stage = "data" /\ stage' \in {"data", "status"} /\ UNCHANGED <<carried, result>>
    BY <1>3, Zenon DEF ReceivePacket, Delivered
  <2> QED
    BY <2>1
<1>4. CASE RepeatedPacket
  BY <1>4 DEF RepeatedPacket, Delivered
<1>5. CASE StatusOut
  BY <1>5 DEF StatusOut
<1>6. CASE StatusIn
  BY <1>6 DEF StatusIn
<1>7. CASE StagePacketNak \/ PacketLost \/ PacketFails
  BY <1>7 DEF StagePacketNak, PacketLost, PacketFails, deviceVars
<1>8. CASE UNCHANGED controlVars
  BY <1>8 DEF controlVars
<1> QED
  BY <1>1, <1>2, <1>3, <1>4, <1>5, <1>6, <1>7, <1>8, Zenon DEF ControlNext, SendPacket

(* A request that succeeds has been carried out once, one that fails at    *)
(* most once, for all limits and requests (transfer.c:99-134, 174-182).    *)
THEOREM ControlImplementsRequest == BusSpec => ImplementsRequest
<1>1. BusInit => CarriedOnce /\ R!RequestInit
  BY InitCarriedOnce DEF BusInit, ControlInit, R!RequestInit
<1>2. CarriedOnce /\ [BusNext]_busVars => CarriedOnce'
  BY BusSteps, NextCarriedOnce
<1>3. CarriedOnce /\ [BusNext]_busVars
        => [R!Ask \/ R!CarryOut \/ R!Succeed \/ R!Fail]_<<stage # "idle", carried, result>>
  BY BusSteps, StepImplementsRequest
<1> QED
  BY <1>1, <1>2, <1>3, PTL DEF BusSpec, ImplementsRequest, R!RequestSpec
-----------------------------------------------------------------------------
(* What a read brings.  Runs of bytes can be put together.                 *)
LEMMA BytesAreSeq ==
  ASSUME NEW i \in Nat, NEW j \in Nat, i <= j
  PROVE  /\ Bytes(i, j) \in Seq(Nat)
         /\ Len(Bytes(i, j)) = j - i
         /\ \A k \in 1..(j - i) : Bytes(i, j)[k] = i + k
<1>1. j - i \in Nat
  OBVIOUS
<1>2. \A k \in 1..(j - i) : i + k \in Nat
  OBVIOUS
<1>3. Bytes(i, j) \in [1..(j - i) -> Nat]
  BY <1>2 DEF Bytes
<1>4. Bytes(i, j) \in Seq(Nat)
  BY <1>1, <1>3
<1>5. DOMAIN Bytes(i, j) = 1..(j - i)
  BY DEF Bytes
<1> QED
  BY <1>1, <1>4, <1>5, LenProperties DEF Bytes

LEMMA BytesJoin ==
  ASSUME NEW a \in Nat, NEW b \in Nat, a <= b
  PROVE  Bytes(0, a) \o Bytes(a, b) = Bytes(0, b)
<1>1. /\ Bytes(0, a) \in Seq(Nat) /\ Len(Bytes(0, a)) = a
      /\ \A k \in 1..a : Bytes(0, a)[k] = k
  BY BytesAreSeq
<1>2. /\ Bytes(a, b) \in Seq(Nat) /\ Len(Bytes(a, b)) = b - a
      /\ \A k \in 1..(b - a) : Bytes(a, b)[k] = a + k
  BY BytesAreSeq
<1>3. /\ Bytes(0, b) \in Seq(Nat) /\ Len(Bytes(0, b)) = b
      /\ \A k \in 1..b : Bytes(0, b)[k] = k
  BY BytesAreSeq
<1> DEFINE x == Bytes(0, a)
           y == Bytes(a, b)
           s == x \o y
<1>4. /\ s \in Seq(Nat) /\ Len(s) = b
      /\ \A k \in 1..b : s[k] = IF k <= a THEN x[k] ELSE y[k - a]
  <2>1. x \in Seq(Nat) /\ y \in Seq(Nat) /\ Len(x) = a /\ Len(y) = b - a
    BY <1>1, <1>2, Zenon
  <2> HIDE DEF x, y
  <2>2. /\ x \o y \in Seq(Nat) /\ Len(x \o y) = Len(x) + Len(y)
        /\ \A k \in 1..(Len(x) + Len(y)) :
             (x \o y)[k] = IF k <= Len(x) THEN x[k] ELSE y[k - Len(x)]
    BY <2>1, ConcatProperties, Zenon
  <2>3. Len(x) + Len(y) = b
    BY <2>1
  <2> QED
    BY <2>1, <2>2, <2>3, Zenon
<1>5. \A k \in 1..b : s[k] = k
  BY <1>1, <1>2, <1>4
<1> HIDE DEF s
<1>6. s = Bytes(0, b)
  BY <1>3, <1>4, <1>5, SeqEqual
<1> QED
  BY <1>6 DEF s

LEMMA MinOfTwo ==
  ASSUME NEW a \in Nat, NEW b \in Nat
  PROVE  Min({a, b}) = IF a <= b THEN a ELSE b
<1> DEFINE m == IF a <= b THEN a ELSE b
<1>1. m \in {a, b} /\ \A y \in {a, b} : m <= y
  OBVIOUS
<1>2. \A x \in {a, b} : (\A y \in {a, b} : x <= y) => x = m
  OBVIOUS
<1> HIDE DEF m
<1>3. Min({a, b}) = m
  BY <1>1, <1>2 DEF Min
<1> QED
  BY <1>3 DEF m

(* How many packets of the answer the program has: those that the device   *)
(* knows of, and one more when the toggles differ.                         *)
Packets == IF toggle = DeviceToggle THEN sent ELSE sent + 1

(* The size in the device table is that of the device, but for the first   *)
(* request, which asks for no more than the smallest packet holds.         *)
SizeKnown ==
  /\ request # FirstRead => MaxPktSize = packet0
  /\ stage # "idle" => MaxPktSize \in {packet0, MinPacket}

(* A read that goes on has brought full packets only.                      *)
FullPackets ==
  stage = "data" /\ request.reads =>
    /\ got = Bytes(0, Packets * packet0)
    /\ Packets * packet0 <= Size(request)
    /\ Packets * packet0 < request.asked

AnswerInv ==
  /\ packet0 \in PacketSizes /\ sent \in Nat /\ toggle \in {0, 1}
  /\ request \in Requests \cup {FirstRead}
  /\ SizeKnown
  /\ FullPackets
  /\ stage = "setup" => got = << >>
  /\ stage = "status" /\ request.reads => Len(got) = Size(request)
  /\ AnswerIsExact

AnswerAll == CarriedOnce /\ AnswerInv

LEMMA EmptyBytes == << >> = Bytes(0, 0) /\ Len(<< >>) = 0
<1>1. Bytes(0, 0) \in Seq(Nat) /\ Len(Bytes(0, 0)) = 0
  BY BytesAreSeq
<1> QED
  BY <1>1, EmptySeq

LEMMA RequestsAsk ==
  ASSUME NEW r \in Requests \cup {FirstRead}
  PROVE  r \in SETUP_PKT /\ (r.reads => r.asked > 0)
<1>1. FirstRead.asked > 0
  BY ControlAssumption DEF ControlAssumption
<1> QED
  BY <1>1, ControlAssumption, Zenon DEF ControlAssumption

LEMMA PacketsHold ==
  ASSUME packet0 \in PacketSizes
  PROVE  packet0 \in Nat /\ MinPacket \in Nat /\ 1 <= MinPacket /\ MinPacket <= packet0
BY ControlAssumption DEF ControlAssumption

LEMMA Sizes ==
  ASSUME NEW r \in SETUP_PKT
  PROVE  /\ r.asked \in Nat /\ r.length \in Nat
         /\ Size(r) \in Nat /\ Size(r) <= r.asked /\ Size(r) <= r.length
         /\ Size(r) \in {r.asked, r.length}
<1>1. r.asked \in WORD /\ r.length \in WORD
  BY DEF SETUP_PKT
<1>2. \A x \in WORD : x \in Nat
  BY DEF WORD
<1>3. Size(r) = IF r.asked <= r.length THEN r.asked ELSE r.length
  BY DEF Size
<1> QED
  BY <1>1, <1>2, <1>3

(* A request begins with nothing read.                                     *)
LEMMA NothingRead ==
  ASSUME got = << >>, result # "ok", request \in Requests \cup {FirstRead}
  PROVE  AnswerIsExact
<1>1. Size(request) \in Nat
  BY RequestsAsk, Sizes
<1> QED
  BY <1>1, EmptyBytes DEF AnswerIsExact

LEMMA NothingReadYet ==
  ASSUME got' = << >>, result' # "ok", request' \in Requests \cup {FirstRead}
  PROVE  AnswerIsExact'
<1>1. Size(request') \in Nat
  BY RequestsAsk, Sizes
<1> QED
  BY <1>1, EmptyBytes DEF AnswerIsExact

LEMMA InitAnswerInv == ControlInit => AnswerInv
BY NothingRead DEF ControlInit, AnswerInv, SizeKnown, FullPackets

LEMMA BeginAnswer ==
  ASSUME AnswerAll, AskForSize \/ AskNext
  PROVE  AnswerInv'
<1>1. /\ stage = "idle" /\ stage' = "setup" /\ got' = << >> /\ result' = "none"
      /\ UNCHANGED toggle /\ request' \in Requests \cup {FirstRead}
  BY Zenon DEF AskForSize, AskNext, Begin
<1>2. AnswerIsExact'
  BY <1>1, NothingReadYet
<1>3. /\ packet0' \in PacketSizes /\ sent' \in Nat
      /\ request' # FirstRead => MaxPktSize' = packet0'
      /\ MaxPktSize' \in {packet0', MinPacket}
  <2>1. CASE AskForSize
    BY <2>1 DEF AskForSize, Begin
  <2>2. CASE AskNext
    BY <2>2 DEF AskNext, deviceVars, AnswerAll, AnswerInv, SizeKnown
  <2> QED
    BY <2>1, <2>2
<1> QED
  BY <1>1, <1>2, <1>3 DEF AnswerAll, AnswerInv, SizeKnown, FullPackets

(* The steps that read nothing.                                            *)
LEMMA SameAnswer ==
  ASSUME AnswerAll, UNCHANGED <<packet0, request, MaxPktSize, got>>,
         sent' \in Nat, toggle' \in {0, 1},
         stage' \in {stage, "idle"}, stage # "idle",
         stage' = "data" => UNCHANGED <<sent, toggle>>,
         result' \in {result, "error"} \/ (result' = "ok" /\ stage = "status")
  PROVE  AnswerInv'
<1> USE DEF AnswerAll, AnswerInv
<1>1. SizeKnown'
  BY DEF SizeKnown
<1>2. FullPackets'
  BY DEF FullPackets, Packets, DeviceToggle
<1>3. AnswerIsExact'
  BY DEF AnswerIsExact, CarriedOnce
<1> QED
  BY <1>1, <1>2, <1>3

LEMMA SetupAnswer ==
  ASSUME AnswerAll, SetupTaken
  PROVE  AnswerInv'
<1> USE DEF AnswerAll, AnswerInv
<1>1. /\ stage = "setup" /\ sent' = 0 /\ got = << >>
      /\ UNCHANGED <<packet0, request, MaxPktSize, got>>
  BY DEF SetupTaken
<1>2. CASE Unanswered /\ UNCHANGED toggle
  <2>1. stage' \in {stage, "idle"} /\ result' \in {result, "error"}
    BY <1>2, Zenon DEF Unanswered, Ends
  <2> QED
    BY <1>1, <1>2, <2>1, SameAnswer
<1>3. CASE GoesOn(IF request.reads THEN "data" ELSE "status") /\ toggle' = 1
  <2>1. result' = result /\ stage' = IF request.reads THEN "data" ELSE "status"
    BY <1>3, Zenon DEF GoesOn
  <2>2. result' # "ok"
    BY <1>1, <2>1 DEF CarriedOnce
  <2>3. AnswerIsExact'
    BY <1>1, <2>2, NothingReadYet
  <2>4. SizeKnown'
    BY <1>1 DEF SizeKnown
  <2>5. FullPackets'
    <3>1. Packets' = 0
      BY <1>1, <1>3 DEF Packets, DeviceToggle
    <3>2. Packets' * packet0' = 0
      BY <1>1, <3>1, PacketsHold
    <3>3. Size(request) \in Nat /\ (request.reads => request.asked > 0)
      BY RequestsAsk, Sizes
    <3>4. got' = Bytes(0, Packets' * packet0')
      BY <1>1, <3>2, EmptyBytes, Zenon
    <3>5. request.reads => 0 <= Size(request) /\ 0 < request.asked
      BY <3>3, RequestsAsk, Sizes
    <3> QED
      BY <1>1, <3>2, <3>4, <3>5, Zenon DEF FullPackets
  <2> QED
    BY <1>1, <1>3, <2>1, <2>3, <2>4, <2>5
<1> QED
  BY <1>2, <1>3, Zenon DEF SetupTaken

LEMMA OtherAnswers ==
  ASSUME AnswerAll,
         RepeatedPacket \/ StatusOut \/ StatusIn \/ StagePacketNak \/ PacketLost \/ PacketFails
  PROVE  AnswerInv'
<1>1. /\ UNCHANGED <<packet0, request, MaxPktSize, got, toggle>> /\ stage # "idle"
      /\ stage' \in {stage, "idle"}
      /\ result' \in {result, "error"} \/ (result' = "ok" /\ stage = "status")
  BY Zenon
     DEF RepeatedPacket, StatusOut, StatusIn, StagePacketNak, PacketLost, PacketFails, Delivered,
         Ends, Unanswered, deviceVars
<1>2. UNCHANGED sent \/ (stage' = "idle" /\ sent' \in {sent, sent + 1})
  BY Zenon
     DEF RepeatedPacket, StatusOut, StatusIn, StagePacketNak, PacketLost, PacketFails, Delivered,
         Ends, deviceVars
<1> QED
  BY <1>1, <1>2, SameAnswer DEF AnswerAll, AnswerInv
LEMMA Alternates ==
  ASSUME NEW n \in Nat
  PROVE  (n + 1) % 2 \in {0, 1} /\ (n + 1 + 1) % 2 = 1 - ((n + 1) % 2)
OBVIOUS

(* A packet of the answer.                                                 *)
LEMMA ReadAnswer ==
  ASSUME AnswerAll, ReceivePacket
  PROVE  AnswerInv'
<1> USE DEF AnswerAll, AnswerInv
<1> DEFINE all == Size(request)
           before == sent * packet0
           behind == (sent + 1) * packet0
           m == IF behind <= all THEN behind ELSE all
<1>1. /\ stage = "data" /\ toggle = DeviceToggle /\ request.reads
      /\ got' = got \o PacketNumber(sent) /\ toggle' = 1 - toggle
      /\ stage' = IF LastPacket(Len(got') - Len(got), Len(got')) THEN "status" ELSE "data"
      /\ sent' \in {sent, sent + 1}
      /\ UNCHANGED <<packet0, request, MaxPktSize, result>>
  BY Zenon DEF ReceivePacket, GoesOn, Delivered, CarriedOnce
<1>2. /\ packet0 \in Nat /\ MinPacket \in Nat /\ 1 <= MinPacket /\ MinPacket <= packet0
  BY PacketsHold
<1>3. /\ all \in Nat /\ all <= request.asked /\ request.asked \in Nat
      /\ all \in {request.asked, request.length} /\ request.length \in Nat
  BY RequestsAsk, Sizes, Zenon
<1>4. got = Bytes(0, before) /\ before <= all /\ before < request.asked
  BY <1>1, Zenon DEF FullPackets, Packets
<1>5. before \in Nat /\ behind \in Nat /\ behind = before + packet0
  BY <1>2
<1> HIDE DEF before, behind, all
<1>6. m \in Nat /\ before <= m /\ m <= all
  BY <1>2, <1>3, <1>4, <1>5
<1>7. PacketNumber(sent) = Bytes(before, m)
  BY <1>3, <1>5, MinOfTwo DEF PacketNumber, before, behind, all
<1>8. got' = Bytes(0, m) /\ Len(got') = m /\ Len(got) = before
  <2>1. got' = Bytes(0, m)
    BY <1>1, <1>4, <1>5, <1>6, <1>7, BytesJoin
  <2>2. Len(Bytes(0, m)) = m - 0 /\ Len(Bytes(0, before)) = before - 0
    <3> HIDE DEF m
    <3>1. 0 <= m /\ 0 <= before /\ 0 \in Nat
      BY <1>5, <1>6
    <3> QED
      BY <1>5, <1>6, <3>1, BytesAreSeq, Zenon
  <2> QED
    BY <1>4, <1>5, <1>6, <2>1, <2>2
<1>9. AnswerIsExact'
  BY <1>1, <1>3, <1>6, <1>8 DEF AnswerIsExact, CarriedOnce, all
<1>10. SizeKnown'
  BY <1>1 DEF SizeKnown
<1>11. MaxPktSize = packet0 \/ (MaxPktSize = MinPacket /\ request = FirstRead)
  BY <1>1 DEF SizeKnown
<1>12. CASE LastPacket(m - before, m)
  <2>1. m = all
    BY <1>2, <1>3, <1>4, <1>5, <1>11, <1>12 DEF LastPacket
  <2> QED
    BY <1>1, <1>8, <1>9, <1>10, <1>12, <2>1 DEF FullPackets, all
<1>13. CASE ~LastPacket(m - before, m)
  <2>1. m - before >= MaxPktSize /\ m < request.asked
    BY <1>2, <1>3, <1>4, <1>5, <1>6, <1>11, <1>13 DEF LastPacket
  <2>2. MaxPktSize = packet0
    <3> SUFFICES ASSUME MaxPktSize = MinPacket, request = FirstRead, MinPacket # packet0
                 PROVE  FALSE
      BY <1>11
    <3>1. request.asked = MinPacket /\ MinPacket <= request.length
      BY ControlAssumption DEF ControlAssumption
    <3>2. all = MinPacket
      BY <1>2, <1>3, <3>1
    <3>3. before = 0
      <4>1. before < packet0
        BY <1>2, <1>4, <1>5, <3>1
      <4>2. CASE sent # 0
        <5>1. sent - 1 \in Nat
          BY <4>2
        <5>2. before = (sent - 1) * packet0 + packet0 /\ (sent - 1) * packet0 \in Nat
          BY <1>2, <5>1 DEF before
        <5> QED
          BY <1>2, <4>1, <5>2
      <4>3. CASE sent = 0
        BY <1>2, <4>3 DEF before
      <4> QED
        BY <4>2, <4>3
    <3> QED
      BY <1>2, <1>5, <2>1, <3>1, <3>2, <3>3
  <2>3. m = behind
    BY <1>2, <1>3, <1>4, <1>5, <2>1, <2>2
  <2>4. Packets' = sent + 1
    <3>1. /\ (sent + 1) % 2 \in {0, 1} /\ (sent + 1 + 1) % 2 = 1 - ((sent + 1) % 2)
          /\ toggle' = 1 - ((sent + 1) % 2) /\ sent' \in {sent, sent + 1}
          /\ sent \in Nat
      <4> HIDE DEF m
      <4> QED
        BY <1>1, Alternates DEF DeviceToggle
    <3>2. CASE sent' = sent
      <4>1. toggle' # DeviceToggle'
        BY <3>1, <3>2 DEF DeviceToggle
      <4> QED
        BY <3>2, <4>1, Zenon DEF Packets
    <3>3. CASE sent' = sent + 1
      <4>1. toggle' = DeviceToggle'
        BY <3>1, <3>3, Zenon DEF DeviceToggle
      <4> QED
        BY <3>3, <4>1, Zenon DEF Packets
    <3> QED
      BY <3>1, <3>2, <3>3
  <2>5. Packets' * packet0' = m
    BY <1>1, <2>3, <2>4 DEF behind
  <2>6. stage' = "data"
    BY <1>1, <1>8, <1>13
  <2>7. FullPackets'
    <3>1. got' = Bytes(0, Packets' * packet0')
      BY <1>8, <2>5, Zenon
    <3>2. Packets' * packet0' <= Size(request')
      <4> HIDE DEF m
      <4>1. Size(request') = all
        BY <1>1, Zenon DEF all
      <4>2. m <= Size(request')
        BY <1>6, <4>1, Zenon
      <4> QED
        BY <2>5, <4>2, Zenon
    <3>3. Packets' * packet0' < request'.asked
      BY <1>1, <2>1, <2>5, Zenon
    <3> QED
      BY <3>1, <3>2, <3>3, Zenon DEF FullPackets
  <2> QED
    BY <1>1, <1>9, <1>10, <2>6, <2>7
<1> QED
  BY <1>12, <1>13

LEMMA NextAnswerInv ==
  ASSUME AnswerAll, [ControlNext]_controlVars
  PROVE  AnswerInv'
<1>1. CASE UNCHANGED controlVars
  BY <1>1
     DEF controlVars, deviceVars, counts, AnswerAll, AnswerInv, SizeKnown, FullPackets, Packets,
         DeviceToggle, AnswerIsExact
<1> QED
  BY <1>1, BeginAnswer, SetupAnswer, ReadAnswer, OtherAnswers, Zenon DEF ControlNext, SendPacket

(* What is read is the device's answer, exactly, for devices of any packet *)
(* size and any requests (transfer.c:211-217, 303-306).                    *)
THEOREM AnswersAreExact == BusSpec => []AnswerIsExact
<1>1. BusInit => AnswerAll
  BY InitCarriedOnce, InitAnswerInv DEF BusInit, AnswerAll
<1>2. AnswerAll /\ [BusNext]_busVars => AnswerAll'
  BY BusSteps, NextCarriedOnce, NextAnswerInv DEF AnswerAll
<1>3. AnswerAll => AnswerIsExact
  BY DEF AnswerAll, AnswerInv
<1> QED
  BY <1>1, <1>2, <1>3, PTL DEF BusSpec
-----------------------------------------------------------------------------
(* The types of a request.  A packet that is sent has reached neither      *)
(* limit, so that counting one more stays within them.                     *)
CountsAhead == stage # "idle" => naks < NAK_LIMIT /\ retries < RETRY_LIMIT

ControlTypeInv == ControlTypeOK /\ CountsAhead

LEMMA InitControlTypes == ControlInit => ControlTypeInv
BY PacketAssumption DEF PacketAssumption, ControlInit, ControlTypeInv, ControlTypeOK, CountsAhead

(* The counts, whatever becomes of a packet.                               *)
LEMMA CountsStay ==
  ASSUME ControlTypeInv, stage # "idle",
         \/ Unanswered
         \/ \E s \in {"data", "status"} : GoesOn(s)
         \/ \E code \in {"ok", "error"} : Ends(code) /\ UNCHANGED counts
  PROVE  /\ naks' \in 0..NAK_LIMIT /\ retries' \in 0..RETRY_LIMIT /\ CountsAhead'
         /\ stage' \in {"idle", "setup", "data", "status"}
         /\ result' \in {"none", "ok", "error"}
<1> USE PacketAssumption DEF PacketAssumption, ControlTypeInv, ControlTypeOK, CountsAhead
<1>1. CASE Unanswered
  BY <1>1 DEF Unanswered, Ends
<1>2. CASE \E s \in {"data", "status"} : GoesOn(s)
  BY <1>2 DEF GoesOn
<1>3. CASE \E code \in {"ok", "error"} : Ends(code) /\ UNCHANGED counts
  BY <1>3 DEF Ends, counts
<1> QED
  BY <1>1, <1>2, <1>3

LEMMA NextControlTypes ==
  ASSUME ControlTypeInv, CarriedOnce, CarriedOnce', [ControlNext]_controlVars
  PROVE  ControlTypeInv'
<1> USE DEF ControlTypeInv, ControlTypeOK
<1>1. carried' \in {0, 1}
  BY DEF CarriedOnce
<1>2. CASE AskForSize \/ AskNext
  <2>1. /\ stage' = "setup" /\ naks' = 0 /\ retries' = 0 /\ result' = "none"
        /\ request' \in Requests \cup {FirstRead} /\ UNCHANGED toggle
    BY <1>2, Zenon DEF AskForSize, AskNext, Begin
  <2>2. /\ packet0' \in PacketSizes /\ expects' \in {"idle", "data", "status"}
        /\ sent' \in Nat /\ MaxPktSize' \in PacketSizes \cup {0, MinPacket}
    <3>1. CASE AskForSize
      BY <3>1 DEF AskForSize
    <3>2. CASE AskNext
      BY <3>2 DEF AskNext, deviceVars
    <3> QED
      BY <1>2, <3>1, <3>2
  <2> QED
    BY <1>1, <2>1, <2>2, PacketAssumption DEF PacketAssumption, CountsAhead
<1>3. CASE SetupTaken
  <2>1. stage # "idle"
    BY <1>3 DEF SetupTaken
  <2>2. Unanswered \/ \E s \in {"data", "status"} : GoesOn(s)
    BY <1>3, Zenon DEF SetupTaken
  <2> QED
    BY <1>1, <1>3, <2>1, <2>2, CountsStay DEF SetupTaken
<1>4. CASE ReceivePacket
  <2>1. stage # "idle"
    BY <1>4 DEF ReceivePacket
  <2>2. \E s \in {"data", "status"} : GoesOn(s)
    BY <1>4, Zenon DEF ReceivePacket
  <2>3. /\ toggle' = 1 - toggle /\ sent' \in {sent, sent + 1}
        /\ UNCHANGED <<packet0, expects, request, MaxPktSize>>
    BY <1>4, Zenon DEF ReceivePacket, Delivered
  <2> QED
    BY <1>1, <2>1, <2>2, <2>3, CountsStay
<1>5. CASE RepeatedPacket
  BY <1>1, <1>5, CountsStay DEF RepeatedPacket, Delivered
<1>6. CASE StatusOut
  BY <1>1, <1>6, CountsStay DEF StatusOut
<1>7. CASE StatusIn
  BY <1>1, <1>7, CountsStay DEF StatusIn
<1>8. CASE StagePacketNak
  BY <1>1, <1>8, PacketAssumption
     DEF PacketAssumption, StagePacketNak, Ends, CountsAhead, deviceVars
<1>9. CASE PacketLost \/ PacketFails
  BY <1>1, <1>9, CountsStay DEF PacketLost, PacketFails, deviceVars
<1>10. CASE UNCHANGED controlVars
  BY <1>10 DEF controlVars, deviceVars, counts, CountsAhead
<1> QED
  BY <1>2, <1>3, <1>4, <1>5, <1>6, <1>7, <1>8, <1>9, <1>10, Zenon DEF ControlNext, SendPacket

(* All counts of polls and requests stay within their limits, and every    *)
(* variable of the bus within its type (transfer.c:147-182).               *)
THEOREM BusTypeCorrect == BusSpec => []BusTypeOK
<1>1. BusInit => ControlTypeInv /\ CarriedOnce
  BY InitControlTypes, InitCarriedOnce DEF BusInit
<1>2. ControlTypeInv /\ CarriedOnce /\ [BusNext]_busVars => ControlTypeInv' /\ CarriedOnce'
  BY BusSteps, NextCarriedOnce, NextControlTypes
<1>3. TransferInv /\ ControlTypeInv => BusTypeOK
  BY DEF TransferInv, ControlTypeInv, BusTypeOK
<1> QED
  BY <1>1, <1>2, <1>3, TransferInvariant, PTL DEF BusSpec
=============================================================================
