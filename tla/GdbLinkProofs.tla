--------------------------- MODULE GdbLinkProofs ---------------------------
(***************************************************************************)
(* For every set of sessions, every memory, words of any size, both orders *)
(* of bytes and any number of faults: what the debugger sees of the link   *)
(* is RemoteCall.                                                          *)
(*                                                                         *)
(* Three invariants carry it. IInv: as long as the framing holds, one      *)
(* packet and one acknowledgement are under way at most, so that what gdb  *)
(* sends again has not been executed. Typed: whatever the link does, the   *)
(* packets under way are calls in their order, none older than the last    *)
(* executed. Fresh: a reply that gdb can take for its answer is the last   *)
(* one written. Between them, HandlerEffect: a handler on the packet of a  *)
(* call does what RemoteCall says of the call, through the escapes of      *)
(* binary data, the order of bytes and the reading of the pc.              *)
(***************************************************************************)
EXTENDS GdbLink, RegistersProofs, SequenceTheorems, TLAPS

-----------------------------------------------------------------------------
(* Sequences, of whatever items. *)

\* A list: its length is a number and it has its items, whatever they are.
Listed(s) == Len(s) \in Nat /\ s = [i \in 1 .. Len(s) |-> s[i]]

\* A list is a sequence of its items, and of any more.
LEMMA ListedSeq ==
  ASSUME NEW s, Listed(s), NEW T
  PROVE  s \in Seq({s[i] : i \in 1 .. Len(s)} \cup T)
  BY DEF Listed

\* And a sequence is a list.
LEMMA SeqListed ==
  ASSUME NEW S, NEW s \in Seq(S)
  PROVE  Listed(s) /\ DOMAIN s = 1 .. Len(s) /\ \A i \in 1 .. Len(s) : s[i] \in S
  <1>1. Len(s) \in Nat /\ s \in [1 .. Len(s) -> S]
    BY LenProperties
  <1> QED
    BY <1>1 DEF Listed

\* A list without items is empty.
LEMMA NoItem ==
  ASSUME NEW s, Listed(s), Len(s) = 0
  PROVE  s = <<>>
  <1>1. s \in Seq({s[i] : i \in 1 .. Len(s)} \cup {})
    BY ListedSeq
  <1> QED
    BY <1>1, EmptySeq

\* An item appended comes after the others.
LEMMA AppendItem ==
  ASSUME NEW s, Listed(s), NEW e
  PROVE  /\ Listed(Append(s, e)) /\ Len(Append(s, e)) = Len(s) + 1
         /\ DOMAIN Append(s, e) = 1 .. Len(s) + 1
         /\ \A i \in 1 .. Len(s) : Append(s, e)[i] = s[i]
         /\ Append(s, e)[Len(s) + 1] = e
  <1> DEFINE S == {s[i] : i \in 1 .. Len(s)} \cup {e}
  <1>1. s \in Seq(S) /\ e \in S
    BY ListedSeq
  <1> HIDE DEF S
  <1>2. /\ Append(s, e) \in Seq(S) /\ Len(Append(s, e)) = Len(s) + 1
        /\ \A i \in 1 .. Len(s) : Append(s, e)[i] = s[i]
        /\ Append(s, e)[Len(s) + 1] = e
    BY <1>1, AppendProperties
  <1>3. Len(s) \in Nat
    BY DEF Listed
  <1>4. Listed(Append(s, e)) /\ DOMAIN Append(s, e) = 1 .. Len(s) + 1
    BY <1>2, SeqListed
  <1> QED
    BY <1>2, <1>3, <1>4

\* Without its first item a list is one shorter.
LEMMA TailItems ==
  ASSUME NEW s, Listed(s), s # <<>>
  PROVE  /\ Listed(Tail(s)) /\ Len(s) > 0 /\ Len(Tail(s)) = Len(s) - 1
         /\ DOMAIN Tail(s) = 1 .. Len(s) - 1
         /\ \A i \in 1 .. Len(s) - 1 : Tail(s)[i] = s[i + 1]
         /\ Head(s) = s[1]
  <1> DEFINE S == {s[i] : i \in 1 .. Len(s)} \cup {}
  <1>1. s \in Seq(S)
    BY ListedSeq
  <1> HIDE DEF S
  <1>2. /\ Tail(s) \in Seq(S) /\ Len(s) > 0 /\ Len(Tail(s)) = Len(s) - 1
        /\ \A i \in 1 .. Len(Tail(s)) : Tail(s)[i] = s[i + 1]
    BY <1>1, HeadTailProperties, EmptySeq
  <1>3. Head(s) = s[1]
    BY <1>1
  <1>4. Listed(Tail(s)) /\ DOMAIN Tail(s) = 1 .. Len(s) - 1
    BY <1>2, SeqListed
  <1> QED
    BY <1>2, <1>3, <1>4

\* Nothing written leaves a list as it is, one item written is appended to it.
LEMMA WrittenItems ==
  ASSUME NEW s, Listed(s), NEW e
  PROVE  /\ s \o <<>> = s
         /\ s \o <<e>> = Append(s, e)
         /\ <<>> \o <<e>> = <<e>> /\ <<>> \o <<>> = <<>>
  <1> DEFINE S == {s[i] : i \in 1 .. Len(s)} \cup {e}
  <1>1. s \in Seq(S) /\ e \in S
    BY ListedSeq
  <1> HIDE DEF S
  <1>2. <<e>> \in Seq(S) /\ <<>> \in Seq(S)
    BY <1>1
  <1> QED
    BY <1>1, <1>2

\* An item inserted moves those from its place on.
LEMMA InsertItem ==
  ASSUME NEW s, Listed(s), NEW k \in 1 .. Len(s) + 1, NEW e
  PROVE  /\ Listed(With(s, k, e)) /\ Len(With(s, k, e)) = Len(s) + 1
         /\ DOMAIN With(s, k, e) = 1 .. Len(s) + 1
         /\ \A i \in 1 .. Len(s) + 1 :
              With(s, k, e)[i] = IF i < k THEN s[i] ELSE IF i = k THEN e ELSE s[i - 1]
  <1> DEFINE S == {s[i] : i \in 1 .. Len(s)} \cup {e}
             before == SubSeq(s, 1, k - 1)
             after == SubSeq(s, k, Len(s))
  <1>1. s \in Seq(S) /\ e \in S /\ Len(s) \in Nat
    BY ListedSeq DEF Listed
  <1> HIDE DEF S
  <1>2. /\ before \in Seq(S) /\ Len(before) = k - 1
        /\ \A i \in 1 .. k - 1 : before[i] = s[i]
    BY <1>1
  <1>3. /\ after \in Seq(S) /\ Len(after) = Len(s) - k + 1
        /\ \A i \in 1 .. Len(s) - k + 1 : after[i] = s[k + i - 1]
    BY <1>1
  <1> HIDE DEF before, after
  <1>4. <<e>> \in Seq(S) /\ Len(<<e>>) = 1 /\ <<e>>[1] = e
    BY <1>1
  <1> DEFINE front == before \o <<e>>
  <1>5. /\ front \in Seq(S) /\ Len(front) = k
        /\ \A i \in 1 .. k : front[i] = IF i < k THEN s[i] ELSE e
    BY <1>1, <1>2, <1>4
  <1> HIDE DEF front
  <1>6. /\ front \o after \in Seq(S) /\ Len(front \o after) = Len(s) + 1
        /\ \A i \in 1 .. Len(s) + 1 :
             (front \o after)[i] = IF i <= k THEN front[i] ELSE after[i - k]
    <2>1. Len(front) + Len(after) = Len(s) + 1
      BY <1>1, <1>3, <1>5
    <2>2. /\ front \o after \in Seq(S) /\ Len(front \o after) = Len(front) + Len(after)
          /\ \A i \in 1 .. Len(front) + Len(after) :
               (front \o after)[i] = IF i <= Len(front) THEN front[i] ELSE after[i - Len(front)]
      BY <1>3, <1>5, ConcatProperties
    <2>3. Len(front) = k
      BY <1>5
    <2> QED
      BY <2>1, <2>2, <2>3
  <1>7. With(s, k, e) = front \o after
    BY DEF With, before, after, front
  <1>8. \A i \in 1 .. Len(s) + 1 :
          With(s, k, e)[i] = IF i < k THEN s[i] ELSE IF i = k THEN e ELSE s[i - 1]
    <2> SUFFICES ASSUME NEW i \in 1 .. Len(s) + 1
                 PROVE  With(s, k, e)[i] = IF i < k THEN s[i] ELSE IF i = k THEN e ELSE s[i - 1]
      OBVIOUS
    <2>1. CASE i <= k
      BY <1>5, <1>6, <1>7, <2>1
    <2>2. CASE i > k
      <3>1. after[i - k] = s[i - 1]
        BY <1>1, <1>3, <2>2
      <3> QED
        BY <1>6, <1>7, <2>2, <3>1
    <2> QED
      BY <1>1, <2>1, <2>2
  <1>9. Listed(With(s, k, e)) /\ DOMAIN With(s, k, e) = 1 .. Len(s) + 1
    BY <1>6, <1>7, SeqListed
  <1> QED
    BY <1>6, <1>7, <1>8, <1>9

-----------------------------------------------------------------------------
(* The inductive invariant. *)

\* What is on the link as long as its framing holds: gdb's packets and
\* acknowledgements, the listener's answers, and no noise.
IsItem(item, types) == "type" \in DOMAIN item /\ item.type \in types
Framed ==
  /\ Listed(toServer) /\ Listed(toClient)
  /\ \A i \in DOMAIN toServer :
       /\ IsItem(toServer[i], {"ack", "nak", "packet"})
       /\ toServer[i].type = "packet" => "id" \in DOMAIN toServer[i]
  /\ \A i \in DOMAIN toClient : IsItem(toClient[i], {"ack", "nak", "reply"})
  /\ len = 0

\* The number of gdb's last call.
last == Len(calls)

\* Where acknowledgements, or requests to send again, are among items.
AnswersIn(s) == {i \in DOMAIN s : s[i].type \in {"ack", "nak"}}
Answers == AnswersIn(toClient)

\* A packet under way is the last call, not executed and not answered yet.
OnePacket ==
  \A i \in DOMAIN toServer : toServer[i].type = "packet" =>
    /\ toServer[i].id = last /\ served = last - 1
    /\ phase = "unacked" /\ at = "scan"
    /\ Answers = {}
    /\ \A j \in DOMAIN toServer : toServer[j].type = "packet" => j = i

\* One acknowledgement, or request to send again, is under way at most. The
\* first means that the call is being executed, and then nothing has been
\* written since, or has been; the second that it has not been.
OneAnswer ==
  \A i \in Answers :
    /\ phase = "unacked"
    /\ \A j \in Answers : j = i
    /\ toClient[i].type = "nak" => served = last - 1 /\ at = "scan"
    /\ toClient[i].type = "ack" => \/ at = "handle" /\ i = Len(toClient)
                                   \/ at = "scan" /\ served = last

\* How far the last call is, by where gdb and the listener are.
Progress ==
  /\ last \in Nat /\ served \in Nat
  /\ at \in {"scan", "handle", "done"}
  /\ phase \in {"idle", "unacked", "waiting", "closed"}
  /\ at = "handle" => cmd.id = last /\ served = last - 1 /\ phase \in {"unacked", "waiting"}
  /\ at = "done" => phase = "closed"
  /\ phase \in {"idle", "closed"} => served = last
  /\ phase = "waiting" => \/ at = "handle" /\ toClient = <<>>
                          \/ at = "scan" /\ served = last
  /\ phase = "unacked" => /\ served \in {last - 1, last}
                          /\ at = "handle" \/ served = last =>
                               \E i \in Answers : toClient[i].type = "ack"

\* What holds as long as the framing does.
Quiet == Framed /\ OnePacket /\ OneAnswer /\ Progress

\* The first invariant: faults that break the framing are counted.
IInv == noiseLeft \in 0 .. MaxNoise /\ (noiseLeft = MaxNoise => Quiet)

-----------------------------------------------------------------------------
(* The initial state, and the ends of the link. *)

\* An item on its way to the listener, and one on its way to gdb.
ServerItem(item) == /\ IsItem(item, {"ack", "nak", "packet"})
                    /\ item.type = "packet" => "id" \in DOMAIN item
ClientItem(item) == IsItem(item, {"ack", "nak", "reply"})

\* Nothing is under way at first.
LEMMA InitInv == Init => IInv
  <1> SUFFICES ASSUME Init PROVE IInv
    OBVIOUS
  <1>1. /\ toServer = <<>> /\ toClient = <<>> /\ calls = <<>>
        /\ Len(<<>>) = 0 /\ DOMAIN <<>> = {} /\ Listed(<<>>)
    BY DEF Init, Listed
  <1>2. Framed
    BY <1>1 DEF Init, Framed
  <1>3. OnePacket /\ OneAnswer
    BY <1>1 DEF OnePacket, OneAnswer, Answers, AnswersIn
  <1>4. Progress
    BY <1>1 DEF Init, Progress, last
  <1> QED
    BY <1>2, <1>3, <1>4, LinkAssumption DEF IInv, Quiet, Init

\* A reply written moves no acknowledgement.
LEMMA ReplyWritten ==
  ASSUME NEW s, Listed(s), \A i \in DOMAIN s : ClientItem(s[i]), NEW text
  PROVE  /\ Listed(Append(s, Reply(text)))
         /\ \A i \in DOMAIN Append(s, Reply(text)) : ClientItem(Append(s, Reply(text))[i])
         /\ AnswersIn(Append(s, Reply(text))) = AnswersIn(s)
         /\ \A i \in AnswersIn(s) : Append(s, Reply(text))[i] = s[i]
  <1> DEFINE e == Reply(text)
             l == Append(s, e)
  <1>1. e.type = "reply" /\ ClientItem(e)
    BY DEF Reply, ClientItem, IsItem
  <1> HIDE DEF e
  <1>2. /\ Listed(l) /\ DOMAIN l = 1 .. Len(s) + 1 /\ l[Len(s) + 1] = e
        /\ \A i \in 1 .. Len(s) : l[i] = s[i]
    BY AppendItem
  <1>3. DOMAIN s = 1 .. Len(s) /\ Len(s) \in Nat
    BY DEF Listed
  <1> HIDE DEF l
  <1>4. AnswersIn(l) = AnswersIn(s)
    BY <1>1, <1>2, <1>3 DEF AnswersIn
  <1>5. \A i \in DOMAIN l : ClientItem(l[i])
    BY <1>1, <1>2, <1>3
  <1>6. \A i \in AnswersIn(s) : l[i] = s[i]
    BY <1>2, <1>3 DEF AnswersIn
  <1> QED
    BY <1>2, <1>4, <1>5, <1>6 DEF l, e

\* An acknowledgement written comes last.
LEMMA AnswerWritten ==
  ASSUME NEW s, Listed(s), \A i \in DOMAIN s : ClientItem(s[i]), NEW e \in {Ack, Nak}
  PROVE  /\ Listed(Append(s, e)) /\ Len(Append(s, e)) = Len(s) + 1
         /\ \A i \in DOMAIN Append(s, e) : ClientItem(Append(s, e)[i])
         /\ AnswersIn(Append(s, e)) = AnswersIn(s) \cup {Len(s) + 1}
         /\ Append(s, e)[Len(s) + 1] = e
  <1> DEFINE l == Append(s, e)
  <1>1. e.type \in {"ack", "nak"} /\ ClientItem(e)
    BY DEF Ack, Nak, ClientItem, IsItem
  <1>2. /\ Listed(l) /\ DOMAIN l = 1 .. Len(s) + 1 /\ l[Len(s) + 1] = e
        /\ Len(l) = Len(s) + 1
        /\ \A i \in 1 .. Len(s) : l[i] = s[i]
    BY AppendItem
  <1>3. DOMAIN s = 1 .. Len(s) /\ Len(s) \in Nat
    BY DEF Listed
  <1> HIDE DEF l
  <1>4. AnswersIn(l) = AnswersIn(s) \cup {Len(s) + 1}
    BY <1>1, <1>2, <1>3 DEF AnswersIn
  <1>5. \A i \in DOMAIN l : ClientItem(l[i])
    BY <1>1, <1>2, <1>3
  <1> QED
    BY <1>2, <1>4, <1>5 DEF l

\* What gdb reads leaves the items after it, one place earlier.
LEMMA ClientReads ==
  ASSUME Framed, toClient # <<>>, NEW s, s = Tail(toClient)
  PROVE  /\ Listed(s) /\ Len(s) = Len(toClient) - 1 /\ Len(toClient) > 0
         /\ \A i \in DOMAIN s : ClientItem(s[i])
         /\ \A i \in DOMAIN s : s[i] = toClient[i + 1]
         /\ AnswersIn(s) = {i \in 1 .. Len(toClient) - 1 : i + 1 \in Answers}
         /\ Head(toClient) = toClient[1] /\ 1 \in DOMAIN toClient
         /\ Head(toClient).type \in {"ack", "nak"} <=> 1 \in Answers
  <1>1. Listed(toClient) /\ \A i \in DOMAIN toClient : ClientItem(toClient[i])
    BY DEF Framed, ClientItem
  <1>2. /\ Listed(s) /\ Len(toClient) > 0 /\ Len(s) = Len(toClient) - 1
        /\ DOMAIN s = 1 .. Len(toClient) - 1
        /\ \A i \in 1 .. Len(toClient) - 1 : s[i] = toClient[i + 1]
        /\ Head(toClient) = toClient[1]
    BY <1>1, TailItems
  <1>3. DOMAIN toClient = 1 .. Len(toClient) /\ Len(toClient) \in Nat
    BY <1>1 DEF Listed
  <1>4. \A i \in DOMAIN s : ClientItem(s[i])
    BY <1>1, <1>2, <1>3
  <1>5. AnswersIn(s) = {i \in 1 .. Len(toClient) - 1 : i + 1 \in Answers}
    BY <1>2, <1>3 DEF Answers, AnswersIn
  <1> QED
    BY <1>2, <1>3, <1>4, <1>5 DEF Answers, AnswersIn

\* What the listener reads leaves no packet when it is the packet.
LEMMA ServerReads ==
  ASSUME Framed, OnePacket, toServer # <<>>, NEW s, s = Tail(toServer)
  PROVE  /\ Listed(s)
         /\ \A i \in DOMAIN s : /\ ServerItem(s[i]) /\ s[i] = toServer[i + 1]
                               /\ i + 1 \in DOMAIN toServer
         /\ Head(toServer) = toServer[1] /\ 1 \in DOMAIN toServer
         /\ ServerItem(Head(toServer))
         /\ Head(toServer).type = "packet" => \A i \in DOMAIN s : s[i].type # "packet"
         /\ DOMAIN s \subseteq Int
  <1>1. Listed(toServer) /\ \A i \in DOMAIN toServer : ServerItem(toServer[i])
    BY DEF Framed, ServerItem
  <1>2. /\ Listed(s) /\ Len(toServer) > 0
        /\ DOMAIN s = 1 .. Len(toServer) - 1
        /\ \A i \in 1 .. Len(toServer) - 1 : s[i] = toServer[i + 1]
        /\ Head(toServer) = toServer[1]
    BY <1>1, TailItems
  <1>3. DOMAIN toServer = 1 .. Len(toServer) /\ Len(toServer) \in Nat
    BY <1>1 DEF Listed
  <1>4. \A i \in DOMAIN s : s[i] = toServer[i + 1] /\ i + 1 \in DOMAIN toServer /\ i + 1 # 1
    BY <1>2, <1>3
  <1>5. Head(toServer).type = "packet" => \A i \in DOMAIN s : s[i].type # "packet"
    BY <1>2, <1>3, <1>4 DEF OnePacket
  <1> QED
    BY <1>1, <1>2, <1>3, <1>4, <1>5

\* An item sent to the listener comes after the others.
LEMMA ServerSent ==
  ASSUME Framed, NEW e, ServerItem(e), NEW s, s = Append(toServer, e)
  PROVE  /\ Listed(s) /\ DOMAIN s = DOMAIN toServer \cup {Len(toServer) + 1}
         /\ \A i \in DOMAIN s : ServerItem(s[i])
         /\ \A i \in DOMAIN toServer : s[i] = toServer[i]
         /\ s[Len(toServer) + 1] = e
  <1>1. Listed(toServer) /\ \A i \in DOMAIN toServer : ServerItem(toServer[i])
    BY DEF Framed, ServerItem
  <1>2. /\ Listed(s) /\ DOMAIN s = 1 .. Len(toServer) + 1
        /\ \A i \in 1 .. Len(toServer) : s[i] = toServer[i]
        /\ s[Len(toServer) + 1] = e
    BY <1>1, AppendItem
  <1>3. DOMAIN toServer = 1 .. Len(toServer) /\ Len(toServer) \in Nat
    BY <1>1 DEF Listed
  <1> QED
    BY <1>1, <1>2, <1>3

-----------------------------------------------------------------------------
(* The steps of the listener. *)

\* An acknowledgement read, and a reply written or nothing.
LEMMA ListenerReads ==
  ASSUME Quiet, at = "scan", toServer # <<>>, Head(toServer).type # "packet",
         toServer' = Tail(toServer), len' = 0,
         \/ toClient' = toClient
         \/ \E text : toClient' = Append(toClient, Reply(text)),
         UNCHANGED <<at, cmd, served, phase, calls>>
  PROVE  Quiet'
  <1>1. /\ Listed(toServer')
        /\ \A i \in DOMAIN toServer' : /\ ServerItem(toServer'[i])
                                       /\ toServer'[i] = toServer[i + 1]
                                       /\ i + 1 \in DOMAIN toServer
        /\ DOMAIN toServer' \subseteq Int
    BY ServerReads DEF Quiet
  <1>2. Listed(toClient) /\ \A i \in DOMAIN toClient : ClientItem(toClient[i])
    BY DEF Quiet, Framed, ClientItem
  <1>3. /\ Listed(toClient')
        /\ \A i \in DOMAIN toClient' : ClientItem(toClient'[i])
        /\ Answers' = Answers
        /\ \A i \in Answers : toClient'[i] = toClient[i]
    <2>1. CASE toClient' = toClient
      BY <1>2, <2>1 DEF Answers
    <2>2. CASE \E text : toClient' = Append(toClient, Reply(text))
      <3>1. PICK text : toClient' = Append(toClient, Reply(text))
        BY <2>2
      <3> QED
        BY <1>2, <3>1, ReplyWritten DEF Answers
    <2> QED
      BY <2>1, <2>2
  <1>4. Framed'
    BY <1>1, <1>3 DEF Framed, ServerItem, ClientItem
  <1>5. OnePacket'
    BY <1>1, <1>3 DEF Quiet, OnePacket, last
  <1>6. OneAnswer'
    BY <1>3 DEF Quiet, OneAnswer, last
  <1>7. Progress'
    BY <1>3 DEF Quiet, Progress, last
  <1> QED
    BY <1>4, <1>5, <1>6, <1>7 DEF Quiet

\* An acknowledgement ends the error, of which there is none.
LEMMA ScanAckQuiet == Quiet /\ ScanAck => Quiet'
  <1> SUFFICES ASSUME Quiet, ScanAck PROVE Quiet'
    OBVIOUS
  <1>1. toClient' = toClient
    BY WrittenItems DEF ScanAck, Take, HandleError, Quiet, Framed
  <1> QED
    BY <1>1, ListenerReads DEF ScanAck, Token, Take, client

\* Asked for it again, the listener writes its last reply, if there is one.
LEMMA ScanNakQuiet == Quiet /\ ScanNak => Quiet'
  <1> SUFFICES ASSUME Quiet, ScanNak PROVE Quiet'
    OBVIOUS
  <1>1. len = 0 /\ Listed(toClient)
    BY DEF Quiet, Framed
  <1>2. HandleError = <<>>
    BY <1>1 DEF HandleError
  <1>3. toClient' = toClient \/ \E text : toClient' = Append(toClient, Reply(text))
    <2>1. CASE packet = None
      BY <1>1, <1>2, <2>1, WrittenItems DEF ScanNak, Take, TransmitPacket
    <2>2. CASE packet # None
      <3>1. TransmitPacket = <<Reply(packet)>>
        BY <2>2 DEF TransmitPacket
      <3>2. <<>> \o <<Reply(packet)>> = <<Reply(packet)>>
        BY <1>1, WrittenItems
      <3>3. toClient \o <<Reply(packet)>> = Append(toClient, Reply(packet))
        BY <1>1, WrittenItems
      <3> QED
        BY <1>2, <3>1, <3>2, <3>3 DEF ScanNak, Take
    <2> QED
      BY <2>1, <2>2
  <1> QED
    BY <1>3, ListenerReads DEF ScanNak, Token, Take, client

\* There is no noise to be read.
LEMMA ScanNoiseQuiet == Quiet /\ ScanNoise => Quiet'
  <1> SUFFICES ASSUME Quiet, ScanNoise PROVE FALSE
    OBVIOUS
  <1>1. ServerItem(Head(toServer))
    BY ServerReads DEF Quiet, ScanNoise, Token
  <1> QED
    BY <1>1 DEF ServerItem, IsItem, ScanNoise, Token

\* A packet read is the last call, and is acknowledged or asked for again.
LEMMA ScanPacketQuiet == Quiet /\ ScanPacket => Quiet'
  <1> SUFFICES ASSUME Quiet, ScanPacket PROVE Quiet'
    OBVIOUS
  <1>1. /\ Listed(toServer')
        /\ \A i \in DOMAIN toServer' : /\ ServerItem(toServer'[i])
                                       /\ toServer'[i].type # "packet"
        /\ Head(toServer) = toServer[1] /\ 1 \in DOMAIN toServer
    BY ServerReads DEF Quiet, ScanPacket, Token, Take
  <1>2. Listed(toClient) /\ (\A i \in DOMAIN toClient : ClientItem(toClient[i])) /\ len = 0
    BY DEF Quiet, Framed, ClientItem
  <1>3. /\ toServer[1].id = last /\ served = last - 1
        /\ phase = "unacked" /\ at = "scan" /\ Answers = {}
    BY <1>1 DEF Quiet, OnePacket, ScanPacket, Token
  <1>4. UNCHANGED <<served, phase, calls>> /\ len' = 0
    BY DEF ScanPacket, client
  <1>5. last \in Nat /\ served \in Nat /\ Len(toClient) \in Nat
    BY <1>2 DEF Quiet, Progress, Listed
  <1>6. HandleError \o <<Ack>> = <<Ack>> /\ HandleError \o <<Nak>> = <<Nak>>
    BY <1>2, WrittenItems DEF HandleError
  <1>7. CASE Head(toServer).good
    <2>1. toClient' = Append(toClient, Ack) /\ cmd' = Head(toServer) /\ at' = "handle"
      BY <1>2, <1>6, <1>7, WrittenItems DEF ScanPacket, Take
    <2>2. /\ Listed(toClient') /\ Len(toClient') = Len(toClient) + 1
          /\ \A i \in DOMAIN toClient' : ClientItem(toClient'[i])
          /\ Answers' = {Len(toClient) + 1}
          /\ toClient'[Len(toClient) + 1] = Ack
      BY <1>2, <1>3, <2>1, AnswerWritten DEF Answers
    <2>3. Ack.type = "ack"
      BY DEF Ack
    <2>4. Framed'
      BY <1>1, <1>4, <2>2 DEF Framed, ServerItem, ClientItem
    <2>5. OnePacket'
      BY <1>1 DEF OnePacket
    <2>6. OneAnswer'
      BY <1>3, <1>4, <2>1, <2>2, <2>3 DEF OneAnswer
    <2>7. Progress'
      BY <1>1, <1>3, <1>4, <1>5, <2>1, <2>2, <2>3 DEF Progress, last
    <2> QED
      BY <2>4, <2>5, <2>6, <2>7 DEF Quiet
  <1>8. CASE ~Head(toServer).good
    <2>1. toClient' = Append(toClient, Nak) /\ UNCHANGED <<cmd, at>>
      BY <1>2, <1>6, <1>8, WrittenItems DEF ScanPacket, Take
    <2>2. /\ Listed(toClient')
          /\ \A i \in DOMAIN toClient' : ClientItem(toClient'[i])
          /\ Answers' = {Len(toClient) + 1}
          /\ toClient'[Len(toClient) + 1] = Nak
      BY <1>2, <1>3, <2>1, AnswerWritten DEF Answers
    <2>3. Nak.type = "nak"
      BY DEF Nak
    <2>4. Framed'
      BY <1>1, <1>4, <2>2 DEF Framed, ServerItem, ClientItem
    <2>5. OnePacket'
      BY <1>1 DEF OnePacket
    <2>6. OneAnswer'
      BY <1>3, <1>4, <2>1, <2>2, <2>3 DEF OneAnswer, last
    <2>7. Progress'
      BY <1>3, <1>4, <1>5, <2>1 DEF Progress, last
    <2> QED
      BY <2>4, <2>5, <2>6, <2>7 DEF Quiet
  <1> QED
    BY <1>7, <1>8

\* The reply comes after the acknowledgement, and the call is executed.
LEMMA HandleQuiet == Quiet /\ Handle => Quiet'
  <1> SUFFICES ASSUME Quiet, Handle PROVE Quiet'
    OBVIOUS
  <1>1. /\ at = "handle" /\ served' = cmd.id /\ at' = "scan"
        /\ toClient' = Append(toClient, Reply(packet'))
        /\ UNCHANGED <<cmd, len, toServer, phase, calls>>
    BY DEF Handle, client
  <1>2. Listed(toClient) /\ \A i \in DOMAIN toClient : ClientItem(toClient[i])
    BY DEF Quiet, Framed, ClientItem
  <1>3. /\ Listed(toClient')
        /\ \A i \in DOMAIN toClient' : ClientItem(toClient'[i])
        /\ Answers' = Answers
        /\ \A i \in Answers : toClient'[i] = toClient[i]
    BY <1>1, <1>2, ReplyWritten DEF Answers
  <1>4. cmd.id = last /\ served' = last /\ phase \in {"unacked", "waiting"} /\ last \in Nat
    BY <1>1 DEF Quiet, Progress
  <1>5. Framed'
    BY <1>1, <1>3 DEF Quiet, Framed, ClientItem
  <1>6. OnePacket'
    BY <1>1 DEF Quiet, OnePacket
  <1>7. OneAnswer'
    BY <1>1, <1>3, <1>4 DEF Quiet, OneAnswer, last
  <1>8. Progress'
    BY <1>1, <1>3, <1>4 DEF Quiet, Progress, last
  <1> QED
    BY <1>5, <1>6, <1>7, <1>8 DEF Quiet

\* The end of the connection is read when there is nothing else.
LEMMA ScanEofQuiet == Quiet /\ ScanEof => Quiet'
  <1> SUFFICES ASSUME Quiet, ScanEof PROVE Quiet'
    OBVIOUS
  <1>1. UNCHANGED <<cmd, served, toServer, phase, calls>> /\ len' = 0 /\ phase = "closed"
    BY DEF ScanEof, client
  <1>2. at' = "done" /\ toServer = <<>> /\ toClient' = toClient
    BY WrittenItems DEF ScanEof, HandleError, Quiet, Framed
  <1>3. Framed'
    BY <1>1, <1>2 DEF Quiet, Framed
  <1>4. OnePacket'
    BY <1>1, <1>2 DEF Quiet, OnePacket
  <1>5. OneAnswer'
    BY <1>1, <1>2 DEF Quiet, OneAnswer, Answers
  <1>6. Progress'
    BY <1>1, <1>2 DEF Quiet, Progress, last
  <1> QED
    BY <1>3, <1>4, <1>5, <1>6 DEF Quiet

-----------------------------------------------------------------------------
(* The steps of gdb. *)

\* A packet sent when there is none is the only one.
LEMMA PacketSent ==
  ASSUME Framed, \A i \in DOMAIN toServer : toServer[i].type # "packet",
         NEW op, toServer' = Append(toServer, Request(last', op)),
         served' = last' - 1, phase' = "unacked", at' = "scan", Answers' = {}
  PROVE  /\ Listed(toServer') /\ \A i \in DOMAIN toServer' : ServerItem(toServer'[i])
         /\ OnePacket'
  <1> DEFINE e == Request(last', op)
  <1>1. e.type = "packet" /\ e.id = last' /\ ServerItem(e)
    BY DEF Request, ServerItem, IsItem
  <1> HIDE DEF e
  <1>2. /\ Listed(toServer') /\ DOMAIN toServer' = DOMAIN toServer \cup {Len(toServer) + 1}
        /\ \A i \in DOMAIN toServer' : ServerItem(toServer'[i])
        /\ \A i \in DOMAIN toServer : toServer'[i] = toServer[i]
        /\ toServer'[Len(toServer) + 1] = e
    <2>1. toServer' = Append(toServer, e)
      BY DEF e
    <2> QED
      BY <1>1, <2>1, ServerSent
  <1> QED
    BY <1>1, <1>2 DEF OnePacket

\* Any other item sent adds no packet.
LEMMA AnswerSent ==
  ASSUME Framed, NEW e, ServerItem(e), e.type # "packet", toServer' = Append(toServer, e)
  PROVE  /\ Listed(toServer') /\ \A i \in DOMAIN toServer' : ServerItem(toServer'[i])
         /\ \A i \in DOMAIN toServer' : toServer'[i].type = "packet" =>
              i \in DOMAIN toServer /\ toServer'[i] = toServer[i]
  <1>1. Listed(toServer) /\ \A i \in DOMAIN toServer : ServerItem(toServer[i])
    BY DEF Framed, ServerItem
  <1>2. DOMAIN toServer = 1 .. Len(toServer) /\ Len(toServer) \in Nat
    BY <1>1 DEF Listed
  <1>3. /\ Listed(toServer') /\ DOMAIN toServer' = DOMAIN toServer \cup {Len(toServer) + 1}
        /\ \A i \in DOMAIN toServer' : ServerItem(toServer'[i])
        /\ \A i \in DOMAIN toServer : toServer'[i] = toServer[i]
        /\ toServer'[Len(toServer) + 1] = e
    BY <1>1, <1>2, AppendItem
  <1> QED
    BY <1>3

\* The acknowledgements of gdb are no packets.
LEMMA AnswerItems ==
  /\ ServerItem(Ack) /\ Ack.type # "packet"
  /\ ServerItem(Nak) /\ Nak.type # "packet"
  BY DEF ServerItem, IsItem, Ack, Nak

\* A call is made when nothing of the last is under way.
LEMMA CallQuiet == Quiet /\ Call => Quiet'
  <1> SUFFICES ASSUME Quiet, Call PROVE Quiet'
    OBVIOUS
  <1>1. /\ phase = "idle" /\ phase' = "unacked"
        /\ UNCHANGED <<at, cmd, len, served, toClient>>
    BY DEF Call, server
  <1>2. PICK s \in Sessions : Len(calls) < Len(s) /\ calls' = SubSeq(s, 1, Len(calls) + 1)
    BY DEF Call
  <1>3. last \in Nat /\ served \in Nat /\ served = last /\ at = "scan"
    BY <1>1 DEF Quiet, Progress
  <1>4. last' = last + 1
    <2>1. s \in Seq(Op)
      BY LinkAssumption
    <2> QED
      BY <1>2, <1>3, <2>1 DEF last
  <1>5. Answers = {} /\ Answers' = {}
    BY <1>1 DEF Quiet, OneAnswer, Answers
  <1>6. \A i \in DOMAIN toServer : toServer[i].type # "packet"
    BY <1>1 DEF Quiet, OnePacket
  <1>7. toServer' = Append(toServer, Request(last', calls'[Len(calls')]))
    BY DEF Call, Send, last
  <1>8. /\ Listed(toServer') /\ \A i \in DOMAIN toServer' : ServerItem(toServer'[i])
        /\ OnePacket'
    BY <1>1, <1>3, <1>4, <1>5, <1>6, <1>7, PacketSent DEF Quiet
  <1>9. Framed'
    BY <1>1, <1>8 DEF Quiet, Framed, ServerItem
  <1>10. OneAnswer'
    BY <1>5 DEF OneAnswer
  <1>11. Progress'
    BY <1>1, <1>3, <1>4 DEF Progress
  <1> QED
    BY <1>8, <1>9, <1>10, <1>11 DEF Quiet

\* The acknowledgement of the call makes gdb wait, a request to send again is
\* answered, an older reply is dropped.
LEMMA UnackedQuiet == Quiet /\ Unacked => Quiet'
  <1> SUFFICES ASSUME Quiet, Unacked PROVE Quiet'
    OBVIOUS
  <1>1. /\ phase = "unacked" /\ toClient # <<>> /\ toClient' = Tail(toClient)
        /\ UNCHANGED <<at, cmd, len, served, calls>> /\ last' = last
    BY DEF Unacked, Drop, server, last
  <1>2. /\ Listed(toClient') /\ Len(toClient') = Len(toClient) - 1 /\ Len(toClient) \in Nat
        /\ \A i \in DOMAIN toClient' : ClientItem(toClient'[i])
        /\ \A i \in DOMAIN toClient' : toClient'[i] = toClient[i + 1]
        /\ Answers' = {i \in 1 .. Len(toClient) - 1 : i + 1 \in Answers}
        /\ Head(toClient) = toClient[1]
        /\ Head(toClient).type \in {"ack", "nak"} <=> 1 \in Answers
    <2>1. Framed /\ Len(toClient) \in Nat
      BY DEF Quiet, Framed, Listed
    <2>2. Answers' = AnswersIn(toClient')
      BY DEF Answers
    <2> QED
      BY <1>1, <2>1, <2>2, ClientReads
  <1>3. last \in Nat /\ served \in Nat /\ Answers \subseteq Int
    BY DEF Quiet, Progress, Framed, Listed, Answers, AnswersIn
  <1>4. CASE Arrives("ack") /\ phase' = "waiting" /\ UNCHANGED toServer
    <2>1. 1 \in Answers /\ toClient[1].type = "ack"
      BY <1>2, <1>4 DEF Arrives
    <2>2. Answers' = {}
      BY <1>2, <1>3, <2>1 DEF Quiet, OneAnswer
    <2>3. \A i \in DOMAIN toServer : toServer[i].type # "packet"
      BY <2>1 DEF Quiet, OnePacket
    <2>4. Framed'
      BY <1>1, <1>2, <1>4 DEF Quiet, Framed, ClientItem
    <2>5. OnePacket' /\ OneAnswer'
      BY <1>4, <2>2, <2>3 DEF OnePacket, OneAnswer
    <2>6. \/ at = "handle" /\ 1 = Len(toClient)
          \/ at = "scan" /\ served = last
      BY <2>1 DEF Quiet, OneAnswer
    <2>7. 1 = Len(toClient) => toClient' = <<>>
      <3>1. Listed(toClient') /\ (1 = Len(toClient) => Len(toClient') = 0)
        BY <1>2
      <3> QED
        BY <3>1, NoItem, Zenon
    <2>8. Progress'
      BY <1>1, <1>3, <1>4, <2>6, <2>7 DEF Quiet, Progress
    <2> QED
      BY <2>4, <2>5, <2>8 DEF Quiet
  <1>5. CASE Arrives("nak") /\ Resend /\ UNCHANGED phase
    <2>1. 1 \in Answers /\ toClient[1].type = "nak"
      BY <1>2, <1>5 DEF Arrives
    <2>2. Answers' = {} /\ served = last - 1 /\ at = "scan"
      BY <1>2, <1>3, <2>1 DEF Quiet, OneAnswer
    <2>3. \A i \in DOMAIN toServer : toServer[i].type # "packet"
      BY <2>1 DEF Quiet, OnePacket
    <2>4. toServer' = Append(toServer, Request(last', calls[Len(calls)]))
      BY <1>1, <1>5 DEF Resend, Send, last
    <2>5. /\ Listed(toServer') /\ \A i \in DOMAIN toServer' : ServerItem(toServer'[i])
          /\ OnePacket'
      BY <1>1, <1>5, <2>2, <2>3, <2>4, PacketSent DEF Quiet
    <2>6. Framed'
      BY <1>1, <1>2, <2>5 DEF Quiet, Framed, ServerItem, ClientItem
    <2>7. OneAnswer'
      BY <2>2 DEF OneAnswer
    <2>8. Progress'
      BY <1>1, <1>3, <1>5, <2>2 DEF Progress
    <2> QED
      BY <2>5, <2>6, <2>7, <2>8 DEF Quiet
  <1>6. CASE Arrives("reply") /\ Send(Ack) /\ UNCHANGED phase
    <2>1. 1 \notin Answers
      BY <1>2, <1>6 DEF Arrives
    <2>2. /\ Listed(toServer') /\ \A i \in DOMAIN toServer' : ServerItem(toServer'[i])
          /\ \A i \in DOMAIN toServer' : toServer'[i].type = "packet" =>
               i \in DOMAIN toServer /\ toServer'[i] = toServer[i]
      BY <1>6, AnswerItems, AnswerSent DEF Quiet, Send
    <2>3. \A i \in Answers : i - 1 \in Answers' /\ toClient'[i - 1] = toClient[i]
      <3> TAKE i \in Answers
      <3>1. i \in 2 .. Len(toClient)
        BY <1>2, <2>1 DEF Quiet, Framed, Listed, Answers, AnswersIn
      <3>2. i - 1 \in 1 .. Len(toClient) - 1 /\ (i - 1) + 1 = i
        BY <1>2, <3>1
      <3>3. i - 1 \in Answers'
        BY <1>2, <3>2
      <3> QED
        BY <1>2, <3>2, <3>3 DEF Answers, AnswersIn
    <2>4. \A i \in Answers' : i + 1 \in Answers /\ toClient'[i] = toClient[i + 1] /\ i \in Int
      BY <1>2 DEF Answers, AnswersIn
    <2>5. Framed'
      BY <1>1, <1>2, <2>2 DEF Quiet, Framed, ServerItem, ClientItem
    <2>6. OnePacket'
      <3>1. Answers = {} => Answers' = {}
        BY <2>4
      <3> QED
        BY <1>1, <1>6, <2>2, <3>1 DEF Quiet, OnePacket
    <2>7. OneAnswer'
      <3> SUFFICES ASSUME NEW i \in Answers'
                   PROVE  /\ phase' = "unacked"
                          /\ \A j \in Answers' : j = i
                          /\ toClient'[i].type = "nak" => served' = last' - 1 /\ at' = "scan"
                          /\ toClient'[i].type = "ack" => \/ at' = "handle" /\ i = Len(toClient')
                                                          \/ at' = "scan" /\ served' = last'
        BY DEF OneAnswer
      <3>1. \A j \in Answers' : j = i
        <4> TAKE j \in Answers'
        <4>1. j + 1 = i + 1
          BY <2>4 DEF Quiet, OneAnswer
        <4> QED
          BY <2>4, <4>1
      <3>2. toClient'[i].type = "nak" => served' = last' - 1 /\ at' = "scan"
        BY <1>1, <2>4 DEF Quiet, OneAnswer
      <3>3. toClient'[i].type = "ack" => \/ at = "handle" /\ i + 1 = Len(toClient)
                                         \/ at = "scan" /\ served = last
        BY <2>4 DEF Quiet, OneAnswer
      <3>4. i + 1 = Len(toClient) => i = Len(toClient')
        BY <1>2, <2>4
      <3> QED
        BY <1>1, <1>6, <3>1, <3>2, <3>3, <3>4
    <2>8. Progress'
      <3>1. (at = "handle" \/ served = last) => \E i \in Answers' : toClient'[i].type = "ack"
        BY <1>1, <2>3 DEF Quiet, Progress
      <3> QED
        BY <1>1, <1>6, <3>1 DEF Quiet, Progress
    <2> QED
      BY <2>5, <2>6, <2>7, <2>8 DEF Quiet
  <1> QED
    BY <1>4, <1>5, <1>6 DEF Unacked

\* When gdb waits for the reply there is no acknowledgement left to be read.
LEMMA WaitingQuiet == Quiet /\ Waiting => Quiet'
  <1> SUFFICES ASSUME Quiet, Waiting PROVE Quiet'
    OBVIOUS
  <1>1. /\ phase = "waiting" /\ toClient # <<>> /\ toClient' = Tail(toClient)
        /\ UNCHANGED <<at, cmd, len, served, calls>> /\ last' = last
    BY DEF Waiting, Drop, server, last
  <1>2. /\ Listed(toClient')
        /\ \A i \in DOMAIN toClient' : ClientItem(toClient'[i])
        /\ Answers' = {i \in 1 .. Len(toClient) - 1 : i + 1 \in Answers}
        /\ Head(toClient).type \in {"ack", "nak"} <=> 1 \in Answers
        /\ ClientItem(Head(toClient))
    <2>1. Framed /\ \A i \in DOMAIN toClient : ClientItem(toClient[i])
      BY DEF Quiet, Framed, ClientItem
    <2>2. Answers' = AnswersIn(toClient')
      BY DEF Answers
    <2> QED
      BY <1>1, <2>1, <2>2, ClientReads
  <1>3. Answers = {} /\ Answers' = {}
    BY <1>1, <1>2 DEF Quiet, OneAnswer
  <1>4. Head(toClient).type = "reply"
    BY <1>2, <1>3 DEF ClientItem, IsItem
  <1>5. at = "scan" /\ served = last /\ last \in Nat
    BY <1>1 DEF Quiet, Progress
  <1>6. \A i \in DOMAIN toServer : toServer[i].type # "packet"
    BY <1>1 DEF Quiet, OnePacket
  <1>7. phase' \in {"idle", "waiting"} /\ \E e \in {Ack, Nak} : toServer' = Append(toServer, e)
    BY <1>1, <1>4 DEF Waiting, Arrives, Send
  <1>8. /\ Listed(toServer') /\ \A i \in DOMAIN toServer' : ServerItem(toServer'[i])
        /\ \A i \in DOMAIN toServer' : toServer'[i].type # "packet"
    <2>1. PICK e \in {Ack, Nak} : toServer' = Append(toServer, e)
      BY <1>7
    <2>2. /\ Listed(toServer') /\ \A i \in DOMAIN toServer' : ServerItem(toServer'[i])
          /\ \A i \in DOMAIN toServer' : toServer'[i].type = "packet" =>
               i \in DOMAIN toServer /\ toServer'[i] = toServer[i]
      BY <2>1, AnswerItems, AnswerSent DEF Quiet
    <2> QED
      BY <1>6, <2>2
  <1>9. Framed'
    BY <1>1, <1>2, <1>8 DEF Quiet, Framed, ServerItem, ClientItem
  <1>10. OnePacket' /\ OneAnswer'
    BY <1>3, <1>8 DEF OnePacket, OneAnswer
  <1>11. Progress'
    BY <1>1, <1>5, <1>7 DEF Progress
  <1> QED
    BY <1>9, <1>10, <1>11 DEF Quiet

\* With nothing under way a call not acknowledged has not been executed.
LEMMA TimeoutQuiet == Quiet /\ Timeout => Quiet'
  <1> SUFFICES ASSUME Quiet, Timeout PROVE Quiet'
    OBVIOUS
  <1>1. /\ toServer = <<>> /\ toClient = <<>> /\ at = "scan"
        /\ UNCHANGED <<at, cmd, len, served, toClient, phase, calls>> /\ last' = last
    BY DEF Timeout, server, client, last
  <1>2. /\ DOMAIN toServer = {} /\ DOMAIN toClient = {}
        /\ Answers = {} /\ Answers' = {}
    BY <1>1 DEF Answers, AnswersIn
  <1>3. last \in Nat /\ served \in Nat
    BY DEF Quiet, Progress
  <1>4. CASE phase = "unacked" /\ Resend
    <2>1. served = last - 1
      BY <1>1, <1>2, <1>4 DEF Quiet, Progress
    <2>2. toServer' = Append(toServer, Request(last', calls[Len(calls)]))
      BY <1>1, <1>4 DEF Resend, Send, last
    <2>3. /\ Listed(toServer') /\ \A i \in DOMAIN toServer' : ServerItem(toServer'[i])
          /\ OnePacket'
      BY <1>1, <1>2, <1>4, <2>1, <2>2, PacketSent DEF Quiet
    <2>4. Framed' /\ OneAnswer'
      BY <1>1, <1>2, <2>3 DEF Quiet, Framed, OneAnswer, ServerItem
    <2>5. Progress'
      BY <1>1, <1>3, <1>4, <2>1 DEF Progress
    <2> QED
      BY <2>3, <2>4, <2>5 DEF Quiet
  <1>5. CASE phase = "waiting" /\ Send(Nak)
    <2>1. served = last
      BY <1>1, <1>5 DEF Quiet, Progress
    <2>2. /\ Listed(toServer') /\ \A i \in DOMAIN toServer' : ServerItem(toServer'[i])
          /\ \A i \in DOMAIN toServer' : toServer'[i].type = "packet" =>
               i \in DOMAIN toServer /\ toServer'[i] = toServer[i]
      BY <1>5, AnswerItems, AnswerSent DEF Quiet, Send
    <2>3. Framed' /\ OneAnswer' /\ OnePacket'
      BY <1>1, <1>2, <2>2 DEF Quiet, Framed, OneAnswer, OnePacket, ServerItem
    <2>4. Progress'
      BY <1>1, <1>3, <1>5, <2>1 DEF Progress
    <2> QED
      BY <2>3, <2>4 DEF Quiet
  <1> QED
    BY <1>4, <1>5 DEF Timeout

\* gdb leaves when nothing of a call is under way.
LEMMA CloseQuiet == Quiet /\ Close => Quiet'
  <1> SUFFICES ASSUME Quiet, Close PROVE Quiet'
    OBVIOUS
  <1>1. /\ phase = "idle" /\ phase' = "closed"
        /\ UNCHANGED <<at, cmd, len, served, toServer, toClient, calls>>
    BY DEF Close, server
  <1>2. Framed'
    BY <1>1 DEF Quiet, Framed
  <1>3. OnePacket' /\ OneAnswer'
    BY <1>1 DEF Quiet, OnePacket, OneAnswer, Answers
  <1>4. Progress'
    BY <1>1 DEF Quiet, Progress, last
  <1> QED
    BY <1>2, <1>3, <1>4 DEF Quiet

-----------------------------------------------------------------------------
(* The faults that leave the framing. *)

\* One item of a list becomes another, the others stay.
Changed(s, l, i, e) ==
  /\ Listed(l) /\ Len(l) = Len(s) /\ DOMAIN l = DOMAIN s
  /\ \A j \in DOMAIN s : l[j] = IF j = i THEN e ELSE s[j]

\* An EXCEPT on a list is such a change.
LEMMA ChangedItem ==
  ASSUME NEW s, Listed(s), NEW i \in DOMAIN s, NEW e
  PROVE  Changed(s, [s EXCEPT ![i] = e], i, e)
  <1> DEFINE S == {s[k] : k \in 1 .. Len(s)} \cup {e}
             l == [s EXCEPT ![i] = e]
  <1>1. s \in Seq(S) /\ e \in S
    BY ListedSeq
  <1> HIDE DEF S
  <1>2. DOMAIN s = 1 .. Len(s) /\ Len(s) \in Nat
    BY DEF Listed
  <1>3. l \in Seq(S) /\ Len(l) = Len(s) /\ DOMAIN l = DOMAIN s
    BY <1>1, <1>2
  <1>4. \A j \in DOMAIN s : l[j] = IF j = i THEN e ELSE s[j]
    OBVIOUS
  <1> QED
    BY <1>3, <1>4, SeqListed DEF Changed

\* A body damaged, or an acknowledgement added, on the way to the listener.
LEMMA DamageQuiet == Quiet /\ Damage => Quiet'
  <1> SUFFICES ASSUME Quiet, Damage PROVE Quiet'
    OBVIOUS
  <1>1. UNCHANGED <<at, cmd, len, served, phase, calls>> /\ last' = last
    BY DEF Damage, server, client, last
  <1>2. /\ Listed(toServer) /\ Listed(toClient)
        /\ \A i \in DOMAIN toServer : ServerItem(toServer[i])
        /\ \A i \in DOMAIN toClient : ClientItem(toClient[i])
    BY DEF Quiet, Framed, ServerItem, ClientItem
  <1>3. CASE \E i \in DOMAIN toServer :
               /\ toServer[i].type = "packet"
               /\ toServer' = [toServer EXCEPT ![i].good = FALSE, ![i].kind = "z"]
               /\ UNCHANGED toClient
    <2>1. PICK i \in DOMAIN toServer :
            /\ toServer[i].type = "packet"
            /\ toServer' = [toServer EXCEPT ![i].good = FALSE, ![i].kind = "z"]
            /\ UNCHANGED toClient
      BY <1>3
    <2> DEFINE e == [toServer[i] EXCEPT !.good = FALSE, !.kind = "z"]
    <2>2. toServer' = [toServer EXCEPT ![i] = e]
      BY <2>1
    <2>3. e.type = "packet" /\ e.id = toServer[i].id /\ ServerItem(e)
      BY <1>2, <2>1 DEF ServerItem, IsItem
    <2> HIDE DEF e
    <2>4. Changed(toServer, toServer', i, e)
      <3>1. Changed(toServer, [toServer EXCEPT ![i] = e], i, e)
        BY <1>2, ChangedItem, Zenon
      <3> QED
        BY <2>2, <3>1, Zenon
    <2>5. \A j \in DOMAIN toServer' :
            /\ ServerItem(toServer'[j])
            /\ toServer'[j].type = toServer[j].type
            /\ toServer'[j].type = "packet" => toServer'[j].id = toServer[j].id
      BY <1>2, <2>1, <2>3, <2>4 DEF Changed
    <2>6. Framed'
      BY <1>1, <1>2, <2>1, <2>4, <2>5 DEF Quiet, Framed, ServerItem, Changed
    <2>7. OnePacket'
      BY <1>1, <2>1, <2>4, <2>5 DEF Quiet, OnePacket, Answers, Changed
    <2>8. OneAnswer'
      BY <1>1, <2>1 DEF Quiet, OneAnswer, Answers
    <2>9. Progress'
      BY <1>1, <2>1 DEF Quiet, Progress, Answers
    <2> QED
      BY <2>6, <2>7, <2>8, <2>9 DEF Quiet
  <1>4. CASE \E i \in DOMAIN toClient :
               /\ toClient[i].type = "reply"
               /\ toClient' = [toClient EXCEPT ![i].good = FALSE, ![i].text = <<"">>]
               /\ UNCHANGED toServer
    <2>1. PICK i \in DOMAIN toClient :
            /\ toClient[i].type = "reply"
            /\ toClient' = [toClient EXCEPT ![i].good = FALSE, ![i].text = <<"">>]
            /\ UNCHANGED toServer
      BY <1>4
    <2> DEFINE e == [toClient[i] EXCEPT !.good = FALSE, !.text = <<"">>]
    <2>2. toClient' = [toClient EXCEPT ![i] = e]
      BY <2>1
    <2>3. e.type = "reply" /\ ClientItem(e)
      BY <1>2, <2>1 DEF ClientItem, IsItem
    <2> HIDE DEF e
    <2>4. Changed(toClient, toClient', i, e)
      <3>1. Changed(toClient, [toClient EXCEPT ![i] = e], i, e)
        BY <1>2, ChangedItem, Zenon
      <3> QED
        BY <2>2, <3>1, Zenon
    <2>5. \A j \in DOMAIN toClient' :
            /\ ClientItem(toClient'[j])
            /\ toClient'[j].type = toClient[j].type
      BY <1>2, <2>1, <2>3, <2>4 DEF Changed
    <2>6. Answers' = Answers /\ \A j \in Answers : toClient'[j].type = toClient[j].type
      BY <2>4, <2>5 DEF Answers, AnswersIn, Changed
    <2>7. Framed'
      BY <1>1, <1>2, <2>1, <2>4, <2>5 DEF Quiet, Framed, ClientItem, Changed
    <2>8. OnePacket'
      BY <1>1, <2>1, <2>6 DEF Quiet, OnePacket
    <2>9. OneAnswer'
      BY <1>1, <2>4, <2>6 DEF Quiet, OneAnswer, Changed
    <2>10. Progress'
      <3>1. toClient = <<>> => toClient' = <<>>
        BY <2>1
      <3> QED
        BY <1>1, <2>6, <3>1 DEF Quiet, Progress
    <2> QED
      BY <2>7, <2>8, <2>9, <2>10 DEF Quiet
  <1>5. CASE AddAck
    <2>1. PICK k \in 1 .. Len(toServer) + 1, e \in {Ack, Nak} :
            toServer' = With(toServer, k, e) /\ UNCHANGED toClient
      BY <1>5 DEF AddAck
    <2>2. ServerItem(e) /\ e.type # "packet"
      BY AnswerItems
    <2>3. /\ Listed(toServer') /\ DOMAIN toServer' = 1 .. Len(toServer) + 1
          /\ \A i \in 1 .. Len(toServer) + 1 :
               toServer'[i] = IF i < k THEN toServer[i] ELSE IF i = k THEN e ELSE toServer[i - 1]
      BY <1>2, <2>1, InsertItem
    <2> DEFINE from(i) == IF i < k THEN i ELSE i - 1
    <2>4. \A i \in DOMAIN toServer' :
            \/ toServer'[i] = e
            \/ from(i) \in DOMAIN toServer /\ toServer'[i] = toServer[from(i)] /\ i # k
      BY <1>2, <2>3 DEF Listed
    <2>5. \A i, j \in DOMAIN toServer' : i # k /\ j # k /\ from(i) = from(j) => i = j
      BY <2>3
    <2> HIDE DEF from
    <2>6. \A i \in DOMAIN toServer' :
            /\ ServerItem(toServer'[i])
            /\ toServer'[i].type = "packet" =>
                 i # k /\ from(i) \in DOMAIN toServer /\ toServer'[i] = toServer[from(i)]
      BY <1>2, <2>2, <2>4
    <2>7. Framed'
      BY <1>1, <1>2, <2>1, <2>3, <2>6 DEF Quiet, Framed, ServerItem
    <2>8. OnePacket'
      <3> SUFFICES ASSUME NEW i \in DOMAIN toServer', toServer'[i].type = "packet"
                   PROVE  /\ toServer'[i].id = last' /\ served' = last' - 1
                          /\ phase' = "unacked" /\ at' = "scan" /\ Answers' = {}
                          /\ \A j \in DOMAIN toServer' : toServer'[j].type = "packet" => j = i
        BY DEF OnePacket
      <3>1. /\ toServer[from(i)].id = last /\ served = last - 1
            /\ phase = "unacked" /\ at = "scan" /\ Answers = {}
            /\ \A j \in DOMAIN toServer : toServer[j].type = "packet" => j = from(i)
        BY <2>6 DEF Quiet, OnePacket
      <3>2. \A j \in DOMAIN toServer' : toServer'[j].type = "packet" => j = i
        BY <2>5, <2>6, <3>1
      <3> QED
        BY <1>1, <2>1, <2>6, <3>1, <3>2 DEF Answers
    <2>9. OneAnswer'
      BY <1>1, <2>1 DEF Quiet, OneAnswer, Answers
    <2>10. Progress'
      BY <1>1, <2>1 DEF Quiet, Progress, Answers
    <2> QED
      BY <2>7, <2>8, <2>9, <2>10 DEF Quiet
  <1> QED
    BY <1>3, <1>4, <1>5 DEF Damage, DamageBody

-----------------------------------------------------------------------------
(* The theorems. *)

\* The steps that break no framing keep what holds while it holds.
LEMMA QuietNext ==
  Quiet /\ (gdb_scanner \/ gdb \/ Damage \/ Over \/ UNCHANGED vars) => Quiet'
  <1> SUFFICES ASSUME Quiet, gdb_scanner \/ gdb \/ Damage \/ Over \/ UNCHANGED vars
               PROVE  Quiet'
    OBVIOUS
  <1>1. CASE gdb_scanner
    BY <1>1, ScanAckQuiet, ScanNakQuiet, ScanNoiseQuiet, ScanPacketQuiet, HandleQuiet,
       ScanEofQuiet DEF gdb_scanner
  <1>2. CASE gdb
    BY <1>2, CallQuiet, UnackedQuiet, WaitingQuiet, TimeoutQuiet, CloseQuiet DEF gdb
  <1>3. CASE Damage
    BY <1>3, DamageQuiet
  <1>4. CASE UNCHANGED vars
    <2>1. UNCHANGED <<at, cmd, len, served, toServer, toClient, phase, calls>>
      BY <1>4 DEF vars, server, client
    <2>2. Framed'
      BY <2>1 DEF Quiet, Framed
    <2>3. OnePacket' /\ OneAnswer' /\ Progress'
      BY <2>1 DEF Quiet, OnePacket, OneAnswer, Progress, Answers, last
    <2> QED
      BY <2>2, <2>3 DEF Quiet
  <1> QED
    BY <1>1, <1>2, <1>3, <1>4 DEF Over

\* The faults that break the framing are counted, and the others are not.
LEMMA FaultsCounted ==
  ASSUME noiseLeft \in 0 .. MaxNoise, [Next]_vars
  PROVE  \/ noiseLeft' = noiseLeft /\ (gdb_scanner \/ gdb \/ Damage \/ Over \/ UNCHANGED vars)
         \/ noiseLeft' \in 0 .. MaxNoise /\ noiseLeft' < MaxNoise
  <1>1. MaxNoise \in Nat
    BY LinkAssumption
  <1>2. CASE gdb_scanner
    BY <1>2 DEF gdb_scanner, ScanAck, ScanNak, ScanNoise, ScanPacket, Handle, ScanEof, faults
  <1>3. CASE gdb
    BY <1>3 DEF gdb, Call, Unacked, Waiting, Timeout, Close, faults
  <1>4. CASE Damage
    BY <1>4 DEF Damage
  <1>5. CASE Noise
    BY <1>1, <1>5 DEF Noise
  <1>6. CASE Over \/ UNCHANGED vars
    BY <1>6 DEF Over, vars, faults
  <1> QED
    BY <1>2, <1>3, <1>4, <1>5, <1>6 DEF Next, Link

\* The first invariant is inductive.
LEMMA NextInv == IInv /\ [Next]_vars => IInv'
  <1> SUFFICES ASSUME IInv, [Next]_vars PROVE IInv'
    OBVIOUS
  <1>1. noiseLeft \in 0 .. MaxNoise /\ (noiseLeft = MaxNoise => Quiet)
    BY DEF IInv
  <1>2. CASE noiseLeft' = noiseLeft /\ (gdb_scanner \/ gdb \/ Damage \/ Over \/ UNCHANGED vars)
    BY <1>1, <1>2, QuietNext DEF IInv
  <1>3. CASE noiseLeft' \in 0 .. MaxNoise /\ noiseLeft' < MaxNoise
    BY <1>3, LinkAssumption DEF IInv
  <1> QED
    BY <1>1, <1>2, <1>3, FaultsCounted

\* As long as the framing holds there is one packet under way at most, it is
\* the call gdb waits for, and one acknowledgement at most, that of its packet.
THEOREM Lockstep == Spec => []IInv
  <1> QED
    BY InitInv, NextInv, PTL DEF Spec

\* What gdb sends again, because it was asked to or has waited too long, has
\* not been executed by the listener.
THEOREM ExecutedOnce == Spec => []SentAgainUnexecuted
  <1>1. IInv => SentAgainUnexecuted
    <2> SUFFICES ASSUME IInv, ~noisy,
                        NEW i \in DOMAIN toServer, toServer[i].type = "packet"
                 PROVE  toServer[i].id > served /\ at = "scan"
      BY DEF SentAgainUnexecuted
    <2>1. Quiet
      BY LinkAssumption DEF IInv, noisy
    <2>2. toServer[i].id = last /\ served = last - 1 /\ at = "scan" /\ last \in Nat
      BY <2>1 DEF Quiet, OnePacket, Progress
    <2> QED
      BY <2>2
  <1> QED
    BY <1>1, Lockstep, PTL

-----------------------------------------------------------------------------
(* Words as the text of their bytes. *)

\* A word is made of its four digits.
LEMMA DigitsOfWord ==
  ASSUME NEW v \in Word
  PROVE  LET d(k) == (v \div Weight(k)) % Base
         IN  /\ \A k \in 0 .. 3 : d(k) \in Byte
             /\ v = d(0) + Base * (d(1) + Base * (d(2) + Base * d(3)))
             /\ v = d(0) + d(1) * Weight(1) + d(2) * Weight(2) + d(3) * Weight(3)
  <1> DEFINE b == Base
             a1 == v \div b
             a2 == a1 \div b
             a3 == a2 \div b
             r0 == v % b
             r1 == a1 % b
             r2 == a2 % b
  <1>1. b \in Nat /\ b > 0 /\ v \in 0 .. b * b * b * b - 1 /\ v \in Int
    BY MemoryAssumption DEF Word
  <1>2. a1 \in Int /\ r0 \in 0 .. b - 1 /\ v = b * a1 + r0
    BY <1>1, Division
  <1>3. a2 \in Int /\ r1 \in 0 .. b - 1 /\ a1 = b * a2 + r1
    BY <1>1, <1>2, Division
  <1>4. a3 \in Int /\ r2 \in 0 .. b - 1 /\ a2 = b * a3 + r2
    BY <1>1, <1>3, Division
  <1>w. Weight(0) = 1 /\ Weight(1) = b /\ Weight(2) = b * b /\ Weight(3) = b * b * b
    BY DEF Weight
  <1> DEFINE c2 == b * b
             c3 == b * b * b
  <1>5. v \div c2 = a2
    <2> DEFINE s == b * r1 + r0
    <2>1. v = c2 * a2 + s
      BY <1>1, <1>2, <1>3
    <2>2. b * r1 <= b * (b - 1) /\ b * r1 >= 0
      BY <1>1, <1>3
    <2>3. s \in 0 .. c2 - 1 /\ c2 \in Nat /\ c2 > 0
      BY <1>1, <1>2, <1>3, <2>2
    <2> HIDE DEF s, c2, a2
    <2> QED BY <1>3, <2>1, <2>3, DivisionUnique
  <1>6. v \div c3 = a3
    <2> DEFINE s == b * r1 + r0
               t == c2 * r2 + s
    <2>2. b * r1 <= b * (b - 1) /\ b * r1 >= 0
      BY <1>1, <1>3
    <2>3. s \in 0 .. c2 - 1 /\ c2 \in Nat /\ c2 > 0
      BY <1>1, <1>2, <1>3, <2>2
    <2>4. c2 * r2 <= c2 * (b - 1) /\ c2 * r2 >= 0
      <3> HIDE DEF c2, r2
      <3> QED BY <1>1, <1>4, <2>3
    <2>5. v = c3 * a3 + t
      BY <1>1, <1>2, <1>3, <1>4
    <2>6. c3 = c2 * b /\ c2 * (b - 1) = c2 * b - c2
      BY <1>1
    <2>7. t \in 0 .. c3 - 1 /\ c3 \in Nat /\ c3 > 0
      <3>1. c2 * b \in Nat /\ c2 * b > 0
        BY <1>1
      <3> HIDE DEF c3, s
      <3>2. c2 * r2 \in Int
        BY <1>1, <1>4
      <3> HIDE DEF c2
      <3> QED BY <2>3, <2>4, <2>6, <3>1, <3>2
    <2> HIDE DEF t, c3, a3
    <2> QED BY <1>4, <2>5, <2>7, DivisionUnique
  <1>7. a3 \in 0 .. b - 1
    <2>1. c3 \in Nat /\ c3 > 0 /\ v \in 0 .. c3 * b - 1
      BY <1>1
    <2>2. v = c3 * a3 + (v % c3) /\ v % c3 \in 0 .. c3 - 1
      <3> HIDE DEF c3
      <3> QED BY <1>1, <1>6, <2>1, Division
    <2> HIDE DEF c3, a3
    <2>3. a3 >= b => c3 * a3 >= c3 * b
      BY <1>1, <1>4, <2>1
    <2>4. a3 <= -1 => c3 * a3 <= -c3
      BY <1>1, <1>4, <2>1
    <2> DEFINE x == c3 * a3
               y == c3 * b
    <2>5. x \in Int /\ y \in Int
      BY <1>1, <1>4, <2>1
    <2> HIDE DEF x, y
    <2>6. v = x + (v % c3) /\ v \in 0 .. y - 1
      BY <2>1, <2>2 DEF x, y
    <2>7. ~(a3 >= b) /\ ~(a3 <= -1)
      BY <2>1, <2>2, <2>3, <2>4, <2>5, <2>6 DEF x, y
    <2> QED BY <1>1, <1>4, <2>7
  <1>8. a3 % b = a3
    BY <1>1, <1>7
  <1> DEFINE d(k) == (v \div Weight(k)) % b
  <1>9. d(0) = r0 /\ d(1) = r1 /\ d(2) = r2 /\ d(3) = a3
    <2>1. v \div 1 = v
      BY <1>1
    <2> HIDE DEF a1, a2, a3
    <2> QED BY <1>5, <1>6, <1>8, <1>w, <2>1 DEF a1
  <1>10. \A k \in 0 .. 3 : d(k) \in Byte
    BY <1>2, <1>3, <1>4, <1>7, <1>9 DEF Byte
  <1> HIDE DEF d, a1, a2, a3, r0, r1, r2
  <1>11. v = r0 + b * (r1 + b * (r2 + b * a3))
    <2>1. v = r0 + b * a1
      BY <1>1, <1>2
    <2>2. a1 = r1 + b * a2
      BY <1>1, <1>3
    <2>3. a2 = r2 + b * a3
      BY <1>1, <1>4
    <2> QED BY <2>1, <2>2, <2>3
  <1>12. v = r0 + r1 * Weight(1) + r2 * Weight(2) + a3 * Weight(3)
    BY <1>1, <1>2, <1>3, <1>4, <1>7, <1>w, <1>11
  <1> QED BY <1>9, <1>10, <1>11, <1>12 DEF d, b

\* gdb and the handlers write a word as the same text.
LEMMA SameText == ASSUME NEW v PROVE Bytes(v) = write_uint32(v)
  <1>1. \A k \in 1 .. 4 : (IF BigEndian THEN 4 - k ELSE k - 1) = Place(BigEndian, 4, k - 1)
    BY DEF Place
  <1> QED BY <1>1 DEF Bytes, write_uint32

\* And what is read of the text of a word is the word.
LEMMA TextRead ==
  ASSUME NEW v \in Word
  PROVE  Value(write_uint32(v)) = v /\ read_uint32(write_uint32(v)) = v
  <1> DEFINE d(k) == (v \div Weight(k)) % Base
             text == write_uint32(v)
  <1>1. /\ \A k \in 0 .. 3 : d(k) \in Byte
        /\ v = d(0) + Base * (d(1) + Base * (d(2) + Base * d(3)))
        /\ v = d(0) + d(1) * Weight(1) + d(2) * Weight(2) + d(3) * Weight(3)
    BY DigitsOfWord
  <1>2. \A k \in 1 .. 4 : text[k] = d(Place(BigEndian, 4, k - 1))
    BY DEF write_uint32
  <1>3. \A k \in 0 .. 3 : d(k) \in Int
    BY <1>1 DEF Byte
  <1>4. Weight(0) = 1 /\ \A k \in 0 .. 3 : Weight(k) \in Int
    BY MemoryAssumption DEF Weight
  <1> HIDE DEF d, text
  <1>5. CASE BigEndian
    <2>1. text[1] = d(3) /\ text[2] = d(2) /\ text[3] = d(1) /\ text[4] = d(0)
      BY <1>2, <1>5 DEF Place
    <2>2. Value(text) = v
      BY <1>1, <1>5, <2>1 DEF Value
    <2>3. read_uint32(text) =
            d(3) * Weight(3) + d(2) * Weight(2) + d(1) * Weight(1) + d(0) * Weight(0)
      BY <1>5, <2>1 DEF read_uint32, Place
    <2> QED BY <1>1, <1>3, <1>4, <2>2, <2>3 DEF text
  <1>6. CASE ~BigEndian
    <2>1. text[1] = d(0) /\ text[2] = d(1) /\ text[3] = d(2) /\ text[4] = d(3)
      BY <1>2, <1>6 DEF Place
    <2>2. Value(text) = v
      BY <1>1, <1>6, <2>1 DEF Value
    <2>3. read_uint32(text) =
            d(0) * Weight(0) + d(1) * Weight(1) + d(2) * Weight(2) + d(3) * Weight(3)
      BY <1>6, <2>1 DEF read_uint32, Place
    <2> QED BY <1>1, <1>3, <1>4, <2>2, <2>3 DEF text
  <1> QED BY <1>5, <1>6

-----------------------------------------------------------------------------
(* The pc. *)

\* The pc sent is the pc written, without its bit 1.
LEMMA PcSent ==
  ASSUME NEW r \in RegisterFile
  PROVE  /\ Sent(r, PC) = r[PC] - 2 * Bit(r[PC], 1)
         /\ \A n \in 0 .. 16 : n # PC => Sent(r, n) = r[n]
  <1> DEFINE v == r[PC]
             u == Plus(v, 4)
             quarter == 4 * 2^V
             p == v - 2 * ((v \div 2) % 2)
  <1>1. WordMod = 4 * quarter /\ quarter \in Nat /\ quarter > 0
    BY FlagWeights
  <1>2. v \in Word
    BY DEF RegisterFile, PC
  <1>3. v \in Nat
    <2> HIDE DEF v
    <2> QED BY <1>2, WordConstants
  <1>4. u \in Word /\ u = (v + 4) % WordMod
    BY <1>3, PlusMinusWords DEF Plus
  <1> HIDE DEF u, quarter
  <1>5. u \in Nat
    BY <1>4, WordConstants
  <1>6. Bit(v, 1) = (v \div 2) % 2 /\ Bit(u, 1) = (u \div 2) % 2
    BY DEF Bit
  <1>7. ReadRegister(r, PC) = u - 2 * Bit(u, 1)
    BY DEF ReadRegister, u
  <1> HIDE DEF v
  <1>8. PICK k \in Int : u = (v + 4) + WordMod * k
    <2>1. v + 4 \in Int
      BY <1>3
    <2> DEFINE a == v + 4
    <2> HIDE DEF a
    <2>2. a \in Int
      BY <2>1 DEF a
    <2>3. \E k \in Int : a % WordMod = a + WordMod * k
      BY <2>2, WordResidue, Zenon
    <2> QED BY <1>4, <2>3 DEF a
  <1>9. (u \div 2) % 2 = (v \div 2) % 2
    <2> DEFINE t == quarter * k
    <2>1. t \in Int
      BY <1>1
    <2>2. u = v + 4 * (t + 1)
      BY <1>1, <1>3, <1>8
    <2> HIDE DEF t
    <2> QED BY <1>3, <2>1, <2>2
  <1>10. p \in 0 .. v /\ p \in Int
    BY <1>3
  <1>11. p \in Word
    BY <1>2, <1>3, <1>10, WordFacts
  <1> DEFINE x == (u - 2 * Bit(u, 1)) - 4
  <1>12. x \in Int /\ x = p + WordMod * k
    <2> DEFINE w == WordMod * k
    <2>1. w \in Int
      BY <1>1
    <2> HIDE DEF w
    <2>2. u = (v + 4) + w
      BY <1>8 DEF w
    <2>3. x \in Int /\ x = p + w
      BY <1>3, <1>5, <1>6, <1>9, <2>1, <2>2
    <2> QED BY <2>3 DEF w
  <1> HIDE DEF x, p
  <1>13. x % WordMod = p
    <2>1. x % WordMod = p % WordMod
      BY <1>10, <1>12, WordSame
    <2> QED BY <1>11, <2>1, WordItself
  <1>14. Sent(r, PC) = x % WordMod
    BY <1>7 DEF Sent, Minus, x
  <1> QED BY <1>6, <1>13, <1>14 DEF Sent, p, v

-----------------------------------------------------------------------------
(* The bytes of a binary write. *)

\* What a byte is sent as: itself, or an escape and its twisted form.
Piece(c) == IF c \in Framing THEN <<Escape, Twist(c)>> ELSE <<c>>

\* One character or two, of which the first is an escape or the byte.
LEMMA PieceRead ==
  ASSUME NEW c \in Byte
  PROVE  /\ Piece(c) \in Seq(Int) /\ Len(Piece(c)) \in {1, 2}
         /\ Piece(c)[1] = Escape <=> Len(Piece(c)) = 2
         /\ Len(Piece(c)) = 1 => Piece(c)[1] = c
         /\ Len(Piece(c)) = 2 => Twist(Piece(c)[2]) = c
  <1>1. c \in Int /\ Escape \in Int
    BY MemoryAssumption DEF Byte, Escape
  <1>2. CASE c \in Framing
    <2>1. Piece(c) = <<Escape, Twist(c)>>
      BY <1>2 DEF Piece
    <2>2. c \in {35, 36, 125}
      BY <1>2 DEF Framing, Escape
    <2>3. Twist(35) = 3 /\ Twist(36) = 4 /\ Twist(125) = 93
      BY DEF Twist
    <2>4. Twist(3) = 35 /\ Twist(4) = 36 /\ Twist(93) = 125
      BY DEF Twist
    <2>5. Twist(c) \in Int /\ Twist(Twist(c)) = c
      BY <2>2, <2>3, <2>4
    <2> DEFINE t == Twist(c)
    <2> HIDE DEF t
    <2>6. <<Escape, t>> \in Seq(Int) /\ Len(<<Escape, t>>) = 2
          /\ <<Escape, t>>[1] = Escape /\ <<Escape, t>>[2] = t
      BY <1>1, <2>5 DEF t
    <2> QED BY <2>1, <2>5, <2>6 DEF t
  <1>3. CASE c \notin Framing
    <2>1. Piece(c) = <<c>> /\ c # Escape
      BY <1>3 DEF Piece, Framing
    <2>2. <<c>> \in Seq(Int) /\ Len(<<c>>) = 1 /\ <<c>>[1] = c
      BY <1>1
    <2> QED BY <2>1, <2>2
  <1> QED BY <1>2, <1>3

\* What gdb has written after each byte.
Text(text, data) ==
  /\ text \in [0 .. Len(data) -> Seq(Int)] /\ text[0] = <<>>
  /\ \A k \in 0 .. Len(data) - 1 : text[k + 1] = text[k] \o Piece(data[k + 1])
  /\ Escaped(data) = text[Len(data)]

\* The function Escaped is defined by has such values.
LEMMA EscapedIsText ==
  ASSUME NEW data \in Seq(Byte)
  PROVE  \E text : Text(text, data)
  <1> DEFINE n == Len(data)
             Writes(text) ==
               text = [k \in 0 .. n |->
                         IF k = 0 THEN <<>>
                         ELSE text[k - 1] \o
                                (IF data[k] \in Framing THEN <<Escape, Twist(data[k])>>
                                                        ELSE <<data[k]>>)]
             step == [p \in (0 .. n - 1) \X Seq(Int) |-> p[2] \o Piece(data[p[1] + 1])]
  <1>1. n \in Nat /\ \A k \in 1 .. n : data[k] \in Byte
    BY LenProperties
  <1>2. step \in Loop(n, Seq(Int))
    <2>1. ASSUME NEW k \in 0 .. n - 1, NEW s \in Seq(Int)
          PROVE  s \o Piece(data[k + 1]) \in Seq(Int)
      <3>1. k + 1 \in 1 .. n
        BY <1>1
      <3>2. Piece(data[k + 1]) \in Seq(Int)
        BY <1>1, <3>1, PieceRead
      <3> QED BY <3>2
    <2> HIDE DEF n
    <2> QED BY <2>1 DEF Loop
  <1>3. PICK f : Runs(f, n, Seq(Int), <<>>, step)
    <2>1. <<>> \in Seq(Int)
      OBVIOUS
    <2> HIDE DEF step, n
    <2> QED BY <1>1, <1>2, <2>1, LoopExists
  <1>4. /\ f \in [0 .. n -> Seq(Int)] /\ f[0] = <<>>
        /\ \A k \in 0 .. n - 1 : f[k + 1] = f[k] \o Piece(data[k + 1])
    <2>1. /\ f \in [0 .. n -> Seq(Int)] /\ f[0] = <<>>
          /\ \A k \in 0 .. n - 1 : f[k + 1] = step[<<k, f[k]>>]
      <3> HIDE DEF step, n
      <3> QED BY <1>3 DEF Runs
    <2>2. \A k \in 0 .. n - 1 : f[k] \in Seq(Int)
      BY <1>1, <2>1
    <2> HIDE DEF n
    <2> QED BY <2>1, <2>2
  <1> HIDE DEF step
  <1>5. \A k \in 0 .. n : f[k] = IF k = 0 THEN <<>> ELSE f[k - 1] \o Piece(data[k])
    <2> SUFFICES ASSUME NEW k \in 0 .. n, k # 0 PROVE f[k] = f[k - 1] \o Piece(data[k])
      BY <1>4
    <2>1. k - 1 \in 0 .. n - 1 /\ (k - 1) + 1 = k
      BY <1>1
    <2> HIDE DEF n
    <2> QED BY <1>4, <2>1
  <1>6. f = [k \in 0 .. n |-> IF k = 0 THEN <<>> ELSE f[k - 1] \o Piece(data[k])]
    <2> HIDE DEF n
    <2> QED BY <1>4, <1>5
  <1>7. Writes(f)
    BY <1>6, Zenon DEF Piece
  <1> DEFINE text == CHOOSE text : Writes(text)
  <1>8. Writes(text)
    BY <1>7
  <1>9. Escaped(data) = text[n]
    BY DEF Escaped
  <1> HIDE DEF text
  <1>10. text = [k \in 0 .. n |-> IF k = 0 THEN <<>> ELSE text[k - 1] \o Piece(data[k])]
    BY <1>8, Zenon DEF Piece
  <1>11. text[0] = <<>> /\ \A k \in 0 .. n - 1 : text[k + 1] = text[k] \o Piece(data[k + 1])
    <2> DEFINE p(k) == Piece(data[k])
    <2> HIDE DEF p, n
    <2>1. n \in Nat
      BY <1>1 DEF n
    <2>2. text = [k \in 0 .. n |-> IF k = 0 THEN <<>> ELSE text[k - 1] \o p(k)]
      BY <1>10 DEF p
    <2>3. \A k \in 0 .. n - 1 : text[k + 1] = text[k] \o p(k + 1)
      <3> TAKE k \in 0 .. n - 1
      <3>1. k + 1 \in 0 .. n /\ k + 1 # 0 /\ (k + 1) - 1 = k
        BY <2>1
      <3>2. text[k + 1] = text[(k + 1) - 1] \o p(k + 1)
        BY <2>2, <3>1
      <3> QED BY <3>1, <3>2
    <2> QED BY <2>1, <2>2, <2>3 DEF p
  <1>12. \A k \in 0 .. n : text[k] = f[k]
    <2> DEFINE S == {k \in 0 .. n : text[k] = f[k]}
               g == [k \in 0 .. n |-> k]
    <2>1. 0 \in S
      BY <1>1, <1>4, <1>11
    <2>2. \A k \in 0 .. n - 1 : k \in S => k + 1 \in S
      <3> SUFFICES ASSUME NEW k \in 0 .. n - 1, text[k] = f[k] PROVE text[k + 1] = f[k + 1]
        BY <1>1
      <3> HIDE DEF n
      <3> QED BY <1>4, <1>11
    <2>3. \A k \in 0 .. n : g[k] \in S
      <3>1. g[0] \in S /\ \A k \in 0 .. n - 1 : g[k] \in S => g[k + 1] \in S
        BY <1>1, <2>1, <2>2
      <3> HIDE DEF S, g, n
      <3>2. n \in Nat
        BY <1>1 DEF n
      <3> QED BY <3>1, <3>2, LoopInvariant
    <2> QED BY <2>3
  <1>13. text = f
    <2> HIDE DEF n
    <2>1. text = [k \in 0 .. n |-> text[k]]
      BY <1>10
    <2>2. f = [k \in 0 .. n |-> f[k]]
      BY <1>4
    <2> QED BY <1>12, <2>1, <2>2
  <1> QED BY <1>4, <1>9, <1>13 DEF Text

\* Where the handler begins to read each byte.
LEMMA StartsFollow ==
  ASSUME NEW size \in Nat, size > 0, NEW content
  PROVE  LET starts == Starts(content, size)
         IN  /\ starts[1] = 1
             /\ \A i \in 1 .. size - 1 :
                  starts[i + 1] = starts[i] + (IF content[starts[i]] = Escape THEN 2 ELSE 1)
  <1> DEFINE width(s) == IF content[s] = Escape THEN 2 ELSE 1
             Reads(starts) ==
               starts = [i \in 1 .. size |->
                           IF i = 1 THEN 1
                           ELSE starts[i - 1] +
                                  (IF content[starts[i - 1]] = Escape THEN 2 ELSE 1)]
             step == [p \in (0 .. size - 2) \X Int |-> p[2] + width(p[2])]
             n == size - 1
  <1>1. \A s \in Int : width(s) \in Int
    OBVIOUS
  <1> HIDE DEF width
  <1>2. n \in Nat /\ size - 2 = n - 1
    OBVIOUS
  <1>3. step \in Loop(n, Int)
    BY <1>1, <1>2 DEF Loop
  <1>4. PICK f : Runs(f, n, Int, 1, step)
    <2> DEFINE one == 1
    <2>1. one \in Int
      OBVIOUS
    <2> HIDE DEF step, n, one
    <2>2. \E f : Runs(f, n, Int, one, step)
      BY <1>2, <1>3, <2>1, LoopExists
    <2> QED BY <2>2 DEF one
  <1>5. /\ f \in [0 .. n -> Int] /\ f[0] = 1
        /\ \A k \in 0 .. n - 1 : f[k + 1] = f[k] + width(f[k])
    <2>1. /\ f \in [0 .. n -> Int] /\ f[0] = 1
          /\ \A k \in 0 .. n - 1 : f[k + 1] = step[<<k, f[k]>>]
      <3> HIDE DEF step, n
      <3> QED BY <1>4 DEF Runs
    <2>2. \A k \in 0 .. n - 1 : f[k] \in Int /\ k \in 0 .. size - 2
      BY <1>2, <2>1
    <2> HIDE DEF n
    <2> QED BY <2>1, <2>2
  <1> HIDE DEF step
  <1> DEFINE g == [i \in 1 .. size |-> f[i - 1]]
  <1>6. g = [i \in 1 .. size |-> IF i = 1 THEN 1 ELSE g[i - 1] + width(g[i - 1])]
    <2> SUFFICES ASSUME NEW i \in 1 .. size
                 PROVE  f[i - 1] = IF i = 1 THEN 1 ELSE g[i - 1] + width(g[i - 1])
      OBVIOUS
    <2>1. CASE i = 1
      BY <1>5, <2>1
    <2>2. CASE i # 1
      <3>1. i - 2 \in 0 .. n - 1 /\ (i - 2) + 1 = i - 1 /\ i - 1 \in 1 .. size
            /\ (i - 1) - 1 = i - 2
        BY <2>2
      <3>2. g[i - 1] = f[i - 2]
        BY <3>1
      <3>3. f[i - 1] = f[i - 2] + width(f[i - 2])
        BY <1>5, <3>1
      <3> QED BY <2>2, <3>2, <3>3
    <2> QED BY <2>1, <2>2
  <1>7. Reads(g)
    BY <1>6 DEF width
  <1> DEFINE starts == CHOOSE starts : Reads(starts)
  <1>8. Reads(starts)
    <2> HIDE DEF g
    <2> QED BY <1>7
  <1>9. Starts(content, size) = starts
    BY DEF Starts
  <1> HIDE DEF starts
  <1>10. starts = [i \in 1 .. size |-> IF i = 1 THEN 1 ELSE starts[i - 1] + width(starts[i - 1])]
    BY <1>8 DEF width
  <1>11. starts[1] = 1
    BY <1>10
  <1>12. \A i \in 1 .. size - 1 : starts[i + 1] = starts[i] + width(starts[i])
    <2> TAKE i \in 1 .. size - 1
    <2>1. i + 1 \in 1 .. size /\ i + 1 # 1 /\ (i + 1) - 1 = i
      OBVIOUS
    <2>2. starts[i + 1] = starts[(i + 1) - 1] + width(starts[(i + 1) - 1])
      BY <1>10, <2>1
    <2> QED BY <2>1, <2>2
  <1> QED BY <1>9, <1>11, <1>12 DEF width

\* What the handler stores are the bytes gdb has sent, framing characters included.
LEMMA BytesArrive ==
  ASSUME NEW data \in Seq(Byte), NEW i \in 1 .. Len(data)
  PROVE  Unescaped(Escaped(data), Starts(Escaped(data), Len(data))[i]) = data[i]
  <1> DEFINE n == Len(data)
             content == Escaped(data)
             starts == Starts(content, n)
  <1>1. n \in Nat /\ n > 0 /\ \A k \in 1 .. n : data[k] \in Byte
    BY LenProperties
  <1>2. PICK text : Text(text, data)
    BY EscapedIsText
  <1>3. /\ \A k \in 0 .. n : text[k] \in Seq(Int)
        /\ text[0] = <<>> /\ content = text[n]
        /\ \A k \in 0 .. n - 1 : text[k + 1] = text[k] \o Piece(data[k + 1])
    BY <1>2 DEF Text
  <1>4. /\ starts[1] = 1
        /\ \A k \in 1 .. n - 1 :
             starts[k + 1] = starts[k] + (IF content[starts[k]] = Escape THEN 2 ELSE 1)
    <2> HIDE DEF n, content
    <2> QED BY <1>1, StartsFollow
  <1> HIDE DEF n, content, starts
  \* A byte is sent after those before it.
  <1>5. ASSUME NEW k \in 0 .. n - 1
        PROVE  /\ Len(text[k]) \in Nat
               /\ Piece(data[k + 1]) \in Seq(Int) /\ Len(Piece(data[k + 1])) \in {1, 2}
               /\ text[k + 1] \in Seq(Int)
               /\ Len(text[k + 1]) = Len(text[k]) + Len(Piece(data[k + 1]))
               /\ \A j \in 1 .. Len(text[k]) : text[k + 1][j] = text[k][j]
               /\ \A j \in 1 .. Len(Piece(data[k + 1])) :
                    text[k + 1][Len(text[k]) + j] = Piece(data[k + 1])[j]
    <2> DEFINE s == text[k]
               t == Piece(data[k + 1])
    <2>1. s \in Seq(Int) /\ t \in Seq(Int) /\ Len(t) \in {1, 2} /\ text[k + 1] = s \o t
      <3>1. k \in 0 .. n /\ k + 1 \in 1 .. n
        BY <1>1
      <3> QED BY <1>1, <1>3, <3>1, PieceRead
    <2> HIDE DEF s, t
    <2>2. /\ s \o t \in Seq(Int) /\ Len(s \o t) = Len(s) + Len(t)
          /\ \A j \in 1 .. Len(s) + Len(t) :
               (s \o t)[j] = IF j <= Len(s) THEN s[j] ELSE t[j - Len(s)]
      BY <2>1, ConcatProperties
    <2>3. Len(s) \in Nat /\ Len(t) \in Nat
      BY <2>1, LenProperties
    <2>4. \A j \in 1 .. Len(s) : (s \o t)[j] = s[j]
      BY <2>2, <2>3
    <2>5. \A j \in 1 .. Len(t) : (s \o t)[Len(s) + j] = t[j]
      <3> TAKE j \in 1 .. Len(t)
      <3>1. Len(s) + j \in 1 .. Len(s) + Len(t) /\ ~(Len(s) + j <= Len(s))
            /\ (Len(s) + j) - Len(s) = j
        BY <2>3
      <3> QED BY <2>2, <3>1
    <2> QED BY <2>1, <2>2, <2>3, <2>4, <2>5 DEF s, t
  \* What is sent stays at the beginning.
  <1>6. ASSUME NEW k \in 0 .. n
        PROVE  \A j \in 1 .. Len(text[k]) : content[j] = text[k][j]
    <2> DEFINE d == n - k
               At(e) == \A j \in 1 .. Len(text[k]) :
                          Len(text[k + e]) >= Len(text[k]) /\ text[k + e][j] = text[k][j]
               S == {e \in 0 .. d : At(e)}
               g == [e \in 0 .. d |-> e]
    <2>1. d \in Nat /\ k + d = n /\ k + 0 = k
      BY <1>1
    <2>2. Len(text[k]) \in Nat
      BY <1>3, LenProperties
    <2>3. At(0)
      BY <2>1, <2>2
    <2>4. ASSUME NEW e \in 0 .. d - 1, At(e) PROVE At(e + 1)
      <3> DEFINE m == k + e
      <3>1. m \in 0 .. n - 1 /\ k + (e + 1) = m + 1
        BY <1>1, <2>1
      <3>2. /\ Len(text[m]) \in Nat
            /\ Len(Piece(data[m + 1])) \in {1, 2}
            /\ Len(text[m + 1]) = Len(text[m]) + Len(Piece(data[m + 1]))
            /\ \A j \in 1 .. Len(text[m]) : text[m + 1][j] = text[m][j]
        BY <1>5, <3>1
      <3>3. \A j \in 1 .. Len(text[k]) :
              Len(text[m]) >= Len(text[k]) /\ text[m][j] = text[k][j]
        BY <2>4
      <3> HIDE DEF m
      <3>4. \A j \in 1 .. Len(text[k]) :
              Len(text[m + 1]) >= Len(text[k]) /\ text[m + 1][j] = text[k][j]
        <4> TAKE j \in 1 .. Len(text[k])
        <4>1. Len(text[m]) >= Len(text[k]) /\ text[m][j] = text[k][j]
          BY <3>3
        <4>2. j \in 1 .. Len(text[m]) /\ Len(text[m + 1]) >= Len(text[k])
          <5> DEFINE a == Len(text[k])
                     b == Len(text[m])
                     c == Len(text[m + 1])
                     w == Len(Piece(data[m + 1]))
          <5>1. a \in Nat /\ b \in Nat /\ w \in {1, 2} /\ c = b + w /\ j \in 1 .. a /\ b >= a
            BY <2>2, <3>2, <4>1
          <5> HIDE DEF a, b, c, w
          <5>2. j \in 1 .. b /\ c >= a
            BY <5>1
          <5> QED BY <5>2 DEF a, b, c
        <4> QED BY <3>2, <4>1, <4>2
      <3> QED BY <3>1, <3>4
    <2> HIDE DEF At
    <2>5. g[0] \in S /\ \A e \in 0 .. d - 1 : g[e] \in S => g[e + 1] \in S
      BY <2>1, <2>3, <2>4
    <2>6. \A e \in 0 .. d : g[e] \in S
      <3> HIDE DEF S, g, d
      <3> QED BY <2>1, <2>5, LoopInvariant
    <2>7. At(d)
      BY <2>1, <2>6
    <2> QED BY <1>3, <2>1, <2>7 DEF At
  \* So the handler finds there the character of the byte, or the two.
  <1>7. ASSUME NEW k \in 0 .. n - 1
        PROVE  \A j \in 1 .. Len(Piece(data[k + 1])) :
                 content[Len(text[k]) + j] = Piece(data[k + 1])[j]
    <2> TAKE j \in 1 .. Len(Piece(data[k + 1]))
    <2>1. k + 1 \in 0 .. n
      BY <1>1
    <2>2. Len(text[k]) + j \in 1 .. Len(text[k + 1])
      <3> DEFINE l == Len(text[k])
                 m == Len(text[k + 1])
                 w == Len(Piece(data[k + 1]))
      <3>1. l \in Nat /\ w \in {1, 2} /\ m = l + w /\ j \in 1 .. w
        BY <1>5
      <3> HIDE DEF l, m, w
      <3>2. l + j \in 1 .. m
        BY <3>1
      <3> QED BY <3>2 DEF l, m
    <2> DEFINE x == Len(text[k]) + j
    <2>3. text[k + 1][x] = Piece(data[k + 1])[j]
      BY <1>5
    <2> HIDE DEF x
    <2>4. content[x] = text[k + 1][x]
      <3>1. x \in 1 .. Len(text[k + 1])
        BY <2>2 DEF x
      <3> QED BY <1>6, <2>1, <3>1
    <2> QED BY <2>3, <2>4 DEF x
  <1>8. \A k \in 0 .. n - 1 : starts[k + 1] = Len(text[k]) + 1
    <2> DEFINE S == {k \in 0 .. n - 1 : starts[k + 1] = Len(text[k]) + 1}
               g == [k \in 0 .. n - 1 |-> k]
               m == n - 1
    <2>1. 0 \in S
      <3>1. Len(text[0]) = 0
        BY <1>3
      <3> QED BY <1>1, <1>4, <3>1
    <2>2. ASSUME NEW k \in 0 .. m - 1, starts[k + 1] = Len(text[k]) + 1
          PROVE  starts[(k + 1) + 1] = Len(text[k + 1]) + 1
      <3> DEFINE p == Piece(data[k + 1])
                 l == Len(text[k])
      <3>1. k \in 0 .. n - 1 /\ k + 1 \in 1 .. n - 1 /\ k + 1 \in 1 .. n
        BY <1>1
      <3>2. Len(p) \in {1, 2} /\ (p[1] = Escape <=> Len(p) = 2)
        BY <1>1, <3>1, PieceRead
      <3>3. l \in Nat /\ Len(text[k + 1]) = l + Len(p)
        BY <1>5, <3>1
      <3>4. content[l + 1] = p[1]
        <4>1. 1 \in 1 .. Len(p)
          BY <3>2
        <4> QED BY <1>7, <3>1, <4>1
      <3>5. starts[(k + 1) + 1] = (l + 1) + (IF content[l + 1] = Escape THEN 2 ELSE 1)
        BY <1>4, <2>2, <3>1
      <3> DEFINE x == starts[(k + 1) + 1]
                 y == Len(text[k + 1])
      <3> HIDE DEF p, l, x, y
      <3>6. x = (l + 1) + (IF content[l + 1] = Escape THEN 2 ELSE 1) /\ y = l + Len(p)
        BY <3>3, <3>5 DEF x, y
      <3> DEFINE w == Len(p)
      <3>7. w \in {1, 2} /\ (content[l + 1] = Escape <=> w = 2) /\ l \in Nat /\ y = l + w
        BY <3>2, <3>3, <3>4, <3>6
      <3> HIDE DEF w
      <3>8. x = y + 1
        BY <3>6, <3>7
      <3> QED BY <3>8 DEF x, y
    <2>3. \A k \in 0 .. m : g[k] \in S
      <3>1. g[0] \in S /\ (\A k \in 0 .. m - 1 : g[k] \in S => g[k + 1] \in S) /\ m \in Nat
        BY <1>1, <2>1, <2>2
      <3> HIDE DEF S, g, m
      <3> QED BY <3>1, LoopInvariant
    <2> QED BY <2>3
  <1> DEFINE p == Piece(data[i])
             l == Len(text[i - 1])
  <1>9. i - 1 \in 0 .. n - 1 /\ (i - 1) + 1 = i
    BY DEF n
  <1>10. /\ Len(p) \in {1, 2} /\ (p[1] = Escape <=> Len(p) = 2)
         /\ Len(p) = 1 => p[1] = data[i]
         /\ Len(p) = 2 => Twist(p[2]) = data[i]
    BY <1>1, PieceRead DEF n
  <1>11. \A j \in 1 .. Len(p) : content[l + j] = p[j]
    BY <1>7, <1>9
  <1>12. starts[i] = l + 1 /\ l \in Nat
    BY <1>5, <1>8, <1>9
  <1> HIDE DEF p, l
  <1>13. Unescaped(content, l + 1) = data[i]
    <2>1. content[l + 1] = p[1]
      BY <1>10, <1>11
    <2>2. CASE Len(p) = 2
      <3>1. content[(l + 1) + 1] = p[2]
        <4>1. 2 \in 1 .. Len(p) /\ (l + 1) + 1 = l + 2
          BY <1>12, <2>2
        <4> QED BY <1>11, <4>1
      <3> QED BY <1>10, <2>1, <2>2, <3>1 DEF Unescaped
    <2>3. CASE Len(p) = 1
      BY <1>10, <2>1, <2>3 DEF Unescaped
    <2> QED BY <1>10, <2>2, <2>3
  <1> QED BY <1>12, <1>13 DEF n, content, starts

-----------------------------------------------------------------------------
(* The handlers, as calls of the abstract specification. *)

\* The registers as the debugger sees them.
Shown(r) == [n \in DOMAIN r |-> Sent(r, n)]

\* They are words: the registers, and the pc without its bit 1.
LEMMA ShownTyped ==
  ASSUME NEW r \in RegisterFile
  PROVE  /\ Shown(r) \in RegisterFile /\ DOMAIN r = 0 .. 16
         /\ \A n \in 0 .. 16 : Shown(r)[n] = Remote!Kept(n, r[n])
  <1>1. DOMAIN r = 0 .. 16 /\ \A n \in 0 .. 16 : r[n] \in Word
    BY DEF RegisterFile
  <1>2. \A n \in 0 .. 16 : Shown(r)[n] = Sent(r, n)
    BY <1>1 DEF Shown
  <1>3. Sent(r, PC) = r[PC] - 2 * Bit(r[PC], 1) /\ \A n \in 0 .. 16 : n # PC => Sent(r, n) = r[n]
    BY PcSent
  <1>4. ASSUME NEW v \in Word
        PROVE  v - 2 * Bit(v, 1) = Remote!Kept(15, v) /\ Remote!Kept(15, v) \in Word
    <2>1. v \in 0 .. WordMod - 1 /\ WordMod \in Nat
      BY WordFacts
    <2>2. Bit(v, 1) = (v \div 2) % 2
      BY DEF Bit
    <2>3. (v \div 2) % 2 = 1 => v >= 2
      BY <2>1
    <2>4. (v \div 2) % 2 \in {0, 1}
      BY <2>1
    <2>5. Remote!Kept(15, v) = v - 2 * ((v \div 2) % 2)
      BY <2>1, <2>4 DEF Remote!Kept
    <2>6. v - 2 * ((v \div 2) % 2) \in 0 .. WordMod - 1
      BY <2>1, <2>3, <2>4
    <2> QED BY <2>2, <2>5, <2>6, WordFacts
  <1>5. \A n \in 0 .. 16 : n # 15 => Remote!Kept(n, r[n]) = r[n]
    BY DEF Remote!Kept
  <1>6. \A n \in 0 .. 16 : Shown(r)[n] = Remote!Kept(n, r[n]) /\ Shown(r)[n] \in Word
    <2> TAKE n \in 0 .. 16
    <2>1. CASE n = 15
      <3>1. r[15] \in Word /\ PC = 15 /\ 15 \in 0 .. 16
        BY <1>1 DEF PC
      <3>2. Remote!Kept(15, r[15]) \in Word /\ r[15] - 2 * Bit(r[15], 1) = Remote!Kept(15, r[15])
        BY <1>4, <3>1
      <3>3. Shown(r)[15] = r[15] - 2 * Bit(r[15], 1)
        BY <1>2, <1>3, <3>1
      <3> QED BY <2>1, <3>2, <3>3
    <2>2. CASE n # 15
      BY <1>1, <1>2, <1>3, <1>5, <2>2 DEF PC
    <2> QED BY <2>1, <2>2
  <1>7. Shown(r) = [n \in 0 .. 16 |-> Shown(r)[n]]
    BY <1>1 DEF Shown
  <1>8. Shown(r) \in [0 .. 16 -> Word]
    BY <1>6, <1>7
  <1> QED BY <1>1, <1>6, <1>8 DEF RegisterFile

\* Two files that show the same in every register show the same.
LEMMA ShownSame ==
  ASSUME NEW r \in RegisterFile, NEW f, f = [n \in 0 .. 16 |-> f[n]],
         \A n \in 0 .. 16 : f[n] = Remote!Kept(n, r[n])
  PROVE  Shown(r) = f
  <1>1. \A n \in 0 .. 16 : Shown(r)[n] = f[n]
    BY ShownTyped
  <1>2. Shown(r) = [n \in 0 .. 16 |-> Shown(r)[n]]
    BY ShownTyped DEF RegisterFile
  <1> QED BY <1>1, <1>2

\* A register written shows the value, and no other changes.
LEMMA ShownWritten ==
  ASSUME NEW r \in RegisterFile, NEW n \in 0 .. 16, NEW v \in Word
  PROVE  /\ WriteRegister(r, n, v) \in RegisterFile
         /\ Shown(WriteRegister(r, n, v)) = [Shown(r) EXCEPT ![n] = Remote!Kept(n, v)]
  <1> DEFINE q == WriteRegister(r, n, v)
             f == [Shown(r) EXCEPT ![n] = Remote!Kept(n, v)]
  <1>1. q \in RegisterFile
    BY DEF RegisterFile, WriteRegister
  <1>2. \A k \in 0 .. 16 : q[k] = IF k = n THEN v ELSE r[k]
    BY DEF RegisterFile, WriteRegister
  <1>3. /\ Shown(r) = [k \in 0 .. 16 |-> Shown(r)[k]]
        /\ \A k \in 0 .. 16 : Shown(r)[k] = Remote!Kept(k, r[k])
    BY ShownTyped DEF RegisterFile
  <1>4. /\ f = [k \in 0 .. 16 |-> f[k]]
        /\ \A k \in 0 .. 16 : f[k] = IF k = n THEN Remote!Kept(n, v) ELSE Shown(r)[k]
    BY <1>3
  <1> HIDE DEF q, f
  <1>5. \A k \in 0 .. 16 : f[k] = Remote!Kept(k, q[k])
    BY <1>2, <1>3, <1>4
  <1>6. Shown(q) = f
    BY <1>1, <1>4, <1>5, ShownSame
  <1> QED BY <1>1, <1>6 DEF q, f

\* The bytes that an access reaches are those inside the memory.
LEMMA Reached ==
  ASSUME NEW addr \in Nat, NEW size \in Nat
  PROVE  /\ 1 .. Before(addr, size) = {k \in 1 .. size : addr + k <= Size}
         /\ Before(addr, size) = size /\ addr < Size <=> addr < Size /\ addr + size <= Size
  <1>1. Size \in Nat
    BY MemoryAssumption
  <1>2. CASE addr + size <= Size
    BY <1>1, <1>2 DEF Before
  <1>3. CASE addr + size > Size /\ addr >= Size
    BY <1>1, <1>3 DEF Before
  <1>4. CASE addr + size > Size /\ addr < Size
    BY <1>1, <1>4 DEF Before
  <1> QED BY <1>1, <1>2, <1>3, <1>4

\* A binary write puts the bytes of the call at their addresses.
LEMMA BytesWritten ==
  ASSUME NEW m \in Contents, NEW addr \in Nat, NEW data \in Seq(Byte)
  PROVE  LET size == Len(data)
             write == write_memory_binary(m, addr, size, Escaped(data))
         IN  /\ write.mem \in Contents
             /\ write.mem = [a \in 0 .. Size - 1 |-> IF a - addr + 1 \in 1 .. size
                                                    THEN data[a - addr + 1] ELSE m[a]]
             /\ write.ok <=> addr < Size /\ addr + size <= Size
  <1> DEFINE size == Len(data)
             content == Escaped(data)
             starts == Starts(content, size)
             write == write_memory_binary(m, addr, size, content)
             f == [a \in 0 .. Size - 1 |-> IF a - addr + 1 \in 1 .. size
                                           THEN data[a - addr + 1] ELSE m[a]]
  <1>1. size \in Nat /\ \A i \in 1 .. size : data[i] \in Byte
    BY LenProperties
  <1>2. Size \in Nat
    BY MemoryAssumption
  <1>3. DOMAIN m = 0 .. Size - 1 /\ \A a \in 0 .. Size - 1 : m[a] \in Byte
    BY DEF Contents, Position
  <1>4. \A i \in 1 .. size : Unescaped(content, starts[i]) = data[i]
    BY BytesArrive
  <1>5. /\ write.ok <=> addr < Size /\ Before(addr, size) = size
        /\ write.mem = [a \in DOMAIN m |->
                          IF a - addr + 1 \in 1 .. Before(addr, size)
                          THEN Unescaped(content, starts[a - addr + 1]) ELSE m[a]]
    BY DEF write_memory_binary
  <1> HIDE DEF size, content, starts, write
  <1>6. \A a \in 0 .. Size - 1 : a - addr + 1 \in 1 .. Before(addr, size)
                                 <=> a - addr + 1 \in 1 .. size
    <2> TAKE a \in 0 .. Size - 1
    <2>1. a - addr + 1 \in Int /\ addr + (a - addr + 1) <= Size
      BY <1>2
    <2>2. 1 .. Before(addr, size) = {k \in 1 .. size : addr + k <= Size}
      BY <1>1, Reached
    <2> QED BY <2>1, <2>2
  <1>7. write.mem = f
    BY <1>3, <1>4, <1>5, <1>6
  <1>8. f \in [0 .. Size - 1 -> Byte]
    BY <1>1, <1>3
  <1>9. write.ok <=> addr < Size /\ addr + size <= Size
    BY <1>1, <1>5, Reached
  <1> QED BY <1>7, <1>8, <1>9 DEF Contents, Position, size, write, content

\* The simulated program, as the handlers leave it.
CoreTyped == /\ mem \in Contents /\ reg \in RegisterFile /\ steps \in Nat
             /\ target_exception \in {0, UNDEFINED_INSTRUCTION, DATA_ABORT}

\* The reason of a stop is one of three, which the debugger takes as it is.
LEMMA Reasons ==
  ASSUME NEW e \in {0, UNDEFINED_INSTRUCTION, DATA_ABORT}
  PROVE  /\ stop_reason(e) \in {"S04", "S05", "S10"}
         /\ Understood(<<stop_reason(e)>>) = <<stop_reason(e)>>
  <1>1. stop_reason(e) \in {"S04", "S05", "S10"}
    BY DEF stop_reason, UNDEFINED_INSTRUCTION, PREFETCH_ABORT, DATA_ABORT
  <1>2. \A s : <<s>>[1] = s
    OBVIOUS
  <1> DEFINE s == stop_reason(e)
  <1> HIDE DEF s
  <1>3. s # "word" /\ s # "words"
    BY <1>1 DEF s
  <1> QED BY <1>1, <1>2, <1>3 DEF Understood, s

\* The handlers that answer from what is there change nothing of it.
LEMMA AnswerEffect ==
  ASSUME CoreTyped, NEW text, Answer(text)
  PROVE  CoreTyped' /\ Remote!Answer(Understood(text))
  <1>1. UNCHANGED <<mem, reg, steps, target_exception>> /\ packet' = text
    BY DEF Answer, core
  <1> QED BY <1>1 DEF CoreTyped, Remote!Answer, Remote!program

\* m: the bytes of the request that lie in the memory.
LEMMA ReadMemoryEffect ==
  ASSUME CoreTyped, NEW op \in Op, NEW k, cmd = Request(k, op), ReadMemory
  PROVE  CoreTyped' /\ Remote!ReadMemory(op)
  <1> DEFINE bytes == read_memory(mem, op.addr, op.size)
  <1>1. cmd.addr = op.addr /\ cmd.size = op.size
    BY DEF Request
  <1>2. Answer(<<"bytes", bytes>>)
    BY <1>1 DEF ReadMemory
  <1>3. op.addr \in Nat /\ op.size \in Nat
    BY CallAssumption
  <1>4. bytes = [i \in {j \in 1 .. op.size : op.addr + j <= Size} |-> mem[op.addr + i - 1]]
    BY <1>3, Reached DEF read_memory
  <1> HIDE DEF bytes
  <1>5. Understood(<<"bytes", bytes>>) = <<"bytes", bytes>>
    BY DEF Understood
  <1>6. CoreTyped' /\ Remote!Answer(<<"bytes", bytes>>)
    BY <1>2, <1>5, AnswerEffect
  <1> QED BY <1>4, <1>6 DEF Remote!ReadMemory, Remote!Answer

\* X: the bytes of the call at their addresses.
LEMMA WriteMemoryEffect ==
  ASSUME CoreTyped, NEW op \in Op, op.kind = "X", NEW k, cmd = Request(k, op), WriteMemory
  PROVE  CoreTyped' /\ Remote!WriteMemory(op)
  <1>1. /\ op.addr \in Nat /\ op.size \in Nat
        /\ op.data \in Seq(Byte) /\ Len(op.data) = op.size
    BY CallAssumption
  <1> DEFINE write == write_memory_binary(mem, op.addr, op.size, Escaped(op.data))
  <1>2. cmd.addr = op.addr /\ cmd.size = op.size /\ cmd.content = Escaped(op.data)
    BY DEF Request, Content
  <1>3. /\ mem' = write.mem
        /\ packet' = IF write.ok THEN <<"OK">> ELSE <<"E02">>
        /\ UNCHANGED <<reg, steps, target_exception>>
    BY <1>2 DEF WriteMemory
  <1>4. mem \in Contents
    BY DEF CoreTyped
  <1>5. /\ write.mem \in Contents
        /\ write.mem = [a \in 0 .. Size - 1 |-> IF a - op.addr + 1 \in 1 .. op.size
                                               THEN op.data[a - op.addr + 1] ELSE mem[a]]
        /\ write.ok <=> op.addr < Size /\ op.addr + op.size <= Size
    <2> DEFINE addr == op.addr
               data == op.data
    <2>1. addr \in Nat /\ data \in Seq(Byte) /\ Len(data) = op.size
      BY <1>1
    <2> HIDE DEF addr, data
    <2>2. LET w == write_memory_binary(mem, addr, Len(data), Escaped(data))
          IN  /\ w.mem \in Contents
              /\ w.mem = [a \in 0 .. Size - 1 |-> IF a - addr + 1 \in 1 .. Len(data)
                                                 THEN data[a - addr + 1] ELSE mem[a]]
              /\ w.ok <=> addr < Size /\ addr + Len(data) <= Size
      BY <1>4, <2>1, BytesWritten
    <2> QED BY <1>1, <2>2 DEF addr, data
  <1> HIDE DEF write
  <1>6. CoreTyped'
    BY <1>3, <1>5 DEF CoreTyped
  <1>7. Understood(<<"OK">>) = <<"OK">> /\ Understood(<<"E02">>) = <<"E02">>
    BY DEF Understood
  <1>8. Understood(packet') = IF op.addr < Size /\ op.addr + op.size <= Size
                              THEN <<"OK">> ELSE <<"E02">>
    BY <1>3, <1>5, <1>7
  <1>9. mem' = [a \in Remote!Address |-> IF a - op.addr + 1 \in 1 .. op.size
                                         THEN op.data[a - op.addr + 1] ELSE mem[a]]
    BY <1>3, <1>5 DEF Remote!Address
  <1> QED BY <1>3, <1>6, <1>8, <1>9 DEF Remote!WriteMemory

\* The words of a file are understood as they are shown.
LEMMA WordsUnderstood ==
  ASSUME NEW r \in RegisterFile
  PROVE  /\ Understood(<<"words", read_general_registers(r)>>) = <<"words", Shown(r)>>
         /\ \A n \in 0 .. 16 :
              Understood(<<"word", write_uint32(Sent(r, n))>>) = <<"word", Shown(r)[n]>>
  <1>1. DOMAIN r = 0 .. 16 /\ \A n \in 0 .. 16 : Shown(r)[n] \in Word
    BY ShownTyped DEF RegisterFile
  <1>2. \A n \in 0 .. 16 : Shown(r)[n] = Sent(r, n)
    BY <1>1 DEF Shown
  <1>3. \A n \in 0 .. 16 : Value(write_uint32(Sent(r, n))) = Shown(r)[n]
    <2> TAKE n \in 0 .. 16
    <2> DEFINE v == Shown(r)[n]
    <2>1. v \in Word /\ Sent(r, n) = v
      BY <1>1, <1>2
    <2> HIDE DEF v
    <2> QED BY <2>1, TextRead DEF v
  <1> DEFINE all == read_general_registers(r)
  <1>4. DOMAIN all = 0 .. 16 /\ \A n \in 0 .. 16 : all[n] = write_uint32(Sent(r, n))
    BY <1>1 DEF read_general_registers
  <1> HIDE DEF all
  <1>5. Understood(<<"words", all>>) = <<"words", [n \in DOMAIN all |-> Value(all[n])]>>
    BY DEF Understood
  <1>6. [n \in DOMAIN all |-> Value(all[n])] = Shown(r)
    <2>1. [n \in DOMAIN all |-> Value(all[n])] = [n \in 0 .. 16 |-> Shown(r)[n]]
      BY <1>3, <1>4
    <2>2. Shown(r) = [n \in 0 .. 16 |-> Shown(r)[n]]
      BY ShownTyped DEF RegisterFile
    <2> QED BY <2>1, <2>2
  <1>7. \A n \in 0 .. 16 :
          Understood(<<"word", write_uint32(Sent(r, n))>>) = <<"word", Shown(r)[n]>>
    <2> TAKE n \in 0 .. 16
    <2> DEFINE t == write_uint32(Sent(r, n))
    <2> HIDE DEF t
    <2>1. Understood(<<"word", t>>) = <<"word", Value(t)>>
      BY DEF Understood
    <2> QED BY <1>3, <2>1 DEF t
  <1> QED BY <1>5, <1>6, <1>7 DEF all

\* g and p: the registers.
LEMMA ReadRegistersEffect ==
  ASSUME CoreTyped, NEW op \in Op, NEW k, cmd = Request(k, op)
  PROVE  /\ Answer(<<"words", read_general_registers(reg)>>) =>
              CoreTyped' /\ Remote!Answer(<<"words", Shown(reg)>>)
         /\ op.kind = "p" /\ Answer(<<"word", read_register(reg, cmd.addr)>>) =>
              CoreTyped' /\ Remote!Answer(<<"word", Shown(reg)[Remote!Named(op.addr)]>>)
  <1>1. reg \in RegisterFile
    BY DEF CoreTyped
  <1>2. Answer(<<"words", read_general_registers(reg)>>) =>
          CoreTyped' /\ Remote!Answer(<<"words", Shown(reg)>>)
    <2> DEFINE t == <<"words", read_general_registers(reg)>>
    <2>1. Understood(t) = <<"words", Shown(reg)>>
      BY <1>1, WordsUnderstood
    <2> HIDE DEF t
    <2>2. Answer(t) => CoreTyped' /\ Remote!Answer(Understood(t))
      BY AnswerEffect
    <2> QED BY <2>1, <2>2 DEF t
  <1>3. ASSUME op.kind = "p", Answer(<<"word", read_register(reg, cmd.addr)>>)
        PROVE  CoreTyped' /\ Remote!Answer(<<"word", Shown(reg)[Remote!Named(op.addr)]>>)
    <2>1. op.addr \in Nat /\ op.addr < 16 /\ cmd.addr = op.addr
      BY <1>3, CallAssumption DEF Request
    <2>2. Atoi(op.addr) = Remote!Named(op.addr) /\ Remote!Named(op.addr) \in 0 .. 16
      <3> DEFINE a == op.addr
      <3>1. a \in 0 .. 15
        BY <2>1
      <3> HIDE DEF a
      <3>2. Atoi(a) = IF a < 10 THEN a ELSE 0
        BY <3>1 DEF Atoi
      <3> QED BY <3>1, <3>2 DEF Remote!Named, a
    <2> DEFINE n == Remote!Named(op.addr)
               t == <<"word", read_register(reg, cmd.addr)>>
    <2>3. t = <<"word", write_uint32(Sent(reg, n))>> /\ n \in 0 .. 16
      BY <2>1, <2>2 DEF read_register
    <2> HIDE DEF n
    <2>4. Understood(t) = <<"word", Shown(reg)[n]>>
      BY <1>1, <2>3, WordsUnderstood
    <2> HIDE DEF t
    <2>5. CoreTyped' /\ Remote!Answer(Understood(t))
      BY <1>3, AnswerEffect DEF t
    <2> QED BY <2>4, <2>5 DEF n
  <1> QED BY <1>2, <1>3

\* Registers written show the values, but for the bit 1 of the pc.
LEMMA WriteRegistersEffect ==
  ASSUME CoreTyped, NEW new \in RegisterFile, WriteRegisters(new)
  PROVE  CoreTyped' /\ Remote!WriteRegisters(Shown(new))
  <1>1. reg' = new /\ packet' = <<"OK">> /\ UNCHANGED <<mem, steps, target_exception>>
    BY DEF WriteRegisters
  <1>2. Understood(<<"OK">>) = <<"OK">>
    BY DEF Understood
  <1> QED BY <1>1, <1>2 DEF CoreTyped, Remote!WriteRegisters, Shown

\* G: all of them, P: one.
LEMMA WrittenAreShown ==
  ASSUME CoreTyped, NEW op \in Op, NEW k, cmd = Request(k, op)
  PROVE  /\ op.kind = "G" => /\ write_general_registers(cmd.content) \in RegisterFile
                             /\ Shown(write_general_registers(cmd.content)) =
                                  [n \in 0 .. 16 |-> Remote!Kept(n, op.data[n])]
         /\ op.kind = "P" => /\ write_register(reg, cmd.addr, cmd.content) \in RegisterFile
                             /\ Shown(write_register(reg, cmd.addr, cmd.content)) =
                                  [Shown(reg) EXCEPT ![op.addr] = Remote!Kept(op.addr, op.data)]
  <1>1. \A v \in Word : read_uint32(Bytes(v)) = v
    BY SameText, TextRead
  <1>2. ASSUME op.kind = "G"
        PROVE  /\ write_general_registers(cmd.content) \in RegisterFile
               /\ Shown(write_general_registers(cmd.content)) =
                    [n \in 0 .. 16 |-> Remote!Kept(n, op.data[n])]
    <2> DEFINE r == op.data
               text == [n \in DOMAIN r |-> Bytes(r[n])]
               f == [n \in 0 .. 16 |-> Remote!Kept(n, r[n])]
    <2>1. r \in [0 .. 16 -> Word]
      BY <1>2, CallAssumption
    <2>2. cmd.content = text
      BY <1>2 DEF Request, Content
    <2> HIDE DEF r
    <2>3. DOMAIN r = 0 .. 16 /\ \A n \in 0 .. 16 : r[n] \in Word
      BY <2>1
    <2>4. write_general_registers(text) = [n \in 0 .. 16 |-> read_uint32(Bytes(r[n]))]
      BY <2>3 DEF write_general_registers
    <2>5. [n \in 0 .. 16 |-> read_uint32(Bytes(r[n]))] = r
      <3>1. \A n \in 0 .. 16 : read_uint32(Bytes(r[n])) = r[n]
        BY <1>1, <2>3
      <3> QED BY <2>1, <3>1
    <2>6. r \in RegisterFile
      BY <2>1 DEF RegisterFile
    <2>7. Shown(r) = f
      <3>1. f = [n \in 0 .. 16 |-> f[n]] /\ \A n \in 0 .. 16 : f[n] = Remote!Kept(n, r[n])
        OBVIOUS
      <3> HIDE DEF f
      <3> QED BY <2>6, <3>1, ShownSame
    <2> QED BY <2>2, <2>4, <2>5, <2>6, <2>7 DEF r
  <1>3. ASSUME op.kind = "P"
        PROVE  /\ write_register(reg, cmd.addr, cmd.content) \in RegisterFile
               /\ Shown(write_register(reg, cmd.addr, cmd.content)) =
                    [Shown(reg) EXCEPT ![op.addr] = Remote!Kept(op.addr, op.data)]
    <2> DEFINE v == op.data
               n == op.addr
    <2>1. v \in Word /\ n \in 0 .. 16
      BY <1>3, CallAssumption
    <2>2. cmd.content = Bytes(v) /\ cmd.addr = n
      BY <1>3 DEF Request, Content
    <2> HIDE DEF v, n
    <2>3. write_register(reg, n, Bytes(v)) = WriteRegister(reg, n, v)
      BY <1>1, <2>1 DEF write_register
    <2>4. /\ WriteRegister(reg, n, v) \in RegisterFile
          /\ Shown(WriteRegister(reg, n, v)) = [Shown(reg) EXCEPT ![n] = Remote!Kept(n, v)]
      BY <2>1, ShownWritten DEF CoreTyped
    <2> QED BY <2>2, <2>3, <2>4 DEF v, n
  <1> QED BY <1>2, <1>3

\* s and c: some steps, and the reason of the last.
LEMMA RunEffect ==
  ASSUME CoreTyped, NEW n \in Nat, arm_step(n), SendStopReason
  PROVE  CoreTyped' /\ Remote!Run(n)
  <1>1. /\ steps' = steps + n /\ mem' = mem
        /\ target_exception' \in {0, UNDEFINED_INSTRUCTION, DATA_ABORT}
        /\ packet' = <<stop_reason(target_exception')>>
    BY DEF arm_step, SendStopReason
  <1>2. PICK pc \in Pc : reg' = WriteRegister(reg, PC, pc)
    BY DEF arm_step
  <1>3. pc \in Word /\ pc % 4 = 0 /\ reg \in RegisterFile /\ 15 \in 0 .. 16
    BY LinkAssumption DEF CoreTyped
  <1>4. /\ reg' \in RegisterFile
        /\ Shown(reg') = [Shown(reg) EXCEPT ![15] = Remote!Kept(15, pc)]
    BY <1>2, <1>3, ShownWritten DEF PC
  <1>5. Remote!Kept(15, pc) = pc
    <2>1. pc \in Nat
      BY <1>3, WordConstants
    <2>2. (pc \div 2) % 2 = 0
      BY <1>3, <2>1
    <2> QED BY <2>2 DEF Remote!Kept
  <1>6. stop_reason(target_exception') \in {"S04", "S05", "S10"}
        /\ Understood(packet') = <<stop_reason(target_exception')>>
    BY <1>1, Reasons
  <1>7. CoreTyped'
    BY <1>1, <1>4 DEF CoreTyped
  <1>8. \E x \in Pc : Shown(reg)' = [Shown(reg) EXCEPT ![15] = x]
    BY <1>4, <1>5
  <1> QED BY <1>1, <1>6, <1>7, <1>8 DEF Remote!Run, Shown

\* ?, and a continue that makes no step: the reason of the last stop.
LEMMA ReasonEffect ==
  ASSUME CoreTyped, UNCHANGED core, SendStopReason
  PROVE  CoreTyped' /\ Remote!Answer(<<stop_reason(target_exception)>>)
  <1>1. UNCHANGED <<mem, reg, steps, target_exception>>
    BY DEF core
  <1>2. packet' = <<stop_reason(target_exception)>>
    BY <1>1 DEF SendStopReason
  <1>3. Understood(packet') = <<stop_reason(target_exception)>>
    BY <1>2, Reasons DEF CoreTyped
  <1> QED BY <1>1, <1>3 DEF CoreTyped, Remote!Answer, Remote!program

\* Every handler does what the call asks for.
LEMMA HandlerEffect ==
  ASSUME CoreTyped, NEW op \in Op, NEW k, cmd = Request(k, op), handler
  PROVE  CoreTyped' /\ Remote!Effect(op)
  <1>1. cmd.kind = op.kind
    BY DEF Request
  <1>2. CASE op.kind = "m" /\ ReadMemory
    BY <1>2, ReadMemoryEffect DEF Remote!Effect
  <1>3. CASE op.kind = "X" /\ WriteMemory
    BY <1>3, WriteMemoryEffect DEF Remote!Effect
  <1>4. CASE op.kind = "g" /\ Answer(<<"words", read_general_registers(reg)>>)
    BY <1>4, ReadRegistersEffect DEF Remote!Effect, Shown
  <1>5. CASE op.kind = "p" /\ Answer(<<"word", read_register(reg, cmd.addr)>>)
    BY <1>5, ReadRegistersEffect DEF Remote!Effect, Shown
  <1>6. CASE op.kind = "G" /\ WriteRegisters(write_general_registers(cmd.content))
    <2>1. CoreTyped' /\ Remote!WriteRegisters([n \in 0 .. 16 |-> Remote!Kept(n, op.data[n])])
      BY <1>6, WrittenAreShown, WriteRegistersEffect
    <2> QED BY <1>6, <2>1 DEF Remote!Effect
  <1>7. CASE op.kind = "P" /\ WriteRegisters(write_register(reg, cmd.addr, cmd.content))
    <2>1. /\ CoreTyped'
          /\ Remote!WriteRegisters([Shown(reg) EXCEPT ![op.addr] = Remote!Kept(op.addr, op.data)])
      BY <1>7, WrittenAreShown, WriteRegistersEffect
    <2> QED BY <1>7, <2>1 DEF Remote!Effect, Shown
  <1>8. CASE op.kind = "s" /\ arm_step(1) /\ SendStopReason
    BY <1>8, RunEffect DEF Remote!Effect
  <1>9. CASE op.kind = "c" /\ cont
    <2>1. CASE \E n \in 1 .. MaxRun : arm_step(n)
      <3>1. PICK n \in 1 .. MaxRun : arm_step(n)
        BY <2>1
      <3>2. CoreTyped' /\ Remote!Run(n)
        BY <1>9, <3>1, RunEffect DEF cont
      <3> QED BY <1>9, <3>2 DEF Remote!Effect
    <2>2. CASE UNCHANGED core
      BY <1>9, <2>2, ReasonEffect DEF cont, Remote!Effect
    <2> QED BY <1>9, <2>1, <2>2 DEF cont
  <1>10. CASE op.kind = "?" /\ UNCHANGED core /\ SendStopReason
    BY <1>10, ReasonEffect DEF Remote!Effect
  <1>11. CASE op.kind = "z" /\ Answer(<<"">>)
    <2>1. Understood(<<"">>) = <<"">>
      BY DEF Understood
    <2>2. CoreTyped' /\ Remote!Answer(<<"">>)
      <3> DEFINE t == <<"">>
      <3>1. Answer(t) /\ Understood(t) = t
        BY <1>11, <2>1
      <3> HIDE DEF t
      <3>2. CoreTyped' /\ Remote!Answer(Understood(t))
        BY <3>1, AnswerEffect
      <3> QED BY <3>1, <3>2 DEF t
    <2> QED BY <1>11, <2>2 DEF Remote!Effect
  <1> QED BY <1>1, <1>2, <1>3, <1>4, <1>5, <1>6, <1>7, <1>8, <1>9, <1>10, <1>11 DEF handler

-----------------------------------------------------------------------------
(* Whatever the link does: what is on the way to the listener, and in what *)
(* order.                                                                  *)

\* The packet of a call after its body has been damaged.
Damaged(k, op) == [Request(k, op) EXCEPT !.good = FALSE, !.kind = "z"]

\* What can be on its way to the listener after the calls c.
Packets(c) == {Request(k, c[k]) : k \in 1 .. Len(c)} \cup {Damaged(k, c[k]) : k \in 1 .. Len(c)}
Items(c) == {Ack, Nak, Garbage} \cup Packets(c)

\* The packets of q are those of the calls c, in their order, none older than from.
InOrder(q, c, from) ==
  /\ q \in Seq(Items(c))
  /\ \A i \in DOMAIN q : q[i].type = "packet" =>
       /\ from <= q[i].id
       /\ \A j \in DOMAIN q : j > i /\ q[j].type = "packet" => q[i].id <= q[j].id

\* A packet has its number, and is good until it is damaged.
LEMMA RequestIs ==
  ASSUME NEW k, NEW op
  PROVE  /\ Request(k, op).type = "packet" /\ Request(k, op).id = k /\ Request(k, op).good = TRUE
         /\ Damaged(k, op).type = "packet" /\ Damaged(k, op).id = k /\ Damaged(k, op).good = FALSE
  BY DEF Request, Damaged

\* An item is an acknowledgement, noise, or the packet of a call, which is as
\* it was sent when its sum agrees.
LEMMA ItemsAre ==
  ASSUME NEW c, NEW e \in Items(c)
  PROVE  /\ e.type \in {"ack", "nak", "noise", "packet"}
         /\ e.type # "packet" => e \in {Ack, Nak, Garbage}
         /\ e.type = "packet" =>
              /\ e.id \in 1 .. Len(c) /\ e.good \in BOOLEAN
              /\ e.good => e = Request(e.id, c[e.id])
              /\ [e EXCEPT !.good = FALSE, !.kind = "z"] = Damaged(e.id, c[e.id])
  <1>1. CASE e \in {Ack, Nak, Garbage}
    BY <1>1 DEF Ack, Nak, Garbage
  <1>2. CASE e \in Packets(c)
    <2>1. PICK k \in 1 .. Len(c) : e = Request(k, c[k]) \/ e = Damaged(k, c[k])
      BY <1>2 DEF Packets
    <2> DEFINE op == c[k]
    <2>2. e = Request(k, op) \/ e = Damaged(k, op)
      BY <2>1
    <2> HIDE DEF op
    <2> DEFINE r == Request(k, op)
               d == Damaged(k, op)
    <2>3. /\ r.type = "packet" /\ r.id = k /\ r.good = TRUE
          /\ d.type = "packet" /\ d.id = k /\ d.good = FALSE
      BY DEF Request, Damaged
    <2>4. [r EXCEPT !.good = FALSE, !.kind = "z"] = d /\ [d EXCEPT !.good = FALSE, !.kind = "z"] = d
      BY DEF Request, Damaged
    <2> HIDE DEF r, d
    <2>5. e = r \/ e = d
      BY <2>2 DEF r, d
    <2>6. e.type = "packet" /\ e.id = k /\ e.good \in BOOLEAN
      BY <2>3, <2>5
    <2>7. e.good => e = r
      BY <2>3, <2>5
    <2>8. [e EXCEPT !.good = FALSE, !.kind = "z"] = d
      BY <2>4, <2>5, Zenon
    <2> QED BY <2>6, <2>7, <2>8 DEF r, d, op
  <1> QED BY <1>1, <1>2 DEF Items

\* A list of members of a set is a sequence over it.
LEMMA ListIn ==
  ASSUME NEW s, Listed(s), NEW S, \A i \in 1 .. Len(s) : s[i] \in S
  PROVE  s \in Seq(S)
  BY DEF Listed

\* What is read leaves packets in order, none older than the one read.
LEMMA ReadInOrder ==
  ASSUME NEW q, NEW c, NEW from, InOrder(q, c, from), q # <<>>
  PROVE  /\ Head(q) \in Items(c) /\ InOrder(Tail(q), c, from)
         /\ Head(q).type = "packet" => from <= Head(q).id /\ InOrder(Tail(q), c, Head(q).id)
  <1> DEFINE l == Tail(q)
             h == Head(q)
  <1>1. Listed(q) /\ DOMAIN q = 1 .. Len(q) /\ \A i \in 1 .. Len(q) : q[i] \in Items(c)
    BY SeqListed DEF InOrder
  <1>2. /\ Listed(l) /\ Len(q) > 0 /\ Len(l) = Len(q) - 1 /\ Len(q) \in Nat
        /\ DOMAIN l = 1 .. Len(q) - 1
        /\ \A i \in 1 .. Len(q) - 1 : l[i] = q[i + 1]
        /\ h = q[1]
    BY <1>1, TailItems DEF Listed
  <1>3. \A i \in DOMAIN l : l[i] = q[i + 1] /\ i + 1 \in DOMAIN q /\ i + 1 > 1 /\ i \in Int
    BY <1>1, <1>2
  <1>4. 1 \in DOMAIN q
    BY <1>1, <1>2
  <1> HIDE DEF l, h
  <1>5. l \in Seq(Items(c))
    <2>1. \A i \in 1 .. Len(l) : l[i] \in Items(c)
      BY <1>1, <1>2, <1>3
    <2> QED BY <1>2, <2>1, ListIn
  <1>6. /\ \A i \in DOMAIN q : q[i].type = "packet" => from <= q[i].id
        /\ \A i, j \in DOMAIN q : q[i].type = "packet" /\ j > i /\ q[j].type = "packet" =>
             q[i].id <= q[j].id
    BY DEF InOrder
  <1>7. \A i, j \in DOMAIN l : l[i].type = "packet" /\ j > i /\ l[j].type = "packet" =>
          l[i].id <= l[j].id
    <2> TAKE i, j \in DOMAIN l
    <2>1. j > i => j + 1 > i + 1
      BY <1>3
    <2> QED BY <1>3, <1>6, <2>1
  <1>8. InOrder(l, c, from)
    BY <1>3, <1>5, <1>6, <1>7 DEF InOrder
  <1>9. h.type = "packet" => from <= h.id /\ InOrder(l, c, h.id)
    BY <1>2, <1>3, <1>4, <1>5, <1>6, <1>7 DEF InOrder
  <1>10. h \in Items(c)
    BY <1>1, <1>2, <1>4
  <1> QED BY <1>8, <1>9, <1>10 DEF l, h

\* An item written after them, when it is not the packet of an older call.
LEMMA WrittenInOrder ==
  ASSUME NEW q, NEW c, NEW from, InOrder(q, c, from), NEW e \in Items(c),
         e.type = "packet" => /\ from <= e.id
                              /\ \A i \in DOMAIN q : q[i].type = "packet" => q[i].id <= e.id
  PROVE  InOrder(Append(q, e), c, from)
  <1> DEFINE l == Append(q, e)
             n == Len(q)
  <1>1. Listed(q) /\ DOMAIN q = 1 .. n /\ n \in Nat
    BY SeqListed DEF InOrder, Listed
  <1>2. /\ DOMAIN l = 1 .. n + 1 /\ l[n + 1] = e /\ \A i \in 1 .. n : l[i] = q[i]
    BY <1>1, AppendItem
  <1>3. l \in Seq(Items(c))
    BY DEF InOrder
  <1> HIDE DEF l, n
  <1>4. \A i \in DOMAIN l : (i \in DOMAIN q /\ l[i] = q[i]) \/ l[i] = e
    BY <1>1, <1>2
  <1>5. \A i, j \in DOMAIN l : j > i => i \in DOMAIN q
    BY <1>1, <1>2
  <1>6. \A i \in DOMAIN l : l[i].type = "packet" => from <= l[i].id
    BY <1>4 DEF InOrder
  <1>7. \A i, j \in DOMAIN l : l[i].type = "packet" /\ j > i /\ l[j].type = "packet" =>
          l[i].id <= l[j].id
    <2> SUFFICES ASSUME NEW i \in DOMAIN l, NEW j \in DOMAIN l,
                        l[i].type = "packet", j > i, l[j].type = "packet"
                 PROVE  l[i].id <= l[j].id
      OBVIOUS
    <2>1. i \in DOMAIN q /\ l[i] = q[i]
      BY <1>1, <1>2, <1>5
    <2>2. CASE j \in DOMAIN q /\ l[j] = q[j]
      BY <2>1, <2>2 DEF InOrder
    <2>3. CASE l[j] = e
      BY <2>1, <2>3
    <2> QED BY <1>4, <2>2, <2>3
  <1> QED BY <1>3, <1>6, <1>7 DEF InOrder, l

\* An item that is no packet, inserted among them.
LEMMA InsertedInOrder ==
  ASSUME NEW q, NEW c, NEW from, InOrder(q, c, from), NEW e \in {Ack, Nak, Garbage},
         NEW k \in 1 .. Len(q) + 1
  PROVE  InOrder(With(q, k, e), c, from)
  <1> DEFINE l == With(q, k, e)
             n == Len(q)
             old(i) == IF i < k THEN i ELSE i - 1
  <1>1. Listed(q) /\ DOMAIN q = 1 .. n /\ n \in Nat /\ \A i \in 1 .. n : q[i] \in Items(c)
    BY SeqListed DEF InOrder, Listed
  <1>2. /\ Listed(l) /\ Len(l) = n + 1 /\ DOMAIN l = 1 .. n + 1
        /\ \A i \in 1 .. n + 1 : l[i] = IF i < k THEN q[i] ELSE IF i = k THEN e ELSE q[i - 1]
    BY <1>1, InsertItem
  <1>3. e.type # "packet" /\ e \in Items(c)
    BY DEF Ack, Nak, Garbage, Items
  <1> HIDE DEF l
  <1>4. k \in 1 .. n + 1
    OBVIOUS
  <1> HIDE DEF n
  <1>5. \A i \in DOMAIN l : l[i] = e \/ (old(i) \in DOMAIN q /\ l[i] = q[old(i)] /\ i # k)
    BY <1>1, <1>2, <1>4
  <1>6. \A i, j \in DOMAIN l : i # k /\ j # k /\ j > i => old(j) > old(i)
    BY <1>1, <1>2, <1>4
  <1> HIDE DEF old
  <1>7. l \in Seq(Items(c))
    <2>1. \A i \in 1 .. Len(l) : l[i] \in Items(c)
      BY <1>1, <1>2, <1>3, <1>5
    <2> QED BY <1>2, <2>1, ListIn
  <1>8. \A i \in DOMAIN l : l[i].type = "packet" => from <= l[i].id
    BY <1>3, <1>5 DEF InOrder
  <1>9. \A i, j \in DOMAIN l : l[i].type = "packet" /\ j > i /\ l[j].type = "packet" =>
          l[i].id <= l[j].id
    BY <1>3, <1>5, <1>6 DEF InOrder
  <1> QED BY <1>7, <1>8, <1>9 DEF InOrder, l

\* An item changed into one that is no packet, or the damaged one.
LEMMA ChangedInOrder ==
  ASSUME NEW q, NEW c, NEW from, InOrder(q, c, from), NEW k \in DOMAIN q, NEW e \in Items(c),
         e.type = "packet" => q[k].type = "packet" /\ e.id = q[k].id
  PROVE  InOrder([q EXCEPT ![k] = e], c, from)
  <1> DEFINE l == [q EXCEPT ![k] = e]
  <1>1. l \in Seq(Items(c)) /\ DOMAIN l = DOMAIN q
    BY DEF InOrder
  <1>2. \A i \in DOMAIN q : l[i].type = "packet" => q[i].type = "packet" /\ l[i].id = q[i].id
    OBVIOUS
  <1> HIDE DEF l
  <1> QED BY <1>1, <1>2 DEF InOrder, l

\* One more call leaves the packets of the others.
LEMMA CalledInOrder ==
  ASSUME NEW q, NEW c, NEW d, NEW from, InOrder(q, c, from), Len(c) \in Nat, Len(d) \in Nat,
         Len(c) <= Len(d), \A k \in 1 .. Len(c) : d[k] = c[k]
  PROVE  InOrder(q, d, from)
  <1>1. Items(c) \subseteq Items(d)
    <2>1. \A k \in 1 .. Len(c) : k \in 1 .. Len(d)
      OBVIOUS
    <2> QED BY <2>1 DEF Items, Packets
  <1>2. q \in Seq(Items(d))
    <2>1. q \in Seq(Items(c))
      BY DEF InOrder
    <2> DEFINE S == Items(c)
               T == Items(d)
    <2> HIDE DEF S, T
    <2>2. q \in Seq(S) /\ S \subseteq T
      BY <1>1, <2>1 DEF S, T
    <2>3. q \in Seq(T)
      BY <2>2
    <2> QED BY <2>3 DEF T
  <1> QED BY <1>2 DEF InOrder

-----------------------------------------------------------------------------
(* The types. *)

\* The number of the call that is executed, or has been last.
floor == IF at = "handle" THEN cmd.id ELSE served

\* The second invariant: the types, and the packets in order.
Typed ==
  /\ CoreTyped
  /\ at \in {"scan", "handle", "done"} /\ len \in 0 .. ErrorSize - 1
  /\ phase \in {"idle", "unacked", "waiting", "closed"}
  /\ calls \in Seq(Op) /\ served \in 0 .. Len(calls)
  /\ waiting => Len(calls) > 0
  /\ at = "handle" => /\ cmd.id \in 1 .. Len(calls) /\ served <= cmd.id
                      /\ cmd = Request(cmd.id, calls[cmd.id])
  /\ InOrder(toServer, calls, floor)

\* The registers after a reset, an empty memory, nothing under way.
LEMMA InitTyped == Init => Typed
  <1> SUFFICES ASSUME Init PROVE Typed
    OBVIOUS
  <1>1. CoreTyped
    <2>1. 0 \in Byte /\ 0 \in Word
      BY MemoryAssumption, WordFacts DEF Byte
    <2>2. [n \in 0 .. 16 |-> 0] \in RegisterFile
      BY <2>1 DEF RegisterFile
    <2>3. reg \in RegisterFile
      BY <2>2, ResetTyped DEF Init
    <2> QED BY <2>1, <2>3 DEF Init, CoreTyped, Contents
  <1>2. calls \in Seq(Op) /\ served \in 0 .. Len(calls) /\ len \in 0 .. ErrorSize - 1
    <2>1. calls = <<>> /\ served = 0 /\ len = 0 /\ Len(<<>>) = 0
      BY DEF Init
    <2> QED BY <2>1, LinkAssumption
  <1>3. InOrder(toServer, calls, floor)
    <2>1. toServer = <<>> /\ DOMAIN <<>> = {}
      BY DEF Init
    <2>2. toServer \in Seq(Items(calls))
      <3> DEFINE S == Items(calls)
      <3> HIDE DEF S
      <3>1. toServer \in Seq(S)
        BY <2>1
      <3> QED BY <3>1 DEF S
    <2> QED BY <2>1, <2>2 DEF InOrder
  <1> QED BY <1>1, <1>2, <1>3 DEF Init, Typed, waiting

-----------------------------------------------------------------------------
(* The listener. *)

\* An item read that is not handled.
LEMMA ReadTyped ==
  ASSUME Typed, at = "scan", toServer # <<>>, toServer' = Tail(toServer),
         len' \in 0 .. ErrorSize - 1, UNCHANGED <<core, at, served, phase, calls>>
  PROVE  Typed'
  <1>1. floor = served /\ floor' = served
    BY DEF floor
  <1>2. InOrder(toServer', calls, served)
    BY <1>1, ReadInOrder DEF Typed
  <1> QED BY <1>1, <1>2 DEF Typed, CoreTyped, core, waiting

\* Acknowledgements and noise read; the error stays shorter than its buffer.
LEMMA ScanTyped == Typed /\ (ScanAck \/ ScanNak \/ ScanNoise) => Typed'
  <1> SUFFICES ASSUME Typed, ScanAck \/ ScanNak \/ ScanNoise PROVE Typed'
    OBVIOUS
  <1>1. ErrorSize \in Nat /\ ErrorSize >= 2 /\ len \in 0 .. ErrorSize - 1
    BY LinkAssumption DEF Typed
  <1>2. len' \in 0 .. ErrorSize - 1
    BY <1>1 DEF ScanAck, ScanNak, ScanNoise
  <1> QED BY <1>2, ReadTyped DEF ScanAck, ScanNak, ScanNoise, Token, Take, client

\* A good packet is the one of a call, no older than the last executed.
LEMMA ScanPacketTyped == Typed /\ ScanPacket => Typed'
  <1> SUFFICES ASSUME Typed, ScanPacket PROVE Typed'
    OBVIOUS
  <1> DEFINE e == Head(toServer)
  <1>1. /\ at = "scan" /\ toServer # <<>> /\ e.type = "packet" /\ toServer' = Tail(toServer)
        /\ len' = 0 /\ UNCHANGED <<core, served, phase, calls>>
    BY DEF ScanPacket, Token, Take, client
  <1>2. 0 \in 0 .. ErrorSize - 1
    BY LinkAssumption
  <1>3. CASE e.good
    <2>1. cmd' = e /\ at' = "handle"
      BY <1>3 DEF ScanPacket
    <2>2. floor = served
      BY <1>1 DEF floor
    <2>3. e \in Items(calls) /\ served <= e.id /\ InOrder(Tail(toServer), calls, e.id)
      BY <1>1, <2>2, ReadInOrder DEF Typed
    <2>4. e.id \in 1 .. Len(calls) /\ e = Request(e.id, calls[e.id])
      BY <1>1, <1>3, <2>3, ItemsAre
    <2> HIDE DEF e
    <2>5. floor' = e.id
      BY <2>1 DEF floor
    <2> QED BY <1>1, <1>2, <2>1, <2>3, <2>4, <2>5 DEF Typed, CoreTyped, core, waiting
  <1>4. CASE ~e.good
    <2>1. UNCHANGED at
      BY <1>4 DEF ScanPacket
    <2> QED BY <1>1, <1>2, <2>1, ReadTyped
  <1> QED BY <1>3, <1>4

\* A packet handled.
LEMMA HandleTyped == Typed /\ Handle => Typed'
  <1> SUFFICES ASSUME Typed, Handle PROVE Typed'
    OBVIOUS
  <1>1. /\ at = "handle" /\ handler /\ served' = cmd.id /\ at' = "scan"
        /\ UNCHANGED <<cmd, len, toServer, phase, calls>>
    BY DEF Handle, client
  <1>2. /\ cmd.id \in 1 .. Len(calls) /\ cmd = Request(cmd.id, calls[cmd.id])
        /\ calls \in Seq(Op) /\ InOrder(toServer, calls, cmd.id)
    BY <1>1 DEF Typed, floor
  <1>3. CoreTyped'
    <2> DEFINE op == calls[cmd.id]
               k == cmd.id
    <2>1. op \in Op /\ cmd = Request(k, op) /\ CoreTyped
      BY <1>2 DEF Typed
    <2> HIDE DEF op, k
    <2> QED BY <1>1, <2>1, HandlerEffect
  <1>4. floor' = cmd.id
    BY <1>1 DEF floor
  <1>5. Len(calls) \in Nat
    BY <1>2
  <1> QED BY <1>1, <1>2, <1>3, <1>4, <1>5 DEF Typed, waiting

\* The end of the connection.
LEMMA ScanEofTyped == Typed /\ ScanEof => Typed'
  <1> SUFFICES ASSUME Typed, ScanEof PROVE Typed'
    OBVIOUS
  <1>1. /\ at = "scan" /\ at' = "done" /\ len' = 0
        /\ UNCHANGED <<core, served, toServer, phase, calls>>
    BY DEF ScanEof, client
  <1>2. floor' = floor
    BY <1>1 DEF floor
  <1>3. 0 \in 0 .. ErrorSize - 1
    BY LinkAssumption
  <1> QED BY <1>1, <1>2, <1>3 DEF Typed, CoreTyped, core, waiting

-----------------------------------------------------------------------------
(* gdb. *)

\* What gdb sends comes after what it has sent: an acknowledgement, or its
\* last call.
LEMMA SentTyped ==
  ASSUME Typed, NEW e, \/ e \in {Ack, Nak}
                       \/ Len(calls) > 0 /\ e = Request(Len(calls), calls[Len(calls)])
  PROVE  InOrder(Append(toServer, e), calls, floor)
  <1>1. /\ InOrder(toServer, calls, floor) /\ Len(calls) \in Nat
        /\ floor \in Int /\ floor <= Len(calls)
    BY DEF Typed, floor
  <1>2. CASE e \in {Ack, Nak}
    <2>1. e \in Items(calls) /\ e.type # "packet"
      BY <1>2 DEF Items, Ack, Nak
    <2> QED BY <1>1, <2>1, WrittenInOrder
  <1>3. CASE Len(calls) > 0 /\ e = Request(Len(calls), calls[Len(calls)])
    <2> DEFINE n == Len(calls)
    <2>1. n \in 1 .. n
      BY <1>1, <1>3
    <2>2. e \in Items(calls)
      BY <1>3, <2>1 DEF Items, Packets
    <2>3. e.id = n
      BY <1>3 DEF Request
    <2>4. \A i \in DOMAIN toServer : toServer[i].type = "packet" => toServer[i].id <= e.id
      <3> SUFFICES ASSUME NEW i \in DOMAIN toServer, toServer[i].type = "packet"
                   PROVE  toServer[i].id <= n
        BY <2>3
      <3>1. toServer[i] \in Items(calls)
        BY <1>1, SeqListed DEF InOrder
      <3>2. toServer[i].id \in 1 .. n
        BY <3>1, ItemsAre
      <3> QED BY <1>1, <3>2
    <2> QED BY <1>1, <2>2, <2>3, <2>4, WrittenInOrder
  <1> QED BY <1>2, <1>3

\* A step of gdb that makes no call.
LEMMA ClientTyped ==
  ASSUME Typed, UNCHANGED <<server, calls>>,
         phase' \in {"idle", "unacked", "waiting", "closed"},
         waiting' => Len(calls) > 0,
         \/ toServer' = toServer
         \/ toServer' \in {Append(toServer, Ack), Append(toServer, Nak)}
         \/ Len(calls) > 0 /\ toServer' = Append(toServer, Request(Len(calls), calls[Len(calls)]))
  PROVE  Typed'
  <1>1. UNCHANGED <<mem, reg, steps, target_exception, at, cmd, len, served>>
    BY DEF server, core
  <1>2. floor' = floor
    BY <1>1 DEF floor
  <1>3. InOrder(toServer', calls, floor)
    <2>1. CASE toServer' = toServer
      BY <2>1 DEF Typed
    <2>2. CASE toServer' \in {Append(toServer, Ack), Append(toServer, Nak)}
      BY <2>2, SentTyped
    <2>3. CASE /\ Len(calls) > 0
               /\ toServer' = Append(toServer, Request(Len(calls), calls[Len(calls)]))
      BY <2>3, SentTyped
    <2> QED BY <2>1, <2>2, <2>3
  <1> QED BY <1>1, <1>2, <1>3 DEF Typed, CoreTyped

\* gdb waits for nothing before its first call.
LEMMA WaitsForCall ==
  ASSUME Typed, phase \in {"unacked", "waiting"}
  PROVE  Len(calls) > 0
  BY DEF Typed, waiting

\* gdb sends its call again, or acknowledges a reply.
LEMMA UnackedTyped == Typed /\ Unacked => Typed'
  <1> SUFFICES ASSUME Typed, Unacked PROVE Typed'
    OBVIOUS
  <1>1. phase = "unacked" /\ phase' \in {"unacked", "waiting"} /\ UNCHANGED <<server, calls>>
    BY DEF Unacked
  <1>2. Len(calls) > 0
    BY <1>1, WaitsForCall
  <1>3. \/ toServer' = toServer
        \/ toServer' \in {Append(toServer, Ack), Append(toServer, Nak)}
        \/ toServer' = Append(toServer, Request(Len(calls), calls[Len(calls)]))
    BY DEF Unacked, Resend, Send
  <1> QED BY <1>1, <1>2, <1>3, ClientTyped

\* gdb takes its answer, or asks for it again.
LEMMA WaitingTyped == Typed /\ Waiting => Typed'
  <1> SUFFICES ASSUME Typed, Waiting PROVE Typed'
    OBVIOUS
  <1>1. phase = "waiting" /\ phase' \in {"idle", "waiting"} /\ UNCHANGED <<server, calls>>
    BY DEF Waiting
  <1>2. Len(calls) > 0
    BY <1>1, WaitsForCall
  <1>3. \/ toServer' = toServer
        \/ toServer' \in {Append(toServer, Ack), Append(toServer, Nak)}
    BY DEF Waiting, Send
  <1> QED BY <1>1, <1>2, <1>3, ClientTyped

\* gdb has waited long enough.
LEMMA TimeoutTyped == Typed /\ Timeout => Typed'
  <1> SUFFICES ASSUME Typed, Timeout PROVE Typed'
    OBVIOUS
  <1>1. phase \in {"unacked", "waiting"} /\ phase' = phase /\ UNCHANGED <<server, calls>>
    BY DEF Timeout, client
  <1>2. Len(calls) > 0
    BY <1>1, WaitsForCall
  <1>3. \/ toServer' \in {Append(toServer, Ack), Append(toServer, Nak)}
        \/ toServer' = Append(toServer, Request(Len(calls), calls[Len(calls)]))
    BY DEF Timeout, Resend, Send
  <1> QED BY <1>1, <1>2, <1>3, ClientTyped

\* gdb leaves.
LEMMA CloseTyped == Typed /\ Close => Typed'
  <1> SUFFICES ASSUME Typed, Close PROVE Typed'
    OBVIOUS
  <1>1. phase' = "closed" /\ UNCHANGED <<server, calls, toServer>>
    BY DEF Close
  <1> QED BY <1>1, ClientTyped DEF waiting

\* A call is one more, of those the debugger makes.
LEMMA OneMore ==
  ASSUME Typed, Call
  PROVE  /\ \E op \in Op : calls' = Append(calls, op)
         /\ calls' \in Seq(Op) /\ Len(calls') = Len(calls) + 1 /\ Len(calls) \in Nat
         /\ \A k \in 1 .. Len(calls) : calls'[k] = calls[k]
  <1> DEFINE n == Len(calls)
  <1>1. PICK s \in Sessions : /\ n < Len(s) /\ calls = SubSeq(s, 1, n)
                              /\ calls' = SubSeq(s, 1, n + 1)
    BY DEF Call
  <1>2. s \in Seq(Op) /\ n \in Nat /\ calls \in Seq(Op)
    BY LinkAssumption DEF Typed
  <1>3. s[n + 1] \in Op
    BY <1>1, <1>2
  <1> DEFINE op == s[n + 1]
             a == Append(calls, op)
             b == SubSeq(s, 1, n + 1)
  <1> HIDE DEF n
  <1>4. a \in Seq(Op) /\ Len(a) = n + 1 /\ (\A k \in 1 .. n : a[k] = calls[k]) /\ a[n + 1] = op
    BY <1>2, <1>3, AppendProperties DEF n
  <1>5. b \in Seq(Op) /\ Len(b) = n + 1 /\ \A k \in 1 .. n + 1 : b[k] = s[k]
    BY <1>1, <1>2
  <1>6. \A k \in 1 .. n : calls[k] = s[k]
    BY <1>1, <1>2
  <1> HIDE DEF a, b
  <1>7. a = b
    <2>1. \A k \in 1 .. n + 1 : a[k] = b[k]
      <3> TAKE k \in 1 .. n + 1
      <3>1. CASE k = n + 1
        BY <1>2, <1>4, <1>5, <3>1
      <3>2. CASE k # n + 1
        BY <1>2, <1>4, <1>5, <1>6, <3>2
      <3> QED BY <3>1, <3>2
    <2>2. a = [k \in 1 .. n + 1 |-> a[k]] /\ b = [k \in 1 .. n + 1 |-> b[k]]
      BY <1>4, <1>5
    <2> QED BY <2>1, <2>2
  <1>8. calls' = a
    BY <1>1, <1>7 DEF b
  <1>9. \E o \in Op : calls' = Append(calls, o)
    BY <1>3, <1>8 DEF a
  <1> QED BY <1>2, <1>4, <1>8, <1>9 DEF n

\* gdb calls: the packet is younger than any under way.
LEMMA CallTyped == Typed /\ Call => Typed'
  <1> SUFFICES ASSUME Typed, Call PROVE Typed'
    OBVIOUS
  <1>1. /\ phase = "idle" /\ phase' = "unacked" /\ UNCHANGED server
        /\ toServer' = Append(toServer, Request(Len(calls'), calls'[Len(calls')]))
    BY DEF Call, Send
  <1>2. UNCHANGED <<mem, reg, steps, target_exception, at, cmd, len, served>>
    BY <1>1 DEF server, core
  <1> DEFINE n == Len(calls)
             e == Request(n + 1, calls'[n + 1])
  <1>3. /\ calls' \in Seq(Op) /\ Len(calls') = n + 1 /\ n \in Nat
        /\ \A k \in 1 .. n : calls'[k] = calls[k]
    BY OneMore
  <1>4. floor' = floor /\ floor \in Int /\ floor <= n
    BY <1>2, <1>3 DEF floor, Typed
  <1>5. InOrder(toServer, calls, floor)
    BY DEF Typed
  <1>6. InOrder(toServer, calls', floor)
    <2> DEFINE d == calls'
    <2>1. Len(calls) \in Nat /\ Len(d) \in Nat /\ Len(calls) <= Len(d)
          /\ \A k \in 1 .. Len(calls) : d[k] = calls[k]
      BY <1>3
    <2> HIDE DEF d
    <2>2. InOrder(toServer, d, floor)
      BY <1>5, <2>1, CalledInOrder
    <2> QED BY <2>2 DEF d
  <1>7. e \in Items(calls')
    <2>1. n + 1 \in 1 .. Len(calls')
      BY <1>3
    <2> QED BY <2>1 DEF Items, Packets
  <1>8. e.id = n + 1
    BY DEF Request
  <1> HIDE DEF e
  <1>9. \A i \in DOMAIN toServer : toServer[i].type = "packet" => toServer[i].id <= e.id
    <2> SUFFICES ASSUME NEW i \in DOMAIN toServer, toServer[i].type = "packet"
                 PROVE  toServer[i].id <= e.id
      OBVIOUS
    <2>1. toServer[i] \in Items(calls)
      BY <1>5, SeqListed DEF InOrder
    <2>2. toServer[i].id \in 1 .. n
      BY <2>1, ItemsAre
    <2> QED BY <1>3, <1>8, <2>2
  <1>10. InOrder(Append(toServer, e), calls', floor)
    <2> DEFINE d == calls'
    <2>1. InOrder(toServer, d, floor) /\ e \in Items(d) /\ floor <= e.id
      BY <1>3, <1>4, <1>6, <1>7, <1>8
    <2> HIDE DEF d
    <2>2. InOrder(Append(toServer, e), d, floor)
      BY <1>9, <2>1, WrittenInOrder
    <2> QED BY <2>2 DEF d
  <1>11. InOrder(toServer, calls, floor)'
    BY <1>1, <1>3, <1>4, <1>10 DEF e
  <1>12. CoreTyped'
    BY <1>2 DEF Typed, CoreTyped
  <1>13. at = "handle" => cmd.id \in 1 .. n /\ calls'[cmd.id] = calls[cmd.id]
    BY <1>3 DEF Typed
  <1>14. at' = "handle" => /\ cmd'.id \in 1 .. Len(calls') /\ served' <= cmd'.id
                           /\ cmd' = Request(cmd'.id, calls'[cmd'.id])
    BY <1>2, <1>3, <1>13 DEF Typed
  <1>15. served' \in 0 .. Len(calls') /\ Len(calls') > 0
    BY <1>2, <1>3 DEF Typed
  <1>16. at' \in {"scan", "handle", "done"} /\ len' \in 0 .. ErrorSize - 1
    BY <1>2 DEF Typed
  <1> QED BY <1>1, <1>3, <1>11, <1>12, <1>14, <1>15, <1>16 DEF Typed

-----------------------------------------------------------------------------
(* The link. *)

\* Only what is under way to the listener changes.
LEMMA FaultTyped ==
  ASSUME Typed, UNCHANGED <<server, client>>, InOrder(toServer', calls, floor)
  PROVE  Typed'
  <1>1. UNCHANGED <<mem, reg, steps, target_exception, at, cmd, len, served, phase, calls>>
    BY DEF server, core, client
  <1>2. floor' = floor
    BY <1>1 DEF floor
  <1> QED BY <1>1, <1>2 DEF Typed, CoreTyped, waiting

\* A damaged packet keeps its number and its place.
LEMMA DamageTyped == Typed /\ Damage => Typed'
  <1> SUFFICES ASSUME Typed, Damage PROVE Typed'
    OBVIOUS
  <1>1. UNCHANGED <<server, client>>
    BY DEF Damage
  <1>2. InOrder(toServer, calls, floor) /\ \A i \in DOMAIN toServer : toServer[i] \in Items(calls)
    BY SeqListed DEF Typed, InOrder
  <1>3. ASSUME NEW i \in DOMAIN toServer, toServer[i].type = "packet",
               toServer' = [toServer EXCEPT ![i].good = FALSE, ![i].kind = "z"]
        PROVE  InOrder(toServer', calls, floor)
    <2> DEFINE e == [toServer[i] EXCEPT !.good = FALSE, !.kind = "z"]
               k == toServer[i].id
               op == calls[k]
               f == Damaged(k, op)
    <2>1. toServer' = [toServer EXCEPT ![i] = e]
      BY <1>3
    <2>2. k \in 1 .. Len(calls) /\ e = f
      BY <1>2, <1>3, ItemsAre
    <2>3. f \in Items(calls)
      BY <2>2 DEF Items, Packets
    <2> HIDE DEF op
    <2>4. f.type = "packet" /\ f.id = k
      BY DEF Damaged, Request
    <2> HIDE DEF e, f
    <2>5. e \in Items(calls) /\ e.type = "packet" /\ e.id = k
      BY <2>2, <2>3, <2>4
    <2>7. InOrder([toServer EXCEPT ![i] = e], calls, floor)
      BY <1>2, <1>3, <2>5, ChangedInOrder DEF k
    <2> QED BY <2>1, <2>7
  <1>4. InOrder(toServer', calls, floor)
    <2>1. CASE DamageBody
      BY <1>2, <1>3, <2>1 DEF DamageBody
    <2>2. CASE AddAck
      <3>1. PICK k \in 1 .. Len(toServer) + 1, e \in {Ack, Nak} : toServer' = With(toServer, k, e)
        BY <2>2 DEF AddAck
      <3> QED BY <1>2, <3>1, InsertedInOrder
    <2> QED BY <2>1, <2>2 DEF Damage
  <1> QED BY <1>1, <1>4, FaultTyped

\* Noise is no packet, and what it replaces is none any more.
LEMMA NoiseTyped == Typed /\ Noise => Typed'
  <1> SUFFICES ASSUME Typed, Noise PROVE Typed'
    OBVIOUS
  <1>1. UNCHANGED <<server, client>> /\ InOrder(toServer, calls, floor)
    BY DEF Noise, Typed
  <1>2. Garbage \in Items(calls) /\ Garbage.type # "packet"
    BY DEF Items, Garbage
  <1>3. CASE \E i \in 1 .. Len(toServer) + 1 : toServer' = With(toServer, i, Garbage)
    BY <1>1, <1>3, InsertedInOrder, FaultTyped
  <1>4. CASE \E i \in DOMAIN toServer : toServer' = [toServer EXCEPT ![i] = Garbage]
    <2>1. PICK i \in DOMAIN toServer : toServer' = [toServer EXCEPT ![i] = Garbage]
      BY <1>4
    <2>2. InOrder(toServer', calls, floor)
      BY <1>1, <1>2, <2>1, ChangedInOrder
    <2> QED BY <1>1, <2>2, FaultTyped
  <1>5. CASE UNCHANGED toServer
    BY <1>1, <1>5, FaultTyped
  <1> QED BY <1>3, <1>4, <1>5 DEF Noise

\* The second invariant is inductive.
LEMMA NextTyped == Typed /\ [Next]_vars => Typed'
  <1> SUFFICES ASSUME Typed, [Next]_vars PROVE Typed'
    OBVIOUS
  <1>1. CASE gdb_scanner
    BY <1>1, ScanTyped, ScanPacketTyped, HandleTyped, ScanEofTyped DEF gdb_scanner
  <1>2. CASE gdb
    BY <1>2, CallTyped, UnackedTyped, WaitingTyped, TimeoutTyped, CloseTyped DEF gdb
  <1>3. CASE Link
    BY <1>3, DamageTyped, NoiseTyped DEF Link
  <1>4. CASE UNCHANGED vars
    <2>1. UNCHANGED <<server, client, toServer>>
      BY <1>4 DEF vars
    <2>2. InOrder(toServer', calls, floor)
      BY <2>1 DEF Typed
    <2> QED BY <2>1, <2>2, FaultTyped
  <1> QED BY <1>1, <1>2, <1>3, <1>4 DEF Next, Over

\* Whatever the link adds, loses or damages, the memory stays bytes and the
\* registers words, the error fits its buffer, and no call is executed that has
\* not been made.
THEOREM TypeCorrect == Spec => []TypeOK
  <1>1. Typed => TypeOK
    BY DEF Typed, CoreTyped, TypeOK
  <1> QED BY <1>1, InitTyped, NextTyped, PTL DEF Spec

-----------------------------------------------------------------------------
(* The replies. *)

\* A reply that gdb takes for its answer, when it reads it: it comes after the
\* acknowledgement of the call, read or not.
Answering(i) == \/ phase = "waiting"
                \/ \E j \in DOMAIN toClient : j < i /\ toClient[j].type = "ack"

\* It is the last one, unless it has been damaged.
Fresh ==
  \A i \in DOMAIN toClient : toClient[i].type = "reply" =>
    /\ "good" \in DOMAIN toClient[i]
    /\ toClient[i].good /\ Answering(i) => toClient[i].text = packet

\* Steps that neither write to gdb nor read.
LEMMA UnmovedFresh ==
  ASSUME Fresh, UNCHANGED <<toClient, packet>>, phase' = "waiting" => phase = "waiting"
  PROVE  Fresh'
  BY DEF Fresh, Answering

\* The last reply written again, or an acknowledgement.
LEMMA WrittenFresh ==
  ASSUME Fresh, Listed(toClient), UNCHANGED <<packet, phase>>,
         NEW e \in {Ack, Nak, Reply(packet)}, toClient' = Append(toClient, e)
  PROVE  Fresh'
  <1> DEFINE n == Len(toClient)
  <1>1. /\ DOMAIN toClient = 1 .. n /\ n \in Nat
        /\ DOMAIN toClient' = 1 .. n + 1 /\ toClient'[n + 1] = e
        /\ \A i \in 1 .. n : toClient'[i] = toClient[i]
    BY AppendItem DEF Listed
  <1> HIDE DEF n
  <1>2. e.type = "reply" => "good" \in DOMAIN e /\ e.text = packet
    BY DEF Ack, Nak, Reply
  <1>3. \A i \in 1 .. n : Answering(i)' => Answering(i)
    BY <1>1 DEF Answering
  <1> QED BY <1>1, <1>2, <1>3 DEF Fresh

\* What gdb reads leaves the replies after it: when it is the acknowledgement,
\* gdb waits for them.
LEMMA ReadFresh ==
  ASSUME Fresh, Listed(toClient), toClient # <<>>, toClient' = Tail(toClient),
         packet' = packet,
         phase' = "waiting" => phase = "waiting" \/ Head(toClient).type = "ack"
  PROVE  Fresh'
  <1> DEFINE n == Len(toClient)
  <1>1. /\ DOMAIN toClient = 1 .. n /\ n \in Nat /\ n > 0
        /\ DOMAIN toClient' = 1 .. n - 1 /\ Head(toClient) = toClient[1]
        /\ \A i \in 1 .. n - 1 : toClient'[i] = toClient[i + 1]
    BY TailItems DEF Listed
  <1> HIDE DEF n
  <1>2. \A i \in 1 .. n - 1 : i + 1 \in 1 .. n /\ 1 < i + 1
    BY <1>1
  <1>3. ASSUME NEW i \in 1 .. n - 1, Answering(i)'
        PROVE  Answering(i + 1)
    <2>1. CASE phase' = "waiting"
      BY <1>1, <1>2, <2>1 DEF Answering
    <2>2. CASE \E j \in DOMAIN toClient' : j < i /\ toClient'[j].type = "ack"
      <3>1. PICK j \in 1 .. n - 1 : j < i /\ toClient'[j].type = "ack"
        BY <1>1, <2>2
      <3>2. j + 1 \in DOMAIN toClient /\ j + 1 < i + 1 /\ toClient[j + 1].type = "ack"
        BY <1>1, <3>1
      <3> QED BY <3>2 DEF Answering
    <2> QED BY <1>3, <2>1, <2>2 DEF Answering
  <1> QED BY <1>1, <1>2, <1>3 DEF Fresh

\* The reply to a call is written when no other can be taken for its answer.
LEMMA HandleFresh == Quiet /\ Fresh /\ Handle => Fresh'
  <1> SUFFICES ASSUME Quiet, Fresh, Handle PROVE Fresh'
    OBVIOUS
  <1> DEFINE n == Len(toClient)
             e == Reply(packet')
  <1>1. at = "handle" /\ toClient' = Append(toClient, e) /\ UNCHANGED phase
    BY DEF Handle, client
  <1>2. Listed(toClient)
    BY DEF Quiet, Framed
  <1>3. "good" \in DOMAIN e /\ e.text = packet' /\ e.type = "reply"
    BY DEF Reply
  <1> HIDE DEF e
  <1>4. /\ DOMAIN toClient = 1 .. n /\ n \in Nat
        /\ DOMAIN toClient' = 1 .. n + 1 /\ toClient'[n + 1] = e
        /\ \A i \in 1 .. n : toClient'[i] = toClient[i]
    BY <1>1, <1>2, AppendItem DEF Listed
  <1>5. \A j \in DOMAIN toClient : toClient[j].type = "ack" => j = n
    BY <1>1 DEF Quiet, OneAnswer, Answers, AnswersIn
  <1>6. phase = "waiting" => toClient = <<>>
    BY <1>1 DEF Quiet, Progress
  <1>7. phase = "waiting" => n = 0
    BY <1>6
  <1> HIDE DEF n
  <1>8. \A i \in 1 .. n : ~Answering(i)'
    BY <1>1, <1>4, <1>5, <1>7 DEF Answering
  <1> QED BY <1>3, <1>4, <1>8 DEF Fresh

\* The listener writes acknowledgements, and its last reply again.
LEMMA ListenerFresh == Quiet /\ Fresh /\ gdb_scanner => Fresh'
  <1> SUFFICES ASSUME Quiet, Fresh, gdb_scanner PROVE Fresh'
    OBVIOUS
  <1>1. Listed(toClient) /\ len = 0
    BY DEF Quiet, Framed
  <1>2. HandleError = <<>> /\ toClient \o <<>> = toClient
    BY <1>1, WrittenItems DEF HandleError
  <1>3. \A e : <<>> \o <<e>> = <<e>> /\ toClient \o <<e>> = Append(toClient, e)
    BY <1>1, WrittenItems
  <1>4. CASE ScanAck \/ ScanEof
    BY <1>2, <1>4, UnmovedFresh DEF ScanAck, ScanEof, Take, client
  <1>5. CASE ScanNak
    <2>1. UNCHANGED <<packet, phase>> /\ toClient' = toClient \o (HandleError \o TransmitPacket)
      BY <1>5 DEF ScanNak, Take, client
    <2>2. CASE packet = None
      <3>1. toClient' = toClient
        BY <1>1, <1>2, <2>1, <2>2, WrittenItems DEF TransmitPacket
      <3> QED BY <2>1, <3>1, UnmovedFresh
    <2>3. CASE packet # None
      <3> DEFINE e == Reply(packet)
      <3>1. toClient' = Append(toClient, e)
        BY <1>2, <1>3, <2>1, <2>3 DEF TransmitPacket
      <3> QED BY <1>1, <2>1, <3>1, WrittenFresh
    <2> QED BY <2>2, <2>3
  <1>6. CASE ScanNoise
    <2>1. ServerItem(Head(toServer))
      BY <1>6, ServerReads DEF Quiet, ScanNoise, Token
    <2> QED BY <1>6, <2>1 DEF ServerItem, IsItem, ScanNoise, Token
  <1>7. CASE ScanPacket
    <2>1. UNCHANGED <<packet, phase>>
      BY <1>7 DEF ScanPacket, client
    <2>2. PICK e \in {Ack, Nak} : toClient' = toClient \o (HandleError \o <<e>>)
      BY <1>7 DEF ScanPacket, Take
    <2>3. toClient' = Append(toClient, e)
      BY <1>2, <1>3, <2>2
    <2> QED BY <1>1, <2>1, <2>3, WrittenFresh
  <1>8. CASE Handle
    BY <1>8, HandleFresh
  <1> QED BY <1>4, <1>5, <1>6, <1>7, <1>8 DEF gdb_scanner

\* gdb only reads.
LEMMA ClientFresh == Quiet /\ Fresh /\ gdb => Fresh'
  <1> SUFFICES ASSUME Quiet, Fresh, gdb PROVE Fresh'
    OBVIOUS
  <1>1. Listed(toClient)
    BY DEF Quiet, Framed
  <1>2. UNCHANGED packet
    BY DEF gdb, Call, Unacked, Waiting, Timeout, Close, server
  <1>3. CASE Call \/ Timeout \/ Close
    BY <1>2, <1>3, UnmovedFresh DEF Call, Timeout, Close, client
  <1>4. CASE Unacked
    <2>1. /\ toClient # <<>> /\ toClient' = Tail(toClient)
          /\ phase' = "waiting" => phase = "waiting" \/ Head(toClient).type = "ack"
      BY <1>4 DEF Unacked, Drop, Arrives
    <2> QED BY <1>1, <1>2, <2>1, ReadFresh
  <1>5. CASE Waiting
    <2>1. toClient # <<>> /\ toClient' = Tail(toClient) /\ phase = "waiting"
      BY <1>5 DEF Waiting, Drop
    <2> QED BY <1>1, <1>2, <2>1, ReadFresh
  <1> QED BY <1>3, <1>4, <1>5 DEF gdb

\* A damaged reply is none that gdb takes.
LEMMA DamageFresh == Quiet /\ Fresh /\ Damage => Fresh'
  <1> SUFFICES ASSUME Quiet, Fresh, Damage PROVE Fresh'
    OBVIOUS
  <1>1. UNCHANGED <<packet, phase>> /\ Listed(toClient)
    BY DEF Damage, server, client, Quiet, Framed
  <1>2. CASE UNCHANGED toClient
    BY <1>1, <1>2, UnmovedFresh
  <1>3. ASSUME NEW i \in DOMAIN toClient, toClient[i].type = "reply",
               toClient' = [toClient EXCEPT ![i].good = FALSE, ![i].text = <<"">>]
        PROVE  Fresh'
    <2> DEFINE e == [toClient[i] EXCEPT !.good = FALSE, !.text = <<"">>]
    <2>1. toClient' = [toClient EXCEPT ![i] = e]
      BY <1>3
    <2>2. "good" \in DOMAIN toClient[i]
      BY <1>3 DEF Fresh
    <2>3. e.type = "reply" /\ "good" \in DOMAIN e /\ e.good = FALSE
      BY <1>3, <2>2
    <2> HIDE DEF e
    <2>4. /\ DOMAIN toClient' = DOMAIN toClient
          /\ \A j \in DOMAIN toClient : toClient'[j] = IF j = i THEN e ELSE toClient[j]
      <3>1. Changed(toClient, [toClient EXCEPT ![i] = e], i, e)
        BY <1>1, ChangedItem, Zenon
      <3> QED BY <2>1, <3>1 DEF Changed
    <2>5. \A j \in DOMAIN toClient : toClient'[j].type = toClient[j].type
      BY <1>3, <2>3, <2>4
    <2>6. \A j \in DOMAIN toClient : Answering(j)' => Answering(j)
      BY <1>1, <2>4, <2>5 DEF Answering
    <2> QED BY <1>1, <2>3, <2>4, <2>6 DEF Fresh
  <1> QED BY <1>2, <1>3 DEF Damage, DamageBody, AddAck

\* While the framing holds, replies stay the last.
LEMMA FreshNext ==
  Quiet /\ Fresh /\ (gdb_scanner \/ gdb \/ Damage \/ Over \/ UNCHANGED vars) => Fresh'
  <1>1. Fresh /\ UNCHANGED vars => Fresh'
    BY UnmovedFresh DEF vars, server, client
  <1> QED BY <1>1, ListenerFresh, ClientFresh, DamageFresh DEF Over

-----------------------------------------------------------------------------
(* The refinement. *)

\* What the refinement rests on.
Linked == Typed /\ IInv /\ (~noisy => Fresh)

\* Nothing is under way at first.
LEMMA InitFresh == Init => Fresh
  <1>1. Init => toClient = <<>> /\ DOMAIN <<>> = {}
    BY DEF Init
  <1> QED BY <1>1 DEF Fresh

\* The three invariants together are inductive.
LEMMA NextLinked == Linked /\ [Next]_vars => Linked'
  <1> SUFFICES ASSUME Linked, [Next]_vars PROVE Linked'
    OBVIOUS
  <1>1. Typed' /\ IInv' /\ noiseLeft \in 0 .. MaxNoise /\ MaxNoise \in Nat
    BY NextTyped, NextInv, LinkAssumption DEF Linked, IInv
  <1>2. ASSUME ~noisy'
        PROVE  Fresh'
    <2>1. /\ noiseLeft' = noiseLeft
          /\ gdb_scanner \/ gdb \/ Damage \/ Over \/ UNCHANGED vars
      BY <1>1, <1>2, FaultsCounted DEF noisy, IInv
    <2>2. ~noisy /\ Quiet
      BY <1>1, <1>2, <2>1 DEF noisy, Linked, IInv
    <2> QED BY <2>1, <2>2, FreshNext DEF Linked
  <1> QED BY <1>1, <1>2 DEF Linked

\* The initial states are those of the specification.
LEMMA InitImplements == Init => Remote!Init
  <1> SUFFICES ASSUME Init PROVE Remote!Init
    OBVIOUS
  <1>1. reg \in RegisterFile
    BY InitTyped DEF Typed, CoreTyped
  <1>2. \A n \in 0 .. 15 : reg[n] = 0
    <2> DEFINE r == [n \in 0 .. 16 |-> 0]
    <2>1. r \in RegisterFile /\ reg = ResetRegisters(r)
      BY WordFacts DEF Init, RegisterFile
    <2>2. \A n \in 0 .. 16 : r[n] = 0
      OBVIOUS
    <2> HIDE DEF r
    <2>3. reg[PC] = 0 /\ \A n \in 0 .. 14 : reg[n] = 0
      BY <2>1, <2>2, ResetTyped
    <2>4. \A n \in 0 .. 15 : n = PC \/ n \in 0 .. 14
      BY DEF PC
    <2> QED BY <2>3, <2>4
  <1>3. DOMAIN Shown(reg) = 0 .. 16 /\ \A n \in 0 .. 15 : Shown(reg)[n] = 0
    <2>1. DOMAIN Shown(reg) = 0 .. 16 /\ \A n \in 0 .. 16 : Shown(reg)[n] = Remote!Kept(n, reg[n])
      BY <1>1, ShownTyped DEF RegisterFile
    <2>2. \A n \in 0 .. 15 : Remote!Kept(n, 0) = 0
      BY DEF Remote!Kept
    <2>3. \A n \in 0 .. 15 : n \in 0 .. 16
      OBVIOUS
    <2> QED BY <1>2, <2>1, <2>2, <2>3
  <1>4. stop_reason(target_exception) = "S05"
    <2>1. target_exception = 0
      BY DEF Init
    <2> QED BY <2>1 DEF stop_reason, UNDEFINED_INSTRUCTION, PREFETCH_ABORT, DATA_ABORT
  <1>5. Understood(packet) = <<"none">>
    <2>1. packet = <<"none">> /\ packet[1] = "none"
      BY DEF Init, None
    <2> QED BY <2>1 DEF Understood
  <1>6. ~noisy /\ ~waiting
    BY LinkAssumption DEF Init, noisy, waiting
  <1>7. /\ mem = [a \in 0 .. Size - 1 |-> 0] /\ steps = 0 /\ calls = <<>> /\ served = 0
        /\ answer = <<"none">>
    BY DEF Init, None, Position
  <1> QED BY <1>3, <1>4, <1>5, <1>6, <1>7 DEF Shown, Remote!Init, Remote!None, Remote!Address

\* What the specification does not see.
LEMMA Stutters ==
  ASSUME UNCHANGED <<core, packet, calls, served, answer, noiseLeft>>, waiting' = waiting
  PROVE  UNCHANGED Remote!vars
  <1>1. UNCHANGED <<mem, reg, steps, target_exception>>
    BY DEF core
  <1> QED BY <1>1 DEF Remote!vars, Remote!program, noisy

\* The listener: a handled packet is a call executed, once while the framing holds.
LEMMA HandleImplements ==
  ASSUME Linked, Handle
  PROVE  \E k \in 1 .. Len(calls) : Remote!Execute(k)
  <1> DEFINE k == cmd.id
             op == calls[k]
  <1>1. /\ at = "handle" /\ handler /\ served' = k
        /\ UNCHANGED <<phase, calls, answer, noiseLeft>>
    BY DEF Handle, client, faults
  <1>2. /\ k \in 1 .. Len(calls) /\ served <= k /\ cmd = Request(k, op)
        /\ calls \in Seq(Op) /\ CoreTyped
    BY <1>1 DEF Linked, Typed
  <1>3. op \in Op
    BY <1>2
  <1>4. IF noisy THEN k >= served ELSE waiting /\ k = Len(calls) /\ k = served + 1
    <2>1. CASE noisy
      BY <1>2, <2>1 DEF Linked, Typed
    <2>2. CASE ~noisy
      <3>1. Progress
        BY <2>2, LinkAssumption DEF Linked, IInv, Quiet, noisy
      <3> QED BY <1>1, <2>2, <3>1 DEF Progress, last, waiting
    <2> QED BY <2>1, <2>2
  <1>5. waiting' = waiting /\ noisy' = noisy
    BY <1>1 DEF waiting, noisy
  <1> HIDE DEF op, k
  <1>6. Remote!Effect(op)
    BY <1>1, <1>2, <1>3, HandlerEffect
  <1>7. Remote!Effect(calls[k])
    BY <1>6 DEF op
  <1>8. Remote!Execute(k)
    BY <1>1, <1>2, <1>4, <1>5, <1>7 DEF Remote!Execute
  <1> QED BY <1>2, <1>8

\* No other step of the listener shows.
LEMMA ListenerImplements ==
  ASSUME Linked, gdb_scanner
  PROVE  (\E k \in 1 .. Len(calls) : Remote!Execute(k)) \/ UNCHANGED Remote!vars
  <1>1. CASE ScanAck \/ ScanNak \/ ScanNoise \/ ScanPacket \/ ScanEof
    <2>1. UNCHANGED <<core, packet, served, client, faults>>
      BY <1>1 DEF ScanAck, ScanNak, ScanNoise, ScanPacket, ScanEof
    <2>2. UNCHANGED <<phase, calls, answer, noiseLeft>>
      BY <2>1 DEF client, faults
    <2> QED BY <2>1, <2>2, Stutters DEF waiting
  <1>2. CASE Handle
    BY <1>2, HandleImplements
  <1> QED BY <1>1, <1>2 DEF gdb_scanner

\* gdb: a call is made when none is waited for, and returns with its own result
\* while the framing holds.
LEMMA CallImplements ==
  ASSUME Linked, Call
  PROVE  Remote!Call
  <1>1. /\ phase = "idle" /\ phase' = "unacked"
        /\ UNCHANGED <<mem, reg, steps, target_exception, packet, served, answer, noiseLeft>>
    BY DEF Call, server, core, faults
  <1>2. \E op \in Op : calls' = Append(calls, op)
    BY OneMore DEF Linked
  <1>3. ~waiting /\ waiting' = TRUE /\ noisy' = noisy
    BY <1>1 DEF waiting, noisy
  <1> QED BY <1>1, <1>2, <1>3 DEF Remote!Call, Remote!program

\* What gdb takes for its answer is the result of the last call, executed, while
\* the framing holds.
LEMMA WaitingImplements ==
  ASSUME Linked, Waiting
  PROVE  Remote!Return \/ UNCHANGED Remote!vars
  <1>1. /\ phase = "waiting" /\ toClient # <<>>
        /\ UNCHANGED <<core, packet, served, calls, noiseLeft>>
    BY DEF Waiting, server, faults
  <1>2. CASE UNCHANGED <<phase, answer>>
    BY <1>1, <1>2, Stutters DEF waiting
  <1>3. CASE /\ Arrives("reply") /\ Head(toClient).good
             /\ phase' = "idle" /\ answer' = Understood(Head(toClient).text)
    <2>1. waiting /\ waiting' = FALSE /\ noisy' = noisy
      BY <1>1, <1>3 DEF waiting, noisy
    <2>2. ASSUME ~noisy
          PROVE  served = Len(calls) /\ answer' = Understood(packet)
      <3>1. Quiet /\ Fresh
        BY <2>2, LinkAssumption DEF Linked, IInv, noisy
      <3>2. Listed(toClient)
        BY <3>1 DEF Quiet, Framed
      <3>3. Head(toClient) = toClient[1] /\ 1 \in DOMAIN toClient
        BY <1>1, <3>1, ClientReads DEF Quiet
      <3>4. toClient[1].text = packet
        BY <1>1, <1>3, <3>1, <3>3 DEF Fresh, Answering, Arrives
      <3>5. served = Len(calls)
        BY <1>1, <3>1 DEF Quiet, Progress, last
      <3> QED BY <1>3, <3>3, <3>4, <3>5
    <2>3. UNCHANGED <<mem, reg, steps, target_exception>>
      BY <1>1 DEF core
    <2> QED BY <1>1, <2>1, <2>2, <2>3 DEF Remote!Return, Remote!program
  <1> QED BY <1>2, <1>3 DEF Waiting

\* No other step of gdb shows.
LEMMA ClientImplements ==
  ASSUME Linked, gdb
  PROVE  Remote!Call \/ Remote!Return \/ UNCHANGED Remote!vars
  <1>1. CASE Call
    BY <1>1, CallImplements
  <1>2. CASE Waiting
    BY <1>2, WaitingImplements
  <1>3. CASE Unacked \/ Timeout \/ Close
    <2>1. UNCHANGED <<core, packet, served, calls, answer, noiseLeft>>
      BY <1>3 DEF Unacked, Timeout, Close, server, client, faults
    <2>2. waiting' = waiting
      BY <1>3 DEF Unacked, Timeout, Close, client, waiting
    <2> QED BY <2>1, <2>2, Stutters
  <1> QED BY <1>1, <1>2, <1>3 DEF gdb

\* The link: a broken framing is noise, a damaged packet does not show.
LEMMA LinkImplements ==
  ASSUME Linked, Link
  PROVE  Remote!Noise \/ UNCHANGED Remote!vars
  <1>1. UNCHANGED <<core, packet, served, phase, calls, answer>>
    BY DEF Link, Damage, Noise, server, client
  <1>2. waiting' = waiting
    BY <1>1 DEF waiting
  <1>3. CASE Damage
    BY <1>1, <1>2, <1>3, Stutters DEF Damage
  <1>4. CASE Noise
    <2>1. noisy' = TRUE
      BY <1>4, LinkAssumption DEF Noise, Linked, IInv, noisy
    <2>2. UNCHANGED <<mem, reg, steps, target_exception>>
      BY <1>1 DEF core
    <2> QED BY <1>1, <1>2, <2>1, <2>2 DEF Remote!Noise, Remote!program
  <1> QED BY <1>3, <1>4 DEF Link

\* Every step is one of the specification, or does not show.
LEMMA NextImplements == Linked /\ [Next]_vars => [Remote!Next]_(Remote!vars)
  <1> SUFFICES ASSUME Linked, [Next]_vars PROVE Remote!Next \/ UNCHANGED Remote!vars
    OBVIOUS
  <1>1. CASE gdb_scanner
    BY <1>1, ListenerImplements DEF Remote!Next
  <1>2. CASE gdb
    BY <1>2, ClientImplements DEF Remote!Next
  <1>3. CASE Link
    BY <1>3, LinkImplements DEF Remote!Next
  <1>4. CASE Over \/ UNCHANGED vars
    <2>1. UNCHANGED <<core, packet, calls, served, answer, noiseLeft, phase>>
      BY <1>4 DEF Over, vars, server, client, faults
    <2> QED BY <2>1, Stutters DEF waiting
  <1> QED BY <1>1, <1>2, <1>3, <1>4 DEF Next

\* Behind the link each call is executed once, in order, and answered with its
\* own result, whatever bodies are damaged and acknowledgements added; once the
\* framing is broken calls are still executed in order.
THEOREM Implements == Spec => CallsOnce
  <1>1. Init => Linked /\ Remote!Init
    BY InitTyped, InitInv, InitFresh, InitImplements DEF Linked
  <1> QED BY <1>1, NextLinked, NextImplements, PTL DEF Spec, CallsOnce, Remote!Spec
=============================================================================
