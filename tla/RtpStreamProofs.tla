-------------------------- MODULE RtpStreamProofs --------------------------
(***************************************************************************)
(* Proofs about RtpStream, for every frame size, payload size, sequence    *)
(* number space and network, and however many packets are lost, reordered  *)
(* or refused.                                                             *)
(*                                                                         *)
(* The receiver reads the frames back out of packets it has put together   *)
(* from what arrives.  Five invariants lead to what that gives:            *)
(*  - WireInv and OrderInv, what is in flight and in which order: frames   *)
(*    are accepted in order;                                               *)
(*  - TimestampInv, one timestamp for each frame while no packet is        *)
(*    refused, and UnbrokenInv, no piece missing in a network without      *)
(*    fault: no frame is put together from two;                            *)
(*  - AscendInv, the bytes collected of a frame ascend: a small frame that *)
(*    parses is complete;                                                  *)
(*  - GapInv, the sequence numbers tell the packets missing: a frame with  *)
(*    a hole is counted as damaged.                                        *)
(***************************************************************************)
EXTENDS RtpStream, SequenceFoldProofs

(* The bytes of frames                                                      *)

\* VideoData drops the headers and keeps the bytes.
LEMMA VideoDataType ==
  ASSUME NEW data \in Seq(Byte)
  PROVE  VideoData(data) \in Seq(Byte)
<1> DEFINE turn == [seq \in Seq(Byte) |->
                     [byte \in Byte |-> IF byte[2] = 0 THEN seq ELSE Append(seq, byte)]]
<1>1. turn \in Turns(Seq(Byte), Byte) /\ <<>> \in Seq(Byte)
  <2>1. \A seq \in Seq(Byte), byte \in Byte :
          (IF byte[2] = 0 THEN seq ELSE Append(seq, byte)) \in Seq(Byte)
    OBVIOUS
  <2> QED BY <2>1 DEF Turns
<1>2. VideoData(data) = Fold(turn, <<>>, data)
  BY DEF VideoData
<1> HIDE DEF turn
<1>3. \A s \in Seq(Byte) : Fold(turn, <<>>, s) \in Seq(Byte)
  BY <1>1, FoldLaws
<1> QED BY <1>2, <1>3

\* Concatenation, one sequence after the other.
LEMMA ConcatenationSteps ==
  /\ Concatenation(<<>>) = <<>>
  /\ \A seqs \in Seq(Seq(Byte)) : Concatenation(seqs) \in Seq(Byte)
  /\ \A seqs \in Seq(Seq(Byte)), seq \in Seq(Byte) :
       Concatenation(Append(seqs, seq)) = Concatenation(seqs) \o seq
<1> DEFINE turn == [all \in Seq(Byte) |-> [seq \in Seq(Byte) |-> all \o seq]]
<1>1. turn \in Turns(Seq(Byte), Seq(Byte)) /\ <<>> \in Seq(Byte)
  <2>1. \A all \in Seq(Byte), seq \in Seq(Byte) : all \o seq \in Seq(Byte)
    OBVIOUS
  <2> QED BY <2>1 DEF Turns
<1>2. \A seqs : Concatenation(seqs) = Fold(turn, <<>>, seqs)
  BY DEF Concatenation
<1>3. \A all \in Seq(Byte), seq \in Seq(Byte) : turn[all][seq] = all \o seq
  OBVIOUS
<1> HIDE DEF turn
<1>4. /\ Fold(turn, <<>>, <<>>) = <<>>
      /\ \A s \in Seq(Seq(Byte)) : Fold(turn, <<>>, s) \in Seq(Byte)
      /\ \A s \in Seq(Seq(Byte)), e \in Seq(Byte) :
           Fold(turn, <<>>, Append(s, e)) = turn[Fold(turn, <<>>, s)][e]
  BY <1>1, FoldLaws
<1> QED BY <1>2, <1>3, <1>4, Zenon

\* Concatenation of one sequence more.
LEMMA ConcatenationAppend ==
  ASSUME NEW seqs \in Seq(Seq(Byte)), NEW seq \in Seq(Byte)
  PROVE  /\ Concatenation(seqs) \in Seq(Byte)
         /\ Concatenation(Append(seqs, seq)) = Concatenation(seqs) \o seq
BY ConcatenationSteps, Zenon

\* No sequences give the empty one.
LEMMA ConcatenationEmpty == Concatenation(<<>>) = <<>>
BY ConcatenationSteps
-----------------------------------------------------------------------------
(* Packets                                                                  *)

\* The type invariant and what it needs of the variables it does not bound.
RtpTypeInv == RtpTypeOK /\ offset \in Nat /\ fails \in Nat /\ payloadTime \in Nat

\* The packet that the sender's next turn builds.
NextPacket == [data |-> SubSeq(ProgramStreamSample(frame), offset + 1, ChunkEnd),
               sequence |-> sequence, timestamp |-> timestamp, marker |-> Marker, ssrc |-> ssrc]

\* The assumption on the constants, as the proofs use it.
LEMMA FrameBytes ==
  /\ Frames \subseteq Nat
  /\ \A f \in Frames : Bytes[f] \in Nat /\ Bytes[f] > 1
  /\ PayloadBytes \in Nat /\ PayloadBytes > 1
  /\ SequenceMod \in Nat /\ SequenceMod > 0
<1>1. Bytes \in Seq(Nat \ {0, 1})
  BY RtpStreamAssumption
<1>2. \A f \in 1..Len(Bytes) : Bytes[f] \in Nat \ {0, 1}
  BY <1>1
<1> QED BY <1>1, <1>2, RtpStreamAssumption DEF Frames

\* A sample is its bytes in order, the headers first.
LEMMA SampleBytes ==
  ASSUME NEW f \in Frames
  PROVE  /\ ProgramStreamSample(f) \in Seq(Byte)
         /\ Len(ProgramStreamSample(f)) = Bytes[f]
         /\ \A k \in 1..Bytes[f] : ProgramStreamSample(f)[k] = <<f, k - 1>>
<1>1. PICK n \in Nat : n = Bytes[f]
  BY FrameBytes
<1> DEFINE sample == [k \in 1..n |-> <<f, k - 1>>]
<1>2. \A k \in 1..n : <<f, k - 1>> \in Byte
  BY DEF Byte
<1>3. sample \in [1..n -> Byte]
  BY <1>2
<1>4. sample \in Seq(Byte) /\ Len(sample) = n
  <2> HIDE DEF sample
  <2> QED BY <1>3
<1>5. \A k \in 1..n : sample[k] = <<f, k - 1>>
  OBVIOUS
<1>6. ProgramStreamSample(f) = sample
  BY <1>1 DEF ProgramStreamSample
<1> HIDE DEF sample
<1> QED BY <1>1, <1>4, <1>5, <1>6

\* A chunk is not empty and ends with the sample at the latest.
LEMMA ChunkFacts ==
  ASSUME RtpTypeInv, frame \in Frames
  PROVE  /\ ChunkEnd \in Nat
         /\ offset < ChunkEnd /\ ChunkEnd <= Bytes[frame]
         /\ Marker <=> ChunkEnd = Bytes[frame]
         /\ Marker \in BOOLEAN
         /\ ~Marker => ChunkEnd = offset + PayloadBytes
BY FrameBytes DEF RtpTypeInv, RtpTypeOK, ChunkEnd, Marker

\* What a part of a sequence holds.
LEMMA PartFacts ==
  ASSUME NEW S, NEW seq \in Seq(S), NEW m \in Nat, NEW n \in Nat, m < n, n <= Len(seq)
  PROVE  /\ SubSeq(seq, m + 1, n) \in Seq(S)
         /\ Len(SubSeq(seq, m + 1, n)) = n - m
         /\ \A k \in 1..(n - m) : SubSeq(seq, m + 1, n)[k] = seq[m + k]
<1>1. \A k \in (m + 1)..n : seq[k] \in S
  OBVIOUS
<1> QED BY <1>1, SubSeqProperties

\* The next packet carries the sample's bytes from the offset to the end of the chunk.
LEMMA NextPacketFacts ==
  ASSUME RtpTypeInv, frame \in Frames
  PROVE  /\ NextPacket \in Packet
         /\ Len(NextPacket.data) = ChunkEnd - offset
         /\ \A k \in 1..Len(NextPacket.data) : NextPacket.data[k] = <<frame, offset + k - 1>>
<1> DEFINE sample == ProgramStreamSample(frame)
           data == SubSeq(sample, offset + 1, ChunkEnd)
<1>1. sample \in Seq(Byte) /\ Len(sample) = Bytes[frame]
      /\ \A k \in 1..Bytes[frame] : sample[k] = <<frame, k - 1>>
  BY SampleBytes
<1>2. /\ offset \in Nat /\ ChunkEnd \in Nat /\ Bytes[frame] \in Nat
      /\ offset < ChunkEnd /\ ChunkEnd <= Bytes[frame]
  BY ChunkFacts, FrameBytes DEF RtpTypeInv
<1> HIDE DEF sample
<1>3. data \in Seq(Byte) /\ Len(data) = ChunkEnd - offset
      /\ \A k \in 1..Len(data) : data[k] = sample[offset + k]
  BY <1>1, <1>2, PartFacts
<1>4. \A k \in 1..Len(data) : data[k] = <<frame, offset + k - 1>>
  BY <1>1, <1>2, <1>3
<1>5. Marker \in BOOLEAN
  BY ChunkFacts
<1>6. sequence \in 0..SequenceMod - 1 /\ timestamp \in Nat /\ ssrc \in SenderSsrcs
  BY DEF RtpTypeInv, RtpTypeOK
<1> QED
  <2> HIDE DEF data
  <2> USE DEF NextPacket, data, sample
  <2>1. NextPacket.data = data
    BY DEF NextPacket, sample
  <2> HIDE DEF data, NextPacket, sample
  <2>2. NextPacket \in Packet
    BY <1>3, <1>5, <1>6 DEF Packet, NextPacket, data, sample
  <2> QED BY <1>3, <1>4, <2>1, <2>2

\* RemoveAt takes one element and moves up those behind it.
LEMMA RemoveAtFacts ==
  ASSUME NEW S, NEW seq \in Seq(S), NEW i \in 1..Len(seq)
  PROVE  /\ RemoveAt(seq, i) \in Seq(S)
         /\ Len(RemoveAt(seq, i)) = Len(seq) - 1
         /\ \A k \in 1..(Len(seq) - 1) :
              RemoveAt(seq, i)[k] = IF k < i THEN seq[k] ELSE seq[k + 1]
<1> DEFINE front == SubSeq(seq, 1, i - 1)
           back  == SubSeq(seq, i + 1, Len(seq))
<1>1. front \in Seq(S) /\ Len(front) = i - 1 /\ \A k \in 1..(i - 1) : front[k] = seq[k]
  OBVIOUS
<1>2. back \in Seq(S) /\ Len(back) = Len(seq) - i /\ \A k \in 1..(Len(seq) - i) : back[k] = seq[i + k]
  OBVIOUS
<1> HIDE DEF front, back
<1>3. RemoveAt(seq, i) = front \o back
  BY DEF RemoveAt, front, back
<1>4. front \o back \in Seq(S) /\ Len(front \o back) = Len(seq) - 1
  BY <1>1, <1>2
<1>5. ASSUME NEW k \in 1..(Len(seq) - 1)
      PROVE  (front \o back)[k] = IF k < i THEN seq[k] ELSE seq[k + 1]
  <2>1. CASE k < i
    <3>1. (front \o back)[k] = front[k]
      BY <1>1, <1>2, <2>1
    <3> QED BY <1>1, <2>1, <3>1
  <2>2. CASE k >= i
    <3>1. (front \o back)[k] = back[k - (i - 1)]
      BY <1>1, <1>2, <2>2
    <3>2. back[k - (i - 1)] = seq[k + 1]
      BY <1>2, <2>2
    <3> QED BY <2>2, <3>1, <3>2
  <2>3. k < i \/ k >= i
    OBVIOUS
  <2> QED BY <2>1, <2>2, <2>3
<1> QED BY <1>3, <1>4, <1>5
-----------------------------------------------------------------------------
(* Types                                                                    *)

\* The next sequence number is one more, or 0 after the last.
LEMMA NextSequence ==
  ASSUME NEW x \in 0..SequenceMod - 1
  PROVE  /\ (x + 1) % SequenceMod = IF x + 1 = SequenceMod THEN 0 ELSE x + 1
         /\ (x + 1) % SequenceMod \in 0..SequenceMod - 1
<1>1. (x + 1) % SequenceMod = IF x + 1 = SequenceMod THEN 0 ELSE x + 1
  BY FrameBytes
<1> QED BY <1>1, FrameBytes

\* What the receiver collects is bytes of samples.
LEMMA CollectedType ==
  ASSUME RtpTypeInv, NEW m \in Packet
  PROVE  Collected(m) \in Seq(Byte)
BY DEF RtpTypeInv, RtpTypeOK, Collected, Packet

\* The types hold initially, and every step keeps them.
LEMMA RtpTypeInit == RtpInit => RtpTypeInv
<1> SUFFICES ASSUME RtpInit PROVE RtpTypeInv
  OBVIOUS
<1>1. frame \in 1..Len(Bytes) + 1 /\ (frame \in Frames => offset < Bytes[frame])
  BY FrameBytes, RtpStreamAssumption DEF RtpInit, Frames
<1>2. sequence \in 0..SequenceMod - 1 /\ last \in 0..SequenceMod
  BY FrameBytes DEF RtpInit, NoSequence
<1>3. /\ wire \in Seq(Packet) /\ payload \in Seq(Byte) /\ video \in Seq(Byte)
      /\ accepted \in Seq(Seq(Byte)) /\ written \in Seq(Seq(Byte)) /\ file \in Seq(Piece)
  BY DEF RtpInit
<1>4. offset \in Nat /\ fails \in Nat /\ payloadTime \in Nat /\ timestamp \in Nat /\ outOfOrder \in BOOLEAN
  BY DEF RtpInit
<1>5. ssrc \in SenderSsrcs /\ network \in Networks
  BY DEF RtpInit
<1> QED BY <1>1, <1>2, <1>3, <1>4, <1>5 DEF RtpTypeInv, RtpTypeOK

LEMMA SendPacketType == ASSUME RtpTypeInv, SendPacket PROVE RtpTypeInv'
<1>1. /\ frame \in Frames /\ wire' = Append(wire, NextPacket)
      /\ sequence' = (sequence + 1) % SequenceMod
      /\ timestamp' = IF Marker THEN timestamp + 1 ELSE timestamp
      /\ IF Marker THEN frame' = frame + 1 /\ offset' = 0 ELSE frame' = frame /\ offset' = ChunkEnd
      /\ UNCHANGED <<ssrc, fails, network, last, outOfOrder, payload, payloadTime, video, accepted, written, file>>
  BY DEF SendPacket, BuildPacket, NextPacket
<1>2. NextPacket \in Packet
  BY <1>1, NextPacketFacts
<1>3. wire' \in Seq(Packet)
  BY <1>1, <1>2 DEF RtpTypeInv, RtpTypeOK
<1>4. sequence' \in 0..SequenceMod - 1
  BY <1>1, NextSequence DEF RtpTypeInv, RtpTypeOK
<1>5. /\ frame' \in 1..Len(Bytes) + 1 /\ offset' \in Nat /\ timestamp' \in Nat
      /\ frame' \in Frames => offset' < Bytes[frame']
  <2>1. Len(Bytes) \in Nat
    BY RtpStreamAssumption
  <2>2. frame \in 1..Len(Bytes) /\ frame + 1 \in 1..Len(Bytes) + 1 /\ timestamp \in Nat
    BY <1>1, <2>1 DEF RtpTypeInv, RtpTypeOK, Frames
  <2>3. ChunkEnd \in Nat /\ (~Marker => ChunkEnd < Bytes[frame])
    BY <1>1, ChunkFacts, FrameBytes
  <2>4. \A f \in Frames : 0 < Bytes[f]
    BY FrameBytes
  <2>5. CASE Marker
    BY <1>1, <2>1, <2>2, <2>4, <2>5
  <2>6. CASE ~Marker
    BY <1>1, <2>1, <2>2, <2>3, <2>6
  <2> QED BY <2>5, <2>6
<1> QED BY <1>1, <1>3, <1>4, <1>5 DEF RtpTypeInv, RtpTypeOK

LEMMA SendFailsType ==
  ASSUME RtpTypeInv, NEW taken \in BOOLEAN, SendFails(taken)
  PROVE  RtpTypeInv'
<1>1. /\ frame \in Frames /\ wire' = wire
      /\ sequence' = (sequence + 1) % SequenceMod
      /\ timestamp' = IF Marker THEN timestamp + 1 ELSE timestamp
      /\ frame' \in {frame, frame + 1} /\ offset' = 0 /\ fails' = fails + 1
      /\ UNCHANGED <<ssrc, network, last, outOfOrder, payload, payloadTime, video, accepted, written, file>>
  BY DEF SendFails, BuildPacket
<1>2. sequence' \in 0..SequenceMod - 1
  BY <1>1, NextSequence DEF RtpTypeInv, RtpTypeOK
<1>3. /\ frame' \in 1..Len(Bytes) + 1 /\ offset' \in Nat /\ timestamp' \in Nat /\ fails' \in Nat
      /\ frame' \in Frames => offset' < Bytes[frame']
  <2>1. Len(Bytes) \in Nat /\ timestamp \in Nat /\ fails \in Nat
    BY RtpStreamAssumption DEF RtpTypeInv, RtpTypeOK
  <2>2. frame \in 1..Len(Bytes) /\ \A f \in Frames : Bytes[f] \in Nat /\ Bytes[f] > 1
    BY <1>1, FrameBytes DEF Frames
  <2>3. frame' \in 1..Len(Bytes) + 1
    BY <1>1, <2>1, <2>2
  <2> QED BY <1>1, <2>1, <2>2, <2>3
<1> QED BY <1>1, <1>2, <1>3 DEF RtpTypeInv, RtpTypeOK

LEMMA LoseType ==
  ASSUME RtpTypeInv, NEW i \in 1..Len(wire), Lose(i)
  PROVE  RtpTypeInv'
<1>1. wire' = RemoveAt(wire, i) /\ UNCHANGED <<senderVars, receiverVars>>
  BY DEF Lose
<1>2. wire' \in Seq(Packet)
  BY <1>1, RemoveAtFacts DEF RtpTypeInv, RtpTypeOK
<1> QED BY <1>1, <1>2 DEF RtpTypeInv, RtpTypeOK, senderVars, receiverVars

\* What a write leaves in the file is a beginning of what it was handed.
LEMMA StoredType ==
  ASSUME NEW bytes \in Seq(Byte), NEW result \in SinkResults
  PROVE  /\ Stored(bytes, result) \subseteq Prefixes(bytes)
         /\ Stored(bytes, result) \subseteq Seq(Byte)
<1>1. \A x \in Prefixes(bytes) : x \in Seq(Byte)
  BY PrefixType
<1>2. bytes \in Prefixes(bytes)
  BY PrefixEnds
<1> QED BY <1>1, <1>2 DEF Stored

LEMMA ReceiveType ==
  ASSUME RtpTypeInv, NEW i \in 1..Len(wire), NEW result \in SinkResults, ReceiveRtpPacket(i, result)
  PROVE  RtpTypeInv'
<1>1. PICK m \in Packet : m = wire[i]
  BY DEF RtpTypeInv, RtpTypeOK
<1>2. wire' = RemoveAt(wire, i) /\ UNCHANGED senderVars
  BY DEF ReceiveRtpPacket
<1>3. wire' \in Seq(Packet)
  BY <1>2, RemoveAtFacts DEF RtpTypeInv, RtpTypeOK
<1>4. PICK data \in Seq(Byte) : data = Collected(m)
  BY CollectedType
<1>5. /\ last' \in 0..SequenceMod /\ outOfOrder' \in BOOLEAN
      /\ payload' \in Seq(Byte) /\ payloadTime' \in Nat
  <2>1. CASE m.ssrc # Ssrc
    BY <1>1, <2>1 DEF ReceiveRtpPacket, receiverVars, RtpTypeInv, RtpTypeOK
  <2>2. CASE m.ssrc = Ssrc
    <3>1. /\ last' = m.sequence
          /\ outOfOrder' = (outOfOrder \/ (last # NoSequence /\ m.sequence # (last + 1) % SequenceMod))
          /\ payload' = IF m.marker THEN <<>> ELSE data
          /\ payloadTime' = IF m.marker THEN 0 ELSE m.timestamp
      BY <1>1, <1>4, <2>2 DEF ReceiveRtpPacket, countSequence
    <3>2. m.sequence \in 0..SequenceMod - 1 /\ m.timestamp \in Nat /\ m.marker \in BOOLEAN
      BY DEF Packet
    <3>3. m.sequence \in 0..SequenceMod
      BY <3>2, FrameBytes
    <3> QED BY <3>1, <3>2, <3>3 DEF RtpTypeInv, RtpTypeOK
  <2> QED BY <2>1, <2>2
<1>6. /\ video' \in Seq(Byte) /\ accepted' \in Seq(Seq(Byte)) /\ written' \in Seq(Seq(Byte))
      /\ file' \in Seq(Piece)
  <2>1. CASE UNCHANGED <<video, accepted, written, file>>
    BY <2>1 DEF RtpTypeInv, RtpTypeOK
  <2>2. CASE writeFrame(data, result)
    <3>1. PICK bytes \in Seq(Byte) : bytes = video \o VideoData(data)
      <4>1. PICK more \in Seq(Byte) : more = VideoData(data)
        BY VideoDataType
      <4>2. video \o more \in Seq(Byte)
        BY DEF RtpTypeInv, RtpTypeOK
      <4> QED BY <4>1, <4>2
    <3>2. /\ accepted' = Append(accepted, data)
          /\ written' = IF result = "torn" THEN written ELSE Append(written, bytes)
          /\ video' = IF result = "torn" THEN bytes ELSE <<>>
          /\ \E stored \in Stored(bytes, result) :
               file' = Append(file, [data |-> stored, write |-> Len(written) + 1, result |-> result])
      BY <2>2, <3>1 DEF writeFrame
    <3>3. Stored(bytes, result) \subseteq Seq(Byte)
      BY StoredType
    <3>4. Len(written) + 1 \in Nat
      BY DEF RtpTypeInv, RtpTypeOK
    <3>5. file' \in Seq(Piece)
      <4>1. PICK stored \in Seq(Byte) :
              file' = Append(file, [data |-> stored, write |-> Len(written) + 1, result |-> result])
        BY <3>2, <3>3
      <4>2. [data |-> stored, write |-> Len(written) + 1, result |-> result] \in Piece
        BY <3>4 DEF Piece
      <4> QED BY <4>1, <4>2 DEF RtpTypeInv, RtpTypeOK
    <3> QED BY <3>2, <3>5 DEF RtpTypeInv, RtpTypeOK
  <2> QED BY <1>1, <1>4, <2>1, <2>2 DEF ReceiveRtpPacket, receiverVars
<1> QED BY <1>2, <1>3, <1>5, <1>6 DEF RtpTypeInv, RtpTypeOK, senderVars

\* Receive takes one packet, the first where none overtakes another.
LEMMA ReceiveFirst ==
  ASSUME RtpTypeInv, Receive
  PROVE  \E i \in 1..Len(wire), result \in SinkResults :
           ReceiveRtpPacket(i, result) /\ (~network.overtakes => i = 1)
<1>1. wire # <<>> => 1 \in 1..Len(wire)
  BY DEF RtpTypeInv, RtpTypeOK
<1>2. Deliverable \subseteq 1..Len(wire) /\ (~network.overtakes => Deliverable \subseteq {1})
  BY <1>1 DEF Deliverable
<1> QED BY <1>2 DEF Receive

LEMMA RtpTypeStep == ASSUME RtpTypeInv, [RtpNext]_rtpVars PROVE RtpTypeInv'
<1>1. CASE SendPacket
  BY <1>1, SendPacketType
<1>2. ASSUME NEW taken \in BOOLEAN, SendFails(taken) PROVE RtpTypeInv'
  BY <1>2, SendFailsType
<1>3. ASSUME NEW i \in 1..Len(wire), Lose(i) PROVE RtpTypeInv'
  BY <1>3, LoseType
<1>4. CASE Receive
  BY <1>4, ReceiveFirst, ReceiveType
<1>5. CASE UNCHANGED rtpVars
  BY <1>5 DEF rtpVars, RtpTypeInv, RtpTypeOK
<1> QED BY <1>1, <1>2, <1>3, <1>4, <1>5 DEF RtpNext

\* The values of the stream's variables are what the code can hold.
THEOREM RtpTypeCorrect == RtpSpec => []RtpTypeOK
<1>1. RtpInit => RtpTypeInv
  BY RtpTypeInit
<1>2. RtpTypeInv /\ [RtpNext]_rtpVars => RtpTypeInv'
  BY RtpTypeStep
<1>3. RtpTypeInv => RtpTypeOK
  BY DEF RtpTypeInv
<1> QED BY <1>1, <1>2, <1>3, PTL DEF RtpSpec
-----------------------------------------------------------------------------
(* The invariants                                                           *)

\* The frame that a packet's bytes are of, and where in it they start and end.
PacketFrame(m) == m.data[1][1]
Start(m)       == m.data[1][2]
End(m)         == Start(m) + Len(m.data)

\* A packet is a chunk of its frame's sample, and has the marker if it is the last.
IsChunk(m) ==
  /\ m.data # <<>>
  /\ \A k \in 1..Len(m.data) : m.data[k] = <<PacketFrame(m), Start(m) + k - 1>>
  /\ End(m) <= Bytes[PacketFrame(m)]
  /\ m.marker <=> End(m) = Bytes[PacketFrame(m)]
  /\ ~m.marker => End(m) = Start(m) + PayloadBytes

\* In every network: the packets in flight are chunks of frames the sender has come to.
WireInv ==
  \A i \in 1..Len(wire) :
    /\ IsChunk(wire[i])
    /\ PacketFrame(wire[i]) <= frame /\ (wire[i].marker => PacketFrame(wire[i]) < frame)
    /\ wire[i].ssrc = ssrc

\* Without overtaking: frames leave, travel, are collected and accepted in order.
WireOrdered ==
  \A i, j \in 1..Len(wire) : i < j =>
    /\ PacketFrame(wire[i]) <= PacketFrame(wire[j])
    /\ wire[i].marker => PacketFrame(wire[i]) < PacketFrame(wire[j])

\* The payload collected is of no later frame than what is still to come ...
PayloadBehind ==
  payload # <<>> => /\ FrameOf(payload) <= frame
                    /\ \A i \in 1..Len(wire) : FrameOf(payload) <= PacketFrame(wire[i])

\* ... and the frames accepted come before it, and before all that is still to come.
AcceptedBehind ==
  \A a \in 1..Len(accepted) :
    /\ FrameOf(accepted[a]) \in Nat /\ FrameOf(accepted[a]) < frame
    /\ \A i \in 1..Len(wire) : FrameOf(accepted[a]) < PacketFrame(wire[i])
    /\ payload # <<>> => FrameOf(accepted[a]) < FrameOf(payload)

\* Frames are accepted in order in every network that keeps the order of packets.
OrderInv == FramesInOrder /\ (~network.overtakes => WireOrdered /\ PayloadBehind /\ AcceptedBehind)

\* While no packet was refused: each frame has a timestamp of its own.
TimestampInv ==
  fails = 0 =>
    /\ frame = timestamp + 1
    /\ \A i \in 1..Len(wire) : PacketFrame(wire[i]) = wire[i].timestamp + 1
    /\ \A k \in 1..Len(payload) : payload[k][1] = payloadTime + 1
    /\ NoMixedFrames

\* Each byte of the payload is as far from the headers of its frame as it says, and
\* the last byte of no frame is there.
Rooted(data) ==
  \A k \in 1..Len(data) :
    /\ data[k][2] < k
    /\ data[k - data[k][2]] = <<data[k][1], 0>>

\* The last byte of no frame is in the data.
Unfinished(data) == \A k \in 1..Len(data) : data[k][2] + 1 < Bytes[data[k][1]]

\* The byte at an offset of a frame is the next to come after some data, or a packet.
FollowsData(f, start, time)      == /\ payload # <<>>
                                    /\ payload[Len(payload)] = <<f, start - 1>>
                                    /\ payloadTime = time
FollowsPacket(m, f, start, time) == /\ ~m.marker
                                    /\ PacketFrame(m) = f /\ End(m) = start
                                    /\ m.timestamp = time

\* In a network without fault: what was begun of a frame is continued or, after a
\* refused packet, begun anew.
Unbroken ==
  /\ Rooted(payload) /\ Unfinished(payload)
  /\ wire # <<>> /\ Start(wire[1]) # 0 =>
       FollowsData(PacketFrame(wire[1]), Start(wire[1]), wire[1].timestamp)
  /\ \A i \in 1..Len(wire) - 1 : Start(wire[i + 1]) # 0 =>
       FollowsPacket(wire[i], PacketFrame(wire[i + 1]), Start(wire[i + 1]), wire[i + 1].timestamp)
  /\ offset # 0 /\ wire = <<>> => FollowsData(frame, offset, timestamp)
  /\ offset # 0 /\ wire # <<>> => FollowsPacket(wire[Len(wire)], frame, offset, timestamp)

\* A network without fault mixes no frames, whoever else sends to the port.
UnbrokenInv == ~network.lossy /\ ~network.overtakes => NoMixedFrames /\ (ssrc = Ssrc => Unbroken)

\* In order and with losses only: the bytes collected of a frame ascend.
Ascending(data) ==
  \A j, k \in 1..Len(data) : j < k => data[k][2] - data[j][2] >= k - j

\* In order and with losses only, packets in flight, the payload and the sender follow
\* one another within a frame.
Ascends ==
  /\ \A i, j \in 1..Len(wire) : i < j /\ PacketFrame(wire[i]) = PacketFrame(wire[j]) =>
       End(wire[i]) <= Start(wire[j])
  /\ \A i \in 1..Len(wire) : PacketFrame(wire[i]) = frame => End(wire[i]) <= offset
  /\ Ascending(payload) /\ Unfinished(payload)
  /\ payload # <<>> =>
       /\ \A i \in 1..Len(wire) : PacketFrame(wire[i]) = FrameOf(payload) =>
            payload[Len(payload)][2] < Start(wire[i])
       /\ FrameOf(payload) = frame => payload[Len(payload)][2] < offset

\* In order, only complete small frames are accepted.
AscendInv == InOrder => Ascends /\ SmallFramesIntact

\* From the end of a packet to the start of a later one of its frame, n packets were
\* lost: the sequence numbers say as much, but for their wrap.
Apart(number, end, later, start) ==
  \E n, wraps \in Nat : /\ start = end + n * PayloadBytes
                        /\ number + 1 + n = later + wraps * SequenceMod

\* Between what was collected, what is in flight and what is still to be sent of a
\* frame, the sequence numbers tell the packets lost.
Gaps ==
  /\ \A i, j \in 1..Len(wire) : i < j /\ PacketFrame(wire[i]) = PacketFrame(wire[j]) =>
       Apart(wire[i].sequence, End(wire[i]), wire[j].sequence, Start(wire[j]))
  /\ \A i \in 1..Len(wire) : PacketFrame(wire[i]) = frame =>
       Apart(wire[i].sequence, End(wire[i]), sequence, offset)
  /\ payload # <<>> =>
       /\ last # NoSequence
       /\ \A i \in 1..Len(wire) : PacketFrame(wire[i]) = FrameOf(payload) =>
            Apart(last, payload[Len(payload)][2] + 1, wire[i].sequence, Start(wire[i]))
       /\ FrameOf(payload) = frame =>
            Apart(last, payload[Len(payload)][2] + 1, sequence, offset)

\* A payload that begins with the headers has no gap that has not been counted.
Contiguous(data) == \A k \in 1..Len(data) : data[k] = <<FrameOf(data), k - 1>>
\* ... from its headers on, while none was noticed.
GapsCounted      == payload # <<>> /\ payload[1][2] = 0 /\ ~outOfOrder => Contiguous(payload)

\* In order, damage to a frame is counted.
GapInv == InOrder => Gaps /\ GapsCounted /\ DamageCounted
-----------------------------------------------------------------------------
(* What the steps do                                                        *)

\* The elements of a sequence with one more at its end.
LEMMA AppendFacts ==
  ASSUME NEW S, NEW seq \in Seq(S), NEW e \in S
  PROVE  /\ Len(Append(seq, e)) = Len(seq) + 1
         /\ \A k \in 1..Len(seq) : Append(seq, e)[k] = seq[k]
         /\ Append(seq, e)[Len(seq) + 1] = e
OBVIOUS

\* Where a packet's bytes come from.
LEMMA PacketType ==
  ASSUME NEW m \in Packet, m.data # <<>>
  PROVE  PacketFrame(m) \in Frames /\ PacketFrame(m) \in Nat /\ Start(m) \in Nat
         /\ Len(m.data) \in Nat /\ Len(m.data) > 0 /\ End(m) = Start(m) + Len(m.data)
<1>1. m.data \in Seq(Byte)
  BY DEF Packet
<1>2. Len(m.data) \in Nat /\ Len(m.data) > 0 /\ m.data[1] \in Byte
  BY <1>1
<1>3. m.data[1][1] \in Frames /\ m.data[1][2] \in Nat
  BY <1>2 DEF Byte
<1> QED BY <1>2, <1>3, FrameBytes DEF PacketFrame, Start, End

\* The next packet is the chunk at the sender's offset.
LEMMA NextPacketChunk ==
  ASSUME RtpTypeInv, frame \in Frames
  PROVE  /\ NextPacket \in Packet /\ IsChunk(NextPacket)
         /\ PacketFrame(NextPacket) = frame
         /\ Start(NextPacket) = offset /\ End(NextPacket) = ChunkEnd
         /\ NextPacket.sequence = sequence /\ NextPacket.timestamp = timestamp
         /\ NextPacket.marker = Marker /\ NextPacket.ssrc = ssrc
<1>1. /\ NextPacket \in Packet /\ Len(NextPacket.data) = ChunkEnd - offset
      /\ \A k \in 1..Len(NextPacket.data) : NextPacket.data[k] = <<frame, offset + k - 1>>
  BY NextPacketFacts
<1>2. /\ ChunkEnd \in Nat /\ offset \in Nat /\ offset < ChunkEnd /\ ChunkEnd <= Bytes[frame]
      /\ Marker <=> ChunkEnd = Bytes[frame]
      /\ Marker \in BOOLEAN
      /\ ~Marker => ChunkEnd = offset + PayloadBytes
  BY ChunkFacts DEF RtpTypeInv
<1>3. NextPacket.data # <<>> /\ 1 \in 1..Len(NextPacket.data)
  BY <1>1, <1>2
<1>4. NextPacket.data[1] = <<frame, offset>>
  BY <1>1, <1>2, <1>3
<1>5. PacketFrame(NextPacket) = frame /\ Start(NextPacket) = offset
  BY <1>4 DEF PacketFrame, Start
<1>6. End(NextPacket) = ChunkEnd
  BY <1>1, <1>2, <1>5 DEF End
<1>7. /\ NextPacket.sequence = sequence /\ NextPacket.timestamp = timestamp
      /\ NextPacket.marker = Marker /\ NextPacket.ssrc = ssrc
  BY DEF NextPacket
<1>8. IsChunk(NextPacket)
  BY <1>1, <1>2, <1>3, <1>5, <1>6, <1>7 DEF IsChunk
<1> QED BY <1>1, <1>5, <1>6, <1>7, <1>8

\* SendPacket: the next packet joins those in flight.
LEMMA SendPacketStep ==
  ASSUME RtpTypeInv, SendPacket
  PROVE  /\ frame \in Frames
         /\ Len(wire') = Len(wire) + 1
         /\ \A k \in 1..Len(wire) : wire'[k] = wire[k]
         /\ wire'[Len(wire) + 1] = NextPacket
         /\ sequence' = (sequence + 1) % SequenceMod
         /\ timestamp' = IF Marker THEN timestamp + 1 ELSE timestamp
         /\ IF Marker THEN frame' = frame + 1 /\ offset' = 0 ELSE frame' = frame /\ offset' = ChunkEnd
         /\ UNCHANGED <<ssrc, fails, network, last, outOfOrder, payload, payloadTime, video, accepted, written, file>>
<1>1. /\ frame \in Frames /\ wire' = Append(wire, NextPacket)
      /\ sequence' = (sequence + 1) % SequenceMod
      /\ timestamp' = IF Marker THEN timestamp + 1 ELSE timestamp
      /\ IF Marker THEN frame' = frame + 1 /\ offset' = 0 ELSE frame' = frame /\ offset' = ChunkEnd
      /\ UNCHANGED <<ssrc, fails, network, last, outOfOrder, payload, payloadTime, video, accepted, written, file>>
  BY DEF SendPacket, BuildPacket, NextPacket
<1>2. wire \in Seq(Packet) /\ NextPacket \in Packet
  BY <1>1, NextPacketChunk DEF RtpTypeInv, RtpTypeOK
<1> QED BY <1>1, <1>2, AppendFacts

\* SendFails: nothing joins them, and the sender starts a frame again or the next.
LEMMA SendFailsStep ==
  ASSUME RtpTypeInv, NEW taken \in BOOLEAN, SendFails(taken)
  PROVE  /\ frame \in Frames
         /\ wire' = wire
         /\ timestamp' = IF Marker THEN timestamp + 1 ELSE timestamp
         /\ frame' \in {frame, frame + 1} /\ offset' = 0 /\ fails' = fails + 1
         /\ UNCHANGED <<ssrc, network, last, outOfOrder, payload, payloadTime, video, accepted, written, file>>
BY DEF SendFails, BuildPacket

\* A packet leaves those in flight.
LEMMA RemovedStep ==
  ASSUME RtpTypeInv, NEW i \in 1..Len(wire), wire' = RemoveAt(wire, i)
  PROVE  /\ Len(wire') = Len(wire) - 1
         /\ \A k \in 1..Len(wire') : wire'[k] = IF k < i THEN wire[k] ELSE wire[k + 1]
<1>1. wire \in Seq(Packet) /\ Len(wire) \in Nat
  BY DEF RtpTypeInv, RtpTypeOK
<1>2. /\ Len(RemoveAt(wire, i)) = Len(wire) - 1
      /\ \A k \in 1..(Len(wire) - 1) : RemoveAt(wire, i)[k] = IF k < i THEN wire[k] ELSE wire[k + 1]
  BY <1>1, RemoveAtFacts
<1> QED BY <1>2

\* The types of the packets in flight.
WireFacts == \A i \in 1..Len(wire) :
  /\ wire[i] \in Packet
  /\ PacketFrame(wire[i]) \in Frames /\ PacketFrame(wire[i]) \in Nat
  /\ Start(wire[i]) \in Nat /\ End(wire[i]) \in Nat /\ Start(wire[i]) < End(wire[i])
  /\ wire[i].marker \in BOOLEAN /\ wire[i].timestamp \in Nat
  /\ wire[i].sequence \in 0..SequenceMod - 1

\* They follow from the types of the state.
LEMMA WireTyped ==
  ASSUME RtpTypeInv, WireInv
  PROVE  WireFacts
<1> SUFFICES ASSUME NEW i \in 1..Len(wire)
             PROVE  /\ wire[i] \in Packet
                    /\ PacketFrame(wire[i]) \in Frames /\ PacketFrame(wire[i]) \in Nat
                    /\ Start(wire[i]) \in Nat /\ End(wire[i]) \in Nat /\ Start(wire[i]) < End(wire[i])
                    /\ wire[i].marker \in BOOLEAN /\ wire[i].timestamp \in Nat
                    /\ wire[i].sequence \in 0..SequenceMod - 1
  BY DEF WireFacts
<1>1. PICK m \in Packet : m = wire[i]
  BY DEF RtpTypeInv, RtpTypeOK
<1>2. m.data # <<>>
  BY <1>1 DEF WireInv, IsChunk
<1>3. m.marker \in BOOLEAN /\ m.timestamp \in Nat /\ m.sequence \in 0..SequenceMod - 1
  BY DEF Packet
<1>4. /\ PacketFrame(m) \in Frames /\ PacketFrame(m) \in Nat /\ Start(m) \in Nat
      /\ End(m) \in Nat /\ Start(m) < End(m)
  BY <1>2, PacketType
<1> QED BY <1>1, <1>3, <1>4

-----------------------------------------------------------------------------
(* Packets in flight                                                        *)

\* The packet sent is a chunk of the sender's frame.
LEMMA SendPacketWire == ASSUME RtpTypeInv, WireInv, SendPacket PROVE WireInv'
<1>1. frame \in Frames /\ frame \in Nat
  BY SendPacketStep, FrameBytes
<1>2. frame' \in Nat /\ frame <= frame' /\ (Marker => frame < frame') /\ ssrc' = ssrc
  BY <1>1, SendPacketStep, ChunkFacts
<1> SUFFICES ASSUME NEW i \in 1..Len(wire')
             PROVE  /\ IsChunk(wire'[i])
                    /\ PacketFrame(wire'[i]) <= frame' /\ (wire'[i].marker => PacketFrame(wire'[i]) < frame')
                    /\ wire'[i].ssrc = ssrc'
  BY DEF WireInv, IsChunk, PacketFrame, Start, End
<1>3. i \in 1..Len(wire) \/ i = Len(wire) + 1
  <2>1. Len(wire) \in Nat /\ Len(wire') = Len(wire) + 1
    BY SendPacketStep DEF RtpTypeInv, RtpTypeOK
  <2> QED BY <2>1
<1>4. CASE i \in 1..Len(wire)
  <2>1. wire'[i] = wire[i]
    BY <1>4, SendPacketStep
  <2>2. PacketFrame(wire[i]) \in Nat
    BY <1>4, WireTyped DEF WireFacts
  <2> QED BY <1>1, <1>2, <1>4, <2>1, <2>2 DEF WireInv
<1>5. CASE i = Len(wire) + 1
  <2>1. wire'[i] = NextPacket
    BY <1>5, SendPacketStep
  <2> QED BY <1>1, <1>2, <2>1, NextPacketChunk
<1> QED BY <1>3, <1>4, <1>5

\* A packet less in flight leaves the others as they are.
LEMMA RemovedWire ==
  ASSUME RtpTypeInv, WireInv, NEW i \in 1..Len(wire), wire' = RemoveAt(wire, i), UNCHANGED <<frame, ssrc>>
  PROVE  WireInv'
<1> SUFFICES ASSUME NEW k \in 1..Len(wire')
             PROVE  /\ IsChunk(wire'[k])
                    /\ PacketFrame(wire'[k]) <= frame /\ (wire'[k].marker => PacketFrame(wire'[k]) < frame)
                    /\ wire'[k].ssrc = ssrc
  BY DEF WireInv, IsChunk, PacketFrame, Start, End
<1>1. \E j \in 1..Len(wire) : wire'[k] = wire[j]
  <2>1. k \in 1..Len(wire) /\ k + 1 \in 1..Len(wire)
    BY RemovedStep DEF RtpTypeInv, RtpTypeOK
  <2> QED BY <2>1, RemovedStep
<1> QED BY <1>1 DEF WireInv

\* Every step leaves chunks of frames in flight.
LEMMA WireStep == ASSUME RtpTypeInv, WireInv, [RtpNext]_rtpVars PROVE WireInv'
<1>1. CASE SendPacket
  BY <1>1, SendPacketWire
<1>2. ASSUME NEW taken \in BOOLEAN, SendFails(taken) PROVE WireInv'
  <2>1. wire' = wire /\ ssrc' = ssrc /\ frame \in Nat /\ frame' \in {frame, frame + 1}
    BY <1>2, SendFailsStep, FrameBytes
  <2> SUFFICES ASSUME NEW i \in 1..Len(wire)
               PROVE  /\ IsChunk(wire[i])
                      /\ PacketFrame(wire[i]) <= frame' /\ (wire[i].marker => PacketFrame(wire[i]) < frame')
                      /\ wire[i].ssrc = ssrc
    BY <2>1 DEF WireInv, IsChunk, PacketFrame, Start, End
  <2>2. PacketFrame(wire[i]) \in Nat
    BY WireTyped DEF WireFacts
  <2> QED BY <2>1, <2>2 DEF WireInv
<1>3. ASSUME NEW i \in 1..Len(wire), Lose(i) PROVE WireInv'
  BY <1>3, RemovedWire DEF Lose, senderVars
<1>4. CASE Receive
  BY <1>4, ReceiveFirst, RemovedWire DEF ReceiveRtpPacket, senderVars
<1>5. CASE UNCHANGED rtpVars
  BY <1>5 DEF rtpVars, WireInv, IsChunk, PacketFrame, Start, End
<1> QED BY <1>1, <1>2, <1>3, <1>4, <1>5 DEF RtpNext
-----------------------------------------------------------------------------
(* What the receiver collects                                               *)

\* The bytes of the payload that a packet is added to.
Kept(m) == IF payload # <<>> /\ payloadTime = m.timestamp THEN Len(payload) ELSE 0

\* What the receiver collects: the payload kept, if it has the packet's timestamp, and
\* the packet's bytes.
LEMMA CollectedFacts ==
  ASSUME RtpTypeInv, NEW m \in Packet, IsChunk(m)
  PROVE  /\ Collected(m) \in Seq(Byte)
         /\ Len(Collected(m)) = Kept(m) + Len(m.data)
         /\ Kept(m) \in Nat /\ (Kept(m) = 0 \/ Kept(m) = Len(payload))
         /\ \A k \in 1..Kept(m) : Collected(m)[k] = payload[k]
         /\ \A k \in 1..Len(m.data) : Collected(m)[Kept(m) + k] = <<PacketFrame(m), Start(m) + k - 1>>
<1>1. payload \in Seq(Byte) /\ m.data \in Seq(Byte) /\ m.data # <<>>
  BY DEF RtpTypeInv, RtpTypeOK, Packet, IsChunk
<1>2. \A k \in 1..Len(m.data) : m.data[k] = <<PacketFrame(m), Start(m) + k - 1>>
  BY DEF IsChunk
<1>3. CASE payload # <<>> /\ payloadTime = m.timestamp
  <2>1. Collected(m) = payload \o m.data /\ Kept(m) = Len(payload)
    BY <1>3 DEF Collected, Kept
  <2>2. /\ payload \o m.data \in Seq(Byte) /\ Len(payload \o m.data) = Len(payload) + Len(m.data)
        /\ Len(payload) \in Nat
        /\ \A k \in 1..Len(payload) : (payload \o m.data)[k] = payload[k]
        /\ \A k \in 1..Len(m.data) : (payload \o m.data)[Len(payload) + k] = m.data[k]
    BY <1>1
  <2> QED BY <1>2, <2>1, <2>2
<1>4. CASE ~(payload # <<>> /\ payloadTime = m.timestamp)
  <2>1. Collected(m) = m.data /\ Kept(m) = 0
    <3>1. payload = <<>> => payload \o m.data = m.data
      BY <1>1
    <3> QED BY <1>4, <3>1 DEF Collected, Kept
  <2>2. Len(m.data) \in Nat
    BY <1>1
  <2> QED BY <1>1, <1>2, <2>1, <2>2
<1> QED BY <1>3, <1>4

\* Its first byte and its last.
LEMMA CollectedEnds ==
  ASSUME RtpTypeInv, NEW m \in Packet, IsChunk(m)
  PROVE  /\ Collected(m) # <<>>
         /\ FrameOf(Collected(m)) = IF Kept(m) = 0 THEN PacketFrame(m) ELSE FrameOf(payload)
         /\ Kept(m) # 0 => payload # <<>> /\ payloadTime = m.timestamp
         /\ Collected(m)[Len(Collected(m))] = <<PacketFrame(m), End(m) - 1>>
<1>1. /\ Len(m.data) \in Nat /\ Len(m.data) > 0 /\ End(m) = Start(m) + Len(m.data)
      /\ Start(m) \in Nat
  BY PacketType DEF IsChunk
<1>2. /\ Collected(m) \in Seq(Byte)
      /\ Len(Collected(m)) = Kept(m) + Len(m.data)
      /\ Kept(m) \in Nat /\ (Kept(m) = 0 \/ Kept(m) = Len(payload))
      /\ \A k \in 1..Kept(m) : Collected(m)[k] = payload[k]
      /\ \A k \in 1..Len(m.data) : Collected(m)[Kept(m) + k] = <<PacketFrame(m), Start(m) + k - 1>>
  BY CollectedFacts
<1>3. Kept(m) # 0 => payload # <<>> /\ payloadTime = m.timestamp
  BY DEF Kept
<1>4. Collected(m) # <<>>
  BY <1>1, <1>2
<1>5. Collected(m)[Len(Collected(m))] = <<PacketFrame(m), End(m) - 1>>
  <2>1. Len(m.data) \in 1..Len(m.data) /\ Start(m) + Len(m.data) - 1 = End(m) - 1
    BY <1>1
  <2> QED BY <1>2, <2>1
<1>6. CASE Kept(m) = 0
  <2>1. Collected(m)[Kept(m) + 1] = <<PacketFrame(m), Start(m) + 1 - 1>>
    BY <1>1, <1>2
  <2>2. Collected(m)[1][1] = PacketFrame(m)
    BY <1>6, <2>1
  <2> QED BY <1>3, <1>4, <1>5, <1>6, <2>2 DEF FrameOf
<1>7. CASE Kept(m) # 0
  <2>1. Collected(m)[1] = payload[1]
    BY <1>2, <1>7
  <2> QED BY <1>3, <1>4, <1>5, <1>7, <2>1 DEF FrameOf
<1> QED BY <1>6, <1>7

\* ReceiveRtpPacket, for the stream's SSRC: what becomes of the payload, and what is
\* accepted.
LEMMA ReceiveStep ==
  ASSUME RtpTypeInv, WireInv, NEW i \in 1..Len(wire), NEW result \in SinkResults,
         ReceiveRtpPacket(i, result), NEW m, m = wire[i]
  PROVE  /\ m \in Packet /\ IsChunk(m) /\ m.ssrc = ssrc
         /\ wire' = RemoveAt(wire, i) /\ UNCHANGED senderVars
         /\ ssrc # Ssrc => UNCHANGED receiverVars
         /\ ssrc = Ssrc =>
              /\ last' = m.sequence
              /\ outOfOrder' = (outOfOrder \/ (last # NoSequence /\ m.sequence # (last + 1) % SequenceMod))
              /\ payload' = IF m.marker THEN <<>> ELSE Collected(m)
              /\ payloadTime' = IF m.marker THEN 0 ELSE m.timestamp
              /\ \/ /\ m.marker /\ Parses(Collected(m))
                    /\ accepted' = Append(accepted, Collected(m))
                 \/ accepted' = accepted
<1>1. m \in Packet /\ IsChunk(m) /\ m.ssrc = ssrc
  BY DEF RtpTypeInv, RtpTypeOK, WireInv
<1> QED BY <1>1 DEF ReceiveRtpPacket, countSequence, writeFrame, receiverVars

\* What is accepted after it.
LEMMA AcceptedStep ==
  ASSUME RtpTypeInv, NEW data \in Seq(Byte), accepted' = Append(accepted, data)
  PROVE  /\ Len(accepted) \in Nat /\ Len(accepted') = Len(accepted) + 1
         /\ \A a \in 1..Len(accepted) : accepted'[a] = accepted[a]
         /\ accepted'[Len(accepted) + 1] = data
BY AppendFacts DEF RtpTypeInv, RtpTypeOK
-----------------------------------------------------------------------------
(* Frames in order                                                          *)

\* A payload is of a frame.
LEMMA PayloadFrame ==
  ASSUME RtpTypeInv, payload # <<>>
  PROVE  FrameOf(payload) \in Frames /\ FrameOf(payload) \in Nat
<1>1. payload[1] \in Byte
  BY DEF RtpTypeInv, RtpTypeOK
<1> QED BY <1>1, FrameBytes DEF FrameOf, Byte

\* The packet sent is of the last frame of all.
LEMMA SendPacketOrder ==
  ASSUME RtpTypeInv, WireInv, OrderInv, SendPacket
  PROVE  OrderInv'
<1>1. frame \in Frames /\ frame \in Nat /\ Len(wire) \in Nat
  <2>1. frame \in Frames
    BY SendPacketStep
  <2>2. Len(wire) \in Nat
    BY DEF RtpTypeInv, RtpTypeOK
  <2> QED BY <2>1, <2>2, FrameBytes
<1>2. frame' \in Nat /\ frame <= frame'
  BY <1>1, SendPacketStep
<1>3. UNCHANGED <<network, payload, accepted>>
  BY SendPacketStep
<1>4. /\ Len(wire') = Len(wire) + 1
      /\ \A k \in 1..Len(wire) : wire'[k] = wire[k]
      /\ PacketFrame(wire'[Len(wire) + 1]) = frame
  BY <1>1, SendPacketStep, NextPacketChunk
<1>5. \A i \in 1..Len(wire') : i \in 1..Len(wire) \/ i = Len(wire) + 1
  BY <1>1, <1>4
<1>6. \A i \in 1..Len(wire) : /\ PacketFrame(wire[i]) \in Nat /\ PacketFrame(wire[i]) <= frame
                              /\ wire[i].marker => PacketFrame(wire[i]) < frame
  BY WireTyped DEF WireFacts, WireInv
<1>7. ASSUME ~network.overtakes PROVE WireOrdered'
  <2> SUFFICES ASSUME NEW i \in 1..Len(wire'), NEW j \in 1..Len(wire'), i < j
               PROVE  /\ PacketFrame(wire'[i]) <= PacketFrame(wire'[j])
                      /\ wire'[i].marker => PacketFrame(wire'[i]) < PacketFrame(wire'[j])
    BY DEF WireOrdered, PacketFrame
  <2>1. i \in 1..Len(wire)
    BY <1>1, <1>4
  <2>2. CASE j \in 1..Len(wire)
    BY <1>4, <1>7, <2>1, <2>2 DEF OrderInv, WireOrdered
  <2>3. CASE j = Len(wire) + 1
    <3>1. wire'[i] = wire[i] /\ PacketFrame(wire'[j]) = frame
      BY <1>4, <2>1, <2>3
    <3>2. /\ PacketFrame(wire[i]) <= frame
          /\ wire[i].marker => PacketFrame(wire[i]) < frame
      BY <1>6, <2>1
    <3> QED BY <3>1, <3>2, Zenon
  <2> QED BY <1>5, <2>2, <2>3
<1>8. ASSUME ~network.overtakes PROVE PayloadBehind'
  <2> SUFFICES ASSUME payload # <<>>
               PROVE  /\ FrameOf(payload) <= frame'
                      /\ \A i \in 1..Len(wire') : FrameOf(payload) <= PacketFrame(wire'[i])
    BY <1>3 DEF PayloadBehind, FrameOf, PacketFrame
  <2>1. /\ FrameOf(payload) \in Nat /\ FrameOf(payload) <= frame
        /\ \A i \in 1..Len(wire) : FrameOf(payload) <= PacketFrame(wire[i])
    BY <1>8, PayloadFrame DEF OrderInv, PayloadBehind
  <2> QED BY <1>1, <1>2, <1>4, <1>5, <2>1
<1>9. ASSUME ~network.overtakes PROVE AcceptedBehind'
  <2> SUFFICES ASSUME NEW a \in 1..Len(accepted)
               PROVE  /\ FrameOf(accepted[a]) \in Nat /\ FrameOf(accepted[a]) < frame'
                      /\ \A i \in 1..Len(wire') : FrameOf(accepted[a]) < PacketFrame(wire'[i])
                      /\ payload # <<>> => FrameOf(accepted[a]) < FrameOf(payload)
    BY <1>3 DEF AcceptedBehind, FrameOf, PacketFrame
  <2>1. /\ FrameOf(accepted[a]) \in Nat /\ FrameOf(accepted[a]) < frame
        /\ \A i \in 1..Len(wire) : FrameOf(accepted[a]) < PacketFrame(wire[i])
        /\ payload # <<>> => FrameOf(accepted[a]) < FrameOf(payload)
    BY <1>9 DEF OrderInv, AcceptedBehind
  <2>2. FrameOf(accepted[a]) < frame'
    BY <1>1, <1>2, <2>1
  <2>3. ASSUME NEW i \in 1..Len(wire') PROVE FrameOf(accepted[a]) < PacketFrame(wire'[i])
    <3>1. CASE i \in 1..Len(wire)
      BY <1>4, <2>1, <3>1
    <3>2. CASE i = Len(wire) + 1
      BY <1>4, <2>1, <3>2
    <3> QED BY <1>5, <3>1, <3>2
  <2> QED BY <2>1, <2>2, <2>3
<1> QED BY <1>3, <1>7, <1>8, <1>9 DEF OrderInv, FramesInOrder, FrameOf

\* A refused packet leaves the order of frames alone.
LEMMA SendFailsOrder ==
  ASSUME RtpTypeInv, WireInv, OrderInv, NEW taken \in BOOLEAN, SendFails(taken)
  PROVE  OrderInv'
<1>1. frame \in Nat /\ frame' \in Nat /\ frame <= frame'
  <2>1. frame \in Nat
    BY SendFailsStep, FrameBytes
  <2>2. frame' \in {frame, frame + 1}
    BY SendFailsStep
  <2> QED BY <2>1, <2>2
<1>2. UNCHANGED <<network, wire, payload, accepted>>
  BY SendFailsStep
<1>3. payload # <<>> => FrameOf(payload) \in Nat
  BY PayloadFrame
<1>4. PayloadBehind => PayloadBehind'
  BY <1>1, <1>2, <1>3 DEF PayloadBehind, FrameOf, PacketFrame
<1>5. AcceptedBehind => AcceptedBehind'
  BY <1>1, <1>2 DEF AcceptedBehind, FrameOf, PacketFrame
<1> QED BY <1>2, <1>4, <1>5 DEF OrderInv, FramesInOrder, FrameOf, WireOrdered, PacketFrame

\* Packets keep their order when one is taken out.
LEMMA RemovedPairs ==
  ASSUME RtpTypeInv, NEW i \in 1..Len(wire), wire' = RemoveAt(wire, i)
  PROVE  /\ \A k \in 1..Len(wire') : \E j \in 1..Len(wire) : wire'[k] = wire[j]
         /\ \A k, l \in 1..Len(wire') : k < l =>
              \E j, n \in 1..Len(wire) : j < n /\ wire'[k] = wire[j] /\ wire'[l] = wire[n]
<1>1. /\ Len(wire) \in Nat /\ Len(wire') = Len(wire) - 1
      /\ \A k \in 1..Len(wire') : wire'[k] = IF k < i THEN wire[k] ELSE wire[k + 1]
  BY RemovedStep DEF RtpTypeInv, RtpTypeOK
<1> DEFINE from(k) == IF k < i THEN k ELSE k + 1
<1>2. \A k \in 1..Len(wire') : from(k) \in 1..Len(wire) /\ wire'[k] = wire[from(k)]
  BY <1>1
<1>3. \A k, l \in 1..Len(wire') : k < l => from(k) < from(l)
  BY <1>1
<1> HIDE DEF from
<1> QED BY <1>2, <1>3

\* So does a packet that is lost or ignored.
LEMMA RemovedOrder ==
  ASSUME RtpTypeInv, WireOrdered, NEW i \in 1..Len(wire), wire' = RemoveAt(wire, i)
  PROVE  WireOrdered'
<1> SUFFICES ASSUME NEW k \in 1..Len(wire'), NEW l \in 1..Len(wire'), k < l
             PROVE  /\ PacketFrame(wire'[k]) <= PacketFrame(wire'[l])
                    /\ wire'[k].marker => PacketFrame(wire'[k]) < PacketFrame(wire'[l])
  BY DEF WireOrdered, PacketFrame
<1>1. PICK j \in 1..Len(wire), n \in 1..Len(wire) : j < n /\ wire'[k] = wire[j] /\ wire'[l] = wire[n]
  BY RemovedPairs
<1> QED BY <1>1 DEF WireOrdered

LEMMA LoseOrder ==
  ASSUME RtpTypeInv, WireInv, OrderInv, NEW i \in 1..Len(wire), Lose(i)
  PROVE  OrderInv'
<1>1. wire' = RemoveAt(wire, i) /\ UNCHANGED <<frame, network, payload, accepted>>
  BY DEF Lose, senderVars, receiverVars
<1>2. /\ WireOrdered => WireOrdered'
      /\ \A k \in 1..Len(wire') : \E j \in 1..Len(wire) : wire'[k] = wire[j]
  BY <1>1, RemovedOrder, RemovedPairs
<1>3. PayloadBehind => PayloadBehind'
  BY <1>1, <1>2 DEF PayloadBehind, FrameOf, PacketFrame
<1>4. AcceptedBehind => AcceptedBehind'
  BY <1>1, <1>2 DEF AcceptedBehind, FrameOf, PacketFrame
<1> QED BY <1>1, <1>2, <1>3, <1>4 DEF OrderInv, FramesInOrder, FrameOf

\* A packet received is of the payload's frame or a later one: a frame that is accepted
\* comes after those accepted before.
LEMMA ReceiveOrder ==
  ASSUME RtpTypeInv, WireInv, OrderInv, NEW i \in 1..Len(wire), NEW result \in SinkResults,
         ReceiveRtpPacket(i, result), ~network.overtakes => i = 1
  PROVE  OrderInv'
<1> DEFINE m == wire[i]
           data == Collected(m)
<1>1. /\ m \in Packet /\ IsChunk(m) /\ m.ssrc = ssrc
      /\ wire' = RemoveAt(wire, i) /\ UNCHANGED senderVars
      /\ ssrc # Ssrc => UNCHANGED receiverVars
      /\ ssrc = Ssrc =>
           /\ payload' = IF m.marker THEN <<>> ELSE data
           /\ \/ m.marker /\ accepted' = Append(accepted, data)
              \/ accepted' = accepted
  BY ReceiveStep
<1>2. /\ data \in Seq(Byte) /\ data # <<>>
      /\ FrameOf(data) = IF Kept(m) = 0 THEN PacketFrame(m) ELSE FrameOf(payload)
      /\ Kept(m) # 0 => payload # <<>>
  BY <1>1, CollectedFacts, CollectedEnds
<1>3. m.marker \in BOOLEAN /\ PacketFrame(m) \in Nat
  BY WireTyped DEF WireFacts
<1>4. UNCHANGED <<network, frame>> /\ frame \in Nat
  <2>1. frame \in 1..Len(Bytes) + 1
    BY DEF RtpTypeInv, RtpTypeOK
  <2>2. Len(Bytes) \in Nat
    BY RtpStreamAssumption
  <2> QED BY <1>1, <2>1, <2>2 DEF senderVars
<1> SUFFICES ASSUME ~network.overtakes
             PROVE  /\ \A a, b \in 1..Len(accepted') : a < b => FrameOf(accepted'[a]) < FrameOf(accepted'[b])
                    /\ WireOrdered' /\ PayloadBehind' /\ AcceptedBehind'
  BY <1>4 DEF OrderInv, FramesInOrder, FrameOf
<1>5. i = 1
  OBVIOUS
<1>6. WireOrdered /\ PayloadBehind /\ AcceptedBehind
  BY DEF OrderInv
<1>7. /\ WireOrdered'
      /\ \A k \in 1..Len(wire') : \E j \in 1..Len(wire) : 1 < j /\ wire'[k] = wire[j]
  <2>1. Len(wire) \in Nat /\ Len(wire') = Len(wire) - 1 /\ \A k \in 1..Len(wire') : wire'[k] = wire[k + 1]
    BY <1>1, <1>5, RemovedStep DEF RtpTypeInv, RtpTypeOK
  <2>2. \A k \in 1..Len(wire') : k + 1 \in 1..Len(wire) /\ 1 < k + 1
    BY <2>1
  <2> QED BY <1>1, <1>6, <2>1, <2>2, RemovedOrder
<1> HIDE DEF m, data
<1>8. \A k \in 1..Len(wire') : /\ PacketFrame(wire'[k]) \in Nat /\ PacketFrame(m) <= PacketFrame(wire'[k])
                               /\ m.marker => PacketFrame(m) < PacketFrame(wire'[k])
  BY <1>5, <1>6, <1>7, WireTyped DEF WireOrdered, WireFacts, m
<1>9. PacketFrame(m) <= frame /\ (m.marker => PacketFrame(m) < frame)
  BY DEF WireInv, m
<1>10. payload # <<>> => FrameOf(payload) \in Nat /\ FrameOf(payload) <= PacketFrame(m)
  BY <1>6, PayloadFrame DEF PayloadBehind, m
<1>11. /\ FrameOf(data) \in Nat /\ FrameOf(data) <= PacketFrame(m)
       /\ \A a \in 1..Len(accepted) : FrameOf(accepted[a]) \in Nat /\ FrameOf(accepted[a]) < FrameOf(data)
  <2>1. \A a \in 1..Len(accepted) : /\ FrameOf(accepted[a]) \in Nat /\ FrameOf(accepted[a]) < PacketFrame(m)
                                    /\ payload # <<>> => FrameOf(accepted[a]) < FrameOf(payload)
    BY <1>5, <1>6 DEF AcceptedBehind, m
  <2>2. CASE Kept(m) = 0
    BY <1>2, <1>3, <2>1, <2>2
  <2>3. CASE Kept(m) # 0
    BY <1>2, <1>10, <2>1, <2>3
  <2> QED BY <2>2, <2>3
<1>16. \A k \in 1..Len(wire') : /\ FrameOf(data) <= PacketFrame(wire'[k])
                                /\ m.marker => FrameOf(data) < PacketFrame(wire'[k])
  <2> SUFFICES ASSUME NEW k \in 1..Len(wire')
               PROVE  /\ FrameOf(data) <= PacketFrame(wire'[k])
                      /\ m.marker => FrameOf(data) < PacketFrame(wire'[k])
    OBVIOUS
  <2>1. /\ PacketFrame(wire'[k]) \in Nat /\ PacketFrame(m) <= PacketFrame(wire'[k])
        /\ m.marker => PacketFrame(m) < PacketFrame(wire'[k])
    BY <1>8
  <2> QED BY <1>3, <1>11, <2>1
<1>17. FrameOf(data) <= frame /\ (m.marker => FrameOf(data) < frame)
  BY <1>3, <1>4, <1>9, <1>11
<1>18. ASSUME NEW a \in 1..Len(accepted)
       PROVE  /\ FrameOf(accepted[a]) \in Nat /\ FrameOf(accepted[a]) < frame
              /\ \A k \in 1..Len(wire') : FrameOf(accepted[a]) < PacketFrame(wire'[k])
  BY <1>6, <1>7 DEF AcceptedBehind
<1>12. CASE UNCHANGED <<payload, accepted>>
  <2>1. PayloadBehind'
    BY <1>4, <1>6, <1>7, <1>12 DEF PayloadBehind, FrameOf, PacketFrame
  <2>2. AcceptedBehind'
    BY <1>4, <1>6, <1>7, <1>12 DEF AcceptedBehind, FrameOf, PacketFrame
  <2>3. \A a, b \in 1..Len(accepted') : a < b => FrameOf(accepted'[a]) < FrameOf(accepted'[b])
    BY <1>12 DEF OrderInv, FramesInOrder
  <2> QED BY <1>7, <2>1, <2>2, <2>3
<1>13. CASE payload' = data /\ ~m.marker /\ accepted' = accepted
  <2>1. PayloadBehind'
    <3> SUFFICES /\ FrameOf(data) <= frame
                 /\ \A k \in 1..Len(wire') : FrameOf(data) <= PacketFrame(wire'[k])
      BY <1>4, <1>13 DEF PayloadBehind, FrameOf, PacketFrame
    <3> QED BY <1>16, <1>17
  <2>2. AcceptedBehind'
    <3> SUFFICES ASSUME NEW a \in 1..Len(accepted)
                 PROVE  /\ FrameOf(accepted[a]) \in Nat /\ FrameOf(accepted[a]) < frame
                        /\ \A k \in 1..Len(wire') : FrameOf(accepted[a]) < PacketFrame(wire'[k])
                        /\ FrameOf(accepted[a]) < FrameOf(data)
      BY <1>4, <1>13 DEF AcceptedBehind, FrameOf, PacketFrame
    <3> QED BY <1>11, <1>18
  <2>3. \A a, b \in 1..Len(accepted') : a < b => FrameOf(accepted'[a]) < FrameOf(accepted'[b])
    BY <1>13 DEF OrderInv, FramesInOrder
  <2> QED BY <1>7, <2>1, <2>2, <2>3
<1>14. CASE payload' = <<>> /\ m.marker /\ accepted' = accepted
  <2>1. PayloadBehind'
    BY <1>14 DEF PayloadBehind
  <2>2. AcceptedBehind'
    BY <1>4, <1>6, <1>7, <1>14 DEF AcceptedBehind, FrameOf, PacketFrame
  <2>3. \A a, b \in 1..Len(accepted') : a < b => FrameOf(accepted'[a]) < FrameOf(accepted'[b])
    BY <1>14 DEF OrderInv, FramesInOrder
  <2> QED BY <1>7, <2>1, <2>2, <2>3
<1>15. CASE payload' = <<>> /\ m.marker /\ accepted' = Append(accepted, data)
  <2>1. PayloadBehind'
    BY <1>15 DEF PayloadBehind
  <2>2. /\ Len(accepted) \in Nat /\ Len(accepted') = Len(accepted) + 1
        /\ \A a \in 1..Len(accepted) : accepted'[a] = accepted[a]
        /\ accepted'[Len(accepted) + 1] = data
    BY <1>2, <1>15, AcceptedStep
  <2>3. \A a \in 1..Len(accepted') : a \in 1..Len(accepted) \/ a = Len(accepted) + 1
    BY <2>2
  <2>4. AcceptedBehind'
    <3> SUFFICES ASSUME NEW a \in 1..Len(accepted')
                 PROVE  /\ FrameOf(accepted'[a]) \in Nat /\ FrameOf(accepted'[a]) < frame
                        /\ \A k \in 1..Len(wire') : FrameOf(accepted'[a]) < PacketFrame(wire'[k])
      BY <1>4, <1>15 DEF AcceptedBehind, FrameOf, PacketFrame
    <3>1. CASE a \in 1..Len(accepted)
      BY <1>18, <2>2, <3>1
    <3>2. CASE a = Len(accepted) + 1
      <4>1. accepted'[a] = data
        BY <2>2, <3>2
      <4> QED BY <1>11, <1>15, <1>16, <1>17, <4>1
    <3> QED BY <2>3, <3>1, <3>2
  <2>5. ASSUME NEW a \in 1..Len(accepted'), NEW b \in 1..Len(accepted'), a < b
        PROVE  FrameOf(accepted'[a]) < FrameOf(accepted'[b])
    <3>1. a \in 1..Len(accepted)
      BY <2>2, <2>5
    <3>2. CASE b \in 1..Len(accepted)
      BY <2>2, <2>5, <3>1, <3>2 DEF OrderInv, FramesInOrder
    <3>3. CASE b = Len(accepted) + 1
      BY <1>11, <2>2, <3>1, <3>3
    <3> QED BY <2>3, <3>2, <3>3
  <2> QED BY <1>7, <2>1, <2>4, <2>5
<1> QED BY <1>1, <1>3, <1>12, <1>13, <1>14, <1>15 DEF receiverVars

\* Every step keeps the order of frames,
LEMMA OrderStep == ASSUME RtpTypeInv, WireInv, OrderInv, [RtpNext]_rtpVars PROVE OrderInv'
<1>1. CASE SendPacket
  BY <1>1, SendPacketOrder
<1>2. ASSUME NEW taken \in BOOLEAN, SendFails(taken) PROVE OrderInv'
  BY <1>2, SendFailsOrder
<1>3. ASSUME NEW i \in 1..Len(wire), Lose(i) PROVE OrderInv'
  BY <1>3, LoseOrder
<1>4. CASE Receive
  BY <1>4, ReceiveFirst, ReceiveOrder
<1>5. CASE UNCHANGED rtpVars
  BY <1>5 DEF rtpVars, OrderInv, FramesInOrder, FrameOf, WireOrdered, PayloadBehind, AcceptedBehind, PacketFrame
<1> QED BY <1>1, <1>2, <1>3, <1>4, <1>5 DEF RtpNext

\* which holds initially.
LEMMA RtpOrderInit == RtpInit => WireInv /\ OrderInv
<1> SUFFICES ASSUME RtpInit PROVE WireInv /\ OrderInv
  OBVIOUS
<1>1. wire = <<>> /\ accepted = <<>> /\ payload = <<>>
  BY DEF RtpInit
<1>2. 1..Len(wire) = {} /\ 1..Len(accepted) = {}
  BY <1>1
<1> QED BY <1>1, <1>2 DEF WireInv, OrderInv, FramesInOrder, WireOrdered, PayloadBehind, AcceptedBehind
-----------------------------------------------------------------------------
(* One frame at a time                                                      *)

\* Data of one frame leaves the frames at the sink unmixed.
LEMMA AcceptedUnmixed ==
  ASSUME RtpTypeInv, NoMixedFrames, NEW data \in Seq(Byte), data # <<>>,
         NEW f, \A k \in 1..Len(data) : data[k][1] = f,
         accepted' \in {accepted, Append(accepted, data)}
  PROVE  NoMixedFrames'
<1>1. CASE accepted' = accepted
  BY <1>1 DEF NoMixedFrames, FrameOf
<1>2. CASE accepted' = Append(accepted, data)
  <2>1. /\ Len(accepted) \in Nat /\ Len(accepted') = Len(accepted) + 1
        /\ \A a \in 1..Len(accepted) : accepted'[a] = accepted[a]
        /\ accepted'[Len(accepted) + 1] = data
    BY <1>2, AcceptedStep
  <2> SUFFICES ASSUME NEW a \in 1..Len(accepted'), NEW k \in 1..Len(accepted'[a])
               PROVE  accepted'[a][k][1] = accepted'[a][1][1]
    BY DEF NoMixedFrames, FrameOf
  <2>2. a \in 1..Len(accepted) \/ a = Len(accepted) + 1
    BY <2>1
  <2>3. CASE a \in 1..Len(accepted)
    BY <2>1, <2>3 DEF NoMixedFrames, FrameOf
  <2>4. CASE a = Len(accepted) + 1
    <3>1. accepted'[a] = data /\ 1 \in 1..Len(data)
      BY <2>1, <2>4
    <3> QED BY <3>1
  <2> QED BY <2>2, <2>3, <2>4
<1> QED BY <1>1, <1>2

\* What is collected under a timestamp is of the frame that has it.
LEMMA CollectedFrame ==
  ASSUME RtpTypeInv, NEW m \in Packet, IsChunk(m), PacketFrame(m) = m.timestamp + 1,
         \A k \in 1..Len(payload) : payload[k][1] = payloadTime + 1
  PROVE  \A k \in 1..Len(Collected(m)) : Collected(m)[k][1] = PacketFrame(m)
<1> SUFFICES ASSUME NEW k \in 1..Len(Collected(m)) PROVE Collected(m)[k][1] = PacketFrame(m)
  OBVIOUS
<1>1. PICK data : data = Collected(m)
  OBVIOUS
<1>2. /\ Len(data) = Kept(m) + Len(m.data) /\ Kept(m) \in Nat
      /\ Kept(m) = 0 \/ Kept(m) = Len(payload)
      /\ \A n \in 1..Kept(m) : data[n] = payload[n]
      /\ \A n \in 1..Len(m.data) : data[Kept(m) + n] = <<PacketFrame(m), Start(m) + n - 1>>
      /\ Kept(m) # 0 => payloadTime = m.timestamp
  BY <1>1, CollectedFacts, CollectedEnds
<1>3. Len(m.data) \in Nat
  BY DEF Packet
<1>4. CASE k \in 1..Kept(m)
  <2>1. data[k] = payload[k] /\ k \in 1..Len(payload) /\ payloadTime = m.timestamp
    BY <1>2, <1>4
  <2> QED BY <1>1, <2>1
<1>5. CASE k \notin 1..Kept(m)
  <2>1. PICK n \in 1..Len(m.data) : k = Kept(m) + n
    <3>1. k - Kept(m) \in 1..Len(m.data) /\ k = Kept(m) + (k - Kept(m))
      BY <1>1, <1>2, <1>3, <1>5
    <3> QED BY <3>1
  <2>2. data[k] = <<PacketFrame(m), Start(m) + n - 1>>
    BY <1>2, <2>1
  <2> QED BY <1>1, <2>2
<1> QED BY <1>4, <1>5

\* Frame and timestamp start together,
LEMMA TimestampInit == RtpInit => TimestampInv
<1> SUFFICES ASSUME RtpInit PROVE TimestampInv
  OBVIOUS
<1>1. wire = <<>> /\ accepted = <<>> /\ payload = <<>> /\ frame = 1 /\ timestamp = 0
  BY DEF RtpInit
<1>2. 1..Len(wire) = {} /\ 1..Len(accepted) = {} /\ 1..Len(payload) = {}
  BY <1>1
<1> QED BY <1>1, <1>2 DEF TimestampInv, NoMixedFrames

\* and advance together while no packet is refused.
LEMMA TimestampStep ==
  ASSUME RtpTypeInv, WireInv, TimestampInv, [RtpNext]_rtpVars
  PROVE  TimestampInv'
<1> SUFFICES ASSUME fails' = 0
             PROVE  /\ frame' = timestamp' + 1
                    /\ \A i \in 1..Len(wire') : PacketFrame(wire'[i]) = wire'[i].timestamp + 1
                    /\ \A k \in 1..Len(payload') : payload'[k][1] = payloadTime' + 1
                    /\ NoMixedFrames'
  BY DEF TimestampInv, PacketFrame
<1> DEFINE Now == /\ frame = timestamp + 1
                  /\ \A i \in 1..Len(wire) : PacketFrame(wire[i]) = wire[i].timestamp + 1
                  /\ \A k \in 1..Len(payload) : payload[k][1] = payloadTime + 1
                  /\ NoMixedFrames
<1>1. fails = 0 => Now
  BY DEF TimestampInv
<1>2. timestamp \in Nat /\ fails \in Nat
  BY DEF RtpTypeInv, RtpTypeOK
<1>3. CASE SendPacket
  <2>1. /\ frame \in Frames
        /\ Len(wire') = Len(wire) + 1
        /\ \A k \in 1..Len(wire) : wire'[k] = wire[k]
        /\ wire'[Len(wire) + 1] = NextPacket
        /\ timestamp' = IF Marker THEN timestamp + 1 ELSE timestamp
        /\ IF Marker THEN frame' = frame + 1 /\ offset' = 0 ELSE frame' = frame /\ offset' = ChunkEnd
        /\ UNCHANGED <<fails, payload, payloadTime, accepted>>
    BY <1>3, SendPacketStep
  <2>2. Now
    BY <1>1, <2>1
  <2>3. frame' = timestamp' + 1
    BY <2>1, <2>2
  <2>4. ASSUME NEW i \in 1..Len(wire') PROVE PacketFrame(wire'[i]) = wire'[i].timestamp + 1
    <3>1. i \in 1..Len(wire) \/ i = Len(wire) + 1
      <4>1. Len(wire) \in Nat
        BY DEF RtpTypeInv, RtpTypeOK
      <4> QED BY <2>1, <4>1
    <3>2. CASE i \in 1..Len(wire)
      BY <2>1, <2>2, <3>2
    <3>3. CASE i = Len(wire) + 1
      <4>1. PacketFrame(NextPacket) = frame /\ NextPacket.timestamp = timestamp
        BY <2>1, NextPacketChunk
      <4> QED BY <2>1, <2>2, <3>3, <4>1
    <3> QED BY <3>1, <3>2, <3>3
  <2> QED BY <2>1, <2>2, <2>3, <2>4 DEF NoMixedFrames, FrameOf
<1>4. ASSUME NEW taken \in BOOLEAN, SendFails(taken) PROVE FALSE
  BY <1>2, <1>4, SendFailsStep
<1>5. ASSUME NEW i \in 1..Len(wire), wire' = RemoveAt(wire, i)
      PROVE  \A k \in 1..Len(wire') : \E j \in 1..Len(wire) : wire'[k] = wire[j]
  BY <1>5, RemovedPairs
<1>6. ASSUME NEW i \in 1..Len(wire), Lose(i)
      PROVE  /\ frame' = timestamp' + 1
             /\ \A k \in 1..Len(wire') : PacketFrame(wire'[k]) = wire'[k].timestamp + 1
             /\ \A k \in 1..Len(payload') : payload'[k][1] = payloadTime' + 1
             /\ NoMixedFrames'
  <2>1. wire' = RemoveAt(wire, i) /\ UNCHANGED <<frame, timestamp, fails, payload, payloadTime, accepted>>
    BY <1>6 DEF Lose, senderVars, receiverVars
  <2>2. Now
    BY <1>1, <2>1
  <2> QED BY <1>5, <2>1, <2>2 DEF NoMixedFrames, FrameOf
<1>7. ASSUME NEW i \in 1..Len(wire), NEW result \in SinkResults, ReceiveRtpPacket(i, result)
      PROVE  /\ frame' = timestamp' + 1
             /\ \A k \in 1..Len(wire') : PacketFrame(wire'[k]) = wire'[k].timestamp + 1
             /\ \A k \in 1..Len(payload') : payload'[k][1] = payloadTime' + 1
             /\ NoMixedFrames'
  <2>1. PICK m : m = wire[i]
    OBVIOUS
  <2>2. PICK data : data = Collected(m)
    OBVIOUS
  <2>3. /\ m \in Packet /\ IsChunk(m)
        /\ wire' = RemoveAt(wire, i) /\ UNCHANGED senderVars
        /\ ssrc # Ssrc => UNCHANGED receiverVars
        /\ ssrc = Ssrc =>
             /\ payload' = IF m.marker THEN <<>> ELSE data
             /\ payloadTime' = IF m.marker THEN 0 ELSE m.timestamp
             /\ accepted' \in {accepted, Append(accepted, data)}
    BY <1>7, <2>1, <2>2, ReceiveStep
  <2>4. Now
    BY <1>1, <2>3 DEF senderVars
  <2>5. data \in Seq(Byte) /\ data # <<>>
    BY <2>2, <2>3, CollectedFacts, CollectedEnds
  <2>6. ASSUME NEW k \in 1..Len(data) PROVE data[k][1] = m.timestamp + 1
    <3>1. PacketFrame(m) = m.timestamp + 1 /\ \A n \in 1..Len(payload) : payload[n][1] = payloadTime + 1
      BY <2>1, <2>4
    <3> QED BY <2>2, <2>3, <2>6, <3>1, CollectedFrame
  <2>7. ASSUME NEW k \in 1..Len(wire') PROVE PacketFrame(wire'[k]) = wire'[k].timestamp + 1
    BY <1>5, <2>3, <2>4
  <2>8. CASE ssrc # Ssrc
    BY <2>3, <2>4, <2>7, <2>8 DEF senderVars, receiverVars, NoMixedFrames, FrameOf
  <2>9. CASE ssrc = Ssrc
    <3>1. NoMixedFrames'
      BY <2>3, <2>4, <2>5, <2>6, <2>9, AcceptedUnmixed
    <3>2. ASSUME NEW k \in 1..Len(payload') PROVE payload'[k][1] = payloadTime' + 1
      <4>1. m.marker => 1..Len(payload') = {}
        BY <2>3, <2>9
      <4> QED BY <2>3, <2>6, <2>9, <4>1
    <3> QED BY <2>3, <2>4, <2>7, <3>1, <3>2 DEF senderVars
  <2> QED BY <2>8, <2>9
<1>8. CASE UNCHANGED rtpVars
  BY <1>1, <1>8 DEF rtpVars, NoMixedFrames, FrameOf
<1> QED BY <1>3, <1>4, <1>6, <1>7, <1>8, ReceiveFirst DEF RtpNext
-----------------------------------------------------------------------------
(* A network without fault                                                  *)

\* What follows the headers at i in a payload that parses: the next headers or its
\* end, as far away as the length says; the end, if it says nothing.
LEMMA ParsesEnd ==
  ASSUME NEW data \in Seq(Byte), Parses(data), NEW i \in Heads(data)
  PROVE  \E end \in Heads(data) \cup {Len(data) + 1} :
           /\ end > i /\ end \in Nat
           /\ \A k \in Heads(data) : k > i => end <= k
           /\ data[i][1] \in LargeFrames => end = Len(data) + 1
           /\ data[i][1] \notin LargeFrames => end = i + Bytes[data[i][1]]
<1> DEFINE next == {j \in Heads(data) \cup {Len(data) + 1} : j > i}
           end  == CHOOSE j \in next : \A k \in next : j <= k
<1>1. IF data[i][1] \in LargeFrames THEN end = Len(data) + 1 ELSE end = i + Bytes[data[i][1]]
  BY DEF Parses
<1>2. Len(data) \in Nat /\ Heads(data) \subseteq 1..Len(data)
  BY DEF Heads
<1>3. next \subseteq Nat /\ Len(data) + 1 \in next
  BY <1>2
<1> HIDE DEF next
<1>4. \E j \in next : \A k \in next : j <= k
  BY <1>3, Smallest
<1>5. end \in next /\ \A k \in next : end <= k
  BY <1>4
<1> HIDE DEF end
<1> QED BY <1>1, <1>3, <1>5 DEF next

\* A payload that is begun with headers keeps to that with the packet that comes next,
\* and only the marker packet finishes a frame.
LEMMA RootedCollected ==
  ASSUME RtpTypeInv, NEW m \in Packet, IsChunk(m), Rooted(payload), Unfinished(payload),
         Start(m) # 0 => FollowsData(PacketFrame(m), Start(m), m.timestamp)
  PROVE  /\ Rooted(Collected(m))
         /\ \A k \in 1..Len(Collected(m)) : k < Len(Collected(m)) \/ ~m.marker =>
              Collected(m)[k][2] + 1 < Bytes[Collected(m)[k][1]]
<1>1. PICK data : data = Collected(m)
  OBVIOUS
<1>2. PICK kept \in Nat : kept = Kept(m)
  BY CollectedFacts
<1>3. PICK f \in Frames, start \in Nat, end \in Nat, size \in Nat :
        /\ f = PacketFrame(m) /\ start = Start(m) /\ end = End(m) /\ size = Len(m.data)
        /\ size > 0 /\ end = start + size /\ Bytes[f] \in Nat /\ end <= Bytes[f]
        /\ ~m.marker => end < Bytes[f]
  <2>1. /\ PacketFrame(m) \in Frames /\ Start(m) \in Nat /\ Len(m.data) \in Nat /\ Len(m.data) > 0
        /\ End(m) = Start(m) + Len(m.data)
    BY PacketType DEF IsChunk
  <2>2. Bytes[PacketFrame(m)] \in Nat /\ End(m) <= Bytes[PacketFrame(m)]
    BY <2>1, FrameBytes DEF IsChunk
  <2>3. ~m.marker => End(m) # Bytes[PacketFrame(m)]
    BY DEF IsChunk
  <2>4. End(m) \in Nat /\ (~m.marker => End(m) < Bytes[PacketFrame(m)])
    BY <2>1, <2>2, <2>3
  <2> QED BY <2>1, <2>2, <2>4
<1>4. /\ data \in Seq(Byte) /\ Len(data) = kept + size /\ (kept = 0 \/ kept = Len(payload))
      /\ \A k \in 1..kept : data[k] = payload[k]
      /\ \A n \in 1..size : data[kept + n] = <<f, start + n - 1>>
  BY <1>1, <1>2, <1>3, CollectedFacts
<1>5. \A k \in 1..kept : /\ payload[k][2] \in Nat /\ payload[k][2] < k
                         /\ payload[k - payload[k][2]] = <<payload[k][1], 0>>
                         /\ payload[k][2] + 1 < Bytes[payload[k][1]]
  <2>1. \A k \in 1..Len(payload) : payload[k][2] \in Nat
    <3>1. payload \in Seq(Byte)
      BY DEF RtpTypeInv, RtpTypeOK
    <3> QED BY <3>1 DEF Byte
  <2> QED BY <1>4, <2>1 DEF Rooted, Unfinished
<1>6. ASSUME start # 0
      PROVE  kept # 0 /\ kept = Len(payload) /\ payload[kept] = <<f, start - 1>>
  <2>1. payload # <<>> /\ payload[Len(payload)] = <<f, start - 1>> /\ payloadTime = m.timestamp
    BY <1>3, <1>6 DEF FollowsData
  <2>2. kept = Len(payload) /\ kept # 0
    BY <1>2, <2>1 DEF Kept, RtpTypeInv, RtpTypeOK
  <2> QED BY <2>1, <2>2
<1>7. ASSUME NEW k \in 1..Len(data), k > kept
      PROVE  \E n \in 1..size : k = kept + n
  <2>1. k - kept \in 1..size /\ k = kept + (k - kept)
    BY <1>4, <1>7
  <2> QED BY <2>1
<1>8. ASSUME NEW k \in 1..Len(data)
      PROVE  data[k][2] < k /\ data[k - data[k][2]] = <<data[k][1], 0>>
  <2>1. CASE k <= kept
    <3>1. k \in 1..kept
      BY <2>1
    <3>2. PICK back \in Nat : back = payload[k][2]
      BY <1>5, <3>1
    <3>3. /\ data[k] = payload[k] /\ back < k
          /\ payload[k - back] = <<payload[k][1], 0>>
      BY <1>4, <1>5, <3>1, <3>2
    <3>4. k - back \in 1..kept
      BY <3>1, <3>3
    <3>5. data[k - back] = payload[k - back]
      BY <1>4, <3>4
    <3> QED BY <3>2, <3>3, <3>5
  <2>2. CASE k > kept
    <3>1. PICK n \in 1..size : k = kept + n
      BY <1>7, <2>2
    <3>2. data[k] = <<f, start + n - 1>>
      BY <1>4, <3>1
    <3>3. data[k][1] = f /\ data[k][2] = start + n - 1
      BY <3>2
    <3>4. CASE start = 0
      <4>1. 1 \in 1..size /\ start + 1 - 1 = 0
        BY <1>3, <3>4
      <4>2. data[kept + 1] = <<f, 0>>
        BY <1>4, <4>1
      <4>3. k - data[k][2] = kept + 1 /\ data[k][2] < k
        BY <1>4, <3>1, <3>3, <3>4
      <4> QED BY <3>3, <4>2, <4>3
    <3>5. CASE start # 0
      <4>1. kept \in 1..kept /\ payload[kept] = <<f, start - 1>>
        BY <1>4, <1>6, <3>5
      <4>2. payload[kept][1] = f /\ payload[kept][2] = start - 1
        BY <4>1
      <4>3. start - 1 < kept /\ payload[kept - (start - 1)] = <<f, 0>>
        BY <1>5, <4>1, <4>2
      <4>4. kept - (start - 1) \in 1..kept
        BY <3>5, <4>3
      <4>5. data[kept - (start - 1)] = <<f, 0>>
        BY <1>4, <4>3, <4>4
      <4>6. k - data[k][2] = kept - (start - 1) /\ data[k][2] < k
        BY <3>1, <3>3, <4>3
      <4> QED BY <3>3, <4>5, <4>6
    <3> QED BY <3>4, <3>5
  <2> QED BY <1>4, <2>1, <2>2
<1>9. ASSUME NEW k \in 1..Len(data), k < Len(data) \/ ~m.marker
      PROVE  data[k][2] + 1 < Bytes[data[k][1]]
  <2>1. CASE k <= kept
    <3>1. k \in 1..kept
      BY <2>1
    <3> QED BY <1>4, <1>5, <3>1
  <2>2. CASE k > kept
    <3>1. PICK n \in 1..size : k = kept + n
      BY <1>7, <2>2
    <3>2. data[k] = <<f, start + n - 1>>
      BY <1>4, <3>1
    <3>3. data[k][1] = f /\ data[k][2] = start + n - 1
      BY <3>2
    <3>4. n < size \/ end < Bytes[f]
      BY <1>3, <1>4, <1>9, <3>1
    <3>5. start + n - 1 + 1 < Bytes[f]
      BY <1>3, <3>4
    <3> QED BY <3>3, <3>5
  <2> QED BY <1>4, <2>1, <2>2
<1> QED BY <1>1, <1>8, <1>9 DEF Rooted

\* Such a payload has no second headers, if it parses: it is of one frame.
LEMMA RootedUnmixed ==
  ASSUME NEW data \in Seq(Byte), Parses(data), Rooted(data),
         \A k \in 1..Len(data) : k < Len(data) => data[k][2] + 1 < Bytes[data[k][1]]
  PROVE  \A k \in 1..Len(data) : data[k][1] = data[1][1]
<1>1. Len(data) \in Nat /\ \A k \in 1..Len(data) : data[k][1] \in Frames /\ data[k][2] \in Nat
  BY DEF Byte
<1>2. 1 \in Heads(data) /\ 1 \in 1..Len(data)
  BY DEF Parses, Heads
<1>3. ASSUME NEW k \in 1..Len(data), \A h \in Heads(data) : h <= k => h = 1
      PROVE  data[k][1] = data[1][1] /\ data[k][2] = k - 1
  <2>1. data[k][2] < k /\ data[k - data[k][2]] = <<data[k][1], 0>>
    BY DEF Rooted
  <2>2. k - data[k][2] \in 1..Len(data) /\ k - data[k][2] <= k
    BY <1>1, <2>1
  <2>3. k - data[k][2] \in Heads(data)
    BY <2>1, <2>2 DEF Heads
  <2>4. k - data[k][2] = 1
    BY <1>3, <2>2, <2>3
  <2>5. data[1] = <<data[k][1], 0>> /\ data[k][2] = k - 1
    BY <1>1, <2>1, <2>4
  <2> QED BY <2>5
<1>4. PICK end \in Heads(data) \cup {Len(data) + 1} :
        /\ end > 1 /\ end \in Nat
        /\ \A k \in Heads(data) : k > 1 => end <= k
        /\ data[1][1] \in LargeFrames => end = Len(data) + 1
        /\ data[1][1] \notin LargeFrames => end = 1 + Bytes[data[1][1]]
  BY <1>2, ParsesEnd
<1>5. Heads(data) \subseteq 1..Len(data)
  BY DEF Heads
<1>6. end = Len(data) + 1
  <2> SUFFICES ASSUME end # Len(data) + 1 PROVE FALSE
    OBVIOUS
  <2>1. end \in 1..Len(data) /\ end = 1 + Bytes[data[1][1]]
    BY <1>4, <1>5
  <2>2. end - 1 \in 1..Len(data) /\ end - 1 < Len(data) /\ end - 1 = Bytes[data[1][1]]
    <3>1. data[1][1] \in Frames /\ Bytes[data[1][1]] \in Nat
      BY <1>1, <1>2, FrameBytes
    <3> QED BY <1>1, <1>4, <2>1, <3>1
  <2>3. \A h \in Heads(data) : h <= end - 1 => h = 1
    BY <1>1, <1>4, <1>5
  <2>4. data[end - 1][1] = data[1][1] /\ data[end - 1][2] = end - 1 - 1
    BY <1>3, <2>2, <2>3
  <2> QED BY <2>2, <2>4
<1> SUFFICES ASSUME NEW k \in 1..Len(data) PROVE data[k][1] = data[1][1]
  OBVIOUS
<1>7. \A h \in Heads(data) : h <= k => h = 1
  BY <1>1, <1>4, <1>5, <1>6
<1> QED BY <1>3, <1>7

\* The packet sent continues the one before it.
LEMMA SendPacketUnbroken ==
  ASSUME RtpTypeInv, Unbroken, SendPacket
  PROVE  Unbroken'
<1>1. /\ frame \in Frames
      /\ Len(wire') = Len(wire) + 1
      /\ \A k \in 1..Len(wire) : wire'[k] = wire[k]
      /\ wire'[Len(wire) + 1] = NextPacket
      /\ timestamp' = IF Marker THEN timestamp + 1 ELSE timestamp
      /\ IF Marker THEN frame' = frame + 1 /\ offset' = 0 ELSE frame' = frame /\ offset' = ChunkEnd
      /\ UNCHANGED <<payload, payloadTime>>
  BY SendPacketStep
<1>2. /\ PacketFrame(NextPacket) = frame /\ Start(NextPacket) = offset /\ End(NextPacket) = ChunkEnd
      /\ NextPacket.timestamp = timestamp /\ NextPacket.marker = Marker
  BY <1>1, NextPacketChunk
<1>3. /\ Len(wire) \in Nat /\ (wire = <<>> <=> Len(wire) = 0)
      /\ wire' # <<>>
  <2>1. Len(wire) \in Nat /\ (wire = <<>> <=> Len(wire) = 0)
    BY DEF RtpTypeInv, RtpTypeOK
  <2>2. wire' = <<>> => Len(wire') = 0
    OBVIOUS
  <2> QED BY <1>1, <2>1, <2>2
<1>4. Rooted(payload') /\ Unfinished(payload')
  BY <1>1 DEF Unbroken
<1>5. Start(wire'[1]) # 0 => FollowsData(PacketFrame(wire'[1]), Start(wire'[1]), wire'[1].timestamp)
  <2>1. CASE wire = <<>>
    <3>1. wire'[1] = NextPacket
      BY <1>1, <1>3, <2>1
    <3> QED BY <1>2, <2>1, <3>1 DEF Unbroken
  <2>2. CASE wire # <<>>
    <3>1. 1 \in 1..Len(wire)
      BY <1>3, <2>2
    <3> QED BY <1>1, <2>2, <3>1 DEF Unbroken
  <2> QED BY <2>1, <2>2
<1>6. ASSUME NEW i \in 1..Len(wire') - 1, Start(wire'[i + 1]) # 0
      PROVE  FollowsPacket(wire'[i], PacketFrame(wire'[i + 1]), Start(wire'[i + 1]), wire'[i + 1].timestamp)
  <2>1. i \in 1..Len(wire) /\ wire'[i] = wire[i]
    BY <1>1, <1>3
  <2>2. CASE i = Len(wire)
    <3>1. wire'[i + 1] = NextPacket /\ wire # <<>>
      BY <1>1, <1>3, <2>1, <2>2
    <3> QED BY <1>2, <1>6, <2>1, <2>2, <3>1 DEF Unbroken
  <2>3. CASE i # Len(wire)
    <3>1. i \in 1..Len(wire) - 1 /\ wire'[i + 1] = wire[i + 1]
      BY <1>1, <1>3, <2>1, <2>3
    <3> QED BY <1>6, <2>1, <3>1 DEF Unbroken
  <2> QED BY <2>2, <2>3
<1>7. offset' # 0 => FollowsPacket(wire'[Len(wire')], frame', offset', timestamp')
  BY <1>1, <1>2 DEF FollowsPacket
<1> QED BY <1>1, <1>3, <1>4, <1>5, <1>6, <1>7
        DEF Unbroken, FollowsData, FollowsPacket, Start, End, PacketFrame, Rooted, Unfinished

\* A refused packet starts a frame from its headers again.
LEMMA SendFailsUnbroken ==
  ASSUME RtpTypeInv, Unbroken, NEW taken \in BOOLEAN, SendFails(taken)
  PROVE  Unbroken'
<1>1. wire' = wire /\ offset' = 0 /\ UNCHANGED <<payload, payloadTime>>
  BY SendFailsStep
<1> QED BY <1>1 DEF Unbroken, FollowsData, FollowsPacket, Start, End, PacketFrame, Rooted, Unfinished

\* The packet received continues the payload, or starts a frame: what is parsed is one
\* frame from its headers on.
LEMMA ReceiveUnbroken ==
  ASSUME RtpTypeInv, WireInv, Unbroken, NoMixedFrames, ssrc = Ssrc,
         1 \in 1..Len(wire), NEW result \in SinkResults, ReceiveRtpPacket(1, result)
  PROVE  Unbroken' /\ NoMixedFrames'
<1>1. PICK m : m = wire[1]
  OBVIOUS
<1>2. PICK data : data = Collected(m)
  OBVIOUS
<1>3. /\ m \in Packet /\ IsChunk(m)
      /\ wire' = RemoveAt(wire, 1) /\ UNCHANGED senderVars
      /\ payload' = IF m.marker THEN <<>> ELSE data
      /\ payloadTime' = IF m.marker THEN 0 ELSE m.timestamp
      /\ \/ m.marker /\ Parses(data) /\ accepted' = Append(accepted, data)
         \/ accepted' = accepted
  BY <1>1, <1>2, ReceiveStep
<1>4. Len(wire) \in Nat /\ Len(wire') = Len(wire) - 1 /\ \A k \in 1..Len(wire') : wire'[k] = wire[k + 1]
  BY <1>3, RemovedStep DEF RtpTypeInv, RtpTypeOK
<1>5. UNCHANGED <<frame, offset, timestamp>>
  BY <1>3 DEF senderVars
<1>6. /\ data \in Seq(Byte) /\ data # <<>> /\ data[Len(data)] = <<PacketFrame(m), End(m) - 1>>
  BY <1>2, <1>3, CollectedFacts, CollectedEnds
<1>7. wire # <<>>
  <2>1. Len(wire) # 0
    BY <1>4
  <2> QED BY <2>1
<1>8. Rooted(payload) /\ Unfinished(payload)
      /\ (Start(m) # 0 => FollowsData(PacketFrame(m), Start(m), m.timestamp))
  BY <1>1, <1>7 DEF Unbroken
<1>9. /\ Rooted(data)
      /\ \A k \in 1..Len(data) : k < Len(data) \/ ~m.marker => data[k][2] + 1 < Bytes[data[k][1]]
  BY <1>2, <1>3, <1>8, RootedCollected
<1>10. Rooted(payload') /\ Unfinished(payload')
  <2>1. CASE m.marker
    <3>1. payload' = <<>> /\ 1..Len(payload') = {}
      BY <1>3, <2>1
    <3> QED BY <3>1 DEF Rooted, Unfinished
  <2>2. CASE ~m.marker
    BY <1>3, <1>9, <2>2 DEF Unfinished
  <2> QED BY <2>1, <2>2
<1>11. NoMixedFrames'
  <2>1. CASE accepted' = accepted
    BY <2>1 DEF NoMixedFrames, FrameOf
  <2>2. CASE Parses(data) /\ accepted' = Append(accepted, data)
    <3>1. \A k \in 1..Len(data) : data[k][1] = data[1][1]
      BY <1>6, <1>9, <2>2, RootedUnmixed
    <3> QED BY <1>6, <2>2, <3>1, AcceptedUnmixed
  <2> QED BY <1>3, <2>1, <2>2
<1> DEFINE After(f, start, time) == /\ payload' # <<>>
                                    /\ payload'[Len(payload')] = <<f, start - 1>>
                                    /\ payloadTime' = time
\* What followed the packet in flight follows the data now.
<1>12. ASSUME NEW f, NEW start, NEW time, FollowsPacket(m, f, start, time)
       PROVE  After(f, start, time)
  <2>1. ~m.marker /\ PacketFrame(m) = f /\ End(m) = start /\ m.timestamp = time
    BY <1>12 DEF FollowsPacket
  <2> QED BY <1>3, <1>6, <2>1
<1> HIDE DEF After
<1>13. wire' # <<>> => 1 \in 1..Len(wire') /\ wire'[1] = wire[1 + 1] /\ 1 \in 1..Len(wire) - 1
  <2>1. wire' \in Seq(Packet)
    BY <1>3, RemoveAtFacts DEF RtpTypeInv, RtpTypeOK
  <2>2. wire' # <<>> => 1 \in 1..Len(wire')
    BY <2>1
  <2>3. 1 \in 1..Len(wire') => wire'[1] = wire[1 + 1] /\ 1 \in 1..Len(wire) - 1
    BY <1>4
  <2> QED BY <2>2, <2>3
<1>14. wire' # <<>> /\ Start(wire'[1]) # 0 =>
         After(PacketFrame(wire'[1]), Start(wire'[1]), wire'[1].timestamp)
  <2> SUFFICES ASSUME wire' # <<>>, Start(wire[1 + 1]) # 0
               PROVE  After(PacketFrame(wire[1 + 1]), Start(wire[1 + 1]), wire[1 + 1].timestamp)
    BY <1>13
  <2>1. FollowsPacket(m, PacketFrame(wire[1 + 1]), Start(wire[1 + 1]), wire[1 + 1].timestamp)
    BY <1>1, <1>13 DEF Unbroken
  <2> QED BY <1>12, <2>1
<1>15. ASSUME NEW i \in 1..Len(wire') - 1, Start(wire'[i + 1]) # 0
       PROVE  FollowsPacket(wire'[i], PacketFrame(wire'[i + 1]), Start(wire'[i + 1]), wire'[i + 1].timestamp)
  <2>1. i + 1 \in 1..Len(wire) - 1 /\ wire'[i] = wire[i + 1] /\ wire'[i + 1] = wire[i + 1 + 1]
    BY <1>4
  <2> QED BY <1>15, <2>1 DEF Unbroken
<1>16. offset' # 0 /\ wire' = <<>> => After(frame', offset', timestamp')
  <2> SUFFICES ASSUME offset # 0, wire' = <<>> PROVE After(frame, offset, timestamp)
    BY <1>5
  <2>1. Len(wire) = 1
    BY <1>4
  <2>2. FollowsPacket(m, frame, offset, timestamp)
    BY <1>1, <1>7, <2>1 DEF Unbroken
  <2> QED BY <1>12, <2>2
<1>17. offset' # 0 /\ wire' # <<>> => FollowsPacket(wire'[Len(wire')], frame', offset', timestamp')
  <2>1. wire' # <<>> => wire'[Len(wire')] = wire[Len(wire)]
    <3>1. 1 \in 1..Len(wire') => Len(wire') \in 1..Len(wire') /\ Len(wire') + 1 = Len(wire)
      BY <1>4
    <3> QED BY <1>4, <1>13, <3>1
  <2> QED BY <1>5, <1>7, <2>1 DEF Unbroken
<1> QED BY <1>10, <1>11, <1>14, <1>15, <1>16, <1>17
        DEF After, Unbroken, FollowsData, FollowsPacket, Start, End, PacketFrame, Rooted, Unfinished

\* Initially nothing was begun.
LEMMA UnbrokenInit == RtpInit => UnbrokenInv
<1> SUFFICES ASSUME RtpInit PROVE UnbrokenInv
  OBVIOUS
<1>1. wire = <<>> /\ accepted = <<>> /\ payload = <<>> /\ offset = 0
  BY DEF RtpInit
<1>2. 1..Len(wire) = {} /\ 1..Len(wire) - 1 = {} /\ 1..Len(accepted) = {} /\ 1..Len(payload) = {}
  BY <1>1
<1> QED BY <1>1, <1>2 DEF UnbrokenInv, Unbroken, NoMixedFrames, Rooted, Unfinished

\* Every step of a network without fault keeps frames unbroken.
LEMMA UnbrokenStep ==
  ASSUME RtpTypeInv, WireInv, UnbrokenInv, [RtpNext]_rtpVars
  PROVE  UnbrokenInv'
<1>1. CASE SendPacket
  <2>1. UNCHANGED <<network, ssrc, accepted>>
    BY <1>1, SendPacketStep
  <2> QED BY <1>1, <2>1, SendPacketUnbroken DEF UnbrokenInv, NoMixedFrames, FrameOf
<1>2. ASSUME NEW taken \in BOOLEAN, SendFails(taken) PROVE UnbrokenInv'
  <2>1. UNCHANGED <<network, ssrc, accepted>>
    BY <1>2, SendFailsStep
  <2> QED BY <1>2, <2>1, SendFailsUnbroken DEF UnbrokenInv, NoMixedFrames, FrameOf
<1>3. ASSUME NEW i \in 1..Len(wire), Lose(i) PROVE UnbrokenInv'
  BY <1>3 DEF Lose, senderVars, UnbrokenInv
<1>4. ASSUME NEW i \in 1..Len(wire), NEW result \in SinkResults, ReceiveRtpPacket(i, result),
             ~network.overtakes => i = 1
      PROVE  UnbrokenInv'
  <2>1. UNCHANGED <<network, ssrc>> /\ (ssrc # Ssrc => UNCHANGED accepted)
    BY <1>4, ReceiveStep DEF senderVars, receiverVars
  <2> SUFFICES ASSUME ~network.lossy, ~network.overtakes
               PROVE  NoMixedFrames' /\ (ssrc = Ssrc => Unbroken')
    BY <2>1 DEF UnbrokenInv
  <2>2. i = 1 /\ NoMixedFrames /\ (ssrc = Ssrc => Unbroken)
    BY <1>4 DEF UnbrokenInv
  <2>3. CASE ssrc # Ssrc
    BY <2>1, <2>2, <2>3 DEF NoMixedFrames, FrameOf
  <2>4. CASE ssrc = Ssrc
    BY <1>4, <2>2, <2>4, ReceiveUnbroken
  <2> QED BY <2>3, <2>4
<1>5. CASE UNCHANGED rtpVars
  BY <1>5 DEF rtpVars, UnbrokenInv, Unbroken, FollowsData, FollowsPacket, Start, End, PacketFrame,
              Rooted, Unfinished, NoMixedFrames, FrameOf
<1> QED BY <1>1, <1>2, <1>3, <1>4, <1>5, ReceiveFirst DEF RtpNext

\* A splice needs a refused packet and a network with a fault.
LEMMA NoSplices ==
  ASSUME RtpTypeInv, TimestampInv, UnbrokenInv, ~Splices
  PROVE  NoMixedFrames
<1>1. network \in Networks /\ fails \in Nat
  BY DEF RtpTypeInv, RtpTypeOK
<1>2. fails = 0 \/ (~network.lossy /\ ~network.overtakes)
  BY <1>1, RtpStreamAssumption DEF Splices
<1> QED BY <1>2 DEF TimestampInv, UnbrokenInv

\* While packets come in order, frames are accepted in the order of the stream file,
\* none twice; each is of one picture, unless a packet was refused and the network fails.
THEOREM FrameSafety == RtpSpec => []FramesWholeInOrder
<1> DEFINE IInv == RtpTypeInv /\ WireInv /\ OrderInv /\ TimestampInv /\ UnbrokenInv
<1>1. RtpInit => IInv
  BY RtpTypeInit, RtpOrderInit, TimestampInit, UnbrokenInit
<1>2. IInv /\ [RtpNext]_rtpVars => IInv'
  BY RtpTypeStep, WireStep, OrderStep, TimestampStep, UnbrokenStep
<1>3. IInv => FramesWholeInOrder
  BY NoSplices DEF FramesWholeInOrder, OrderInv
<1> QED BY <1>1, <1>2, <1>3, PTL DEF RtpSpec
-----------------------------------------------------------------------------
(* Losses only                                                              *)

\* The packet sent comes after the packets of its frame.
LEMMA SendPacketAscends ==
  ASSUME RtpTypeInv, WireInv, Ascends, payload # <<>> => FrameOf(payload) <= frame, SendPacket
  PROVE  Ascends'
<1>1. /\ frame \in Frames
      /\ Len(wire') = Len(wire) + 1
      /\ \A k \in 1..Len(wire) : wire'[k] = wire[k]
      /\ wire'[Len(wire) + 1] = NextPacket
      /\ IF Marker THEN frame' = frame + 1 /\ offset' = 0 ELSE frame' = frame /\ offset' = ChunkEnd
      /\ UNCHANGED payload
  BY SendPacketStep
<1>2. /\ PacketFrame(NextPacket) = frame /\ Start(NextPacket) = offset /\ End(NextPacket) = ChunkEnd
  BY <1>1, NextPacketChunk
<1>3. /\ frame \in Nat /\ offset \in Nat /\ ChunkEnd \in Nat /\ offset < ChunkEnd
      /\ Len(wire) \in Nat
  BY <1>1, FrameBytes, ChunkFacts DEF RtpTypeInv, RtpTypeOK
<1>4. \A i \in 1..Len(wire') : i \in 1..Len(wire) \/ i = Len(wire) + 1
  BY <1>1, <1>3
<1>5. \A i \in 1..Len(wire) : /\ PacketFrame(wire[i]) \in Nat /\ PacketFrame(wire[i]) <= frame
                              /\ End(wire[i]) \in Nat
  BY WireTyped DEF WireFacts, WireInv
<1>6. ASSUME NEW i \in 1..Len(wire'), NEW j \in 1..Len(wire'), i < j,
             PacketFrame(wire'[i]) = PacketFrame(wire'[j])
      PROVE  End(wire'[i]) <= Start(wire'[j])
  <2>1. i \in 1..Len(wire) /\ wire'[i] = wire[i]
    BY <1>1, <1>3, <1>6
  <2>2. CASE j \in 1..Len(wire)
    BY <1>1, <1>6, <2>1, <2>2 DEF Ascends
  <2>3. CASE j = Len(wire) + 1
    <3>1. wire'[j] = NextPacket
      BY <1>1, <2>3
    <3> QED BY <1>2, <1>6, <2>1, <3>1 DEF Ascends
  <2> QED BY <1>4, <2>2, <2>3
<1>7. ASSUME NEW i \in 1..Len(wire'), PacketFrame(wire'[i]) = frame'
      PROVE  End(wire'[i]) <= offset'
  <2>1. CASE i \in 1..Len(wire)
    <3>1. wire'[i] = wire[i] /\ PacketFrame(wire[i]) \in Nat /\ PacketFrame(wire[i]) <= frame
          /\ End(wire[i]) \in Nat
      BY <1>1, <1>5, <2>1
    <3>2. ~Marker
      BY <1>1, <1>3, <1>7, <3>1
    <3>3. End(wire[i]) <= offset
      BY <1>1, <1>7, <2>1, <3>1, <3>2 DEF Ascends
    <3> QED BY <1>1, <1>3, <3>1, <3>2, <3>3
  <2>2. CASE i = Len(wire) + 1
    <3>1. wire'[i] = NextPacket
      BY <1>1, <2>2
    <3>2. ~Marker
      BY <1>1, <1>2, <1>3, <1>7, <3>1
    <3> QED BY <1>1, <1>2, <1>3, <3>1, <3>2
  <2> QED BY <1>4, <2>1, <2>2
<1>8. ASSUME payload # <<>>
      PROVE  /\ \A i \in 1..Len(wire') : PacketFrame(wire'[i]) = FrameOf(payload) =>
                  payload[Len(payload)][2] < Start(wire'[i])
             /\ FrameOf(payload) = frame' => payload[Len(payload)][2] < offset'
  <2>1. FrameOf(payload) \in Nat /\ FrameOf(payload) <= frame
    BY <1>8, PayloadFrame
  <2>2. PICK x \in Nat : x = payload[Len(payload)][2]
    <3>1. payload[Len(payload)] \in Byte
      BY <1>8 DEF RtpTypeInv, RtpTypeOK
    <3> QED BY <3>1 DEF Byte
  <2>3. ASSUME NEW i \in 1..Len(wire'), PacketFrame(wire'[i]) = FrameOf(payload)
        PROVE  x < Start(wire'[i])
    <3>1. CASE i \in 1..Len(wire)
      BY <1>1, <1>8, <2>2, <2>3, <3>1 DEF Ascends
    <3>2. CASE i = Len(wire) + 1
      <4>1. wire'[i] = NextPacket
        BY <1>1, <3>2
      <4> QED BY <1>2, <1>8, <2>2, <2>3, <4>1 DEF Ascends
    <3> QED BY <1>4, <3>1, <3>2
  <2>4. ASSUME FrameOf(payload) = frame' PROVE x < offset'
    <3>1. ~Marker
      BY <1>1, <1>3, <2>1, <2>4
    <3>2. x < offset
      BY <1>1, <1>8, <2>2, <2>4, <3>1 DEF Ascends
    <3> QED BY <1>1, <1>3, <3>1, <3>2
  <2> QED BY <2>2, <2>3, <2>4
<1>9. Ascending(payload) /\ Unfinished(payload)
  BY DEF Ascends
<1> QED BY <1>1, <1>6, <1>7, <1>8, <1>9
        DEF Ascends, Ascending, Unfinished, PacketFrame, Start, End, FrameOf

\* A packet less leaves the rest ascending.
LEMMA RemovedAscends ==
  ASSUME RtpTypeInv, Ascends, NEW i \in 1..Len(wire), wire' = RemoveAt(wire, i),
         UNCHANGED <<frame, offset, payload>>
  PROVE  Ascends'
<1>1. /\ \A k \in 1..Len(wire') : \E j \in 1..Len(wire) : wire'[k] = wire[j]
      /\ \A k, l \in 1..Len(wire') : k < l =>
           \E j, n \in 1..Len(wire) : j < n /\ wire'[k] = wire[j] /\ wire'[l] = wire[n]
  BY RemovedPairs
<1>2. \A k, l \in 1..Len(wire') : k < l /\ PacketFrame(wire'[k]) = PacketFrame(wire'[l]) =>
        End(wire'[k]) <= Start(wire'[l])
  <2> SUFFICES ASSUME NEW k \in 1..Len(wire'), NEW l \in 1..Len(wire'), k < l,
                      PacketFrame(wire'[k]) = PacketFrame(wire'[l])
               PROVE  End(wire'[k]) <= Start(wire'[l])
    OBVIOUS
  <2>1. PICK j \in 1..Len(wire), n \in 1..Len(wire) : j < n /\ wire'[k] = wire[j] /\ wire'[l] = wire[n]
    BY <1>1
  <2> QED BY <2>1 DEF Ascends
<1>3. \A k \in 1..Len(wire') : PacketFrame(wire'[k]) = frame => End(wire'[k]) <= offset
  BY <1>1 DEF Ascends
<1>4. Ascending(payload) /\ Unfinished(payload)
  BY DEF Ascends
<1>5. payload # <<>> =>
        /\ \A k \in 1..Len(wire') : PacketFrame(wire'[k]) = FrameOf(payload) =>
             payload[Len(payload)][2] < Start(wire'[k])
        /\ FrameOf(payload) = frame => payload[Len(payload)][2] < offset
  BY <1>1 DEF Ascends
<1> QED BY <1>2, <1>3, <1>4, <1>5
        DEF Ascends, Ascending, Unfinished, PacketFrame, Start, End, FrameOf

\* What is collected ascends, if the packet is behind the payload that it is added to.
LEMMA CollectedAscending ==
  ASSUME RtpTypeInv, NEW m \in Packet, IsChunk(m), Ascending(payload), Unfinished(payload),
         Kept(m) # 0 => payload[Len(payload)][2] < Start(m)
  PROVE  /\ Ascending(Collected(m))
         /\ ~m.marker => Unfinished(Collected(m))
<1>1. PICK data : data = Collected(m)
  OBVIOUS
<1>2. PICK kept \in Nat : kept = Kept(m)
  BY CollectedFacts
<1>3. PICK f \in Frames, start \in Nat, size \in Nat, bytes \in Nat :
        /\ f = PacketFrame(m) /\ start = Start(m) /\ size = Len(m.data) /\ bytes = Bytes[f]
        /\ ~m.marker => start + size < bytes
  <2>1. /\ PacketFrame(m) \in Frames /\ Start(m) \in Nat /\ Len(m.data) \in Nat
        /\ End(m) = Start(m) + Len(m.data)
    BY PacketType DEF IsChunk
  <2>2. Bytes[PacketFrame(m)] \in Nat /\ End(m) <= Bytes[PacketFrame(m)]
    BY <2>1, FrameBytes DEF IsChunk
  <2>3. ~m.marker => End(m) # Bytes[PacketFrame(m)]
    BY DEF IsChunk
  <2>4. ~m.marker => Start(m) + Len(m.data) < Bytes[PacketFrame(m)]
    BY <2>1, <2>2, <2>3
  <2> QED BY <2>1, <2>2, <2>4
<1>4. /\ data \in Seq(Byte) /\ Len(data) = kept + size /\ (kept = 0 \/ kept = Len(payload))
      /\ \A k \in 1..kept : data[k] = payload[k]
      /\ \A n \in 1..size : data[kept + n] = <<f, start + n - 1>>
  BY <1>1, <1>2, <1>3, CollectedFacts
<1>5. \A k \in 1..Len(data) : data[k][2] \in Nat
  BY <1>4 DEF Byte
<1>6. ASSUME NEW k \in 1..Len(data), k > kept
      PROVE  \E n \in 1..size : k = kept + n /\ data[k][1] = f /\ data[k][2] = start + n - 1
  <2>1. k - kept \in 1..size /\ k = kept + (k - kept)
    BY <1>4, <1>6
  <2>2. data[k] = <<f, start + (k - kept) - 1>>
    BY <1>4, <2>1
  <2> QED BY <2>1, <2>2
<1>7. ASSUME NEW j \in 1..Len(data), NEW k \in 1..Len(data), j < k
      PROVE  data[k][2] - data[j][2] >= k - j
  <2>1. PICK x \in Nat, y \in Nat : x = data[j][2] /\ y = data[k][2]
    BY <1>5
  <2>2. CASE k <= kept
    <3>1. j \in 1..kept /\ k \in 1..kept /\ j \in 1..Len(payload) /\ k \in 1..Len(payload)
      BY <1>4, <1>7, <2>2
    <3> QED BY <1>4, <1>7, <3>1 DEF Ascending
  <2>3. CASE k > kept /\ j > kept
    <3>1. PICK n \in 1..size : k = kept + n /\ y = start + n - 1
      BY <1>6, <2>1, <2>3
    <3>2. PICK n2 \in 1..size : j = kept + n2 /\ x = start + n2 - 1
      BY <1>6, <2>1, <2>3
    <3>3. y - x >= k - j
      BY <3>1, <3>2
    <3> QED BY <2>1, <3>3
  <2>4. CASE k > kept /\ j <= kept
    <3>1. PICK n \in 1..size : k = kept + n /\ y = start + n - 1
      BY <1>6, <2>1, <2>4
    <3>2. /\ kept = Len(payload) /\ kept \in 1..kept /\ j \in 1..kept
          /\ kept \in 1..Len(payload) /\ j \in 1..Len(payload) /\ kept \in 1..Len(data)
      BY <1>4, <2>4
    <3>3. PICK z \in Nat : z = data[kept][2]
      BY <1>5, <3>2
    <3>4. payload[kept] = data[kept] /\ payload[j] = data[j]
      BY <1>4, <3>2
    <3>5. z < start
      BY <1>2, <1>3, <3>2, <3>3, <3>4
    <3>6. j < kept => z - x >= kept - j
      BY <2>1, <3>2, <3>3, <3>4 DEF Ascending
    <3>7. j = kept => z = x
      BY <2>1, <3>3
    <3>8. y - x >= k - j
      BY <2>4, <3>1, <3>5, <3>6, <3>7
    <3> QED BY <2>1, <3>8
  <2> QED BY <1>4, <2>2, <2>3, <2>4
<1>8. ASSUME ~m.marker, NEW k \in 1..Len(data)
      PROVE  data[k][2] + 1 < Bytes[data[k][1]]
  <2>1. CASE k <= kept
    <3>1. k \in 1..kept /\ k \in 1..Len(payload)
      BY <1>4, <2>1
    <3> QED BY <1>4, <3>1 DEF Unfinished
  <2>2. CASE k > kept
    <3>1. PICK n \in 1..size : data[k][1] = f /\ data[k][2] = start + n - 1
      BY <1>6, <2>2
    <3>2. start + n - 1 + 1 < bytes
      BY <1>3, <1>8
    <3> QED BY <1>3, <3>1, <3>2
  <2> QED BY <1>4, <2>1, <2>2
<1> QED BY <1>1, <1>7, <1>8 DEF Ascending, Unfinished

\* A payload that parses, ascends and has the last byte of its small frame is the sample.
LEMMA AscendingIntact ==
  ASSUME NEW data \in Seq(Byte), Parses(data), Ascending(data),
         NEW f \in Frames, f \notin LargeFrames, \A k \in 1..Len(data) : data[k][1] = f,
         data[Len(data)][2] = Bytes[f] - 1
  PROVE  data = ProgramStreamSample(f)
<1>1. PICK n \in Nat, bytes \in Nat : n = Len(data) /\ bytes = Bytes[f]
  BY FrameBytes
<1>2. 1 \in Heads(data) /\ 1 \in 1..n /\ n \in 1..n /\ data[1][2] = 0
  BY <1>1 DEF Parses, Heads
<1>3. bytes <= n
  <2>1. PICK end \in Heads(data) \cup {Len(data) + 1} :
          end \in Nat /\ (data[1][1] \notin LargeFrames => end = 1 + Bytes[data[1][1]])
    BY <1>2, ParsesEnd
  <2>2. end = 1 + bytes
    BY <1>1, <1>2, <2>1
  <2>3. end <= n + 1
    BY <1>1, <2>1 DEF Heads
  <2> QED BY <2>2, <2>3
<1>4. \A k \in 1..n : data[k][2] \in Nat
  BY <1>1 DEF Byte
<1>5. data[n][2] = bytes - 1
  BY <1>1
<1>6. ASSUME NEW k \in 1..n PROVE data[k] = <<f, k - 1>>
  <2>1. PICK x \in Nat : x = data[k][2]
    BY <1>4
  <2>2. 1 < k => x - 0 >= k - 1
    BY <1>1, <1>2, <2>1 DEF Ascending
  <2>3. k < n => (bytes - 1) - x >= n - k
    BY <1>1, <1>2, <1>5, <2>1 DEF Ascending
  <2>4. k = n => x = bytes - 1
    BY <1>5, <2>1
  <2>5. k = 1 => x = 0
    BY <1>2, <2>1
  <2>6. x = k - 1
    BY <1>3, <2>2, <2>3, <2>4, <2>5
  <2>7. data[k] \in Byte /\ data[k][1] = f
    BY <1>1
  <2>8. data[k] = <<data[k][1], data[k][2]>>
    BY <2>7 DEF Byte
  <2> QED BY <2>1, <2>6, <2>7, <2>8
<1>7. n = bytes
  <2>1. data[n][2] = n - 1
    BY <1>2, <1>6
  <2> QED BY <1>2, <1>5, <2>1
<1>8. /\ ProgramStreamSample(f) \in Seq(Byte) /\ Len(ProgramStreamSample(f)) = n
      /\ \A k \in 1..n : ProgramStreamSample(f)[k] = <<f, k - 1>>
  BY <1>1, <1>7, SampleBytes
<1> QED BY <1>1, <1>6, <1>8, SeqEqual

\* The frame of the payload that a packet is added to is the packet's.
LEMMA KeptFrame ==
  ASSUME RtpTypeInv, NEW m \in Packet, IsChunk(m), PacketFrame(m) = m.timestamp + 1,
         \A k \in 1..Len(payload) : payload[k][1] = payloadTime + 1
  PROVE  /\ FrameOf(Collected(m)) = PacketFrame(m)
         /\ Kept(m) # 0 => payload # <<>> /\ FrameOf(payload) = PacketFrame(m)
<1>1. payload # <<>> => 1 \in 1..Len(payload)
  BY DEF RtpTypeInv, RtpTypeOK
<1>2. Kept(m) # 0 => payload # <<>> /\ payloadTime = m.timestamp
  BY CollectedEnds
<1>3. Kept(m) # 0 => FrameOf(payload) = PacketFrame(m)
  BY <1>1, <1>2 DEF FrameOf
<1> QED BY <1>2, <1>3, CollectedEnds

\* A packet received adds later bytes of the frame: a small frame that parses is whole.
LEMMA ReceiveAscends ==
  ASSUME RtpTypeInv, WireInv, TimestampInv, fails = 0, Ascends, SmallFramesIntact, InOrder, ssrc = Ssrc,
         1 \in 1..Len(wire), NEW result \in SinkResults, ReceiveRtpPacket(1, result)
  PROVE  Ascends' /\ SmallFramesIntact'
<1>1. PICK m : m = wire[1]
  OBVIOUS
<1>2. PICK data : data = Collected(m)
  OBVIOUS
<1>3. /\ m \in Packet /\ IsChunk(m)
      /\ wire' = RemoveAt(wire, 1) /\ UNCHANGED senderVars
      /\ payload' = IF m.marker THEN <<>> ELSE data
      /\ \/ m.marker /\ Parses(data) /\ accepted' = Append(accepted, data)
         \/ accepted' = accepted
  BY <1>1, <1>2, ReceiveStep
<1>4. Len(wire) \in Nat /\ Len(wire') = Len(wire) - 1 /\ \A k \in 1..Len(wire') : wire'[k] = wire[k + 1]
  BY <1>3, RemovedStep DEF RtpTypeInv, RtpTypeOK
<1>5. UNCHANGED <<frame, offset, network, fails>>
  BY <1>3 DEF senderVars
<1>6. /\ PacketFrame(m) = m.timestamp + 1 /\ \A n \in 1..Len(payload) : payload[n][1] = payloadTime + 1
      /\ PacketFrame(m) \in Frames /\ End(m) \in Nat
  BY <1>1, WireTyped DEF TimestampInv, WireFacts
<1>7. /\ data \in Seq(Byte) /\ data # <<>> /\ data[Len(data)] = <<PacketFrame(m), End(m) - 1>>
      /\ FrameOf(data) = PacketFrame(m)
      /\ \A k \in 1..Len(data) : data[k][1] = PacketFrame(m)
      /\ Kept(m) # 0 => payload # <<>> /\ FrameOf(payload) = PacketFrame(m)
  BY <1>2, <1>3, <1>6, CollectedFacts, CollectedEnds, CollectedFrame, KeptFrame
<1>8. /\ Ascending(payload) /\ Unfinished(payload)
      /\ Kept(m) # 0 => payload[Len(payload)][2] < Start(m)
  BY <1>1, <1>7 DEF Ascends
<1>9. Ascending(data) /\ (~m.marker => Unfinished(data))
  BY <1>2, <1>3, <1>8, CollectedAscending
<1>10. Ascending(payload') /\ Unfinished(payload')
  <2>1. CASE m.marker
    <3>1. payload' = <<>> /\ 1..Len(payload') = {}
      BY <1>3, <2>1
    <3> QED BY <3>1 DEF Ascending, Unfinished
  <2>2. CASE ~m.marker
    BY <1>3, <1>9, <2>2
  <2> QED BY <2>1, <2>2
<1>11. /\ \A k, l \in 1..Len(wire') : k < l /\ PacketFrame(wire'[k]) = PacketFrame(wire'[l]) =>
            End(wire'[k]) <= Start(wire'[l])
       /\ \A k \in 1..Len(wire') : PacketFrame(wire'[k]) = frame' => End(wire'[k]) <= offset'
  <2>1. /\ \A k \in 1..Len(wire') : \E j \in 1..Len(wire) : wire'[k] = wire[j]
        /\ \A k, l \in 1..Len(wire') : k < l =>
             \E j, n \in 1..Len(wire) : j < n /\ wire'[k] = wire[j] /\ wire'[l] = wire[n]
    BY <1>3, RemovedPairs
  <2>2. ASSUME NEW k \in 1..Len(wire'), NEW l \in 1..Len(wire'), k < l,
               PacketFrame(wire'[k]) = PacketFrame(wire'[l])
        PROVE  End(wire'[k]) <= Start(wire'[l])
    <3>1. PICK j \in 1..Len(wire), n \in 1..Len(wire) : j < n /\ wire'[k] = wire[j] /\ wire'[l] = wire[n]
      BY <2>1, <2>2
    <3> QED BY <2>2, <3>1 DEF Ascends
  <2> QED BY <1>5, <2>1, <2>2 DEF Ascends
<1>12. payload' # <<>> =>
         /\ \A k \in 1..Len(wire') : PacketFrame(wire'[k]) = FrameOf(payload)' =>
              payload'[Len(payload')][2] < Start(wire'[k])
         /\ FrameOf(payload)' = frame' => payload'[Len(payload')][2] < offset'
  <2> SUFFICES ASSUME ~m.marker
               PROVE  /\ \A k \in 1..Len(wire') : PacketFrame(wire'[k]) = PacketFrame(m) => End(m) - 1 < Start(wire'[k])
                      /\ PacketFrame(m) = frame => End(m) - 1 < offset
    BY <1>3, <1>5, <1>7 DEF FrameOf
  <2>1. ASSUME NEW k \in 1..Len(wire'), PacketFrame(wire'[k]) = PacketFrame(m)
        PROVE  End(m) - 1 < Start(wire'[k])
    <3>1. wire'[k] = wire[k + 1] /\ k + 1 \in 1..Len(wire) /\ 1 < k + 1
      BY <1>4
    <3>2. End(m) <= Start(wire[k + 1]) /\ Start(wire[k + 1]) \in Nat
      BY <1>1, <2>1, <3>1, WireTyped DEF Ascends, WireFacts
    <3> QED BY <1>6, <3>1, <3>2
  <2>2. PacketFrame(m) = frame => End(m) - 1 < offset
    <3>1. PacketFrame(m) = frame => End(m) <= offset
      BY <1>1 DEF Ascends
    <3>2. offset \in Nat
      BY DEF RtpTypeInv
    <3> QED BY <1>6, <3>1, <3>2
  <2> QED BY <2>1, <2>2
<1>13. SmallFramesIntact'
  <2>1. CASE accepted' = accepted
    BY <1>5, <2>1 DEF SmallFramesIntact, InOrder, FrameOf, Intact
  <2>2. CASE m.marker /\ Parses(data) /\ accepted' = Append(accepted, data)
    <3>1. /\ Len(accepted) \in Nat /\ Len(accepted') = Len(accepted) + 1
          /\ \A a \in 1..Len(accepted) : accepted'[a] = accepted[a]
          /\ accepted'[Len(accepted) + 1] = data
      BY <1>7, <2>2, AcceptedStep
    <3>2. \A a \in 1..Len(accepted') : a \in 1..Len(accepted) \/ a = Len(accepted) + 1
      BY <3>1
    <3>3. data[Len(data)][2] = Bytes[PacketFrame(m)] - 1
      BY <1>3, <1>7, <2>2 DEF IsChunk
    <3>4. FrameOf(data) \notin LargeFrames => data = ProgramStreamSample(FrameOf(data))
      BY <1>6, <1>7, <1>9, <2>2, <3>3, AscendingIntact
    <3> SUFFICES ASSUME NEW a \in 1..Len(accepted'), FrameOf(accepted'[a]) \notin LargeFrames
                 PROVE  accepted'[a] = ProgramStreamSample(FrameOf(accepted'[a]))
      BY DEF SmallFramesIntact, Intact, FrameOf
    <3>5. CASE a \in 1..Len(accepted)
      BY <3>1, <3>5 DEF SmallFramesIntact, Intact
    <3>6. CASE a = Len(accepted) + 1
      BY <3>1, <3>4, <3>6
    <3> QED BY <3>2, <3>5, <3>6
  <2> QED BY <1>3, <2>1, <2>2
<1> QED BY <1>10, <1>11, <1>12, <1>13
        DEF Ascends, Ascending, Unfinished, PacketFrame, Start, End, FrameOf

\* Initially there is nothing to compare.
LEMMA AscendInit == RtpInit => AscendInv
<1> SUFFICES ASSUME RtpInit PROVE AscendInv
  OBVIOUS
<1>1. wire = <<>> /\ accepted = <<>> /\ payload = <<>>
  BY DEF RtpInit
<1>2. 1..Len(wire) = {} /\ 1..Len(accepted) = {} /\ 1..Len(payload) = {}
  BY <1>1
<1> QED BY <1>1, <1>2 DEF AscendInv, Ascends, Ascending, Unfinished, SmallFramesIntact

\* Every step keeps the bytes of a frame ascending.
LEMMA AscendStep ==
  ASSUME RtpTypeInv, WireInv, OrderInv, TimestampInv, AscendInv, [RtpNext]_rtpVars
  PROVE  AscendInv'
<1> SUFFICES ASSUME InOrder'
             PROVE  Ascends' /\ SmallFramesIntact'
  BY DEF AscendInv
<1>1. fails \in Nat
  BY DEF RtpTypeInv
<1>2. UNCHANGED <<network, fails>> => /\ InOrder /\ fails = 0 /\ Ascends /\ SmallFramesIntact
                                      /\ (payload # <<>> => FrameOf(payload) <= frame)
  BY DEF InOrder, AscendInv, OrderInv, PayloadBehind
<1>3. CASE SendPacket
  <2>1. UNCHANGED <<network, fails, accepted>>
    BY <1>3, SendPacketStep
  <2> QED BY <1>2, <1>3, <2>1, SendPacketAscends DEF SmallFramesIntact, Intact, FrameOf, InOrder
<1>4. ASSUME NEW taken \in BOOLEAN, SendFails(taken) PROVE FALSE
  BY <1>1, <1>4, SendFailsStep DEF InOrder
<1>5. ASSUME NEW i \in 1..Len(wire), Lose(i) PROVE Ascends' /\ SmallFramesIntact'
  <2>1. wire' = RemoveAt(wire, i) /\ UNCHANGED <<frame, offset, network, fails, payload, accepted>>
    BY <1>5 DEF Lose, senderVars, receiverVars
  <2> QED BY <1>2, <2>1, RemovedAscends DEF SmallFramesIntact, Intact, FrameOf, InOrder
<1>6. ASSUME NEW i \in 1..Len(wire), NEW result \in SinkResults, ReceiveRtpPacket(i, result),
             ~network.overtakes => i = 1
      PROVE  Ascends' /\ SmallFramesIntact'
  <2>1. /\ wire' = RemoveAt(wire, i) /\ UNCHANGED <<frame, offset, network, fails, ssrc>>
        /\ ssrc # Ssrc => UNCHANGED <<payload, accepted>>
    BY <1>6, ReceiveStep DEF senderVars, receiverVars
  <2>2. i = 1
    BY <1>2, <1>6, <2>1 DEF InOrder
  <2>3. CASE ssrc # Ssrc
    BY <1>2, <2>1, <2>3, RemovedAscends DEF SmallFramesIntact, Intact, FrameOf, InOrder
  <2>4. CASE ssrc = Ssrc
    BY <1>2, <1>6, <2>1, <2>2, <2>4, ReceiveAscends
  <2> QED BY <2>3, <2>4
<1>7. CASE UNCHANGED rtpVars
  BY <1>2, <1>7 DEF rtpVars, Ascends, Ascending, Unfinished, SmallFramesIntact, Intact, InOrder,
                    PacketFrame, Start, End, FrameOf
<1> QED BY <1>3, <1>4, <1>5, <1>6, <1>7, ReceiveFirst DEF RtpNext

\* While packets come in order, if they come, and the sender never starts again, a frame
\* with a PES length reaches the sink as it was built or not at all.
THEOREM SmallFramesSafety == RtpSpec => []SmallFramesIntact
<1> DEFINE IInv == RtpTypeInv /\ WireInv /\ OrderInv /\ TimestampInv /\ AscendInv
<1>1. RtpInit => IInv
  BY RtpTypeInit, RtpOrderInit, TimestampInit, AscendInit
<1>2. IInv /\ [RtpNext]_rtpVars => IInv'
  BY RtpTypeStep, WireStep, OrderStep, TimestampStep, AscendStep
<1>3. IInv => SmallFramesIntact
  BY DEF AscendInv, SmallFramesIntact
<1> QED BY <1>1, <1>2, <1>3, PTL DEF RtpSpec
-----------------------------------------------------------------------------
(* Gaps                                                                     *)

\* Nothing is lost between a packet and the next that is built.
LEMMA ApartNow ==
  ASSUME NEW number \in 0..SequenceMod - 1, NEW end \in Nat
  PROVE  Apart(number, end, (number + 1) % SequenceMod, end)
<1>1. PICK M \in Nat, P \in Nat : M = SequenceMod /\ P = PayloadBytes
  BY FrameBytes
<1>2. (number + 1) % M = IF number + 1 = M THEN 0 ELSE number + 1
  BY <1>1, NextSequence
<1>3. end = end + 0 * P /\ 0 * M = 0 /\ 1 * M = M
  BY <1>1
<1>4. CASE number + 1 = M
  <2>1. number + 1 + 0 = ((number + 1) % M) + 1 * M
    BY <1>1, <1>2, <1>3, <1>4
  <2> QED BY <1>1, <1>3, <2>1 DEF Apart
<1>5. CASE number + 1 # M
  <2>1. number + 1 + 0 = ((number + 1) % M) + 0 * M
    BY <1>1, <1>2, <1>3, <1>5
  <2> QED BY <1>1, <1>3, <2>1 DEF Apart
<1> QED BY <1>4, <1>5

\* One more packet built is one more in the gap.
LEMMA ApartNext ==
  ASSUME NEW number \in Nat, NEW end \in Nat, NEW later \in 0..SequenceMod - 1, NEW start \in Nat,
         Apart(number, end, later, start)
  PROVE  Apart(number, end, (later + 1) % SequenceMod, start + PayloadBytes)
<1>1. PICK M \in Nat, P \in Nat : M = SequenceMod /\ P = PayloadBytes
  BY FrameBytes
<1>2. PICK n \in Nat, wraps \in Nat : start = end + n * P /\ number + 1 + n = later + wraps * M
  BY <1>1 DEF Apart
<1>3. (later + 1) % M = IF later + 1 = M THEN 0 ELSE later + 1
  BY <1>1, NextSequence
<1>4. start + P = end + (n + 1) * P
  <2>1. (n + 1) * P = n * P + P /\ n * P \in Nat
    OBVIOUS
  <2> QED BY <1>2, <2>1
<1>5. (wraps + 1) * M = wraps * M + M /\ wraps * M \in Nat
  OBVIOUS
<1>6. n + 1 \in Nat /\ wraps + 1 \in Nat
  OBVIOUS
<1>7. CASE later + 1 = M
  <2>1. number + 1 + (n + 1) = ((later + 1) % M) + (wraps + 1) * M
    BY <1>2, <1>3, <1>5, <1>7
  <2> QED BY <1>1, <1>4, <1>6, <2>1 DEF Apart
<1>8. CASE later + 1 # M
  <2>1. number + 1 + (n + 1) = ((later + 1) % M) + wraps * M
    BY <1>1, <1>2, <1>3, <1>5, <1>8
  <2> QED BY <1>1, <1>4, <1>6, <2>1 DEF Apart
<1> QED BY <1>7, <1>8

\* Consecutive sequence numbers leave no gap, in a frame that has no more packets than
\* there are numbers.
LEMMA NotApart ==
  ASSUME NEW number \in 0..SequenceMod - 1, NEW end \in Nat, NEW start \in Nat,
         start < PayloadBytes * SequenceMod,
         Apart(number, end, (number + 1) % SequenceMod, start)
  PROVE  start = end
<1>1. PICK M \in Nat, P \in Nat : M = SequenceMod /\ P = PayloadBytes /\ P > 1 /\ M > 0
  BY FrameBytes
<1>2. PICK n \in Nat, wraps \in Nat : start = end + n * P /\ number + 1 + n = ((number + 1) % M) + wraps * M
  BY <1>1 DEF Apart
<1>3. (number + 1) % M = IF number + 1 = M THEN 0 ELSE number + 1
  BY <1>1, NextSequence
<1>4. n < M
  <2> SUFFICES ASSUME n >= M PROVE FALSE
    OBVIOUS
  <2>1. n * P >= M * P /\ M * P = P * M
    BY <1>1
  <2>2. n * P \in Nat /\ P * M \in Nat
    OBVIOUS
  <2> QED BY <1>1, <1>2, <2>1, <2>2
<1>5. PICK turns \in Int : n = turns * M
  <2>1. CASE number + 1 = M
    <3>1. n = (wraps - 1) * M
      <4>1. (wraps - 1) * M = wraps * M - M /\ wraps * M \in Int
        OBVIOUS
      <4> QED BY <1>2, <1>3, <2>1, <4>1
    <3> QED BY <3>1
  <2>2. CASE number + 1 # M
    <3>1. n = wraps * M
      <4>1. wraps * M \in Int
        OBVIOUS
      <4> QED BY <1>1, <1>2, <1>3, <2>2, <4>1
    <3> QED BY <3>1
  <2> QED BY <2>1, <2>2
<1>6. n = 0
  <2>1. turns <= 0 => turns * M <= 0
    BY <1>1
  <2>2. turns >= 1 => turns * M >= M
    BY <1>1
  <2> QED BY <1>4, <1>5, <2>1, <2>2
<1> QED BY <1>2, <1>6

\* The packet sent tells the gap to every packet of its frame before it.
LEMMA SendPacketGaps ==
  ASSUME RtpTypeInv, WireInv, Gaps, payload # <<>> => FrameOf(payload) <= frame, SendPacket
  PROVE  Gaps'
<1>1. /\ frame \in Frames
      /\ Len(wire') = Len(wire) + 1
      /\ \A k \in 1..Len(wire) : wire'[k] = wire[k]
      /\ wire'[Len(wire) + 1] = NextPacket
      /\ sequence' = (sequence + 1) % SequenceMod
      /\ IF Marker THEN frame' = frame + 1 /\ offset' = 0 ELSE frame' = frame /\ offset' = ChunkEnd
      /\ UNCHANGED <<payload, last>>
  BY SendPacketStep
<1>2. /\ PacketFrame(NextPacket) = frame /\ Start(NextPacket) = offset /\ End(NextPacket) = ChunkEnd
      /\ NextPacket.sequence = sequence
  BY <1>1, NextPacketChunk
<1>3. /\ frame \in Nat /\ offset \in Nat /\ ChunkEnd \in Nat /\ (~Marker => ChunkEnd = offset + PayloadBytes)
      /\ Len(wire) \in Nat /\ sequence \in 0..SequenceMod - 1 /\ last \in 0..SequenceMod
  BY <1>1, FrameBytes, ChunkFacts DEF RtpTypeInv, RtpTypeOK
<1>4. \A i \in 1..Len(wire') : i \in 1..Len(wire) \/ i = Len(wire) + 1
  BY <1>1, <1>3
<1>5. \A i \in 1..Len(wire) : /\ PacketFrame(wire[i]) \in Nat /\ PacketFrame(wire[i]) <= frame
                              /\ End(wire[i]) \in Nat /\ wire[i].sequence \in 0..SequenceMod - 1
  BY WireTyped DEF WireFacts, WireInv
<1>6. ASSUME NEW i \in 1..Len(wire'), NEW j \in 1..Len(wire'), i < j,
             PacketFrame(wire'[i]) = PacketFrame(wire'[j])
      PROVE  Apart(wire'[i].sequence, End(wire'[i]), wire'[j].sequence, Start(wire'[j]))
  <2>1. i \in 1..Len(wire) /\ wire'[i] = wire[i]
    BY <1>1, <1>3, <1>6
  <2>2. CASE j \in 1..Len(wire)
    BY <1>1, <1>6, <2>1, <2>2 DEF Gaps
  <2>3. CASE j = Len(wire) + 1
    <3>1. wire'[j] = NextPacket
      BY <1>1, <2>3
    <3> QED BY <1>2, <1>6, <2>1, <3>1 DEF Gaps
  <2> QED BY <1>4, <2>2, <2>3
<1>7. ASSUME NEW i \in 1..Len(wire'), PacketFrame(wire'[i]) = frame'
      PROVE  Apart(wire'[i].sequence, End(wire'[i]), sequence', offset')
  <2>1. CASE i \in 1..Len(wire)
    <3>1. wire'[i] = wire[i] /\ PacketFrame(wire[i]) \in Nat /\ PacketFrame(wire[i]) <= frame
          /\ End(wire[i]) \in Nat /\ wire[i].sequence \in 0..SequenceMod - 1
      BY <1>1, <1>5, <2>1
    <3>2. ~Marker
      BY <1>1, <1>3, <1>7, <3>1
    <3>3. Apart(wire[i].sequence, End(wire[i]), sequence, offset)
      BY <1>1, <1>7, <2>1, <3>1, <3>2 DEF Gaps
    <3>4. wire[i].sequence \in Nat
      BY <3>1, FrameBytes
    <3>5. Apart(wire[i].sequence, End(wire[i]), (sequence + 1) % SequenceMod, offset + PayloadBytes)
      BY <1>3, <3>1, <3>3, <3>4, ApartNext
    <3> QED BY <1>1, <1>3, <3>1, <3>2, <3>5
  <2>2. CASE i = Len(wire) + 1
    <3>1. wire'[i] = NextPacket
      BY <1>1, <2>2
    <3>2. ~Marker
      <4>1. frame' = frame
        BY <1>2, <1>7, <3>1
      <4> QED BY <1>1, <1>3, <4>1
    <3>3. Apart(sequence, ChunkEnd, (sequence + 1) % SequenceMod, ChunkEnd)
      BY <1>3, ApartNow
    <3> QED BY <1>1, <1>2, <3>1, <3>2, <3>3
  <2> QED BY <1>4, <2>1, <2>2
<1>8. ASSUME payload # <<>>
      PROVE  /\ last # NoSequence
             /\ \A i \in 1..Len(wire') : PacketFrame(wire'[i]) = FrameOf(payload) =>
                  Apart(last, payload[Len(payload)][2] + 1, wire'[i].sequence, Start(wire'[i]))
             /\ FrameOf(payload) = frame' => Apart(last, payload[Len(payload)][2] + 1, sequence', offset')
  <2>1. FrameOf(payload) \in Nat /\ FrameOf(payload) <= frame
    BY <1>8, PayloadFrame
  <2>2. PICK end \in Nat : end = payload[Len(payload)][2] + 1
    <3>1. payload[Len(payload)] \in Byte
      BY <1>8 DEF RtpTypeInv, RtpTypeOK
    <3>2. payload[Len(payload)][2] \in Nat
      BY <3>1 DEF Byte
    <3> QED BY <3>2
  <2>3. ASSUME NEW i \in 1..Len(wire'), PacketFrame(wire'[i]) = FrameOf(payload)
        PROVE  Apart(last, end, wire'[i].sequence, Start(wire'[i]))
    <3>1. CASE i \in 1..Len(wire)
      BY <1>1, <1>8, <2>2, <2>3, <3>1 DEF Gaps
    <3>2. CASE i = Len(wire) + 1
      <4>1. wire'[i] = NextPacket
        BY <1>1, <3>2
      <4> QED BY <1>2, <1>8, <2>2, <2>3, <4>1 DEF Gaps
    <3> QED BY <1>4, <3>1, <3>2
  <2>4. ASSUME FrameOf(payload) = frame' PROVE Apart(last, end, sequence', offset')
    <3>1. ~Marker
      BY <1>1, <1>3, <2>1, <2>4
    <3>2. Apart(last, end, sequence, offset)
      BY <1>1, <1>8, <2>2, <2>4, <3>1 DEF Gaps
    <3>3. last \in Nat
      BY <1>3, FrameBytes
    <3>4. Apart(last, end, (sequence + 1) % SequenceMod, offset + PayloadBytes)
      BY <1>3, <3>2, <3>3, ApartNext
    <3> QED BY <1>1, <1>3, <3>1, <3>4
  <2>5. last # NoSequence
    BY <1>8 DEF Gaps
  <2> QED BY <2>2, <2>3, <2>4, <2>5
<1> QED BY <1>1, <1>6, <1>7, <1>8 DEF Gaps, PacketFrame, Start, End, FrameOf

\* A packet less leaves the numbers of the others.
LEMMA RemovedGaps ==
  ASSUME RtpTypeInv, Gaps, NEW i \in 1..Len(wire), wire' = RemoveAt(wire, i),
         UNCHANGED <<frame, offset, sequence, payload>>, payload = <<>> \/ last' = last
  PROVE  Gaps'
<1>1. /\ \A k \in 1..Len(wire') : \E j \in 1..Len(wire) : wire'[k] = wire[j]
      /\ \A k, l \in 1..Len(wire') : k < l =>
           \E j, n \in 1..Len(wire) : j < n /\ wire'[k] = wire[j] /\ wire'[l] = wire[n]
  BY RemovedPairs
<1>2. ASSUME NEW k \in 1..Len(wire'), NEW l \in 1..Len(wire'), k < l,
             PacketFrame(wire'[k]) = PacketFrame(wire'[l])
      PROVE  Apart(wire'[k].sequence, End(wire'[k]), wire'[l].sequence, Start(wire'[l]))
  <2>1. PICK j \in 1..Len(wire), n \in 1..Len(wire) : j < n /\ wire'[k] = wire[j] /\ wire'[l] = wire[n]
    BY <1>1, <1>2
  <2> QED BY <1>2, <2>1 DEF Gaps
<1>3. \A k \in 1..Len(wire') : PacketFrame(wire'[k]) = frame =>
        Apart(wire'[k].sequence, End(wire'[k]), sequence, offset)
  BY <1>1 DEF Gaps
<1>4. payload # <<>> =>
        /\ last # NoSequence
        /\ \A k \in 1..Len(wire') : PacketFrame(wire'[k]) = FrameOf(payload) =>
             Apart(last, payload[Len(payload)][2] + 1, wire'[k].sequence, Start(wire'[k]))
        /\ FrameOf(payload) = frame => Apart(last, payload[Len(payload)][2] + 1, sequence, offset)
  <2> SUFFICES ASSUME payload # <<>>
               PROVE  /\ last # NoSequence
                      /\ \A k \in 1..Len(wire') : PacketFrame(wire'[k]) = FrameOf(payload) =>
                           Apart(last, payload[Len(payload)][2] + 1, wire'[k].sequence, Start(wire'[k]))
                      /\ FrameOf(payload) = frame => Apart(last, payload[Len(payload)][2] + 1, sequence, offset)
    OBVIOUS
  <2>1. PICK end : end = payload[Len(payload)][2] + 1
    OBVIOUS
  <2>2. /\ last # NoSequence
        /\ \A j \in 1..Len(wire) : PacketFrame(wire[j]) = FrameOf(payload) =>
             Apart(last, end, wire[j].sequence, Start(wire[j]))
        /\ FrameOf(payload) = frame => Apart(last, end, sequence, offset)
    BY <2>1 DEF Gaps
  <2>3. ASSUME NEW k \in 1..Len(wire'), PacketFrame(wire'[k]) = FrameOf(payload)
        PROVE  Apart(last, end, wire'[k].sequence, Start(wire'[k]))
    <3>1. PICK j \in 1..Len(wire) : wire'[k] = wire[j]
      BY <1>1
    <3> QED BY <2>2, <2>3, <3>1
  <2> QED BY <2>1, <2>2, <2>3, Zenon
<1> QED BY <1>2, <1>3, <1>4 DEF Gaps, PacketFrame, Start, End, FrameOf

\* What is collected without a gap being counted is contiguous.
LEMMA CollectedContiguous ==
  ASSUME RtpTypeInv, NEW m \in Packet, IsChunk(m), GapsCounted, ~outOfOrder,
         FrameOf(Collected(m)) = PacketFrame(m), Collected(m)[1][2] = 0,
         Bytes[PacketFrame(m)] <= PayloadBytes * SequenceMod,
         Kept(m) # 0 =>
           /\ payload # <<>> /\ FrameOf(payload) = PacketFrame(m)
           /\ last \in 0..SequenceMod - 1 /\ m.sequence = (last + 1) % SequenceMod
           /\ Apart(last, payload[Len(payload)][2] + 1, m.sequence, Start(m))
  PROVE  Contiguous(Collected(m))
<1>1. PICK data : data = Collected(m)
  OBVIOUS
<1>2. PICK kept \in Nat : kept = Kept(m)
  BY CollectedFacts
<1>3. PICK f \in Frames, start \in Nat, size \in Nat :
        /\ f = PacketFrame(m) /\ start = Start(m) /\ size = Len(m.data) /\ size > 0
        /\ start < PayloadBytes * SequenceMod
  <2>1. /\ PacketFrame(m) \in Frames /\ Start(m) \in Nat /\ Len(m.data) \in Nat /\ Len(m.data) > 0
        /\ End(m) = Start(m) + Len(m.data)
    BY PacketType DEF IsChunk
  <2>2. Bytes[PacketFrame(m)] \in Nat /\ End(m) <= Bytes[PacketFrame(m)]
    BY <2>1, FrameBytes DEF IsChunk
  <2>3. PICK room \in Nat : room = PayloadBytes * SequenceMod
    BY FrameBytes
  <2>4. Start(m) < room
    BY <2>1, <2>2, <2>3
  <2> QED BY <2>1, <2>3, <2>4
<1>4. /\ data \in Seq(Byte) /\ Len(data) = kept + size /\ (kept = 0 \/ kept = Len(payload))
      /\ \A k \in 1..kept : data[k] = payload[k]
      /\ \A n \in 1..size : data[kept + n] = <<f, start + n - 1>>
  BY <1>1, <1>2, <1>3, CollectedFacts
<1>5. start = kept /\ \A k \in 1..kept : data[k] = <<f, k - 1>>
  <2>1. CASE kept = 0
    <3>1. 1 \in 1..size /\ data[kept + 1] = <<f, start + 1 - 1>>
      BY <1>3, <1>4
    <3>2. data[1][2] = start + 1 - 1
      BY <2>1, <3>1
    <3>3. start = 0
      BY <1>1, <1>3, <3>2
    <3> QED BY <2>1, <3>3
  <2>2. CASE kept # 0
    <3>1. /\ payload # <<>> /\ FrameOf(payload) = f /\ kept = Len(payload)
          /\ last \in 0..SequenceMod - 1 /\ m.sequence = (last + 1) % SequenceMod
          /\ Apart(last, payload[kept][2] + 1, m.sequence, start)
      BY <1>2, <1>3, <1>4, <2>2
    <3>2. 1 \in 1..kept /\ kept \in 1..kept
      BY <2>2
    <3>3. payload[1][2] = 0
      BY <1>1, <1>4, <3>2
    <3>4. \A k \in 1..kept : payload[k] = <<f, k - 1>>
      BY <3>1, <3>3 DEF GapsCounted, Contiguous
    <3>5. payload[kept][2] = kept - 1
      BY <3>2, <3>4
    <3>6. payload[kept][2] + 1 = kept
      BY <3>5
    <3>7. start = kept
      BY <1>3, <3>1, <3>6, NotApart
    <3> QED BY <1>4, <3>4, <3>7
  <2> QED BY <2>1, <2>2
<1>6. ASSUME NEW k \in 1..Len(data) PROVE data[k] = <<f, k - 1>>
  <2>1. CASE k <= kept
    BY <1>5, <2>1
  <2>2. CASE k > kept
    <3>1. k - kept \in 1..size /\ k = kept + (k - kept) /\ start + (k - kept) - 1 = k - 1
      BY <1>4, <1>5, <2>2
    <3> QED BY <1>4, <3>1
  <2> QED BY <1>4, <2>1, <2>2
<1> QED BY <1>1, <1>3, <1>6 DEF Contiguous

\* What is contiguous up to the last byte of its frame is the sample.
LEMMA ContiguousIntact ==
  ASSUME NEW data \in Seq(Byte), data # <<>>, Contiguous(data), FrameOf(data) \in Frames,
         data[Len(data)][2] = Bytes[FrameOf(data)] - 1
  PROVE  Intact(data)
<1>1. PICK f \in Frames : f = FrameOf(data)
  OBVIOUS
<1>2. PICK n \in Nat, bytes \in Nat : n = Len(data) /\ bytes = Bytes[f]
  BY FrameBytes
<1>3. n \in 1..n /\ \A k \in 1..n : data[k] = <<f, k - 1>>
  BY <1>1, <1>2 DEF Contiguous
<1>4. data[n][2] = n - 1
  BY <1>3
<1>5. n = bytes
  BY <1>1, <1>2, <1>4
<1>6. PICK sample \in Seq(Byte) :
        /\ sample = ProgramStreamSample(f) /\ Len(sample) = n
        /\ \A k \in 1..n : sample[k] = <<f, k - 1>>
  BY <1>2, <1>5, SampleBytes
<1>7. Len(data) = Len(sample) /\ \A k \in 1..Len(data) : data[k] = sample[k]
  BY <1>2, <1>3, <1>6
<1>8. data = sample
  BY <1>7, SeqEqual
<1> QED BY <1>1, <1>6, <1>8 DEF Intact

\* No frame has more packets than there are sequence numbers.
FramesFitSequence == \A f \in Frames : Bytes[f] <= PayloadBytes * SequenceMod

\* A packet received right after the last one leaves no gap in the payload, and one
\* after a gap is noticed: a frame with a hole is accepted only where it is counted.
LEMMA ReceiveGaps ==
  ASSUME FramesFitSequence, RtpTypeInv, WireInv, TimestampInv, fails = 0, Gaps, GapsCounted,
         DamageCounted, InOrder, ssrc = Ssrc,
         1 \in 1..Len(wire), NEW result \in SinkResults, ReceiveRtpPacket(1, result)
  PROVE  Gaps' /\ GapsCounted' /\ DamageCounted'
<1>1. PICK m : m = wire[1]
  OBVIOUS
<1>2. PICK data : data = Collected(m)
  OBVIOUS
<1>3. /\ m \in Packet /\ IsChunk(m)
      /\ wire' = RemoveAt(wire, 1) /\ UNCHANGED senderVars
      /\ last' = m.sequence
      /\ outOfOrder' = (outOfOrder \/ (last # NoSequence /\ m.sequence # (last + 1) % SequenceMod))
      /\ payload' = IF m.marker THEN <<>> ELSE data
      /\ \/ m.marker /\ Parses(data) /\ accepted' = Append(accepted, data)
         \/ accepted' = accepted
  BY <1>1, <1>2, ReceiveStep
<1>4. Len(wire) \in Nat /\ Len(wire') = Len(wire) - 1 /\ \A k \in 1..Len(wire') : wire'[k] = wire[k + 1]
  <2>1. wire' = RemoveAt(wire, 1)
    BY <1>3
  <2>2. wire \in Seq(Packet)
    BY DEF RtpTypeInv, RtpTypeOK
  <2> QED BY <2>1, <2>2, RemovedStep
<1>5. UNCHANGED <<frame, offset, sequence, network, fails>>
  BY <1>3 DEF senderVars
<1>6. /\ PacketFrame(m) = m.timestamp + 1 /\ \A n \in 1..Len(payload) : payload[n][1] = payloadTime + 1
      /\ PacketFrame(m) \in Frames /\ End(m) \in Nat /\ m.sequence \in 0..SequenceMod - 1
  BY <1>1, WireTyped DEF TimestampInv, WireFacts
<1>7. /\ data \in Seq(Byte) /\ data # <<>> /\ data[Len(data)] = <<PacketFrame(m), End(m) - 1>>
      /\ FrameOf(data) = PacketFrame(m)
      /\ Kept(m) # 0 => payload # <<>> /\ FrameOf(payload) = PacketFrame(m)
  BY <1>2, <1>3, <1>6, CollectedFacts, CollectedEnds, KeptFrame
<1>8. Kept(m) # 0 => last # NoSequence /\ Apart(last, payload[Len(payload)][2] + 1, m.sequence, Start(m))
  BY <1>1, <1>7 DEF Gaps
<1>9. ASSUME data[1][2] = 0, ~outOfOrder' PROVE Contiguous(data)
  <2>1. ~outOfOrder
    BY <1>3, <1>9
  <2>2. last # NoSequence => m.sequence = (last + 1) % SequenceMod
    BY <1>3, <1>9
  <2>3. last # NoSequence => last \in 0..SequenceMod - 1
    <3>1. last \in 0..SequenceMod
      BY DEF RtpTypeInv, RtpTypeOK
    <3> QED BY <3>1, FrameBytes DEF NoSequence
  <2>4. Bytes[PacketFrame(m)] <= PayloadBytes * SequenceMod
    BY <1>6 DEF FramesFitSequence
  <2> QED BY <1>2, <1>3, <1>7, <1>8, <1>9, <2>1, <2>2, <2>3, <2>4, CollectedContiguous
<1>10. GapsCounted'
  <2>1. m.marker => payload' = <<>>
    BY <1>3
  <2>2. ~m.marker => payload' = data
    BY <1>3
  <2> QED BY <1>9, <2>1, <2>2 DEF GapsCounted, Contiguous, FrameOf
<1>11. \A k \in 1..Len(wire') : wire'[k] = wire[k + 1] /\ k + 1 \in 1..Len(wire) /\ 1 < k + 1
  BY <1>4
<1>12. /\ \A k, l \in 1..Len(wire') : k < l /\ PacketFrame(wire'[k]) = PacketFrame(wire'[l]) =>
            Apart(wire'[k].sequence, End(wire'[k]), wire'[l].sequence, Start(wire'[l]))
       /\ \A k \in 1..Len(wire') : PacketFrame(wire'[k]) = frame' =>
            Apart(wire'[k].sequence, End(wire'[k]), sequence', offset')
  <2>1. ASSUME NEW k \in 1..Len(wire'), NEW l \in 1..Len(wire'), k < l,
               PacketFrame(wire'[k]) = PacketFrame(wire'[l])
        PROVE  Apart(wire'[k].sequence, End(wire'[k]), wire'[l].sequence, Start(wire'[l]))
    <3>1. k + 1 < l + 1
      BY <2>1
    <3> QED BY <1>11, <2>1, <3>1 DEF Gaps
  <2> QED BY <1>5, <1>11, <2>1 DEF Gaps
<1>13. payload' # <<>> =>
         /\ last' # NoSequence
         /\ \A k \in 1..Len(wire') : PacketFrame(wire'[k]) = FrameOf(payload)' =>
              Apart(last', payload'[Len(payload')][2] + 1, wire'[k].sequence, Start(wire'[k]))
         /\ FrameOf(payload)' = frame' => Apart(last', payload'[Len(payload')][2] + 1, sequence', offset')
  <2>1. End(m) - 1 + 1 = End(m)
    BY <1>6
  <2>2. data[Len(data)][2] + 1 = End(m)
    BY <1>7, <2>1
  <2>3. m.sequence # NoSequence
    BY <1>6, FrameBytes DEF NoSequence
  <2>4. ASSUME NEW k \in 1..Len(wire'), PacketFrame(wire'[k]) = PacketFrame(m)
        PROVE  Apart(m.sequence, End(m), wire'[k].sequence, Start(wire'[k]))
    BY <1>1, <1>11, <2>4 DEF Gaps
  <2>5. PacketFrame(m) = frame => Apart(m.sequence, End(m), sequence, offset)
    BY <1>1 DEF Gaps
  <2>6. CASE m.marker
    BY <1>3, <2>6
  <2>7. CASE ~m.marker
    <3>1. payload' = data /\ FrameOf(payload)' = PacketFrame(m)
      BY <1>3, <1>7, <2>7 DEF FrameOf
    <3> QED BY <1>3, <1>5, <2>2, <2>3, <2>4, <2>5, <3>1
  <2> QED BY <2>6, <2>7
<1>14. DamageCounted'
  <2>1. outOfOrder => outOfOrder'
    BY <1>3
  <2>2. CASE accepted' = accepted
    BY <1>5, <2>1, <2>2 DEF DamageCounted, InOrder, FrameOf, Intact
  <2>3. CASE m.marker /\ Parses(data) /\ accepted' = Append(accepted, data)
    <3>1. /\ Len(accepted) \in Nat /\ Len(accepted') = Len(accepted) + 1
          /\ \A a \in 1..Len(accepted) : accepted'[a] = accepted[a]
          /\ accepted'[Len(accepted) + 1] = data
      BY <1>7, <2>3, AcceptedStep
    <3>2. \A a \in 1..Len(accepted') : a \in 1..Len(accepted) \/ a = Len(accepted) + 1
      BY <3>1
    <3>3. data[Len(data)][2] = Bytes[PacketFrame(m)] - 1
      BY <1>3, <1>7, <2>3 DEF IsChunk
    <3>4. data[1][2] = 0
      BY <2>3 DEF Parses, Heads
    <3>5. outOfOrder' \/ Intact(data)
      BY <1>6, <1>7, <1>9, <3>3, <3>4, ContiguousIntact
    <3> SUFFICES ASSUME NEW a \in 1..Len(accepted')
                 PROVE  Intact(accepted'[a]) \/ outOfOrder'
      BY DEF DamageCounted, Intact, FrameOf
    <3>6. CASE a \in 1..Len(accepted)
      BY <2>1, <3>1, <3>6 DEF DamageCounted
    <3>7. CASE a = Len(accepted) + 1
      BY <3>1, <3>5, <3>7
    <3> QED BY <3>2, <3>6, <3>7
  <2> QED BY <1>3, <2>2, <2>3
<1> QED BY <1>10, <1>12, <1>13, <1>14 DEF Gaps, PacketFrame, Start, End, FrameOf

\* Initially nothing was lost.
LEMMA GapInit == RtpInit => GapInv
<1> SUFFICES ASSUME RtpInit PROVE GapInv
  OBVIOUS
<1>1. wire = <<>> /\ accepted = <<>> /\ payload = <<>>
  BY DEF RtpInit
<1>2. 1..Len(wire) = {} /\ 1..Len(accepted) = {}
  BY <1>1
<1> QED BY <1>1, <1>2 DEF GapInv, Gaps, GapsCounted, DamageCounted

\* Every step keeps what the sequence numbers tell.
LEMMA GapStep ==
  ASSUME FramesFitSequence, RtpTypeInv, WireInv, OrderInv, TimestampInv, GapInv, [RtpNext]_rtpVars
  PROVE  GapInv'
<1> SUFFICES ASSUME InOrder'
             PROVE  Gaps' /\ GapsCounted' /\ DamageCounted'
  BY DEF GapInv
<1>1. fails \in Nat
  BY DEF RtpTypeInv
<1>2. UNCHANGED <<network, fails>> => /\ InOrder /\ fails = 0 /\ Gaps /\ GapsCounted /\ DamageCounted
                                      /\ (payload # <<>> => FrameOf(payload) <= frame)
  BY DEF InOrder, GapInv, OrderInv, PayloadBehind
<1>3. UNCHANGED <<network, fails, payload, outOfOrder, accepted>> => GapsCounted' /\ DamageCounted'
  BY <1>2 DEF GapsCounted, Contiguous, DamageCounted, Intact, FrameOf, InOrder
<1>4. CASE SendPacket
  <2>1. UNCHANGED <<network, fails, payload, outOfOrder, accepted>>
    BY <1>4, SendPacketStep
  <2> QED BY <1>2, <1>3, <1>4, <2>1, SendPacketGaps
<1>5. ASSUME NEW taken \in BOOLEAN, SendFails(taken) PROVE FALSE
  BY <1>1, <1>5, SendFailsStep DEF InOrder
<1>6. ASSUME NEW i \in 1..Len(wire), Lose(i) PROVE Gaps' /\ GapsCounted' /\ DamageCounted'
  <2>1. /\ wire' = RemoveAt(wire, i)
        /\ UNCHANGED <<frame, offset, sequence, network, fails, last, payload, outOfOrder, accepted>>
    BY <1>6 DEF Lose, senderVars, receiverVars
  <2> QED BY <1>2, <1>3, <2>1, RemovedGaps
<1>7. ASSUME NEW i \in 1..Len(wire), NEW result \in SinkResults, ReceiveRtpPacket(i, result),
             ~network.overtakes => i = 1
      PROVE  Gaps' /\ GapsCounted' /\ DamageCounted'
  <2>1. /\ wire' = RemoveAt(wire, i) /\ UNCHANGED <<frame, offset, sequence, network, fails, ssrc>>
        /\ ssrc # Ssrc => UNCHANGED <<last, payload, outOfOrder, accepted>>
    BY <1>7, ReceiveStep DEF senderVars, receiverVars
  <2>2. i = 1
    BY <1>2, <1>7, <2>1 DEF InOrder
  <2>3. CASE ssrc # Ssrc
    BY <1>2, <1>3, <2>1, <2>3, RemovedGaps
  <2>4. CASE ssrc = Ssrc
    BY <1>2, <1>7, <2>1, <2>2, <2>4, ReceiveGaps
  <2> QED BY <2>3, <2>4
<1>8. CASE UNCHANGED rtpVars
  BY <1>2, <1>3, <1>8 DEF rtpVars, Gaps, PacketFrame, Start, End, FrameOf
<1> QED BY <1>4, <1>5, <1>6, <1>7, <1>8, ReceiveFirst DEF RtpNext

\* While packets come in order, if they come, and the sender never starts again, a damaged
\* frame shows in outOfOrderRtpPackets, across the wrap of the sequence numbers too: if no
\* frame has more packets than there are sequence numbers (91 MB, with 1400 bytes each).
THEOREM DamageSafety ==
  ASSUME FramesFitSequence
  PROVE  RtpSpec => []DamageCounted
<1> DEFINE IInv == RtpTypeInv /\ WireInv /\ OrderInv /\ TimestampInv /\ GapInv
<1>1. RtpInit => IInv
  BY RtpTypeInit, RtpOrderInit, TimestampInit, GapInit
<1>2. IInv /\ [RtpNext]_rtpVars => IInv'
  BY RtpTypeStep, WireStep, OrderStep, TimestampStep, GapStep
<1>3. IInv => DamageCounted
  BY DEF GapInv, DamageCounted
<1> QED BY <1>1, <1>2, <1>3, PTL DEF RtpSpec
-----------------------------------------------------------------------------
(* What the sink gets                                                       *)

\* The video of the payloads that parsed.
Received == [i \in 1..Len(accepted) |-> VideoData(accepted[i])]

\* The video data received is one sequence of bytes for each frame accepted,
LEMMA ReceivedType ==
  ASSUME RtpTypeInv
  PROVE  Received \in Seq(Seq(Byte)) /\ Len(Received) = Len(accepted)
<1>1. accepted \in Seq(Seq(Byte)) /\ Len(accepted) \in Nat
  BY DEF RtpTypeInv, RtpTypeOK
<1>2. PICK n \in Nat : n = Len(accepted)
  BY <1>1
<1>3. \A i \in 1..n : VideoData(accepted[i]) \in Seq(Byte)
  BY <1>1, <1>2, VideoDataType
<1> DEFINE datas == [i \in 1..n |-> VideoData(accepted[i])]
<1>4. datas \in [1..n -> Seq(Byte)]
  BY <1>3
<1>5. Received = datas
  BY <1>2 DEF Received
<1> HIDE DEF datas
<1>6. datas \in Seq(Seq(Byte)) /\ Len(datas) = n
  BY <1>4
<1> QED BY <1>2, <1>5, <1>6

\* with one more for one more frame.
LEMMA ReceivedAppend ==
  ASSUME RtpTypeInv, NEW data \in Seq(Byte), accepted' = Append(accepted, data)
  PROVE  Received' = Append(Received, VideoData(data))
<1>1. /\ Len(accepted) \in Nat /\ Len(accepted') = Len(accepted) + 1
      /\ \A a \in 1..Len(accepted) : accepted'[a] = accepted[a]
      /\ accepted'[Len(accepted) + 1] = data
  BY AcceptedStep
<1>2. PICK n \in Nat : n = Len(accepted)
  BY <1>1
<1>3. PICK bytes \in Seq(Byte) : bytes = VideoData(data)
  BY VideoDataType
<1>4. PICK datas \in Seq(Seq(Byte)) : datas = Received /\ Len(datas) = n
  BY <1>2, ReceivedType
<1>5. \A i \in 1..n : datas[i] = VideoData(accepted[i])
  BY <1>2, <1>4 DEF Received
<1> DEFINE new == Append(datas, bytes)
<1>6. /\ new \in Seq(Seq(Byte)) /\ Len(new) = n + 1
      /\ \A i \in 1..n : new[i] = datas[i]
      /\ new[n + 1] = bytes
  BY <1>4, AppendFacts
<1> HIDE DEF new
<1>7. \A i \in 1..n + 1 : VideoData(accepted'[i]) = new[i]
  <2> SUFFICES ASSUME NEW i \in 1..n + 1 PROVE VideoData(accepted'[i]) = new[i]
    OBVIOUS
  <2>1. i \in 1..n \/ i = n + 1
    OBVIOUS
  <2>2. CASE i \in 1..n
    BY <1>1, <1>2, <1>5, <1>6, <2>2
  <2>3. CASE i = n + 1
    BY <1>1, <1>2, <1>3, <1>6, <2>3
  <2> QED BY <2>1, <2>2, <2>3
<1>8. Received' = [i \in 1..n + 1 |-> VideoData(accepted'[i])]
  BY <1>1, <1>2 DEF Received
<1>9. Received' = [i \in 1..n + 1 |-> new[i]]
  BY <1>7, <1>8
<1>10. new = [i \in 1..n + 1 |-> new[i]]
  BY <1>6
<1> QED BY <1>3, <1>4, <1>9, <1>10 DEF new

\* writeFrame appends the frame's video data to what is kept, or reports all that was
\* kept as written.
LEMMA ForgottenStep ==
  ASSUME RtpTypeInv, NothingForgotten, NEW data \in Seq(Byte), NEW result \in SinkResults,
         writeFrame(data, result)
  PROVE  NothingForgotten'
<1>1. PICK bytes \in Seq(Byte) : bytes = VideoData(data)
  BY VideoDataType
<1>2. /\ accepted' = Append(accepted, data)
      /\ written' = IF result = "torn" THEN written ELSE Append(written, video \o bytes)
      /\ video' = IF result = "torn" THEN video \o bytes ELSE <<>>
  BY <1>1 DEF writeFrame
<1>3. video \in Seq(Byte) /\ written \in Seq(Seq(Byte)) /\ video \o bytes \in Seq(Byte)
  BY DEF RtpTypeInv, RtpTypeOK
<1>4. PICK all \in Seq(Byte) : all = Concatenation(Received) /\ Concatenation(Received') = all \o bytes
  BY <1>1, <1>2, ReceivedType, ReceivedAppend, ConcatenationAppend
<1>5. PICK sunk \in Seq(Byte) :
        sunk = Concatenation(written)
        /\ Concatenation(Append(written, video \o bytes)) = sunk \o (video \o bytes)
  BY <1>3, ConcatenationAppend
<1>6. sunk \o video = all
  BY <1>4, <1>5 DEF NothingForgotten, Received
<1>7. sunk \o (video \o bytes) = all \o bytes
  <2>1. PICK kept \in Seq(Byte) : kept = video
    BY <1>3
  <2>2. (sunk \o kept) \o bytes = sunk \o (kept \o bytes)
    BY SMT
  <2> QED BY <1>6, <2>1, <2>2
<1>8. Concatenation(written') \o video' = all \o bytes
  <2>1. CASE result # "torn"
    <3>1. Concatenation(written') = all \o bytes /\ video' = <<>>
      BY <1>2, <1>5, <1>7, <2>1
    <3>2. (all \o bytes) \o <<>> = all \o bytes
      OBVIOUS
    <3> QED BY <3>1, <3>2
  <2>2. CASE result = "torn"
    BY <1>2, <1>5, <1>7, <2>2
  <2> QED BY <2>1, <2>2
<1> QED BY <1>4, <1>8 DEF NothingForgotten, Received

\* A piece is of a write that was reported, or it is torn and of the next one.
PieceInv ==
  \A k \in 1..Len(file) :
    /\ file[k].write \in 1..Len(written) + 1
    /\ file[k].write = Len(written) + 1 => file[k].result = "torn"

\* The frame that a piece is of grows while it is kept, and then stays.
LEMMA FileStep ==
  ASSUME RtpTypeInv, PieceInv, FileFollows, NEW data \in Seq(Byte), NEW result \in SinkResults,
         writeFrame(data, result)
  PROVE  (PieceInv /\ FileFollows)'
<1>1. PICK more \in Seq(Byte) : more = VideoData(data)
  BY VideoDataType
<1>2. PICK bytes \in Seq(Byte) : bytes = video \o more
  <2>1. video \o more \in Seq(Byte)
    BY DEF RtpTypeInv, RtpTypeOK
  <2> QED BY <2>1
<1>3. PICK n \in Nat : n = Len(written)
  BY DEF RtpTypeInv, RtpTypeOK
<1>4. PICK size \in Nat : size = Len(file)
  BY DEF RtpTypeInv, RtpTypeOK
<1>5. PICK stored \in Stored(bytes, result) :
        /\ written' = IF result = "torn" THEN written ELSE Append(written, bytes)
        /\ video' = IF result = "torn" THEN bytes ELSE <<>>
        /\ file' = Append(file, [data |-> stored, write |-> n + 1, result |-> result])
  BY <1>1, <1>2, <1>3 DEF writeFrame
<1> DEFINE piece == [data |-> stored, write |-> n + 1, result |-> result]
<1>6. stored \in Prefixes(bytes) /\ stored \in Seq(Byte) /\ (result = "whole" => stored = bytes)
  BY StoredType DEF Stored
<1>7. piece \in Piece
  BY <1>6 DEF Piece
<1>8. /\ Len(file') = size + 1 /\ file'[size + 1] = piece
      /\ \A k \in 1..size : file'[k] = file[k] /\ file[k] \in Piece
  BY <1>4, <1>5, <1>7 DEF RtpTypeInv, RtpTypeOK
<1>9. /\ result = "torn" => Len(written') = n /\ written' = written /\ video' = bytes
      /\ result # "torn" => /\ Len(written') = n + 1 /\ written'[n + 1] = bytes
                            /\ \A w \in 1..n : written'[w] = written[w]
  BY <1>3, <1>5 DEF RtpTypeInv, RtpTypeOK
<1>10. \A k \in 1..size : /\ file[k].write \in 1..n + 1
                          /\ file[k].write = n + 1 => file[k].result = "torn"
  BY <1>3, <1>4 DEF PieceInv
<1> HIDE DEF piece
<1>p. piece.data = stored /\ piece.write = n + 1 /\ piece.result = result
  BY DEF piece
<1>11. PieceInv'
  <2> SUFFICES ASSUME NEW k \in 1..size + 1
               PROVE  /\ file'[k].write \in 1..Len(written') + 1
                      /\ file'[k].write = Len(written') + 1 => file'[k].result = "torn"
    BY <1>8 DEF PieceInv
  <2>1. Len(written') \in {n, n + 1} /\ (Len(written') = n => result = "torn")
    BY <1>9
  <2>2. CASE k = size + 1
    BY <1>8, <1>p, <2>1, <2>2
  <2>3. CASE k \in 1..size
    BY <1>8, <1>10, <2>1, <2>3
  <2> QED BY <2>2, <2>3
<1>12. ASSUME NEW k \in 1..size
       PROVE  IF file'[k].result = "whole" THEN file'[k].data = FrameAt(k)'
                                           ELSE file'[k].data \in Prefixes(FrameAt(k)')
  <2>1. file'[k] = file[k]
    BY <1>8
  <2>2. IF file[k].result = "whole" THEN file[k].data = FrameAt(k)
                                    ELSE file[k].data \in Prefixes(FrameAt(k))
    BY <1>4 DEF FileFollows
  <2>3. CASE file[k].write # n + 1
    <3>1. file[k].write \in 1..n
      BY <1>10, <2>3
    <3>2. FrameAt(k) = written[file[k].write] /\ FrameAt(k)' = written[file[k].write]
      BY <1>3, <1>9, <2>1, <3>1 DEF FrameAt
    <3> QED BY <2>1, <2>2, <3>2
  <2>4. CASE file[k].write = n + 1
    <3>1. file[k].result = "torn" /\ FrameAt(k) = video
      BY <1>3, <1>10, <2>4 DEF FrameAt
    <3>2. FrameAt(k)' = bytes
      BY <1>9, <2>1, <2>4 DEF FrameAt
    <3>3. file[k].data \in Prefixes(video)
      BY <2>2, <3>1
    <3>4. file[k].data \in Prefixes(bytes)
      <4>1. PICK kept \in Seq(Byte) : kept = video
        BY DEF RtpTypeInv, RtpTypeOK
      <4>2. \A x \in Prefixes(kept) : x \in Prefixes(kept \o more)
        BY PrefixOfConcat
      <4> QED BY <1>2, <3>3, <4>1, <4>2
    <3> QED BY <2>1, <3>1, <3>2, <3>4
  <2> QED BY <2>3, <2>4
<1>13. ASSUME NEW k \in 1..size + 1
       PROVE  IF file'[k].result = "whole" THEN file'[k].data = FrameAt(k)'
                                           ELSE file'[k].data \in Prefixes(FrameAt(k)')
  <2>1. CASE k = size + 1
    <3>1. FrameAt(k)' = bytes
      BY <1>8, <1>9, <1>p, <2>1 DEF FrameAt
    <3> QED BY <1>6, <1>8, <1>p, <2>1, <3>1
  <2>2. k = size + 1 \/ k \in 1..size
    OBVIOUS
  <2> QED BY <1>12, <2>1, <2>2
<1>14. ASSUME NEW j \in 1..size + 1, NEW k \in 1..size + 1, j < k
       PROVE  /\ file'[j].write <= file'[k].write
              /\ file'[j].write = file'[k].write => file'[j].result = "torn"
  <2>1. j \in 1..size /\ (k = size + 1 \/ k \in 1..size)
    BY <1>14
  <2>2. CASE k = size + 1
    BY <1>8, <1>10, <1>p, <2>1, <2>2
  <2>3. CASE k \in 1..size
    BY <1>4, <1>8, <1>14, <2>1, <2>3 DEF FileFollows
  <2> QED BY <2>1, <2>2, <2>3
<1>15. ASSUME NEW w \in 1..Len(written')
       PROVE  \E k \in 1..size + 1 : file'[k].write = w /\ file'[k].result # "torn"
  <2>1. CASE w \in 1..n
    <3>1. PICK k \in 1..size : file[k].write = w /\ file[k].result # "torn"
      BY <1>3, <1>4, <2>1 DEF FileFollows
    <3> QED BY <1>8, <3>1
  <2>2. CASE w \notin 1..n
    <3>1. result # "torn" /\ w = n + 1
      BY <1>9, <2>2
    <3>2. size + 1 \in 1..size + 1
      OBVIOUS
    <3> QED BY <1>8, <1>p, <3>1, <3>2
  <2> QED BY <2>1, <2>2
<1>16. FileFollows'
  BY <1>8, <1>13, <1>14, <1>15 DEF FileFollows
<1> QED BY <1>11, <1>16

\* A refused write forgets no video and repeats only beginnings, each before the write
\* it is of; a write whose failure nobody notices takes no other video with it.
THEOREM SinkSafety == RtpSpec => []SinkKeepsVideo
<1> DEFINE IInv == RtpTypeInv /\ PieceInv /\ SinkKeepsVideo
<1>1. RtpInit => IInv
  <2> SUFFICES ASSUME RtpInit PROVE PieceInv /\ SinkKeepsVideo
    BY RtpTypeInit
  <2>1. accepted = <<>> /\ written = <<>> /\ video = <<>> /\ file = <<>>
    BY DEF RtpInit
  <2>2. Received = <<>>
    <3>1. Received \in Seq(Seq(Byte)) /\ Len(Received) = 0
      BY <2>1, RtpTypeInit, ReceivedType
    <3> QED BY <3>1
  <2>3. <<>> \o <<>> = <<>>
    OBVIOUS
  <2>4. NothingForgotten
    BY <2>1, <2>2, <2>3, ConcatenationEmpty DEF NothingForgotten, Received
  <2>5. PieceInv /\ FileFollows
    BY <2>1 DEF PieceInv, FileFollows
  <2> QED BY <2>4, <2>5 DEF SinkKeepsVideo
<1>2. IInv /\ [RtpNext]_rtpVars => IInv'
  <2> SUFFICES ASSUME IInv, [RtpNext]_rtpVars PROVE (PieceInv /\ SinkKeepsVideo)'
    BY RtpTypeStep
  <2>1. ASSUME UNCHANGED <<video, accepted, written, file>> PROVE (PieceInv /\ SinkKeepsVideo)'
    <3>1. NothingForgotten'
      BY <2>1 DEF SinkKeepsVideo, NothingForgotten
    <3>2. \A k \in 1..Len(file) : FrameAt(k)' = FrameAt(k)
      BY <2>1 DEF FrameAt
    <3>3. PieceInv' /\ FileFollows'
      BY <2>1, <3>2 DEF SinkKeepsVideo, PieceInv, FileFollows
    <3> QED BY <3>1, <3>3 DEF SinkKeepsVideo
  <2>2. CASE SendPacket
    BY <2>1, <2>2 DEF SendPacket
  <2>3. ASSUME NEW taken \in BOOLEAN, SendFails(taken) PROVE (PieceInv /\ SinkKeepsVideo)'
    BY <2>1, <2>3 DEF SendFails
  <2>4. ASSUME NEW i \in 1..Len(wire), Lose(i) PROVE (PieceInv /\ SinkKeepsVideo)'
    BY <2>1, <2>4 DEF Lose, receiverVars
  <2>5. ASSUME NEW i \in 1..Len(wire), NEW result \in SinkResults, ReceiveRtpPacket(i, result)
        PROVE  (PieceInv /\ SinkKeepsVideo)'
    <3>1. PICK m \in Packet : m = wire[i]
      BY DEF RtpTypeInv, RtpTypeOK
    <3>2. PICK data \in Seq(Byte) : data = Collected(m)
      BY CollectedType
    <3>3. writeFrame(data, result) \/ UNCHANGED <<video, accepted, written, file>>
      BY <2>5, <3>1, <3>2 DEF ReceiveRtpPacket, receiverVars
    <3> QED BY <2>1, <3>3, ForgottenStep, FileStep DEF SinkKeepsVideo
  <2>6. CASE UNCHANGED rtpVars
    BY <2>1, <2>6 DEF rtpVars
  <2> QED BY <2>2, <2>3, <2>4, <2>5, <2>6, ReceiveFirst DEF RtpNext
<1>3. IInv => SinkKeepsVideo
  OBVIOUS
<1> QED BY <1>1, <1>2, <1>3, PTL DEF RtpSpec
=============================================================================
