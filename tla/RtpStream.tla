------------------------------ MODULE RtpStream ------------------------------
(***************************************************************************)
(* Video of one stream from MediaSendCapability to the frame sink of the   *)
(* receiving node.                                                         *)
(*                                                                         *)
(*  - sender, scheduler thread: sendNextFrame takes the next frame of the  *)
(*    stream file, wraps it in MPEG-PS and hands it to JRTPLIB in chunks   *)
(*    (MediaManager::sendAnnexBFrame);                                     *)
(*  - network: RTP over UDP, which may lose packets, let them overtake     *)
(*    each other, and refuse them at the sender's socket;                  *)
(*  - receiver, RTP poll thread: MediaManager::receiveRtpPacket collects   *)
(*    the chunks of one timestamp up to the marker, parses the program     *)
(*    stream and writes the frame to the sink.                             *)
(*                                                                         *)
(* A byte is <<frame, offset>>.  Byte 0 stands for the PS pack and PES     *)
(* headers; the others are Annex-B data.                                   *)
(***************************************************************************)
EXTENDS Naturals, Sequences, FiniteSets, SequencesExt, SequenceFold

CONSTANTS
  Bytes,         \* size of each frame with its headers
  LargeFrames,   \* frames too large for a PES length, which is then 0
  PayloadBytes,  \* rtp_payload_bytes
  SequenceMod,   \* 2^16, the range of sequence numbers
  Ssrc,          \* the SSRC of the INVITE, which the receiver expects
  SenderSsrcs,   \* SSRCs the sender may use
  Networks,      \* [lossy, overtakes, refusals]: bound on refused packets
  SinkFails      \* bound on the writes of the frame sink that fail

\* readNextVideoFrame: the video frames of the stream file, one after the other.
Frames == 1..Len(Bytes)

ASSUME RtpStreamAssumption ==
  /\ Bytes \in Seq(Nat \ {0, 1})
  /\ LargeFrames \subseteq Frames
  /\ PayloadBytes \in Nat \ {0, 1}
  /\ SequenceMod \in Nat \ {0}
  /\ Networks \subseteq [lossy : BOOLEAN, overtakes : BOOLEAN, refusals : Nat]
  /\ SinkFails \in Nat

VARIABLES
  frame,        \* sender: m_pendingFrame, or the end of the stream file
  offset,       \* sender: bytes of it sent in the current attempt
  sequence,     \* sender: sequence number of the next packet
  timestamp,    \* sender: timestamp of the next packet, in increments
  ssrc,         \* sender: SSRC of its JRTPLIB session
  fails,        \* packets refused so far
  network,      \* what the network does in this behaviour
  wire,         \* packets in flight, in the order they were sent
  last,         \* receiver: lastRtpSequence, or none
  outOfOrder,   \* receiver: whether outOfOrderRtpPackets has counted
  payload,      \* receiver: currentRtpPayloadData
  payloadTime,  \* receiver: currentRtpPayloadTimestamp
  video,        \* receiver: currentVideoFrameData
  accepted,     \* history: payloads that parsed
  written,      \* history: the frames the sink has reported as written
  file          \* what each of its writes left in the output file

senderVars   == <<frame, offset, sequence, timestamp, ssrc, fails, network>>
receiverVars == <<last, outOfOrder, payload, payloadTime, video, accepted, written, file>>
rtpVars == <<frame, offset, sequence, timestamp, ssrc, fails, network, wire,
          last, outOfOrder, payload, payloadTime, video, accepted, written, file>>

NoSequence == SequenceMod

Byte   == Frames \X Nat
Packet == [data : Seq(Byte), sequence : 0..SequenceMod - 1, timestamp : Nat,
           marker : BOOLEAN, ssrc : SenderSsrcs]

\* A write of the sink is whole, or torn: writeFrame reports failure, with a part of
\* the frame in the file, or nothing.  Or it is short: what did not fit was still in the
\* buffer of the stream, whose closing reports nothing.
SinkResults == {"whole", "torn", "short"}

\* write: the number of the write that is reported as done and which it belongs to.
Piece == [data : Seq(Byte), write : Nat, result : SinkResults]

\* The RTP library starts at a random sequence number: just before the wrap.
RtpInit ==
  /\ frame = 1
  /\ offset = 0
  /\ sequence = SequenceMod - 1
  /\ timestamp = 0
  /\ ssrc \in SenderSsrcs
  /\ fails = 0
  /\ network \in Networks
  /\ wire = <<>>
  /\ last = NoSequence
  /\ outOfOrder = FALSE
  /\ payload = <<>>
  /\ payloadTime = 0
  /\ video = <<>>
  /\ accepted = <<>>
  /\ written = <<>>
  /\ file = <<>>

\* buildProgramStreamSample
ProgramStreamSample(f) == [i \in 1..Bytes[f] |-> <<f, i - 1>>]

-----------------------------------------------------------------------------
(* Sender                                                                  *)

\* One turn of the loop of sendAnnexBFrame.
ChunkEnd == IF offset + PayloadBytes < Bytes[frame] THEN offset + PayloadBytes ELSE Bytes[frame]
Marker == ChunkEnd = Bytes[frame]

\* Mutant: the sequence number does not wrap.
BuildPacket_NoWrap(sent) ==
  /\ sequence' = sequence + 1
  /\ timestamp' = IF Marker THEN timestamp + 1 ELSE timestamp
  /\ wire' = IF sent
             THEN Append(wire, [data |-> SubSeq(ProgramStreamSample(frame), offset + 1, ChunkEnd),
                                sequence |-> sequence, timestamp |-> timestamp,
                                marker |-> Marker, ssrc |-> ssrc])
             ELSE wire

\* JRTPLIB counts the packet and then transmits it, if the socket takes it; only
\* the marker packet has a timestamp increment.
BuildPacket(sent) ==
  /\ sequence' = (sequence + 1) % SequenceMod
  /\ timestamp' = IF Marker THEN timestamp + 1 ELSE timestamp
  /\ wire' = IF sent
             THEN Append(wire, [data |-> SubSeq(ProgramStreamSample(frame), offset + 1, ChunkEnd),
                                sequence |-> sequence, timestamp |-> timestamp,
                                marker |-> Marker, ssrc |-> ssrc])
             ELSE wire

\* sendNextFrame drops the pending frame after it is sent to some stream.
SendPacket ==
  /\ frame \in Frames
  /\ BuildPacket(TRUE)
  /\ IF Marker THEN frame' = frame + 1 /\ offset' = 0
               ELSE frame' = frame /\ offset' = ChunkEnd
  /\ UNCHANGED <<ssrc, fails, network, last, outOfOrder, payload, payloadTime, video, accepted, written, file>>

\* A refused packet ends the attempt.  The next tick sends the frame again from
\* its start, or the next frame if another stream of the node has taken this one.
SendFails(taken) ==
  /\ frame \in Frames
  /\ fails < network.refusals
  /\ fails' = fails + 1
  /\ BuildPacket(FALSE)
  /\ frame' = IF taken THEN frame + 1 ELSE frame
  /\ offset' = 0
  /\ UNCHANGED <<ssrc, network, last, outOfOrder, payload, payloadTime, video, accepted, written, file>>

-----------------------------------------------------------------------------
(* Network (external)                                                      *)

Lose(i) ==
  /\ network.lossy
  /\ wire' = RemoveAt(wire, i)
  /\ UNCHANGED <<senderVars, receiverVars>>

-----------------------------------------------------------------------------
(* Receiver                                                                *)

Heads(data) == {i \in 1..Len(data) : data[i][2] = 0}

\* Mutant: a PES may be shorter than its length.
Parses_LengthIgnored(data) == 1 \in Heads(data)

\* parseProgramStreamPayload and parseElementaryStream: headers first; a PES with
\* a length is exactly that long and followed by other headers or the end; one
\* without extends to the end.  Headers inside video data are no NAL unit.
Parses(data) ==
  /\ 1 \in Heads(data)
  /\ \A i \in Heads(data) :
       LET next == {j \in Heads(data) \cup {Len(data) + 1} : j > i}
           end  == CHOOSE j \in next : \A k \in next : j <= k
       IN  IF data[i][1] \in LargeFrames THEN end = Len(data) + 1
                                         ELSE end = i + Bytes[data[i][1]]

VideoData(data) ==
  Fold([seq \in Seq(Byte) |-> [byte \in Byte |-> IF byte[2] = 0 THEN seq ELSE Append(seq, byte)]],
       <<>>, data)

\* Mutant: a gap in the sequence numbers is not counted.
countSequence_GapIgnored(m) ==
  /\ last' = m.sequence
  /\ outOfOrder' = (outOfOrder \/ (last # NoSequence /\ m.sequence = last))

countSequence(m) ==
  /\ last' = m.sequence
  /\ outOfOrder' = (outOfOrder \/ (last # NoSequence /\ m.sequence # (last + 1) % SequenceMod))

\* Mutant: the payload of another timestamp is kept.
Collected_TimestampIgnored(m) == payload \o m.data

\* The current payload with the packet; a payload of another timestamp is
\* discarded as incomplete.
Collected(m) == IF payload # <<>> /\ payloadTime # m.timestamp THEN m.data ELSE payload \o m.data

\* FileMediaFrameSink::writeFrame appends to the file.
Stored(data, result) == IF result = "whole" THEN {data} ELSE Prefixes(data) \ {data}

FailedWrites == {k \in 1..Len(file) : file[k].result # "whole"}

\* Mutant: a frame the sink refused is dropped.
writeFrame_Dropped(data, result) ==
  LET bytes == video \o VideoData(data)
  IN  /\ result # "whole" => Cardinality(FailedWrites) < SinkFails
      /\ accepted' = Append(accepted, data)
      /\ written' = IF result = "torn" THEN written ELSE Append(written, bytes)
      /\ video' = <<>>
      /\ \E stored \in Stored(bytes, result) :
           file' = Append(file, [data |-> stored, write |-> Len(written) + 1, result |-> result])

\* A frame the sink refuses stays, the next one is appended to it, and the sink is
\* handed both from the start, whatever a torn write has left in the file.
writeFrame(data, result) ==
  LET bytes == video \o VideoData(data)
  IN  /\ result # "whole" => Cardinality(FailedWrites) < SinkFails
      /\ accepted' = Append(accepted, data)
      /\ written' = IF result = "torn" THEN written ELSE Append(written, bytes)
      /\ video' = IF result = "torn" THEN bytes ELSE <<>>
      /\ \E stored \in Stored(bytes, result) :
           file' = Append(file, [data |-> stored, write |-> Len(written) + 1, result |-> result])

\* receiveRtpPacket
ReceiveRtpPacket(i, result) ==
  LET m == wire[i]
  IN  /\ wire' = RemoveAt(wire, i)
      /\ IF m.ssrc # Ssrc
         THEN UNCHANGED receiverVars
         ELSE /\ countSequence(m)
              /\ payload' = IF m.marker THEN <<>> ELSE Collected(m)
              /\ payloadTime' = IF m.marker THEN 0 ELSE m.timestamp
              /\ IF m.marker /\ Parses(Collected(m))
                 THEN writeFrame(Collected(m), result)
                 ELSE UNCHANGED <<video, accepted, written, file>>
      /\ UNCHANGED senderVars

-----------------------------------------------------------------------------
Deliverable == IF network.overtakes THEN 1..Len(wire) ELSE {i \in {1} : wire # <<>>}

Receive == \E i \in Deliverable, result \in SinkResults : ReceiveRtpPacket(i, result)

RtpNext ==
  \/ SendPacket
  \/ \E taken \in BOOLEAN : SendFails(taken)
  \/ \E i \in 1..Len(wire) : Lose(i)
  \/ Receive

RtpSpec == RtpInit /\ [][RtpNext]_rtpVars

-----------------------------------------------------------------------------
(* Properties                                                              *)

RtpTypeOK ==
  /\ frame \in 1..Len(Bytes) + 1
  /\ frame \in Frames => offset < Bytes[frame]
  /\ sequence \in 0..SequenceMod - 1
  /\ timestamp \in Nat
  /\ ssrc \in SenderSsrcs
  /\ network \in Networks
  /\ wire \in Seq(Packet)
  /\ last \in 0..SequenceMod
  /\ outOfOrder \in BOOLEAN
  /\ payload \in Seq(Byte)
  /\ video \in Seq(Byte)
  /\ accepted \in Seq(Seq(Byte))
  /\ written \in Seq(Seq(Byte))
  /\ file \in Seq(Piece)

FrameOf(data) == data[1][1]
Intact(data)  == data = ProgramStreamSample(FrameOf(data))

\* Packets arrive in order, if they arrive, and the sender never starts again.
InOrder == ~network.overtakes /\ fails = 0

\* A frame with a PES length reaches the sink whole or not at all, although the
\* receiver completes a frame at its marker with packets missing.
SmallFramesIntact ==
  InOrder => \A i \in 1..Len(accepted) :
    FrameOf(accepted[i]) \notin LargeFrames => Intact(accepted[i])

\* A damaged frame that reaches the sink (it had no PES length to betray it)
\* shows in outOfOrderRtpPackets, across the wrap of the sequence numbers too.
DamageCounted ==
  InOrder => \A i \in 1..Len(accepted) : Intact(accepted[i]) \/ outOfOrder

\* No frame at the sink mixes the packets of two: an unfinished frame whose
\* marker is lost is not spliced with the next one.
NoMixedFrames ==
  \A i \in 1..Len(accepted) :
    \A j \in 1..Len(accepted[i]) : accepted[i][j][1] = FrameOf(accepted[i])

\* Frames arrive in the order of the stream file, none twice.
FramesInOrder ==
  ~network.overtakes => \A i, j \in 1..Len(accepted) : i < j => FrameOf(accepted[i]) < FrameOf(accepted[j])

\* A refused packet does not move the timestamp on: when another stream has taken
\* the frame, the next frame goes out under the same timestamp, and a network that
\* keeps its first packet back lets the rest complete the frame broken off.
Splices == fails > 0 /\ (network.lossy \/ network.overtakes)

\* The sink gets frames of one picture each and in order, although a refused send
\* leaves half a frame in flight, and a frame is sent again from its start.
FramesWholeInOrder == (~Splices => NoMixedFrames) /\ FramesInOrder

Concatenation(seqs) ==
  Fold([all \in Seq(Byte) |-> [seq \in Seq(Byte) |-> all \o seq]], <<>>, seqs)

\* What the sink has reported as written, and what is kept for its next write, is
\* what was received, in order and once.
NothingForgotten ==
  Concatenation(written) \o video
    = Concatenation([i \in 1..Len(accepted) |-> VideoData(accepted[i])])

\* The frame that piece k of the file is of: one reported as written, or the one kept.
FrameAt(k) == IF file[k].write <= Len(written) THEN written[file[k].write] ELSE video

\* The file has every frame reported as written, in order.  It has nothing else but
\* beginnings of a frame right before it, where it was refused, and lacks nothing but
\* the ends of frames whose write was short.
FileFollows ==
  /\ \A k \in 1..Len(file) :
       IF file[k].result = "whole" THEN file[k].data = FrameAt(k)
                                   ELSE file[k].data \in Prefixes(FrameAt(k))
  /\ \A j, k \in 1..Len(file) : j < k =>
       /\ file[j].write <= file[k].write
       /\ file[j].write = file[k].write => file[j].result = "torn"
  /\ \A w \in 1..Len(written) :
       \E k \in 1..Len(file) : file[k].write = w /\ file[k].result # "torn"

\* A write that is refused loses no video, however much of it has reached the file,
\* and a failure that goes unnoticed loses no more than the end of that one write:
\* the frames after it stand where they belong.
SinkKeepsVideo == NothingForgotten /\ FileFollows
=============================================================================
