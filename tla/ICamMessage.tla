---------------------------- MODULE ICamMessage ----------------------------
(***************************************************************************)
(* icam_message.c: the frames between an iOS device and a camera.  A frame *)
(* is a sequence of bytes: payload size, channel, payload.  On channel 0   *)
(* the payload is a control message.                                       *)
(***************************************************************************)
EXTENDS Integers, Sequences

kPacketHeaderSize == 4

(* enum icam_msg_type, from 0; the negative ones are the results of        *)
(* icam_message_decode that are no control message.                        *)
kPacketTypeNewChannel == 3
kPacketTypeDeleteChannel == 4
kPacketTypeLinkUp == 5
kPacketTypeLinkDown == 6
Transport == -1
Incomplete == -2

pack_u16(value) == <<(value \div 256) % 256, value % 256>>
unpack_u16(data, at) == data[at] * 256 + data[at + 1]

icam_message_encode_header(channel, payload_size) ==
    pack_u16(payload_size) \o pack_u16(channel)

(* A frame of channel 0: the common part of the encoders below. *)
Control(type, body) ==
    icam_message_encode_header(0, 2 + Len(body)) \o pack_u16(type) \o body

icam_message_encode_new_channel(channel, port) ==
    Control(kPacketTypeNewChannel, pack_u16(channel) \o pack_u16(port))
icam_message_encode_delete_channel(channel) ==
    Control(kPacketTypeDeleteChannel, pack_u16(channel))
icam_message_encode_channel_linkup(channel) ==
    Control(kPacketTypeLinkUp, pack_u16(channel))
icam_message_encode_channel_linkdown(channel) ==
    Control(kPacketTypeLinkDown, pack_u16(channel))

(* writeTransportData:to: of one chunk, the header and the payload written *)
(* one after the other.                                                    *)
TransportFrame(channel, data) ==
    icam_message_encode_header(channel, Len(data)) \o data

IdTypes == {kPacketTypeNewChannel, kPacketTypeDeleteChannel, kPacketTypeLinkUp,
            kPacketTypeLinkDown}

Payload(data) ==
    SubSeq(data, kPacketHeaderSize + 1, kPacketHeaderSize + unpack_u16(data, 1))

icam_message_decode(data) ==
    IF \/ Len(data) < kPacketHeaderSize
       \/ Len(data) < unpack_u16(data, 1) + kPacketHeaderSize
      THEN [type |-> Incomplete]
    ELSE IF unpack_u16(data, 3) # 0
      THEN [type |-> Transport, channel |-> unpack_u16(data, 3), data |-> Payload(data)]
    ELSE IF unpack_u16(data, 5) \in IdTypes
      THEN [type |-> unpack_u16(data, 5), channel_id |-> unpack_u16(data, 7)]
      ELSE [type |-> unpack_u16(data, 5)]
=============================================================================
