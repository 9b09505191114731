----------------------------- MODULE RpcMessage -----------------------------
(***************************************************************************)
(* The frames of micro/rpc/message and the codecs around them.  A stream   *)
(* is a sequence of bytes; a name, a key or a value counts as one byte,    *)
(* and so does a number, with three more behind it where it has four.      *)
(* None is the zero byte, and what a codec returns with an error.          *)
(***************************************************************************)
EXTENDS Integers, Sequences, SequencesExt

CONSTANT None

\* A service name, a method name and pairs of metadata, each with a separator
\* behind it and one between key and value.
CalculateHeadLength(req) == 15 + 2 * 2 + 4 * Len(req.meta)

Four(n) == <<n, None, None, None>>

\* The part of a header that is always there: lengths, identity and version, which
\* no one sets, and the codes.
Fixed(hl, msg) ==
  Four(hl) \o Four(Len(msg.data)) \o Four(None) \o <<None, msg.compressor, msg.serializer>>

\* A buffer of this size that the bytes are copied into.
Buffer(size, bytes) == SubSeq(bytes \o [i \in 1..size |-> None], 1, size)

\* EncodeRequest.  The metadata is a map in the code: meta is any order of it.
EncodeRequest(req) ==
  LET hl == CalculateHeadLength(req)
      text == <<req.service, "\n", req.method, "\n">>
              \o FlattenSeq([i \in DOMAIN req.meta |-> <<req.meta[i][1], "\r", req.meta[i][2], "\n">>])
  IN  Buffer(hl + Len(req.data),
             Fixed(hl, req) \o text \o req.data)

\* DecodeRequest: the header is read up to each separator.  Without one where
\* the code needs it, it panics (None).
DecodeRequest(bytes) ==
  LET header == SubSeq(bytes, 16, bytes[1])
      ends == {i \in DOMAIN header : header[i] = "\n"}
  IN  IF ~({2, 4} \subseteq ends) THEN None
      ELSE [service |-> header[1], method |-> header[3],
            compressor |-> bytes[14], serializer |-> bytes[15],
            meta |-> {<<header[i - 3], header[i - 1]>> : i \in ends \ {2, 4}},
            data |-> SubSeq(bytes, bytes[1] + 1, Len(bytes))]

\* EncodeResponse and DecodeResponse: the header ends with the text of the error.
EncodeResponse(resp) ==
  Fixed(15 + Len(resp.error), resp) \o resp.error \o resp.data

DecodeResponse(bytes) ==
  [compressor |-> bytes[14], serializer |-> bytes[15],
   error |-> SubSeq(bytes, 16, bytes[1]), data |-> SubSeq(bytes, bytes[1] + 1, Len(bytes))]

\* ReceiveRequestStream and ReceiveResponseStream: the length of the first frame.
FrameLength(stream) == stream[1] + stream[5]
Framed(stream) == Len(stream) >= 8 /\ Len(stream) >= FrameLength(stream)
Frame(stream) == SubSeq(stream, 1, FrameLength(stream))
Rest(stream)  == SubSeq(stream, FrameLength(stream) + 1, Len(stream))

\* The serializers' and the compressor's Encode, Decode, Compress, Decompress:
\* what the one wrote only the same can read, and only whole.
Serialize(code, value) == <<code, value>>
Deserialize(code, data) == IF Len(data) = 2 /\ data[1] = code THEN data[2] ELSE None
Compress(data) == <<"gzip">> \o data
Decompress(data) == IF data # <<>> /\ Head(data) = "gzip" /\ Last(data) # None THEN Tail(data) ELSE <<>>
=============================================================================
