------------------------------- MODULE NetStream -------------------------------
(***************************************************************************)
(* How antlib cuts the bytes of a connection into messages: the read loop  *)
(* of tcp_connection.c and the parsers of protocollib.                     *)
(*                                                                         *)
(* A byte is <<m, k>>, the k-th of the m-th message that the peer sends.   *)
(* A message has a head of HEAD bytes, which tells the length of its body. *)
(* A parser that has lost its place (skewed) may take anything for a head, *)
(* and the model follows its connection no further.                        *)
(***************************************************************************)
EXTENDS Integers, Sequences, SequencesExt

CONSTANTS
  Streams,  \* what peers send: [protocol, messages], a message is [kind, body, known]
  HEAD,     \* the length of a head (26, 12, that of the HTTP header, or 22)
  FIRST     \* what the first read must bring (4)

Protocols == {"tcp4", "tcp12", "http", "flash"}

VARIABLES
  stream,  \* the peer's stream
  arrived, \* how many of its bytes have been read
  _buf,    \* c->_buf, up to _offset
  _begin,  \* TPD_MSGBEGIN
  _msgoff, \* TPD_MSGOFF: how much of an HTTP header has been looked at
  _msg,    \* TPD_MSG, the message whose body is awaited, and what of it is here
  at,      \* "idle", or where the thread is in _readed_data
  up,      \* the connection is open
  parsed,  \* the messages that _domsg_f was called with
  skewed, cause  \* history: a parser has lost its place; why it was closed

streamVars == <<stream, arrived, _buf, _begin, _msgoff, _msg, at, up, parsed, skewed, cause>>

NoMsg   == [m |-> 0, _len |-> 0, _off |-> 0]
_offset == Len(_buf)
Size(m) == HEAD + stream.messages[m].body
Bytes   == FlattenSeq([m \in 1 .. Len(stream.messages) |-> [k \in 1 .. Size(m) |-> <<m, k>>]])

StreamInit ==
  /\ stream \in Streams
  /\ arrived = 0 /\ _buf = <<>> /\ _begin = 0 /\ _msgoff = 0
  /\ _msg = NoMsg
  /\ at = "idle" /\ up = TRUE
  /\ parsed = <<>> /\ skewed = FALSE /\ cause = "none"

\* tcpconnection_close, after which the read loop ends.
Close(why) ==
  /\ up' = FALSE /\ cause' = why /\ at' = "end"
  /\ UNCHANGED <<stream, arrived, _buf, _begin, _msgoff, _msg, parsed, skewed>>

-----------------------------------------------------------------------------
\* tcp_read returns n bytes; the first read chooses the protocol by four bytes.
Recv(n) ==
  /\ at = "idle" /\ up /\ ~skewed
  /\ n <= Len(Bytes) - arrived
  /\ arrived' = arrived + n
  /\ IF arrived = 0 /\ n < FIRST
     THEN up' = FALSE /\ cause' = "first" /\ UNCHANGED <<_buf, at>>
     ELSE /\ IF stream.protocol = "flash" /\ _offset > HEAD
             THEN up' = FALSE /\ cause' = "flash" /\ UNCHANGED <<_buf, at>>
             ELSE /\ _buf' = _buf \o SubSeq(Bytes, arrived + 1, arrived + n)
                  /\ at' = "parse"
                  /\ UNCHANGED <<up, cause>>
  /\ UNCHANGED <<stream, _begin, _msgoff, _msg, parsed, skewed>>

\* The message whose head begins at TPD_MSGBEGIN.
Here == _buf[_begin + 1][1]

\* _domsg_f is called with the message, whose body is complete.
Dispatch(m) == parsed' = Append(parsed, m)

\* Broken variant: a byte too few is taken for a complete body.
Completes_OneShort(len, off, addlen) == len - off <= addlen + 1

\* tcpmsg_putout_range, httpmsg_putout_range: the rest of the body is here.
Completes(len, off, addlen) == len - off <= addlen

\* The rest of the body, from TPD_MSGBEGIN on; false if nothing is there for a
\* binary parser, which then does not call tcpmsg_putout_range.
PutoutRange(msg, begin) ==
  IF Completes(msg._len, msg._off, _offset - begin)
  THEN /\ Dispatch(msg.m)
       /\ _begin' = begin + msg._len - msg._off
       /\ _msg' = NoMsg
       /\ UNCHANGED at
  ELSE /\ _msg' = [msg EXCEPT !._off = @ + (_offset - begin)]
       /\ _begin' = _offset
       /\ at' = "end"
       /\ UNCHANGED parsed

-----------------------------------------------------------------------------
(***************************************************************************)
(* tcp4 and tcp12: a head of fixed length                                  *)
(***************************************************************************)
Binary == at = "parse" /\ stream.protocol \in {"tcp4", "tcp12"}

\* Less than a head, or no body yet: the loop ends.
NeedsMore ==
  /\ Binary
  /\ IF _msg = NoMsg THEN _begin + HEAD > _offset ELSE _offset <= _begin
  /\ at' = "end"
  /\ UNCHANGED <<stream, arrived, _buf, _begin, _msgoff, _msg, up, parsed, skewed, cause>>

UnknownMessage ==
  /\ Binary /\ _msg = NoMsg
  /\ _begin + HEAD <= _offset
  /\ ~stream.messages[Here].known
  /\ Close("unknown")

\* A new message: its body, if it has any, follows.
ParseHead ==
  /\ Binary /\ _msg = NoMsg
  /\ _begin + HEAD <= _offset
  /\ stream.messages[Here].known
  /\ LET new == [m |-> Here, _len |-> stream.messages[Here].body, _off |-> 0] IN
       IF new._len = 0 \/ _offset > _begin + HEAD
       THEN PutoutRange(new, _begin + HEAD)
       ELSE /\ _msg' = new /\ _begin' = _begin + HEAD /\ at' = "end"
            /\ UNCHANGED parsed
  /\ UNCHANGED <<stream, arrived, _buf, _msgoff, up, skewed, cause>>

ParseBody ==
  /\ Binary /\ _msg # NoMsg
  /\ _offset > _begin
  /\ PutoutRange(_msg, _begin)
  /\ UNCHANGED <<stream, arrived, _buf, _msgoff, up, skewed, cause>>

-----------------------------------------------------------------------------
(***************************************************************************)
(* HTTP: the first byte at TPD_MSGBEGIN decides                            *)
(***************************************************************************)
Http == at = "parse" /\ stream.protocol = "http"

\* parse_http_header_len, from TPD_MSGOFF on: the end of the header is here.
HeaderEnds == \E i \in _begin + _msgoff + 1 .. _offset : _buf[i][2] = HEAD

HeaderIncomplete ==
  /\ Http /\ _msg = NoMsg /\ ~HeaderEnds
  /\ _msgoff' = _offset - _begin
  /\ at' = "end"
  /\ UNCHANGED <<stream, arrived, _buf, _begin, _msg, up, parsed, skewed, cause>>

\* Unknown path, too short or too long values, or a field that is missing.
HttpRefused ==
  /\ Http /\ _msg = NoMsg /\ HeaderEnds
  /\ ~stream.messages[Here].known
  /\ Close("unknown")

\* A GET has its values in the header.
HttpGet ==
  /\ Http /\ _msg = NoMsg /\ HeaderEnds
  /\ stream.messages[Here].known /\ stream.messages[Here].kind = "get"
  /\ Dispatch(Here)
  /\ _begin' = _begin + HEAD /\ _msgoff' = 0
  /\ at' = IF _begin + HEAD < _offset THEN "parse" ELSE "end"
  /\ UNCHANGED <<stream, arrived, _buf, _msg, up, skewed, cause>>

\* After a complete message the loop goes on only if there are more bytes.
HttpPost ==
  /\ Http /\ _msg = NoMsg /\ HeaderEnds
  /\ stream.messages[Here].known /\ stream.messages[Here].kind = "post"
  /\ _msgoff' = 0
  /\ LET new == [m |-> Here, _len |-> stream.messages[Here].body, _off |-> 0]
         begin == _begin + HEAD IN
       IF Completes(new._len, 0, _offset - begin)
       THEN /\ Dispatch(Here) /\ _begin' = begin + new._len
            /\ at' = IF begin + new._len < _offset THEN "parse" ELSE "end"
            /\ UNCHANGED _msg
       ELSE PutoutRange(new, begin)
  /\ UNCHANGED <<stream, arrived, _buf, up, skewed, cause>>

\* The rest of a body that begins with the letter P is taken for a POST, and
\* since TPD_MSG is set it is put where it belongs.
HttpPostGoesOn ==
  /\ Http /\ _msg # NoMsg
  /\ IF Completes(_msg._len, _msg._off, _offset - _begin)
     THEN /\ Dispatch(_msg.m) /\ _msg' = NoMsg
          /\ _begin' = _begin + _msg._len - _msg._off
          /\ at' = IF _begin + _msg._len - _msg._off < _offset THEN "parse" ELSE "end"
     ELSE PutoutRange(_msg, _begin)
  /\ UNCHANGED <<stream, arrived, _buf, _msgoff, up, skewed, cause>>

\* With another letter, G for which the code asserts excepted, it is refused.
HttpBodyRefused == Http /\ _msg # NoMsg /\ Close("body")

-----------------------------------------------------------------------------
(***************************************************************************)
(* Flash: one request, which stays in the buffer                           *)
(***************************************************************************)
FlashShort ==
  /\ at = "parse" /\ stream.protocol = "flash"
  /\ _offset < HEAD
  /\ at' = "idle"
  /\ UNCHANGED <<stream, arrived, _buf, _begin, _msgoff, _msg, up, parsed, skewed, cause>>

FlashAnswers ==
  /\ at = "parse" /\ stream.protocol = "flash"
  /\ _offset >= HEAD
  /\ Dispatch(1)
  /\ at' = "idle"
  /\ UNCHANGED <<stream, arrived, _buf, _begin, _msgoff, _msg, up, skewed, cause>>

-----------------------------------------------------------------------------
\* tcp_resetbuf sets TPD_MSGBEGIN to 0 only if no byte is left.
Kept == IF _offset > _begin THEN _begin ELSE 0

\* The end of _readed_data: what is left moves to the front.  Only the HTTP
\* parser then sets TPD_MSGBEGIN to 0 itself, and moves nothing when it is 0.
ResetBuf ==
  /\ at = "end"
  /\ at' = "idle"
  /\ _buf' = SubSeq(_buf, _begin + 1, _offset)
  /\ _begin' = IF stream.protocol = "http" THEN 0 ELSE Kept
  /\ skewed' = (up /\ _begin' > 0)
  /\ UNCHANGED <<stream, arrived, _msgoff, _msg, up, parsed, cause>>

StreamNext ==
  \/ \E n \in 1 .. Len(Bytes) : Recv(n)
  \/ NeedsMore \/ UnknownMessage \/ ParseHead \/ ParseBody
  \/ HeaderIncomplete \/ HttpRefused \/ HttpGet \/ HttpPost
  \/ HttpPostGoesOn \/ HttpBodyRefused
  \/ FlashShort \/ FlashAnswers
  \/ ResetBuf

-----------------------------------------------------------------------------
StreamTypeOK ==
  /\ stream.protocol \in Protocols
  /\ arrived \in 0 .. Len(Bytes)
  /\ _begin \in 0 .. Len(Bytes) /\ _msgoff \in 0 .. Len(Bytes)
  /\ _msg.m \in 0 .. Len(stream.messages)
  /\ _msg._off \in 0 .. _msg._len
  /\ at \in {"idle", "parse", "end"}
  /\ up \in BOOLEAN /\ skewed \in BOOLEAN
  /\ cause \in {"none", "first", "unknown", "body", "flash"}

\* However the bytes are cut into reads, the messages are those the peer sent,
\* in their order and each once, and at rest none is left behind; until a head
\* is cut in two behind a message of the same read, when a binary parser loses
\* its place, or the body of a POST is cut, when the connection may be closed.
MessagesAsSent ==
  stream.protocol # "flash" =>
    /\ parsed = [i \in 1 .. Len(parsed) |-> i]
    /\ Len(parsed) <= Len(stream.messages)
    /\ skewed => stream.protocol # "http" /\ parsed # <<>> /\ Len(_buf) \in 1 .. HEAD - 1
    /\ cause = "body" => stream.protocol = "http" /\ _msg # NoMsg
    /\ cause = "unknown" => ~stream.messages[Len(parsed) + 1].known
    /\ (up /\ at = "idle" /\ ~skewed /\ arrived = Len(Bytes))
         => Len(parsed) = Len(stream.messages)
=============================================================================
