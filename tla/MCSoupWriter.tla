---------------------------- MODULE MCSoupWriter ----------------------------
(* Model values for SoupWriter: a three-byte header so that it can be     *)
(* split across writes, one-byte bodies, and a producer that may hand    *)
(* back data or nothing with either verdict.                             *)
EXTENDS SoupWriter

MCHeader == <<"h", "h", "h">>

(* A one-byte header: no write can split it.                              *)
OneByteHeader == <<"h">>

MCInitialBodies == {<<>>, <<"s">>}

MCProducerResults ==
  {[buf |-> <<"a">>, ret |-> "continue"], [buf |-> <<>>, ret |-> "continue"],
   [buf |-> <<>>, ret |-> "end"], [buf |-> <<"b">>, ret |-> "end"]}

BothEncodings == {"content_length", "chunked"}

LengthEncoding == {"content_length"}

ChunkedEncoding == {"chunked"}

(* A chunked write with no body at all: only the header and the terminator *)
(* are owed.                                                               *)
NoBodies == {<<>>}

EndsAtOnce == {[buf |-> <<>>, ret |-> "end"]}
=============================================================================
