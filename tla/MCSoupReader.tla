---------------------------- MODULE MCSoupReader ----------------------------
(***************************************************************************)
(* Model-checking instance of SoupReader: one response of each framing.   *)
(***************************************************************************)
EXTENDS SoupReader

Hdr == <<"h", CR, LF, CR, LF>>

(* Content-Length: 2, body "xy".                                           *)
MsgLength == [wire |-> Hdr \o <<"x", "y">>, enc |-> "content_length",
              clen |-> 2, body |-> <<"x", "y">>]

(* Content-Length: 2, but the peer sends "xyz": one byte more, as the     *)
(* start of a pipelined response would be.                                 *)
MsgLengthOver == [wire |-> Hdr \o <<"x", "y", "z">>, enc |-> "content_length",
                  clen |-> 2, body |-> <<"x", "y">>]

(* Chunked: "1\r\nx\r\n" "2\r\n\r\n\r\n" "0\r\n\r\n"; the second chunk's  *)
(* body is itself a CRLF.                                                  *)
MsgChunked == [wire |-> Hdr \o <<"1", CR, LF, "x", CR, LF,
                                 "2", CR, LF, CR, LF, CR, LF,
                                 "0", CR, LF, CR, LF>>,
               enc |-> "chunked", clen |-> 0, body |-> <<"x", CR, LF>>]

(* Chunked: "1\r\nx\r\n" "2\r\nyz\r\n" "0\r\n\r\n"; distinct body bytes, *)
(* so that data cut at a wrong offset is seen.                            *)
MsgChunkedPlain == [wire |-> Hdr \o <<"1", CR, LF, "x", CR, LF,
                                      "2", CR, LF, "y", "z", CR, LF,
                                      "0", CR, LF, CR, LF>>,
                    enc |-> "chunked", clen |-> 0, body |-> <<"x", "y", "z">>]

(* Chunked with a trailer header: "1\r\nx\r\n" "0\r\n" "T\r\n" "\r\n". *)
MsgTrailer == [wire |-> Hdr \o <<"1", CR, LF, "x", CR, LF,
                                 "0", CR, LF, "T", CR, LF, CR, LF>>,
               enc |-> "chunked", clen |-> 0, body |-> <<"x">>]

TrailerOnly == {MsgTrailer}

(* Responses whose done callback must carry exactly the declared body.    *)
DeclaredBodies == {MsgLength, MsgLengthOver, MsgTrailer}

(* No length: the body "xy" ends when the peer closes.                     *)
MsgUnknown == [wire |-> Hdr \o <<"x", "y">>, enc |-> "unknown",
               clen |-> 0, body |-> <<"x", "y">>]

(* Chunked whose first size line is "f0000000": more than the largest    *)
(* gint, so decode_hex's sum wraps to -2^28.                               *)
MsgHugeChunk == [wire |-> Hdr \o <<"f", "0", "0", "0", "0", "0", "0", "0",
                                  CR, LF>>,
                 enc |-> "chunked", clen |-> 0, body |-> <<>>]

MCMessages == {MsgLength, MsgChunked, MsgChunkedPlain, MsgUnknown}

ChunkedOnly == {MsgChunked}

ChunkedOrHuge == {MsgChunked, MsgHugeChunk}

LengthOnly == {MsgLength}

OverOnly == {MsgLengthOver}

AllCallbacks == {ReadCallbacks, ReadCallbacks \ {"error"}}

(* Every message the contract is checked against.                        *)
AllMessages == MCMessages \cup DeclaredBodies

(* Callback sets that leave one of the traces out: without a chunk        *)
(* callback nothing but done sets callback_issued; without done no final  *)
(* delivery is seen; without error no body_started flag is seen.          *)
HeadersOnly == {{"headers"}}

HeadersAndDone == {{"headers", "done"}}

HeadersAndError == {{"headers", "error"}}

(* The embedder may drop the chunk callback with set_callbacks.           *)
ChunkMayGo == {ReadCallbacks, ReadCallbacks \ {"chunk"}}

=============================================================================
