------------------------------ MODULE SoupReader ------------------------------
(***************************************************************************)
(* The reader of soup-transfer.c: soup_transfer_read, the G_IO_IN handler  *)
(* soup_transfer_read_cb, the G_IO_HUP|ERR handler                         *)
(* soup_transfer_read_error_cb, the chunked decoder and the three body     *)
(* steps, and soup_transfer_read_cancel / _set_callbacks.                  *)
(*                                                                         *)
(* One reader object runs against one peer.  The peer puts the bytes of    *)
(* one HTTP message into the socket in pieces of any size, may close it    *)
(* (early, when PeerMayTruncate) and may fail it (PeerMayFail).  The GLib  *)
(* main loop is single-threaded: a handler runs to its return without      *)
(* other handlers, but the peer's bytes keep arriving while it runs, so    *)
(* the handler is split at each g_io_channel_read.                         *)
(***************************************************************************)
EXTENDS Integers, Sequences, SequencesExt, SoupBytes

CONSTANTS
  Messages,        \* [wire, enc, clen, body]: bytes sent, framing, body
  BlockSize,       \* RESPONSE_BLOCK_SIZE, bytes per g_io_channel_read
  OverwriteModes,  \* overwrite_chunks values given to soup_transfer_read
  CallbackSets,    \* sets of callbacks the embedder may have installed
  AppMayEnd,       \* callbacks may return SOUP_TRANSFER_END
  PeerMayTruncate, \* the peer may close before the whole message is sent
  PeerMayFail      \* the channel may fail (G_IO_ERR, read error)

ReadCallbacks == {"headers", "chunk", "done", "error"}
Encodings == {"unknown", "chunked", "content_length"}

ASSUME BlockSize \in Nat \ {0}
ASSUME OverwriteModes \subseteq BOOLEAN /\ OverwriteModes # {}
ASSUME \A c \in CallbackSets : c \subseteq ReadCallbacks
ASSUME \A m \in Messages : m.enc \in Encodings

VARIABLES
  msg, sent, closed, chan_err,          \* the peer and the socket
  rd,                                   \* bytes read out of the socket
  pc, total_read,                       \* where soup_transfer_read_cb is
  recv_buf, header_len, overwrite_chunks, encoding, content_length,
  chunk_idx, chunk_len, callback_issued, cbs,   \* the SoupReader fields
  log,                                  \* callbacks issued, in order
  buf_fate                              \* recv_buf at teardown

peer_vars == <<msg, sent, closed, chan_err>>
reader_vars == <<recv_buf, header_len, overwrite_chunks, encoding,
                 content_length, chunk_idx, chunk_len, callback_issued, cbs>>
vars == <<peer_vars, rd, pc, total_read, reader_vars, log, buf_fate>>

Terminal == {"gone", "aborted"}
EndChoices == IF AppMayEnd THEN BOOLEAN ELSE {FALSE}

-----------------------------------------------------------------------------
(***************************************************************************)
(* decode_chunk: each pass over the loop needs the rest of the current     *)
(* chunk and five more bytes, and a CRLF after the size line; it strips    *)
(* the CRLF that ends the previous chunk body, decodes the size, advances  *)
(* idx past the finished chunk and cuts the size line (and, for the       *)
(* zero chunk, the two bytes after it) out of the buffer.  fails is a     *)
(* g_assert going off: decode_chunk's on a negative size, or               *)
(* remove_block_at_index's on a cut past the end.                          *)
(***************************************************************************)
RECURSIVE DecodeLoop(_), DecodeCut(_, _, _)

(* One pass once the size line is there: a1 is the buffer with the        *)
(* previous body's CRLF removed and hex the decoded size at idx + len.     *)
DecodeCut(st, a1, hex) ==
  LET idx2 == st.idx + st.len
      line == hex.width + SubstringIndex(a1, idx2 + hex.width,
                                         Len(a1) - idx2 - hex.width, CRLF)
      cut  == (IF hex.value = 0 THEN line + 2 ELSE line) + 2
  IN IF hex.value < 0 \/ RemoveBlockFails(a1, idx2, cut)
     THEN [st EXCEPT !.fails = TRUE]
     ELSE DecodeLoop([arr |-> RemoveBlockAtIndex(a1, idx2, cut),
                      idx |-> idx2, len |-> hex.value,
                      datalen |-> st.datalen + st.len,
                      ret |-> st.ret \/ hex.value = 0,
                      fails |-> FALSE])

DecodeLoop(st) ==
  LET arr == st.arr
      p   == st.idx + st.len
      sizeLineEnd == IF st.len # 0
                     THEN SubstringIndex(arr, p + 2, Len(arr) - p - 2, CRLF)
                     ELSE SubstringIndex(arr, 0, Len(arr), CRLF)
      a1  == IF st.len # 0 THEN RemoveBlockAtIndex(arr, p, 2) ELSE arr
  IN IF p + 5 > Len(arr) \/ sizeLineEnd <= 0 THEN st
     ELSE DecodeCut(st, a1, DecodeHex(a1, p))

DecodeChunk(arr, idx, len) ==
  DecodeLoop([arr |-> arr, idx |-> idx, len |-> len, datalen |-> 0,
              ret |-> FALSE, fails |-> FALSE])

(***************************************************************************)
(* The body steps.  Each returns the reader fields it leaves behind, the   *)
(* value it returns (done), whether the chunk callback returned END        *)
(* (cancelled), and the callbacks it issued (ev).  end is what the chunk   *)
(* callback returns if it is called.                                       *)
(***************************************************************************)
ChunkEvent(data, end) == [cb |-> "chunk", data |-> data, ended |-> end]

(* issue_chunk_callback: called only when installed and len # 0.           *)
ChunkCalled(len) == "chunk" \in cbs /\ len # 0

(* read_chunk after decode_chunk returned d.                               *)
ChunkStep(d, clen, end) ==
  LET called == ChunkCalled(d.idx)
      cancel == called /\ end
      drop   == overwrite_chunks /\ ~cancel
  IN [arr    |-> IF d.datalen # 0 /\ drop
                 THEN RemoveBlockAtIndex(d.arr, 0, d.idx) ELSE d.arr,
      idx    |-> IF d.datalen # 0 /\ drop THEN 0 ELSE d.idx,
      len    |-> d.len,
      clen   |-> clen,
      done   |-> d.ret,
      fails  |-> d.fails,
      cancelled |-> d.datalen # 0 /\ cancel,
      issued |-> d.datalen # 0 /\ called,
      ev     |-> IF d.datalen # 0 /\ called
                 THEN <<ChunkEvent(SubSeq(d.arr, 1, d.idx), end)>> ELSE <<>>]

(* read_chunk *)
ReadChunk(arr, clen, end) ==
  ChunkStep(DecodeChunk(arr, chunk_idx, chunk_len), clen, end)

(* Mutant: the body counts as complete one byte early.                   *)
ReadContentLengthEarlyDone(arr, clen, end) ==
  LET called == ChunkCalled(Len(arr))
      cancel == called /\ end
      drop   == Len(arr) # 0 /\ overwrite_chunks /\ ~cancel
      arr2   == IF drop THEN <<>> ELSE arr
      clen2  == IF drop THEN clen - Len(arr) ELSE clen
  IN [arr |-> arr2, idx |-> chunk_idx, len |-> chunk_len, clen |-> clen2,
      done |-> clen2 <= Len(arr2) + 1, fails |-> FALSE,
      cancelled |-> cancel, issued |-> called,
      ev |-> IF called THEN <<ChunkEvent(arr, end)>> ELSE <<>>]

(* read_content_length.  content_length is a guint: once a peer sends    *)
(* more than it declared, clen - Len(arr) goes below zero, and a negative *)
(* value r stands for the wrapped 2^32 + r.  Such a value never equals a  *)
(* buffer length, just as the wrapped guint does not.                     *)
ReadContentLength(arr, clen, end) ==
  LET called == ChunkCalled(Len(arr))
      cancel == called /\ end
      drop   == Len(arr) # 0 /\ overwrite_chunks /\ ~cancel
      arr2   == IF drop THEN <<>> ELSE arr
      clen2  == IF drop THEN clen - Len(arr) ELSE clen
  IN [arr |-> arr2, idx |-> chunk_idx, len |-> chunk_len, clen |-> clen2,
      done |-> clen2 = Len(arr2), fails |-> FALSE,
      cancelled |-> cancel, issued |-> called,
      ev |-> IF called THEN <<ChunkEvent(arr, end)>> ELSE <<>>]

(* read_unknown: keeps reading until a zero read or HUP.                   *)
ReadUnknown(arr, clen, end) ==
  LET called == ChunkCalled(Len(arr))
      cancel == called /\ end
      drop   == Len(arr) # 0 /\ overwrite_chunks /\ ~cancel
  IN [arr |-> IF drop THEN <<>> ELSE arr, idx |-> chunk_idx,
      len |-> chunk_len, clen |-> clen,
      done |-> FALSE, fails |-> FALSE,
      cancelled |-> cancel, issued |-> called,
      ev |-> IF called THEN <<ChunkEvent(arr, end)>> ELSE <<>>]

(* Mutant: a zero read is not taken as the end of the body.               *)
BodyStepNoEof(arr, enc, clen, end) ==
  CASE enc = "chunked"        -> ReadChunk(arr, clen, end)
    [] enc = "content_length" -> ReadContentLength(arr, clen, end)
    [] enc = "unknown"        -> ReadUnknown(arr, clen, end)

(* The switch on r->encoding, or read_done = TRUE after a zero read.       *)
BodyStep(arr, enc, clen, end) ==
  IF total_read = 0
  THEN [arr |-> arr, idx |-> chunk_idx, len |-> chunk_len,
        clen |-> clen, done |-> TRUE, fails |-> FALSE,
        cancelled |-> FALSE, issued |-> FALSE, ev |-> <<>>]
  ELSE CASE enc = "chunked"        -> ReadChunk(arr, clen, end)
         [] enc = "content_length" -> ReadContentLength(arr, clen, end)
         [] enc = "unknown"        -> ReadUnknown(arr, clen, end)

-----------------------------------------------------------------------------
(***************************************************************************)
(* soup_transfer_read_cancel: removes both watches and frees the reader;   *)
(* recv_buf's data is freed only if no callback was ever handed it.        *)
(* Called only while processing is FALSE, so never suppressed here.        *)
(***************************************************************************)
(* Mutant: the cancel is suppressed (processing still set).               *)
TeardownSuppressed(issued) ==
  /\ pc' = "idle"
  /\ buf_fate' = buf_fate

Teardown(issued) ==
  /\ pc' = "gone"
  /\ buf_fate' = IF issued THEN "kept" ELSE "freed"

(* Mutant: the length handed to done includes the appended NUL.           *)
FinalEventWithNul(arr) ==
  IF "done" \in cbs THEN <<[cb |-> "done", data |-> arr \o <<"NUL">>]>> ELSE <<>>

(* issue_final_callback: NUL-terminates recv_buf and hands the done       *)
(* callback the buffer without the NUL (len - 1).                          *)
FinalEvent(arr) ==
  IF "done" \in cbs THEN <<[cb |-> "done", data |-> arr]>> ELSE <<>>

FinalIssued(issued) == issued \/ "done" \in cbs

(***************************************************************************)
(* soup_transfer_read_error_cb: with encoding still unknown the close is   *)
(* the end of the body and the final callback is issued; otherwise the     *)
(* error callback gets body_started = recv_buf->len > header_len.  Then    *)
(* the reader is cancelled.  seen records whether body bytes had in fact   *)
(* been read, for the property about body_started.                        *)
(***************************************************************************)
ReadErrorCb ==
  LET started == Len(recv_buf) > header_len
      seen    == header_len > 0 /\ rd > header_len
  IN /\ IF encoding = "unknown"
          THEN /\ log' = log \o FinalEvent(recv_buf)
               /\ callback_issued' = FinalIssued(callback_issued)
               /\ Teardown(FinalIssued(callback_issued))
          ELSE /\ log' = log \o (IF "error" \in cbs
                                 THEN <<[cb |-> "error", started |-> started,
                                         seen |-> seen]>>
                                 ELSE <<>>)
               /\ UNCHANGED callback_issued
               /\ Teardown(callback_issued)
     /\ UNCHANGED <<peer_vars, rd, total_read, recv_buf, header_len,
                    overwrite_chunks, encoding, content_length, chunk_idx,
                    chunk_len, cbs>>

-----------------------------------------------------------------------------
(* soup_transfer_read: a fresh reader with both watches armed.             *)
Init ==
  /\ msg \in Messages
  /\ sent = 0 /\ closed = FALSE /\ chan_err = FALSE
  /\ rd = 0
  /\ pc = "idle" /\ total_read = 0
  /\ recv_buf = <<>> /\ header_len = 0
  /\ overwrite_chunks \in OverwriteModes
  /\ encoding = "unknown" /\ content_length = 0
  /\ chunk_idx = 0 /\ chunk_len = 0
  /\ callback_issued = FALSE
  /\ cbs \in CallbackSets
  /\ log = <<>>
  /\ buf_fate = "live"

(* The G_IO_IN watch fires: the socket has bytes, is at EOF or in error.   *)
ReadDispatch ==
  /\ pc = "idle"
  /\ rd < sent \/ closed \/ chan_err
  /\ pc' = "read" /\ total_read' = 0
  /\ UNCHANGED <<peer_vars, rd, reader_vars, log, buf_fate>>

(***************************************************************************)
(* READ_AGAIN: one g_io_channel_read of at most BlockSize bytes.  An error *)
(* with nothing read this time round goes to the error handler; EOF (a    *)
(* zero read) and AGAIN after some bytes go to PROCESS_READ; AGAIN with    *)
(* nothing read returns TRUE to the main loop.                             *)
(***************************************************************************)
ChannelRead ==
  /\ pc = "read"
  /\ \/ /\ chan_err
        /\ total_read = 0
        /\ ReadErrorCb
     \/ /\ chan_err
        /\ total_read # 0
        /\ pc' = "process"
        /\ UNCHANGED <<peer_vars, rd, total_read, reader_vars, log, buf_fate>>
     \/ /\ ~chan_err /\ rd < sent
        /\ LET n == IF sent - rd < BlockSize THEN sent - rd ELSE BlockSize
           IN /\ recv_buf' = recv_buf \o SubSeq(msg.wire, rd + 1, rd + n)
              /\ rd' = rd + n
              /\ total_read' = total_read + n
        /\ UNCHANGED <<peer_vars, pc, header_len, overwrite_chunks, encoding,
                       content_length, chunk_idx, chunk_len, callback_issued,
                       cbs, log, buf_fate>>
     \/ /\ ~chan_err /\ rd = sent
        /\ pc' = IF closed \/ total_read # 0 THEN "process" ELSE "idle"
        /\ UNCHANGED <<peer_vars, rd, total_read, reader_vars, log, buf_fate>>

(***************************************************************************)
(* PROCESS_READ to the end of soup_transfer_read_cb.  While header_len is *)
(* 0 the buffer is scanned for CRLFCRLF; the headers callback (hEnd is    *)
(* what it returns) sets encoding and content_length from the headers it  *)
(* parses.  Then the body step for the encoding runs (cEnd is what the    *)
(* chunk callback returns); END cancels, an unfinished body goes back to  *)
(* READ_AGAIN, a finished one gets the final callback and is cancelled.   *)
(***************************************************************************)
Process ==
  /\ pc = "process"
  /\ \E hEnd, cEnd \in EndChoices :
     LET scanning == header_len = 0
         hidx  == SubstringIndex(recv_buf, 0, Len(recv_buf), CRLFCRLF)
         hcb   == scanning /\ "headers" \in cbs
         hev   == IF hcb THEN <<[cb |-> "headers", ended |-> hEnd]>> ELSE <<>>
         enc1  == IF hcb THEN msg.enc ELSE encoding
         clen1 == IF hcb /\ msg.enc = "content_length"
                  THEN msg.clen ELSE content_length
         buf1  == IF scanning THEN RemoveBlockAtIndex(recv_buf, 0, hidx + 4)
                  ELSE recv_buf
     IN \/ /\ scanning /\ hidx < 0
           /\ pc' = "idle"
           /\ UNCHANGED <<total_read, reader_vars, log, buf_fate>>
        \/ /\ scanning /\ hidx >= 0 /\ hcb /\ hEnd
           /\ log' = log \o hev
           /\ Teardown(callback_issued)
           /\ UNCHANGED <<total_read, reader_vars>>
        \/ /\ ~scanning \/ (hidx >= 0 /\ ~(hcb /\ hEnd))
           /\ header_len' = IF scanning THEN hidx + 4 ELSE header_len
           /\ encoding' = enc1
           /\ \E b \in {BodyStep(buf1, enc1, clen1, cEnd)} :
              LET issued == callback_issued \/ b.issued
              IN /\ content_length' = b.clen
                 /\ recv_buf' = b.arr
                 /\ chunk_idx' = b.idx /\ chunk_len' = b.len
                 /\ CASE b.fails ->
                         /\ pc' = "aborted"
                         /\ log' = log \o hev
                         /\ UNCHANGED <<total_read, callback_issued, buf_fate>>
                    [] b.cancelled ->
                         /\ log' = log \o hev \o b.ev
                         /\ callback_issued' = issued
                         /\ Teardown(issued)
                         /\ UNCHANGED total_read
                    [] ~b.done ->
                         /\ pc' = "read" /\ total_read' = 0
                         /\ log' = log \o hev \o b.ev
                         /\ callback_issued' = issued
                         /\ UNCHANGED buf_fate
                    [] OTHER ->
                         /\ log' = log \o hev \o b.ev \o FinalEvent(b.arr)
                         /\ callback_issued' = FinalIssued(issued)
                         /\ Teardown(FinalIssued(issued))
                         /\ UNCHANGED total_read
           /\ UNCHANGED <<overwrite_chunks, cbs>>
  /\ UNCHANGED <<peer_vars, rd>>

(***************************************************************************)
(* The G_IO_HUP watch fires.  The read watch was added first, so GLib      *)
(* dispatches it first in the same iteration: at EOF the read handler      *)
(* finishes the transfer unless it is still waiting for the end of the     *)
(* headers, and only then may the HUP handler run.  A peer's FIN makes the *)
(* socket readable, not hung up: POLLHUP comes only once both directions   *)
(* are shut (after an RST, say), so the HUP may come or never come.  A     *)
(* channel error is reported to whichever handler runs first; both go to  *)
(* the error handler.                                                      *)
(***************************************************************************)
HupPending ==
  /\ closed /\ rd = sent /\ header_len = 0
  /\ SubstringIndex(recv_buf, 0, Len(recv_buf), CRLFCRLF) < 0

ErrorDispatch ==
  /\ pc = "idle"
  /\ chan_err \/ HupPending
  /\ ReadErrorCb

(* soup_transfer_read_cancel called by the embedder between events (its   *)
(* timeout, or the message being cancelled).                               *)
ExternalCancel ==
  /\ pc = "idle"
  /\ Teardown(callback_issued)
  /\ UNCHANGED <<peer_vars, rd, total_read, reader_vars, log>>

(* soup_transfer_read_set_callbacks between events.                        *)
SetCallbacks ==
  /\ pc = "idle"
  /\ \E c \in CallbackSets \ {cbs} : cbs' = c
  /\ UNCHANGED <<peer_vars, rd, pc, total_read, recv_buf, header_len,
                 overwrite_chunks, encoding, content_length, chunk_idx,
                 chunk_len, callback_issued, log, buf_fate>>

(* The peer: bytes reach the socket in pieces of any size, the peer       *)
(* closes (after the whole message unless PeerMayTruncate), or the        *)
(* connection fails.                                                       *)
PeerSend ==
  /\ pc \notin Terminal
  /\ ~closed /\ ~chan_err
  /\ \E k \in 1..(Len(msg.wire) - sent) : sent' = sent + k
  /\ UNCHANGED <<msg, closed, chan_err, rd, pc, total_read, reader_vars,
                 log, buf_fate>>

PeerClose ==
  /\ pc \notin Terminal
  /\ ~closed /\ ~chan_err
  /\ sent = Len(msg.wire) \/ PeerMayTruncate
  /\ closed' = TRUE
  /\ UNCHANGED <<msg, sent, chan_err, rd, pc, total_read, reader_vars,
                 log, buf_fate>>

ChannelFail ==
  /\ PeerMayFail
  /\ pc \notin Terminal
  /\ ~closed /\ ~chan_err
  /\ chan_err' = TRUE
  /\ UNCHANGED <<msg, sent, closed, rd, pc, total_read, reader_vars,
                 log, buf_fate>>

(* The reader is destroyed, or the process aborted: nothing more happens. *)
Finished ==
  /\ pc \in Terminal
  /\ UNCHANGED vars

Next ==
  \/ ReadDispatch \/ ChannelRead \/ Process \/ ErrorDispatch
  \/ ExternalCancel \/ SetCallbacks
  \/ PeerSend \/ PeerClose \/ ChannelFail
  \/ Finished

(***************************************************************************)
(* The main loop dispatches every ready watch and a handler runs to its   *)
(* return; the peer eventually sends its message and closes.  The        *)
(* embedder's cancel and callback changes are not fair.  Process is       *)
(* enabled exactly when pc = "process" and is the only step that leaves   *)
(* it, so its weak fairness is ProcessRuns, written without ENABLED so    *)
(* that TLC need not re-run the decoder to evaluate it.  ErrorDispatch is *)
(* not fair: nothing makes the socket raise G_IO_HUP after a FIN, and a   *)
(* channel error also makes ReadDispatch and ChannelRead reach the error  *)
(* handler.                                                                *)
(***************************************************************************)
ProcessRuns == [](pc = "process" => <>(pc # "process"))

Fairness ==
  /\ WF_vars(ReadDispatch) /\ WF_vars(ChannelRead) /\ ProcessRuns
  /\ WF_vars(PeerSend) /\ WF_vars(PeerClose)

Spec == Init /\ [][Next]_vars /\ Fairness

-----------------------------------------------------------------------------
(* The bytes the messages use, and the shape of what the model records.   *)
Bytes == UNION {ToSet(m.wire) : m \in Messages}

Event ==
       [cb : {"headers"}, ended : BOOLEAN]
  \cup [cb : {"chunk"}, data : Seq(Bytes), ended : BOOLEAN]
  \cup [cb : {"done"}, data : Seq(Bytes)]
  \cup [cb : {"error"}, started : BOOLEAN, seen : BOOLEAN]

TypeOK ==
  /\ msg \in Messages
  /\ sent \in 0..Len(msg.wire) /\ rd \in 0..sent
  /\ closed \in BOOLEAN /\ chan_err \in BOOLEAN
  /\ pc \in {"idle", "read", "process"} \cup Terminal
  /\ total_read \in 0..rd
  /\ recv_buf \in Seq(Bytes)
  /\ header_len \in Nat /\ content_length \in Int
  /\ overwrite_chunks \in BOOLEAN /\ encoding \in Encodings
  /\ chunk_idx \in Nat /\ chunk_len \in Nat
  /\ callback_issued \in BOOLEAN /\ cbs \in CallbackSets
  /\ log \in Seq(Event)
  /\ buf_fate \in {"live", "freed", "kept"}

(* The data handed to the chunk callback, in order.                        *)
Chunks == LET cs == SelectSeq(log, LAMBDA e : e.cb = "chunk")
          IN [i \in 1..Len(cs) |-> cs[i].data]

-----------------------------------------------------------------------------
(***************************************************************************)
(* Chunk callbacks only ever see body bytes, in order: with              *)
(* overwrite_chunks their concatenation is a prefix of the decoded body    *)
(* (read_chunk, read_content_length and read_unknown drop what they       *)
(* delivered); without it each one is the whole body so far, a prefix of  *)
(* the body longer than the one before.  Chunk framing leaking into the   *)
(* data, a block removed at the wrong offset or a stale chunk index all   *)
(* break it, whatever the split of the stream into reads.                  *)
(***************************************************************************)
ChunkDeliveryFaithful ==
  LET cs == Chunks
  IN IF overwrite_chunks
     THEN IsPrefix(FlattenSeq(cs), msg.body)
     ELSE \A i \in 1..Len(cs) :
            /\ IsPrefix(cs[i], msg.body)
            /\ i > 1 => IsStrictPrefix(cs[i - 1], cs[i])

(***************************************************************************)
(* The done callback (issue_final_callback) completes the body: without   *)
(* overwrite_chunks it is handed the whole decoded body, with it the      *)
(* chunks delivered before and the buffer handed to done make up the      *)
(* body (spec section 8, first invariant) -- whenever the peer sent the   *)
(* whole message and the channel did not fail.                            *)
(***************************************************************************)
DoneDeliversBody ==
  \A i \in 1..Len(log) :
    (log[i].cb = "done" /\ sent = Len(msg.wire) /\ ~chan_err) =>
      (IF overwrite_chunks THEN FlattenSeq(Chunks) \o log[i].data
       ELSE log[i].data) = msg.body

(***************************************************************************)
(* Once the headers declared a length or chunked framing, the done        *)
(* callback means the whole declared body arrived: a peer that closes     *)
(* early must get the error callback, as a hangup does (spec 4.4: a zero  *)
(* read is treated the same as hangup; 7: PeerClosed is an error unless   *)
(* the encoding is unknown).                                               *)
(***************************************************************************)
DeclaredBodyComplete ==
  \A i \in 1..Len(log) :
    (log[i].cb = "done" /\ encoding # "unknown") =>
      (IF overwrite_chunks THEN FlattenSeq(Chunks) \o log[i].data
       ELSE log[i].data) = msg.body

(***************************************************************************)
(* The callback contract of soup_transfer_read_cb and _error_cb: the      *)
(* headers callback comes first and once, and nothing follows the done or *)
(* error callback, or a callback that returned SOUP_TRANSFER_END.          *)
(***************************************************************************)
CallbackProtocol ==
  \A i \in 1..Len(log) :
    /\ log[i].cb = "headers" => i = 1
    /\ (log[i].cb \in {"done", "error"}
        \/ (log[i].cb \in {"headers", "chunk"} /\ log[i].ended))
       => i = Len(log)

(***************************************************************************)
(* remove_block_at_index's g_assert never fires: the decoder never cuts   *)
(* more bytes than the buffer holds, however the stream is split.          *)
(***************************************************************************)
NoAbort == pc # "aborted"

(***************************************************************************)
(* soup_transfer_read_cancel keeps recv_buf's data exactly when the done  *)
(* callback took it over: otherwise it is freed (no leak), and it is never *)
(* freed under a done callback that owns it.                               *)
(***************************************************************************)
BufferOwnership ==
  pc = "gone" =>
    (buf_fate = "kept" <=> \E i \in 1..Len(log) : log[i].cb = "done")

(***************************************************************************)
(* The error callback's body_started says whether body bytes had been     *)
(* read (spec section 6: "was body already started").                     *)
(***************************************************************************)
ErrorBodyStarted ==
  \A i \in 1..Len(log) :
    log[i].cb = "error" => (log[i].started <=> log[i].seen)

(***************************************************************************)
(* A transfer ends once the peer has sent the end of the header block or *)
(* the channel has failed: the reader is eventually destroyed (or the      *)
(* process aborts), through split reads, decoder restarts, zero reads at   *)
(* EOF and callbacks that return END.                                      *)
(***************************************************************************)
HeaderEndSent ==
  SubstringIndex(SubSeq(msg.wire, 1, sent), 0, sent, CRLFCRLF) >= 0

Termination == (HeaderEndSent \/ chan_err) ~> (pc \in Terminal)


-----------------------------------------------------------------------------
(***************************************************************************)
(* The refinement mapping onto SoupReceiver.  A body read with unknown     *)
(* framing is the raw bytes after the header block; the headers stage is  *)
(* over once header_len is set or the headers callback ran; the peer has  *)
(* hung up once it closed or the channel failed; body bytes have been     *)
(* read once more than the header block was read.                          *)
(***************************************************************************)
RawBody == LET h == SubstringIndex(msg.wire, 0, Len(msg.wire), CRLFCRLF)
           IN SubSeq(msg.wire, h + 5, Len(msg.wire))

BodyAs(e) == IF e = msg.enc THEN msg.body
             ELSE IF e = "unknown" THEN RawBody ELSE <<>>

Observed(e) == IF e.cb = "error" THEN [cb |-> "error", started |-> e.started]
               ELSE e

BufferState == CASE buf_fate = "live"  -> "live"
                 [] buf_fate = "kept"  -> "taken"
                 [] buf_fate = "freed" -> "freed"

Receiver == INSTANCE SoupReceiver WITH
  bodies    <- [e \in Encodings |-> BodyAs(e)],
  overwrite <- overwrite_chunks,
  told      <- header_len > 0 \/ (log # <<>> /\ log[1].cb = "headers"),
  enc       <- encoding,
  hup       <- closed \/ chan_err,
  seen      <- header_len > 0 /\ rd > header_len,
  log       <- [i \in DOMAIN log |-> Observed(log[i])],
  gone      <- pc = "gone",
  buffer    <- BufferState

=============================================================================
