------------------------------ MODULE SoupWriter ------------------------------
(***************************************************************************)
(* The writer of soup-transfer.c: soup_transfer_write, the G_IO_OUT        *)
(* handler soup_transfer_write_cb, the G_IO_HUP|ERR handler                *)
(* soup_transfer_write_error_cb, write_chunk / write_chunk_sep and         *)
(* soup_transfer_write_cancel.                                             *)
(*                                                                         *)
(* The handler loops: drain write_buf with g_io_channel_write, then ask    *)
(* the producer (write_chunk_cb) for more, until the producer ends.  The   *)
(* kernel takes any number of bytes per write, or none (AGAIN); the peer   *)
(* may fail the connection.  wire is what the peer has received.           *)
(***************************************************************************)
EXTENDS Integers, Sequences, FiniteSets, SequencesExt, SoupBytes

CONSTANTS
  Header,            \* the header GString given to soup_transfer_write
  Encodings,         \* SOUP_TRANSFER_CONTENT_LENGTH and/or _CHUNKED
  InitialBodies,     \* the src buffer given to soup_transfer_write
  ProducerResults,   \* [buf, ret]: what write_chunk_cb may hand back
  HasProducer,       \* whether a write_chunk_cb is installed
  MaxCalls,          \* bound on producer calls, after which it ends
  PeerMayFail,       \* the connection may fail (HUP/ERR, write error)
  CallbacksSetErrno  \* a callback may leave errno non-zero

ASSUME Encodings \subseteq {"content_length", "chunked"}
ASSUME \A r \in ProducerResults : r.ret \in {"continue", "end"}
ASSUME [buf |-> <<>>, ret |-> "end"] \in ProducerResults
ASSUME MaxCalls \in Nat \ {0}

VARIABLES
  wire, chan_err,                         \* the peer and the socket
  pc, errno_set,                          \* soup_transfer_write_cb
  write_buf, header_len, headers_done, chunk_cnt, encoding,
  chunk_cb,                               \* the SoupWriter fields
  calls, produced, log                    \* what the producer did, callbacks

writer_vars == <<write_buf, header_len, headers_done, chunk_cnt, encoding,
                 chunk_cb>>
vars == <<wire, chan_err, pc, errno_set, writer_vars, calls, produced, log>>

(* What a producer call may return: once MaxCalls calls were made, the    *)
(* producer has nothing left and returns SOUP_TRANSFER_END with no data.  *)
Results == IF calls < MaxCalls THEN ProducerResults
           ELSE {r \in ProducerResults : r.ret = "end" /\ r.buf = <<>>}

ErrnoChoices == IF CallbacksSetErrno THEN BOOLEAN ELSE {FALSE}

-----------------------------------------------------------------------------
(* "%x": the lower-case hex digits of n.                                   *)
HexDigit(v) == CHOOSE d \in {"0","1","2","3","4","5","6","7","8","9",
                             "a","b","c","d","e","f"} : HexVal[d] = v

RECURSIVE ToHex(_)
ToHex(n) == IF n < 16 THEN <<HexDigit(n)>>
            ELSE ToHex(n \div 16) \o <<HexDigit(n % 16)>>

(***************************************************************************)
(* write_chunk_sep (arr, len, first_chunk): "%x\r\n" when first_chunk is   *)
(* non-zero, "\r\n%x\r\n" when it is zero, and "\r\n0\r\n" for len = 0.   *)
(***************************************************************************)
(* Mutant: the separator is appended with its terminating NUL.            *)
ChunkSepWithNul(len, first_chunk) ==
  IF len # 0
  THEN IF first_chunk # 0 THEN ToHex(len) \o CRLF \o <<"NUL">>
       ELSE CRLF \o ToHex(len) \o CRLF \o <<"NUL">>
  ELSE <<CR, LF, "0", CR, LF, "NUL">>

ChunkSep(len, first_chunk) ==
  IF len # 0
  THEN IF first_chunk # 0 THEN ToHex(len) \o CRLF
       ELSE CRLF \o ToHex(len) \o CRLF
  ELSE <<CR, LF, "0", CR, LF>>

(***************************************************************************)
(* write_chunk: with chunked encoding the separator goes first, called     *)
(* with first_chunk = w->chunk_cnt, and chunk_cnt counts the chunk.        *)
(***************************************************************************)
WriteChunk(buf, cnt, enc, body) ==
  IF enc = "chunked"
  THEN [buf |-> buf \o ChunkSep(Len(body), cnt) \o body, cnt |-> cnt + 1]
  ELSE [buf |-> buf \o body, cnt |-> cnt]

(* soup_transfer_write_cancel: the writer and write_buf are freed.         *)
Teardown == pc' = "gone"

(* Mutant of the headers check: the once-only guard dropped.              *)
HeadersFireEveryTime(k) == k >= header_len

(* The headers check: not yet done, and this write covered header_len.   *)
HeadersFire(k) == ~headers_done /\ k >= header_len

(* soup_transfer_write_error_cb: error_cb (headers_done), then cancel.     *)
WriteErrorCb ==
  /\ log' = Append(log, [cb |-> "error", headers |-> headers_done,
                         sent |-> Len(wire) >= header_len])
  /\ Teardown

-----------------------------------------------------------------------------
(***************************************************************************)
(* soup_transfer_write: the header and the src body are queued; an        *)
(* installed producer is called once, its buffer queued, and on END it is  *)
(* dropped (write_chunk_cb = NULL) and the chunked terminator queued.      *)
(***************************************************************************)
Init ==
  /\ wire = <<>> /\ chan_err = FALSE
  /\ pc = "idle" /\ errno_set = FALSE
  /\ header_len = Len(Header) /\ headers_done = FALSE
  /\ encoding \in Encodings
  /\ \E src \in InitialBodies, has \in HasProducer, r \in ProducerResults :
       LET w0 == IF src # <<>> THEN WriteChunk(Header, 0, encoding, src)
                 ELSE [buf |-> Header, cnt |-> 0]
           w1 == IF has /\ r.buf # <<>>
                 THEN WriteChunk(w0.buf, w0.cnt, encoding, r.buf) ELSE w0
           ends == has /\ r.ret = "end"
       IN /\ write_buf = IF ends /\ encoding = "chunked"
                         THEN w1.buf \o ChunkSep(0, w1.cnt) ELSE w1.buf
          /\ chunk_cnt = w1.cnt
          /\ chunk_cb = (has /\ ~ends)
          /\ calls = IF has THEN 1 ELSE 0
          /\ produced = (IF src # <<>> THEN <<src>> ELSE <<>>)
                        \o (IF has /\ r.buf # <<>> THEN <<r.buf>> ELSE <<>>)
          /\ log = IF has THEN <<[cb |-> "chunk", ret |-> r.ret]>> ELSE <<>>

(* Mutant: the handler is only run while bytes are queued, so a producer  *)
(* that had nothing yet is never asked again.                              *)
WriteDispatchOnlyQueued ==
  /\ pc = "idle" /\ write_buf # <<>>
  /\ pc' = "drain" /\ errno_set' = FALSE
  /\ UNCHANGED <<wire, chan_err, writer_vars, calls, produced, log>>

(* The G_IO_OUT watch fires: IGNORE_PIPE and errno = 0.                    *)
WriteDispatch ==
  /\ pc = "idle"
  /\ pc' = "drain" /\ errno_set' = FALSE
  /\ UNCHANGED <<wire, chan_err, writer_vars, calls, produced, log>>

(***************************************************************************)
(* One g_io_channel_write of k > 0 bytes.  errno is checked even when the  *)
(* write succeeded; otherwise the headers callback fires once a single     *)
(* write of at least header_len bytes is seen, and the written prefix is  *)
(* removed from write_buf.                                                 *)
(***************************************************************************)
WriteBytes ==
  /\ pc = "drain" /\ write_buf # <<>> /\ ~chan_err
  /\ \E k \in 1..Len(write_buf), e \in ErrnoChoices :
       /\ wire' = wire \o SubSeq(write_buf, 1, k)
       /\ IF errno_set
          THEN /\ WriteErrorCb
               /\ UNCHANGED <<writer_vars, errno_set>>
          ELSE LET fire == HeadersFire(k)
               IN /\ log' = IF fire THEN Append(log, [cb |-> "headers"])
                            ELSE log
                  /\ headers_done' = (headers_done \/ fire)
                  /\ errno_set' = (fire /\ e)
                  /\ write_buf' = RemoveBlockAtIndex(write_buf, 0, k)
                  /\ UNCHANGED <<pc, header_len, chunk_cnt, encoding, chunk_cb>>
  /\ UNCHANGED <<chan_err, calls, produced>>

(* G_IO_ERROR_AGAIN, or a write of zero bytes: return TRUE (TRY_AGAIN).   *)
WriteBlocked ==
  /\ pc = "drain" /\ write_buf # <<>> /\ ~chan_err
  /\ pc' = "idle"
  /\ UNCHANGED <<wire, chan_err, errno_set, writer_vars, calls, produced, log>>

(* The write fails: soup_transfer_write_error_cb.                         *)
WriteFails ==
  /\ pc = "drain" /\ write_buf # <<>> /\ chan_err
  /\ WriteErrorCb
  /\ UNCHANGED <<wire, chan_err, errno_set, writer_vars, calls, produced>>

(***************************************************************************)
(* write_buf is empty.  The producer, if installed, is called: a non-empty *)
(* buffer is queued and the loop drains again; an empty one with CONTINUE *)
(* returns TRUE; END queues the chunked terminator.  Then, with no        *)
(* producer or after END, write_done_cb is called and the writer         *)
(* cancelled, whatever write_buf still holds.                             *)
(***************************************************************************)
Produce ==
  /\ pc = "drain" /\ write_buf = <<>>
  /\ \/ /\ chunk_cb
        /\ \E r \in Results, e \in ErrnoChoices :
             LET called == Append(log, [cb |-> "chunk", ret |-> r.ret])
                 w == WriteChunk(write_buf, chunk_cnt, encoding, r.buf)
             IN /\ calls' = calls + 1
                /\ errno_set' = (errno_set \/ e)
                /\ CASE r.buf # <<>> ->
                          /\ write_buf' = w.buf /\ chunk_cnt' = w.cnt
                          /\ produced' = Append(produced, r.buf)
                          /\ log' = called
                          /\ UNCHANGED pc
                     [] r.ret = "continue" ->
                          /\ pc' = "idle" /\ log' = called
                          /\ UNCHANGED <<write_buf, chunk_cnt, produced>>
                     [] OTHER ->
                          /\ write_buf' = IF encoding = "chunked"
                                          THEN ChunkSep(0, chunk_cnt)
                                          ELSE write_buf
                          /\ log' = Append(called, [cb |-> "done"])
                          /\ Teardown
                          /\ UNCHANGED <<chunk_cnt, produced>>
     \/ /\ ~chunk_cb
        /\ log' = Append(log, [cb |-> "done"])
        /\ Teardown
        /\ UNCHANGED <<write_buf, chunk_cnt, calls, produced, errno_set>>
  /\ UNCHANGED <<wire, chan_err, header_len, headers_done, encoding, chunk_cb>>

(* The HUP/ERR watch fires between handler runs.                          *)
ErrorDispatch ==
  /\ pc = "idle" /\ chan_err
  /\ WriteErrorCb
  /\ UNCHANGED <<wire, chan_err, errno_set, writer_vars, calls, produced>>

(* soup_transfer_write_cancel called by the embedder between events.      *)
ExternalCancel ==
  /\ pc = "idle"
  /\ Teardown
  /\ UNCHANGED <<wire, chan_err, errno_set, writer_vars, calls, produced, log>>

(* The peer hangs up or the connection breaks.                            *)
PeerFail ==
  /\ PeerMayFail /\ pc # "gone" /\ ~chan_err
  /\ chan_err' = TRUE
  /\ UNCHANGED <<wire, pc, errno_set, writer_vars, calls, produced, log>>

Finished ==
  /\ pc = "gone"
  /\ UNCHANGED vars

Next ==
  \/ WriteDispatch \/ WriteBytes \/ WriteBlocked \/ WriteFails \/ Produce
  \/ ErrorDispatch \/ ExternalCancel \/ PeerFail \/ Finished

(***************************************************************************)
(* The main loop dispatches the ready watches and the handler runs to its *)
(* return.  A blocked socket is retried each time it turns writable, and  *)
(* a live peer drains it, so a write that makes progress cannot be        *)
(* refused forever: WriteBytes is strongly fair.  The HUP watch fires in  *)
(* every iteration it is ready.                                            *)
(***************************************************************************)
Fairness ==
  /\ WF_vars(WriteDispatch) /\ SF_vars(WriteBytes) /\ WF_vars(WriteFails)
  /\ WF_vars(Produce) /\ SF_vars(ErrorDispatch)

Spec == Init /\ [][Next]_vars /\ Fairness

-----------------------------------------------------------------------------
(***************************************************************************)
(*                              Properties                                 *)
(***************************************************************************)
Bytes == {b : b \in DOMAIN HexVal} \cup {CR, LF, "h", "s", "a", "b"}

Event == [cb : {"headers", "done"}]
         \cup [cb : {"chunk"}, ret : {"continue", "end"}]
         \cup [cb : {"error"}, headers : BOOLEAN, sent : BOOLEAN]

TypeOK ==
  /\ wire \in Seq(Bytes) /\ write_buf \in Seq(Bytes)
  /\ pc \in {"idle", "drain", "gone"}
  /\ {chan_err, errno_set, headers_done, chunk_cb} \subseteq BOOLEAN
  /\ header_len = Len(Header) /\ encoding \in Encodings
  /\ chunk_cnt \in 0..Len(produced) /\ calls \in 0..MaxCalls + 1
  /\ produced \in Seq(Seq(Bytes) \ {<<>>}) /\ log \in Seq(Event)

Ended == \E i \in DOMAIN log : log[i].cb \in {"done", "error"}

(***************************************************************************)
(* With content-length encoding the peer receives exactly the header and  *)
(* the bodies in the order they were queued, through any split of the     *)
(* buffer into partial writes, and write_done_cb fires only once all of   *)
(* it is on the wire.                                                      *)
(***************************************************************************)
ContentLengthWire ==
  encoding = "content_length" =>
    /\ IsPrefix(wire, Header \o FlattenSeq(produced))
    /\ (\E i \in DOMAIN log : log[i].cb = "done")
         => wire = Header \o FlattenSeq(produced)

(***************************************************************************)
(* The writer's callbacks follow the contract: headers_done_cb at most    *)
(* once, and nothing after write_done_cb or error_cb (the writer is       *)
(* cancelled right after either).                                          *)
(***************************************************************************)
WriterCallbackProtocol ==
  /\ Cardinality({i \in DOMAIN log : log[i].cb = "headers"}) <= 1
  /\ \A i \in DOMAIN log :
       log[i].cb \in {"done", "error"} => i = Len(log)

(* Every write ends: the producer stops, the channel fails, or the       *)
(* embedder cancels, and the writer is freed.                             *)
Termination == <>(pc = "gone")

(***************************************************************************)
(* Section 7 of the specification: a chunked writer sends                  *)
(* header || frame(b1) || ... || frame(bn) || "0\r\n\r\n", where the first *)
(* frame is "<hex>\r\n" b1 and every later one "\r\n<hex>\r\n" bi, and the  *)
(* terminator follows the last body's "\r\n" when there was a chunk.       *)
(***************************************************************************)
SpecFrame(body, first) ==
  (IF first THEN <<>> ELSE CRLF) \o ToHex(Len(body)) \o CRLF \o body

SpecChunkedWire(bodies) ==
  Header \o FlattenSeq([i \in DOMAIN bodies |-> SpecFrame(bodies[i], i = 1)])

SpecTerminator(n) == (IF n > 0 THEN CRLF ELSE <<>>) \o <<"0">> \o CRLFCRLF

(* The chunk frames on the wire are those of section 4.6: no leading CRLF *)
(* before the first chunk, one before each later chunk.                   *)
ChunkFraming ==
  encoding = "chunked" =>
    IsPrefix(wire, SpecChunkedWire(produced)
                   \o SpecTerminator(Len(produced)))

(* When write_done_cb fires for a chunked body, the peer has received the *)
(* terminating zero-length chunk: the wire ends with "0\r\n\r\n".         *)
TerminatorSent ==
  (encoding = "chunked" /\ \E i \in DOMAIN log : log[i].cb = "done")
    => /\ Len(wire) >= 5
       /\ SubSeq(wire, Len(wire) - 4, Len(wire)) = <<"0">> \o CRLFCRLF

(* Once write_chunk_cb returned SOUP_TRANSFER_END it is not called again. *)
ProducerEndIsFinal ==
  \A i, j \in DOMAIN log :
    (i < j /\ log[i] = [cb |-> "chunk", ret |-> "end"]) => log[j].cb # "chunk"

(***************************************************************************)
(* Section 4.5: the first time the cumulative drained bytes reach          *)
(* header_len, headers_done_cb fires; so once the header is on the wire   *)
(* (and the writer has not failed) headers_done holds.                    *)
(***************************************************************************)
HeadersReportedWhenSent ==
  (Len(wire) >= header_len /\ ~\E i \in DOMAIN log : log[i].cb = "error")
    => headers_done

(* error_cb is only called when the channel really failed.               *)
NoSpuriousError ==
  \A i \in DOMAIN log : log[i].cb = "error" => chan_err


(***************************************************************************)
(* The writer as an implementation of SoupSender.  What it owes the peer   *)
(* is the header and the bodies, as they are with content-length and in   *)
(* section 4.6's frames when chunked, followed by the terminator once the  *)
(* producer ended.  The producer has ended when it returned END or none   *)
(* is installed; it was asked once per chunk callback in the log; the     *)
(* write is done, failed or stopped by write_done_cb, error_cb or a       *)
(* cancel.                                                                 *)
(***************************************************************************)
WireOwed(e, bs, end) ==
  IF e = "content_length" THEN Header \o FlattenSeq(bs)
  ELSE SpecChunkedWire(bs) \o (IF end THEN SpecTerminator(Len(bs)) ELSE <<>>)

ProducerEnded ==
  ~chunk_cb \/ \E i \in DOMAIN log : log[i] = [cb |-> "chunk", ret |-> "end"]

WriteStatus ==
  CASE \E i \in DOMAIN log : log[i].cb = "done"  -> "done"
    [] \E i \in DOMAIN log : log[i].cb = "error" -> "failed"
    [] pc = "gone"                                -> "stopped"
    [] OTHER                                      -> "open"

Sender == INSTANCE SoupSender
            WITH Chunks <- Seq(Bytes) \ {<<>>},
                 Owed <- WireOwed,
                 enc <- encoding,
                 bodies <- produced,
                 ended <- ProducerEnded,
                 asked <- Len(SelectSeq(log, LAMBDA x : x.cb = "chunk")),
                 told <- headers_done,
                 broken <- chan_err,
                 status <- WriteStatus

(* soup_transfer_write keeps the promises of SoupSender: the wire is the  *)
(* framed header and bodies in order, headers_done_cb fires when the      *)
(* header is out, the producer is not called after END, write_done_cb     *)
(* only once all owed bytes (the chunked terminator included) are sent,   *)
(* and error_cb only on a broken channel.                                  *)
WriterSpec == Sender!Spec

=============================================================================
