----------------------------- MODULE SoupReceiver -----------------------------
(***************************************************************************)
(* What soup_transfer_read promises its embedder, after spec.md 4.4, 4.7,  *)
(* 5, 7 and 8.  The callbacks are a log: the headers callback first and    *)
(* once; chunk callbacks see body bytes in order (with overwrite_chunks    *)
(* each only the new ones, without it the whole body so far); done hands   *)
(* over the rest of the body -- all of the declared body, or with unknown  *)
(* framing whatever the peer sent before it hung up; error comes only once *)
(* the peer hung up or the channel failed, and says whether body bytes had *)
(* been read; nothing follows done, error or a callback returning END.     *)
(* The buffer is handed over to the done callback, and freed otherwise.    *)
(*                                                                         *)
(* One handler run may issue several callbacks, so a step extends the log *)
(* by any legal run of callbacks, and may destroy the reader; once the    *)
(* peer has hung up, it must.                                              *)
(***************************************************************************)
EXTENDS Integers, Sequences, SequencesExt

CONSTANTS
  Encodings,   \* the framings a body may be read with
  Bytes        \* the bytes a body is made of

VARIABLES
  bodies,      \* bodies[e]: the body the message carries, read with framing e
  overwrite,   \* the overwrite_chunks mode of this reader
  told,        \* the headers stage is over
  enc,         \* the framing in force ("unknown" until the headers)
  hup,         \* the peer hung up or the channel failed
  seen,        \* body bytes have been read from the channel
  log,         \* the callbacks issued, in order
  gone,        \* the reader was destroyed
  buffer       \* the receive buffer: "live", "taken" by done, or "freed"

vars == <<bodies, overwrite, told, enc, hup, seen, log, gone, buffer>>

Event ==
       [cb : {"headers"}, ended : BOOLEAN]
  \cup [cb : {"chunk"}, data : Seq(Bytes), ended : BOOLEAN]
  \cup [cb : {"done"}, data : Seq(Bytes)]
  \cup [cb : {"error"}, started : BOOLEAN]

(* A callback after which nothing more may be issued.                      *)
Final(e) == e.cb \in {"done", "error"} \/ e.ended

ChunkData(l) == LET cs == SelectSeq(l, LAMBDA e : e.cb = "chunk")
                IN [i \in 1..Len(cs) |-> cs[i].data]

(* The body bytes handed over so far once done is handed d.                *)
Whole(l, d) == IF overwrite THEN FlattenSeq(ChunkData(l)) \o d ELSE d

(* Whether event e may follow the log l, with framing e2 in force.        *)
Allowed(l, e, e2) ==
  LET body == bodies[e2]
      cs   == ChunkData(l)
  IN /\ \A i \in DOMAIN l : ~Final(l[i])
     /\ CASE e.cb = "headers" -> l = <<>>
          [] e.cb = "chunk"   ->
               /\ told'
               /\ IF overwrite THEN IsPrefix(FlattenSeq(cs) \o e.data, body)
                  ELSE /\ IsPrefix(e.data, body)
                       /\ cs # <<>> => IsStrictPrefix(cs[Len(cs)], e.data)
          [] e.cb = "done"    ->
               IF e2 = "unknown" THEN hup' /\ IsPrefix(Whole(l, e.data), body)
               ELSE Whole(l, e.data) = body
          [] e.cb = "error"   -> hup' /\ (e.started <=> seen')

(* Every event of evs is allowed after the ones before it.                 *)
RECURSIVE Legal(_, _, _)
Legal(l, evs, e2) ==
  evs = <<>> \/ (Allowed(l, Head(evs), e2)
                 /\ Legal(Append(l, Head(evs)), Tail(evs), e2))

Init ==
  /\ bodies \in [Encodings -> Seq(Bytes)]
  /\ overwrite \in BOOLEAN
  /\ told = FALSE /\ enc = "unknown"
  /\ hup \in BOOLEAN /\ seen \in BOOLEAN
  /\ log = <<>>
  /\ gone = FALSE /\ buffer = "live"

(* The peer goes on: it may hang up, the channel may fail, bytes of the   *)
(* body may be read.                                                       *)
PeerMoves == /\ hup' \in {hup, TRUE} /\ seen' \in {seen, TRUE}

(* A handler run: the headers stage may end (fixing the framing), a run of *)
(* legal callbacks is issued, and the reader may be destroyed -- handing   *)
(* the buffer to done if done was issued, freeing it otherwise.            *)
Handle ==
  /\ ~gone
  /\ PeerMoves
  /\ told' \in {told, TRUE}
  /\ enc' = enc \/ (~told /\ told' /\ enc' \in Encodings)
  /\ IsPrefix(log, log')
  /\ Legal(log, SubSeq(log', Len(log) + 1, Len(log')), enc')
  /\ \/ gone' = FALSE /\ buffer' = "live"
     \/ /\ gone' = TRUE
        /\ buffer' = IF \E i \in DOMAIN log' : log'[i].cb = "done"
                     THEN "taken" ELSE "freed"
  /\ UNCHANGED <<bodies, overwrite>>

Next == Handle \/ (PeerMoves /\ UNCHANGED <<bodies, overwrite, told, enc, log,
                                            gone, buffer>>)

(* Once the peer has hung up (spec 4.4: a zero read is treated as a      *)
(* hang-up) the reader is eventually destroyed: the main loop keeps       *)
(* dispatching the ready watch, so a reader cannot wait forever on a peer *)
(* that has nothing more to send.  This is weak fairness of the step that *)
(* destroys the reader: that step is enabled exactly when hup /\ ~gone,   *)
(* and neither hup nor gone is ever reset, so WF on it is hup ~> gone,     *)
(* written so that it needs no ENABLED under a refinement mapping.        *)
EventuallyGone == hup ~> gone

Spec == Init /\ [][Next]_vars /\ EventuallyGone

=============================================================================
