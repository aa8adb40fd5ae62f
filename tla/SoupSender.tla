------------------------------ MODULE SoupSender ------------------------------
(***************************************************************************)
(* What soup_transfer_write promises, after spec.md sections 4.5 to 4.7: *)
(* the peer receives a prefix of what the writer owes (the header and the *)
(* bodies, framed by the encoding, and once the producer has ended the     *)
(* terminator); headers_done_cb is told the first time the header is all  *)
(* on the wire; the producer is not asked again after it returned END;    *)
(* write_done_cb comes only when all that is owed is on the wire; the      *)
(* error callback only after the channel broke; the embedder may cancel   *)
(* at any time.  Nothing happens after done, error or cancel.              *)
(***************************************************************************)
EXTENDS Integers, Sequences, SequencesExt

CONSTANTS
  Header,         \* the header bytes
  Encodings,      \* the encodings a write may use
  Chunks,         \* the non-empty buffers a producer may hand over
  Owed(_, _, _)   \* Owed(enc, bodies, ended): the bytes owed to the peer

VARIABLES
  enc,       \* the encoding of this write
  bodies,    \* the buffers handed over so far, in order
  ended,     \* the producer has returned END (or there is none)
  asked,     \* how many times the producer was asked
  wire,      \* what the peer has received
  told,      \* headers_done_cb was called
  broken,    \* the channel failed
  status     \* "open", "done", "failed" or "stopped"

vars == <<enc, bodies, ended, asked, wire, told, broken, status>>

Init ==
  /\ enc \in Encodings
  /\ bodies \in Seq(Chunks)
  /\ ended \in BOOLEAN
  /\ asked \in Nat
  /\ wire = <<>>
  /\ told = FALSE
  /\ broken = FALSE
  /\ status = "open"

(* The producer is asked once more, and may hand over one more buffer.    *)
Produce ==
  /\ status = "open" /\ ~ended
  /\ asked' = asked + 1
  /\ IsPrefix(bodies, bodies') /\ Len(bodies') <= Len(bodies) + 1
  /\ bodies' \in Seq(Chunks)
  /\ ended' \in BOOLEAN
  /\ UNCHANGED <<enc, wire, told, broken, status>>

(* More of what is owed reaches the peer; the headers are told the first *)
(* time the whole header is out.                                           *)
Transmit ==
  /\ status = "open"
  /\ wire' # wire /\ IsPrefix(wire, wire')
  /\ IsPrefix(wire', Owed(enc, bodies, ended))
  /\ told' = (told \/ Len(wire') >= Len(Header))
  /\ UNCHANGED <<enc, bodies, ended, asked, broken, status>>

(* Done: the producer ends (now, when it is asked a last time, or before) *)
(* and everything owed is on the wire.                                    *)
Finish ==
  /\ status = "open"
  /\ ended' = TRUE
  /\ asked' \in {asked, asked + 1}
  /\ ended \/ asked' = asked + 1
  /\ wire = Owed(enc, bodies, TRUE)
  /\ status' = "done"
  /\ UNCHANGED <<enc, bodies, wire, told, broken>>

Break ==
  /\ ~broken
  /\ broken' = TRUE
  /\ UNCHANGED <<enc, bodies, ended, asked, wire, told, status>>

Fail ==
  /\ status = "open" /\ broken
  /\ status' = "failed"
  /\ UNCHANGED <<enc, bodies, ended, asked, wire, told, broken>>

Cancel ==
  /\ status = "open"
  /\ status' = "stopped"
  /\ UNCHANGED <<enc, bodies, ended, asked, wire, told, broken>>

Next == Produce \/ Transmit \/ Finish \/ Break \/ Fail \/ Cancel

Spec == Init /\ [][Next]_vars

=============================================================================
