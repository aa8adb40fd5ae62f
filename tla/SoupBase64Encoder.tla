-------------------------- MODULE SoupBase64Encoder --------------------------
(***************************************************************************)
(* What soup_base64_encode promises its caller (soup-misc.h): called with *)
(* a byte string, it returns a freshly allocated string holding the       *)
(* Base-64 encoding of the string.  To the caller the call is one step:    *)
(* nothing is observable until it returns, and it does return.            *)
(***************************************************************************)
EXTENDS Sequences

CONSTANTS
  Inputs,      \* the byte strings a caller may pass
  Encode(_)    \* the encoding the result must be

VARIABLES
  arg,         \* the argument of the call
  result,      \* the returned string, <<>> until the call returns
  returned     \* whether the call has returned

vars == <<arg, result, returned>>

Init ==
  /\ arg \in Inputs
  /\ result = <<>>
  /\ returned = FALSE

Return ==
  /\ ~returned
  /\ result' = Encode(arg)
  /\ returned' = TRUE
  /\ UNCHANGED arg

Spec == Init /\ [][Return]_vars /\ WF_vars(Return)

=============================================================================
