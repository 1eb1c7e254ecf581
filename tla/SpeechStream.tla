---------------------------- MODULE SpeechStream ----------------------------
(***************************************************************************)
(* What a stream of synthesised audio promises its reader, whatever mode   *)
(* produces it.  The source owes the reader a growing sequence of items.   *)
(* The reader gets them in order, none lost and none twice.  The stream    *)
(* may end early only if it was cancelled; a source that fails owes one    *)
(* last item that says so, so an end without an error is a complete        *)
(* utterance.  After a cancellation at most one more item, the one a       *)
(* reader was already waiting for, is handed out.                          *)
(***************************************************************************)
EXTENDS Naturals, Sequences

CONSTANTS
  Item,     (* everything a stream can hand out                            *)
  Failure   (* the items that report that the source gave up               *)

VARIABLES
  owed,       (* all items the source has produced so far                  *)
  delivered,  (* the items handed to the reader                            *)
  source,     (* "open", or how production ended                           *)
  reader,     (* "reading", "ended" or "dropped"                           *)
  cancelled,  (* whether cancellation was requested                        *)
  late        (* whether an item was handed out after the cancellation     *)

vars == <<owed, delivered, source, reader, cancelled, late>>

Init ==
  /\ owed = << >>
  /\ delivered = << >>
  /\ source \in {"open", "completed"}    (* nothing to say is said at once *)
  /\ reader = "reading"
  /\ cancelled = FALSE
  /\ late = FALSE

(* One item or several, and with the last of them the source may be done.  *)
Produce ==
  /\ source = "open"
  /\ reader # "dropped"
  /\ Len(owed') > Len(owed)
  /\ SubSeq(owed', 1, Len(owed)) = owed
  /\ \A i \in (Len(owed) + 1)..Len(owed') : owed'[i] \in Item \ Failure
  /\ source' \in {"open", "completed"}
  /\ UNCHANGED <<delivered, reader, cancelled, late>>

(* The failure is owed to the reader as an item, if there still is one. *)
Fail ==
  /\ source = "open"
  /\ source' = "failed"
  /\ IF reader = "dropped"
     THEN UNCHANGED owed
     ELSE \E item \in Failure : owed' = Append(owed, item)
  /\ UNCHANGED <<delivered, reader, cancelled, late>>

Complete ==
  /\ source = "open"
  /\ source' = "completed"
  /\ UNCHANGED <<owed, delivered, reader, cancelled, late>>

(* The source gives up silently only when nobody is left to tell. *)
Stop ==
  /\ source = "open"
  /\ cancelled \/ reader # "reading"
  /\ source' = "stopped"
  /\ UNCHANGED <<owed, delivered, reader, cancelled, late>>

Deliver ==
  /\ reader = "reading"
  /\ Len(delivered) < Len(owed)
  /\ ~late
  /\ delivered' = Append(delivered, owed[Len(delivered) + 1])
  /\ late' = cancelled
  /\ UNCHANGED <<owed, source, reader, cancelled>>

End ==
  /\ reader = "reading"
  /\ cancelled \/ (source \in {"completed", "failed"} /\ delivered = owed)
  /\ reader' = "ended"
  /\ UNCHANGED <<owed, delivered, source, cancelled, late>>

Drop ==
  /\ reader = "reading"
  /\ reader' = "dropped"
  /\ UNCHANGED <<owed, delivered, source, cancelled, late>>

Cancel ==
  /\ ~cancelled
  /\ cancelled' = TRUE
  /\ UNCHANGED <<owed, delivered, source, reader, late>>

Next ==
  \/ Produce \/ Fail \/ Complete \/ Stop
  \/ Deliver \/ End \/ Drop
  \/ Cancel

Spec == Init /\ [][Next]_vars
=============================================================================
