---------------------------- MODULE AnswerStream ----------------------------
(***************************************************************************)
(* An answer of Sonar's streamed to the caller (rag/handler.py, _handle).  *)
(* The model was sent placeholders for what is personal, and its answer    *)
(* comes in pieces cut anywhere; guardrails.StreamRestorer puts the values *)
(* back as they come and holds back a placeholder that is not whole yet.   *)
(***************************************************************************)
EXTENDS Integers, Sequences
LOCAL INSTANCE SequencesExt

CONSTANTS MaxStream     \* bound: symbols in an answer of the model's

ASSUME StreamAssumption == MaxStream \in Nat

VARIABLES
    raw,        \* _raw: what the model has sent
    sent,       \* _sent: how much of the restored text is out
    buf,        \* restored, not pushed yet
    shown,      \* what the client has been pushed, in order
    finals,     \* tokens pushed as final
    ended       \* how the stream ended, or "open"

streamVars == <<raw, sent, buf, shown, finals, ended>>

(* A placeholder is three symbols: [ name ].  A citation, or text in       *)
(* brackets, is [ word ].                                                  *)
Symbols     == {"word", "[", "name", "]"}
Placeholder == <<"[", "name", "]">>

(* Redactor.restore: every placeholder by its value, which takes the place *)
(* of the two symbols it began with.                                       *)
Restored(text) ==
    LET upto[n \in 0 .. Len(text)] ==
            IF n = 0 THEN <<>>
            ELSE IF n >= 3 /\ SubSeq(text, n - 2, n) = Placeholder
                 THEN Append(SubSeq(upto[n - 1], 1, Len(upto[n - 1]) - 2), "value")
                 ELSE Append(upto[n - 1], text[n])
    IN  upto[Len(text)]

(* Mutant: nothing is held back.                                           *)
SafeCut_All(text) == Len(text)

(* _safe_cut: up to an open bracket that is not closed.                    *)
SafeCut(text) ==
    LET opens == {i \in DOMAIN text : text[i] = "["}
        last  == CHOOSE i \in opens : \A j \in opens : j <= i
    IN  IF opens # {} /\ \A j \in DOMAIN text : j > last => text[j] # "]"
        THEN last - 1
        ELSE Len(text)

Beyond(text) == SubSeq(text, sent + 1, Len(text))

(* The stream is open from the first state.                                *)
StreamInit == /\ raw = <<>> /\ sent = 0 /\ buf = <<>> /\ shown = <<>>
              /\ finals = 0 /\ ended = "open"

(* push: a piece arrives.  It is pushed to the client with what waits in   *)
(* the buffer, or waits too (80 ms, 16 characters).                        *)
Delta(piece) ==
    LET now == Restored(SubSeq(raw \o piece, 1, SafeCut(raw \o piece)))
        out == IF Len(now) <= sent THEN <<>> ELSE Beyond(now)
    IN  /\ ended = "open"
        /\ Len(raw) + Len(piece) <= MaxStream
        /\ raw' = raw \o piece
        /\ sent' = sent + Len(out)
        /\ \/ shown' = shown /\ buf' = buf \o out
           \/ out # <<>> /\ shown' = shown \o buf \o out /\ buf' = <<>>
        /\ UNCHANGED <<finals, ended>>

(* The model's stream fails before anything was restored: its apology is   *)
(* the final token.                                                        *)
NothingCame ==
    /\ ended = "open" /\ shown \o buf = <<>>
    /\ shown' = <<"apology">> /\ finals' = finals + 1 /\ ended' = "failed"
    /\ UNCHANGED <<raw, sent, buf>>

Ending(how) == CASE how = "interrupted" -> <<"interrupted">> \o Beyond(Restored(raw))
               [] how = "truncated"   -> Beyond(Restored(raw)) \o <<"truncated">>
               [] how = "complete"    -> Beyond(Restored(raw))

(* It ends, is cut at the cap of tokens, or fails on the way: flush, the   *)
(* note that says so, and an empty final token.  The note of a failure is  *)
(* put before the flush.                                                   *)
StreamEnds(how) ==
    /\ ended = "open"
    /\ how = "interrupted" => shown \o buf # <<>>
    /\ shown' = shown \o buf \o Ending(how)
    /\ sent' = Len(Restored(raw))
    /\ buf' = <<>> /\ finals' = finals + 1 /\ ended' = how
    /\ UNCHANGED raw

Pieces == {<<s>> : s \in Symbols} \cup {<<s, t>> : s, t \in Symbols}

StreamNext == \/ \E piece \in Pieces : Delta(piece)
              \/ NothingCame
              \/ \E how \in {"interrupted", "truncated", "complete"} : StreamEnds(how)
-----------------------------------------------------------------------------
(* What the client has seen is, at every moment, how the restored answer   *)
(* begins: no placeholder is shown, whole or in part, however the pieces   *)
(* are cut.                                                                *)
ShownIsRestored == ended = "open" => IsPrefix(shown \o buf, Restored(raw))

(* And in the end it is the whole of it, and the note at its end, or where *)
(* the model's stream failed.                                              *)
ShownAtLast ==
    LET whole == Restored(raw)
    IN  /\ ended = "complete" => shown = whole
        /\ ended = "truncated" => shown = Append(whole, "truncated")
        /\ ended = "interrupted" =>
              \E k \in 0 .. Len(whole) :
                 shown = SubSeq(whole, 1, k) \o <<"interrupted">> \o SubSeq(whole, k + 1, Len(whole))

(* The client is told once that the answer is over.                        *)
ToldOnce == finals = IF ended = "open" THEN 0 ELSE 1

StreamedHolds == ShownIsRestored /\ ShownAtLast /\ ToldOnce
=============================================================================
