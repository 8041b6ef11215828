----------------------------- MODULE AnswerStream -----------------------------
(* app/executors/public_answer_stream.py: PublicAnswerStreamGate, the one way *)
(* assistant text leaves a run.  Completed blocks arrive in pieces, each with *)
(* the message it belongs to; private tokens are replaced, secret assignments *)
(* redacted, and a suffix that may still become either is held back.  Tokens  *)
(* are also learnt while the run goes on.                                     *)
(*                                                                            *)
(* Characters: "a" is a word character and "/" is not; "q" opens a quoted     *)
(* secret value (key, separator and quote) or closes it, and "s" occurs only  *)
(* inside one; the sanitizer rejects a text with "x".  "#" stands for what    *)
(* replaces private text, "!" for the text that replaces an omitted part.     *)
EXTENDS Naturals, Sequences, FiniteSets

CONSTANTS Known,      \* the tokens known from the start
          Learnt,     \* the tokens learnt while the run goes on
          Sources,    \* 1..n, the provider messages
          MaxToken,   \* max_private_token_chars
          MaxInput

VARIABLES tokens, pending, spans, quote, published, status, routed, input

vars == <<tokens, pending, spans, quote, published, status, routed, input>>

Text == {"a", "/", "q", "s", "x"}
Chunks == {<<c>> : c \in Text} \cup {<<c, d>> : c, d \in Text}
Reject == <<"reject">>
Recovered == <<"!">>

TypeOK ==
  /\ Known \subseteq tokens /\ tokens \subseteq Known \cup Learnt
  /\ \A i \in DOMAIN pending : pending[i] \in Text \cup {"#"}
  /\ Len(spans) = Len(pending) /\ \A i \in DOMAIN spans : spans[i] \in Sources
  /\ quote \in BOOLEAN /\ Len(pending) <= MaxToken
  /\ \A i \in DOMAIN published : published[i] \in Text \cup {"#", "!"}
  /\ status \in [{"accepted", "omitted", "failed", "exposed", "late", "finished"} -> BOOLEAN]
  /\ Len(input) <= MaxInput /\ \A i \in DOMAIN routed : routed[i][1] \in Sources

Init ==
  /\ tokens = Known /\ pending = <<>> /\ spans = <<>> /\ quote = FALSE
  /\ published = <<>> /\ routed = <<>> /\ input = <<>>
  /\ status = [s \in {"accepted", "omitted", "failed", "exposed", "late", "finished"} |-> FALSE]

-----------------------------------------------------------------------------
(* Sequences of characters.                                                   *)
Max(S) == CHOOSE m \in S : \A n \in S : n <= m
Take(s, n) == SubSeq(s, 1, n)
Drop(s, n) == SubSeq(s, n + 1, Len(s))
StartsAt(t, s, i) == i + Len(t) <= Len(s) + 1 /\ SubSeq(s, i, i + Len(t) - 1) = t
Occurs(t, s) == \E i \in 1..Len(s) : StartsAt(t, s, i)
AnyIn(ts, s) == \E t \in ts : Occurs(t, s)
Owned(o, s) == [i \in 1..Len(s) |-> <<o, s[i]>>]
Pair(os, s) == [i \in 1..Len(s) |-> <<os[i], s[i]>>]
Chars(p) == [i \in 1..Len(p) |-> p[i][2]]
Owners(p) == [i \in 1..Len(p) |-> p[i][1]]

(* The opening quote of an unfinished secret value, 0 when there is none.     *)
Unfinished(s) ==
  LET qs == {i \in 1..Len(s) : s[i] = "q"} IN
  IF Cardinality(qs) % 2 = 0 THEN 0 ELSE Max(qs)

(* redact_secret_assignments: the value goes, closed or not.                  *)
RECURSIVE Redact(_)
Redact(s) ==
  LET qs == {i \in 1..Len(s) : s[i] = "q"} IN
  IF qs = {} THEN s
  ELSE LET open == CHOOSE i \in qs : \A j \in qs : i <= j
           rest == qs \ {open} IN
       Take(s, open) \o <<"#", "q">> \o
         (IF rest = {} THEN <<>>
          ELSE Redact(Drop(s, CHOOSE i \in rest : \A j \in rest : i <= j)))

(* The exact tokens, the longest at each place, replaced in a text whose      *)
(* characters carry their source: the replacement takes the first one's.      *)
RECURSIVE Replaced(_, _)
Replaced(p, ts) ==
  IF p = <<>> THEN <<>>
  ELSE LET here == {t \in ts : StartsAt(t, Chars(p), 1)} IN
       IF here = {} THEN <<p[1]>> \o Replaced(Tail(p), ts)
       ELSE <<<<p[1][1], "#">>>> \o Replaced(Drop(p, Max({Len(t) : t \in here})), ts)

Project(s) ==
  LET candidate == Chars(Replaced(Owned(0, Redact(s)), tokens)) IN
  IF \/ \E i \in DOMAIN candidate : candidate[i] = "x"
     \/ AnyIn(tokens, candidate)
  THEN Reject ELSE candidate

-----------------------------------------------------------------------------
(* What of a text's end may become private with the next piece.               *)
Capped(n) == IF n <= MaxToken THEN n ELSE MaxToken + 1

AssignmentHold(s) ==
  IF Unfinished(s) = 0 THEN 0 ELSE Capped(Len(s) - Unfinished(s) + 1)

WordHold(s) ==
  Capped(Max({n \in 0..Len(s) : \A i \in (Len(s) - n + 1)..Len(s) : s[i] = "a"}))

SanitizerHold(s) == IF AssignmentHold(s) > 0 THEN AssignmentHold(s) ELSE WordHold(s)

TokenHold(s) ==
  Max({0} \cup {n \in 1..Len(s) :
                  \E t \in tokens : n < Len(t) /\ Take(t, n) = Drop(s, Len(s) - n)})

(* Only what the sanitizer is unsure of.                                      *)
PrefixCharsOfSanitizer(s) == SanitizerHold(s)

PrefixChars(s) == Max({TokenHold(s), SanitizerHold(s)})

(* The text so far, at most MaxToken - 1 characters of it.                    *)
Suffix == Drop(published, IF Len(published) < MaxToken THEN 0 ELSE Len(published) - MaxToken + 1)

(* Without the look back at what is already out.                              *)
AcrossBoundaryForward(s) == Project(s)

(* A token learnt late may have begun in the published text.                  *)
AcrossBoundary(s) ==
  LET all == Suffix \o s
      crossing == {n \in 1..Len(s) : \E t \in tokens :
                     /\ n < Len(t) /\ Len(Suffix) + n >= Len(t)
                     /\ StartsAt(t, all, Len(Suffix) + n - Len(t) + 1)}
      safe == Project(IF crossing = {} THEN s ELSE <<"#">> \o Drop(s, Max(crossing))) IN
  IF safe = Reject \/ AnyIn(tokens, Suffix \o safe) THEN Reject ELSE safe

-----------------------------------------------------------------------------
(* accept: what is published, what is held, and whether the rest of a quote   *)
(* is thrown away.                                                            *)
Outcome(out, held, lost, skip) == [out |-> out, held |-> held, omitted |-> lost, quote |-> skip]

(* The rest of an omitted value is taken for ordinary text.                   *)
OmittedOpen(raw) == Outcome(Recovered, <<>>, TRUE, FALSE)

(* _retain_quote_after_omission                                               *)
Omitted(raw) == Outcome(Recovered, <<>>, TRUE, Unfinished(raw) > 0)

Released(raw, text, held) ==
  IF AcrossBoundary(text) = Reject THEN Omitted(raw)
  ELSE Outcome(AcrossBoundary(text), held, FALSE, FALSE)

OverBound(raw) ==
  LET start == Unfinished(raw)
      or(s) == IF s = Reject THEN <<>> ELSE s
      prefix == IF start = 0 THEN <<>> ELSE or(AcrossBoundary(Take(raw, start - 1))) IN
  Outcome(or(AcrossBoundary(prefix \o Recovered)), <<>>, TRUE, start > 0)

Considered(raw) ==
  LET safe == Project(raw)
      hold == Max({AssignmentHold(raw), IF AnyIn(tokens, raw) THEN 0 ELSE PrefixChars(raw)}) IN
  CASE safe = Reject -> Omitted(raw)
    [] safe # Reject /\ hold > MaxToken -> OverBound(raw)
    [] safe # Reject /\ hold \in 1..MaxToken ->
         LET stable == Project(Take(raw, Len(raw) - hold)) IN
         IF stable = Reject THEN Omitted(raw)
         ELSE Released(raw, stable, Drop(raw, Len(raw) - hold))
    [] OTHER ->
         LET n == PrefixChars(safe) IN
         IF n > MaxToken THEN Omitted(safe)
         ELSE Released(raw, Take(safe, Len(safe) - n), Drop(safe, Len(safe) - n))

Accepted(text) ==
  LET ends == {i \in 1..Len(text) : text[i] = "q"}
      rest == IF ~quote THEN text
              ELSE IF ends = {} THEN <<>>
              ELSE Drop(text, CHOOSE i \in ends : \A j \in ends : i <= j) IN
  IF rest = <<>> THEN Outcome(<<>>, pending, FALSE, quote /\ ends = {})
  ELSE Considered(pending \o rest)

-----------------------------------------------------------------------------
Failing(s) == [s EXCEPT !.failed = TRUE]
Cleared == pending' = <<>> /\ spans' = <<>> /\ quote' = FALSE

Apply(o) ==
  /\ pending' = o.held /\ quote' = o.quote /\ published' = published \o o.out
  /\ status' = [status EXCEPT !.accepted = TRUE, !.omitted = @ \/ o.omitted]

(* Everything that comes out belongs to the piece that came in.               *)
AcceptRoutedToNewest(source, text) ==
  LET o == Accepted(text) IN
  /\ Apply(o) /\ spans' = [i \in 1..Len(o.held) |-> source]
  /\ routed' = routed \o Owned(source, o.out)

(* accept_routed: the held suffix keeps its sources; when the projection of a *)
(* text of several sources cannot be told apart the gate fails.               *)
AcceptRouted(source, text) ==
  LET o == Accepted(text)
      one == \A i \in DOMAIN spans : spans[i] = source
      all == Pair(spans, pending) \o Owned(source, text)
      known == Replaced(all, tokens)
      n == Len(known) - Len(o.held) IN
  CASE one -> /\ Apply(o) /\ spans' = [i \in 1..Len(o.held) |-> source]
              /\ routed' = routed \o Owned(source, o.out)
    [] ~one /\ o.out \o o.held = Chars(known) ->
              /\ Apply(o) /\ spans' = Owners(Drop(known, n))
              /\ routed' = routed \o Take(known, n)
    [] OTHER -> /\ Cleared /\ UNCHANGED <<published, routed>>
                /\ status' = [Failing(status) EXCEPT !.accepted = TRUE, !.omitted = @ \/ o.omitted]

Current == IF input = <<>> THEN 1 ELSE input[Len(input)][1]
InValue == Unfinished(Chars(input)) > 0

(* A completed block, or a piece of it, of the current or the next message.   *)
Accept(source, text) ==
  /\ ~status.finished /\ ~status.failed /\ source \in {Current, Current + 1}
  /\ Len(input) + Len(text) <= MaxInput
  /\ \A i \in DOMAIN text : text[i] = "s" => Unfinished(Chars(input) \o Take(text, i)) > 0
  /\ input' = input \o Owned(source, text)
  /\ AcceptRouted(source, text)
  /\ UNCHANGED tokens

(* register_private_replacements                                              *)
Register(t) ==
  /\ ~status.finished /\ t \notin tokens
  /\ tokens' = tokens \cup {t}
  /\ IF Occurs(t, published)
     THEN /\ status' = [Failing(status) EXCEPT !.exposed = TRUE, !.late = TRUE] /\ Cleared
     ELSE /\ status' = [status EXCEPT !.late = @ \/ status.accepted]
          /\ UNCHANGED <<pending, spans, quote>>
  /\ UNCHANGED <<published, routed, input>>

FailClosed ==
  /\ ~status.finished /\ ~status.failed /\ status' = Failing(status) /\ Cleared
  /\ UNCHANGED <<tokens, published, routed, input>>

-----------------------------------------------------------------------------
(* finish: what is held is projected as part of the whole text.               *)
FinalText ==
  LET safe == Project(published \o pending)
      candidate == IF Len(safe) >= Len(published) /\ Take(safe, Len(published)) = published
                   THEN Drop(safe, Len(published)) ELSE pending
      or(s, t) == IF s = Reject THEN t ELSE s IN
  IF safe = Reject
  THEN IF pending # <<>> THEN or(AcrossBoundary(pending), IF published = <<>> THEN Recovered ELSE <<>>)
       ELSE IF published = <<>> THEN Recovered ELSE <<>>
  ELSE or(AcrossBoundary(candidate), Recovered)

(* _route_finish_chunks, after the known tokens.                              *)
FinalRoute(out) ==
  LET known == Replaced(Pair(spans, pending), tokens)
      owners == {spans[i] : i \in DOMAIN spans} IN
  IF out = <<>> THEN <<>>
  ELSE IF out = Chars(known) THEN known
  ELSE IF Cardinality(owners) = 1 THEN Owned(spans[1], out)
  ELSE IF owners = {} THEN Owned(Current, out)
  ELSE Reject

(* finish_routed at the end of the turn; it releases nothing after a failure. *)
Finish(release) ==
  LET out == IF ~release \/ status.failed \/ quote \/ ~status.accepted THEN <<>> ELSE FinalText
      route == FinalRoute(out)
      lost == \E i \in DOMAIN out : out[i] = "!" IN
  /\ ~status.finished
  /\ IF route = Reject
     THEN /\ status' = [Failing(status) EXCEPT !.finished = TRUE, !.omitted = @ \/ lost]
          /\ UNCHANGED <<published, routed>>
     ELSE /\ status' = [status EXCEPT !.finished = TRUE, !.omitted = @ \/ lost \/ quote \/ ~release]
          /\ published' = published \o out /\ routed' = routed \o route
  /\ Cleared /\ UNCHANGED <<tokens, input>>

Next ==
  \/ \E source \in Sources, text \in Chunks : Accept(source, text)
  \/ \E t \in Learnt : Register(t)
  \/ FailClosed
  \/ \E release \in BOOLEAN : Finish(release)

Spec == Init /\ [][Next]_vars

-----------------------------------------------------------------------------
(* No private token is in the published text, whatever pieces it came in,     *)
(* unless it was published before the run learnt it; and nothing of a quoted  *)
(* secret value is, omitted parts included (PublicAnswerStreamGate).          *)
PrivateStaysPrivate ==
  /\ ~status.exposed => ~AnyIn(tokens, published)
  /\ \A i \in DOMAIN published : published[i] # "s"

RECURSIVE IsWithin(_, _)
IsWithin(p, q) ==
  \/ p = <<>>
  \/ q # <<>> /\ IF p[1] = q[1] THEN IsWithin(Tail(p), Tail(q)) ELSE IsWithin(p, Tail(q))

(* What was published is routed once and in order, and every character that   *)
(* is not a replacement goes to the message that sent it (accept_routed,      *)
(* finish_routed).                                                            *)
RoutedToItsSource ==
  /\ Chars(routed) = published
  /\ IsWithin(SelectSeq(routed, LAMBDA p : p[2] \in {"a", "/"}), input)

(* When nothing failed and nothing was omitted, the pieces put together are   *)
(* the projection of the whole answer (finish_routed).                        *)
AnswerIsWhole ==
  status.finished /\ ~status.failed /\ ~status.omitted /\ ~status.late =>
    published = Project(Chars(input))
=============================================================================
