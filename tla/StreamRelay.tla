----------------------------- MODULE StreamRelay -----------------------------
(***************************************************************************)
(* The relaying of an upstream's event stream to the client (service.py,   *)
(* _stream_iterator and _rewrite_sse_chunk), as operators on one relay     *)
(* record.  Service.tla owns the variable.                                 *)
(*                                                                         *)
(* Bytes are abstracted to the pieces that lines are made of.  "head" and  *)
(* "tail" are the two halves of a data: line that holds a JSON object, the *)
(* upstream's model name in the first; "text" is any other piece of a line *)
(* (a comment, [DONE], what is no JSON); "ours" is a head after the        *)
(* virtual model's name has been put in.                                   *)
(***************************************************************************)
EXTENDS Integers, Sequences

LineEnds == {"lf", "cr"}
Pieces == {"head", "tail", "text", "ours"} \cup LineEnds

\* received is history: all that the upstream has sent so far.
Relays == [received : Seq(Pieces), remainder : Seq(Pieces), delivered : Seq(Pieces)]

EmptyRelay == [received |-> <<>>, remainder |-> <<>>, delivered |-> <<>>]

\* A whole line of s, from i on, is a JSON object.
EventAt(s, i) ==
    /\ s[i] = "head"
    /\ i + 1 \in DOMAIN s /\ s[i + 1] = "tail"
    /\ i - 1 \in DOMAIN s => s[i - 1] \in LineEnds
    /\ i + 2 \in DOMAIN s => s[i + 2] \in LineEnds

\* The text s, line by line, with the model named in every event replaced.
Rewrite(s) == [i \in 1 .. Len(s) |-> IF EventAt(s, i) THEN "ours" ELSE s[i]]

\* Slip: lines are taken to end where chunks do.
CutAtEnd(s) == Len(s)

\* Slip: only the first line of the buffer goes out.
CutFirst(s) ==
    CHOOSE c \in 0 .. Len(s) :
        /\ c = 0 => \A i \in DOMAIN s : s[i] # "lf"
        /\ c # 0 => s[c] = "lf" /\ \A i \in 1 .. c - 1 : s[i] # "lf"

\* How much of the buffer goes out: up to and with its last line feed.
Cut(s) ==
    CHOOSE c \in 0 .. Len(s) :
        /\ c = 0 \/ s[c] = "lf"
        /\ \A i \in c + 1 .. Len(s) : s[i] # "lf"

Feed(relay, chunk) ==
    LET buffer == relay.remainder \o chunk IN
    [received  |-> relay.received \o chunk,
     remainder |-> SubSeq(buffer, Cut(buffer) + 1, Len(buffer)),
     delivered |-> relay.delivered \o Rewrite(SubSeq(buffer, 1, Cut(buffer)))]

\* Slip: the unterminated last line is forgotten.
FlushNothing(relay) == [relay EXCEPT !.remainder = <<>>]

\* The upstream has ended: what is left goes out as it is.
Flush(relay) ==
    [received  |-> relay.received,
     remainder |-> <<>>,
     delivered |-> relay.delivered \o Rewrite(relay.remainder)]
=============================================================================
