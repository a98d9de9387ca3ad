---------------------------- MODULE MCSseDecoder ----------------------------
(* Streams for TLC: every sequence of three lines of the kinds the decoder *)
(* tells apart, with every line end, and events that are kept open.        *)
EXTENDS SseDecoder

Kinds == {<<>>, <<"d">>, <<"d", ":", "x">>, <<"d", ":", " ", "x">>, <<":", "d">>,
          <<"x", ":", "d">>, <<"d", ":", "!">>}

Ended == {k \o e : k \in Kinds, e \in {<<"LF">>, <<"CR">>, <<"CR", "LF">>}}

Open == {FoldLeft(LAMBDA s, i : s \o <<"d", ":", "x", "LF">>, <<>>, [i \in 1..9 |-> i]),
         [i \in 1..9 |-> IF i = 1 THEN "d" ELSE IF i = 2 THEN ":" ELSE "x"]}

MCStreams == {s[1] \o s[2] \o s[3] : s \in Ended \X Ended \X Ended} \cup Open
=============================================================================
