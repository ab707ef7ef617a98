--------------------------- MODULE MCRemoteAdmin ---------------------------
(* RemoteAdmin with three small packages (one without file names, which is refused), answers that  *)
(* fill the client's buffer to its edge and over it, and replies of up to two messages.            *)
EXTENDS RemoteAdmin

MCReplies == {<<>>} \union {<<m>> : m \in Message} \union {<<m, n>> : m, n \in Message}

Bodies == {<<>>, <<"b">>, <<"b", "e", "b">>, <<"0", "e">>, <<"b", "b", "b", "b", "b">>}
MCAnswers == Bodies \union {<<"h", "e">> \o b : b \in Bodies} \union {<<"h", "h", "h", "e">> \o b : b \in Bodies}

E(t, ty, c, b) == [tag |-> t, ty |-> ty, c |-> c, b |-> b]
P(n, tr, rq, fs, es) == [name |-> n, group |-> "g", trig |-> tr, conf |-> <<>>, req |-> rq,
                         prov |-> <<n>>, files |-> fs, es |-> es]
A == P("a", <<>>, <<"b", "b">>, <<"f", "g">>,
       <<E(1000, 6, 1, <<1, 0>>), E(1027, 8, 2, <<1, 0, 1, 1, 0>>), E(1030, 3, 2, <<0, 1, 0, 1>>),
         E(1028, 4, 2, <<0, 0, 0, 1, 0, 0, 0, 1>>)>>)
B == P("b", <<"t", "u", "t">>, <<>>, <<"f">>,
       <<E(1000, 6, 1, <<1, 0>>), E(1027, 8, 1, <<1, 0>>), E(1080, 4, 2, <<0, 0, 0, 2, 0, 0, 0, 1>>),
         E(1081, 8, 2, <<1, 0, 0>>), E(1082, 8, 2, <<0, 1, 1, 0>>), E(1098, 8, 1, <<1, 1, 0>>)>>)
C == P("c", <<>>, <<>>, <<>>, <<E(1000, 6, 1, <<1, 0>>)>>)
MCOlds == {<<>>, <<A>>, <<B>>}
MCBatches == {<<>>, <<A>>, <<B>>, <<C>>, <<A, B>>, <<B, A>>, <<B, C>>, <<A, A>>}
MCNow == <<1, 0, 0, 1>>
=============================================================================
