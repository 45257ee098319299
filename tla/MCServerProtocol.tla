-------------------------- MODULE MCServerProtocol --------------------------
(* Small instances of ServerProtocol: the real buffer size, and answers of *)
(* the sizes where the layout changes (0, 1, the greeting's 4, the largest *)
(* 255), well formed and not.                                              *)
EXTENDS ServerProtocol

MCImei == <<105, 149, 209, 136, 233, 18, 3, 0>>
MCTimes == {<<255, 1, 2, 100>>}
MCTagValues == {<<255, 255, 255, 255>>, <<1, 2, 3, 4>>}
MCParcels == {251}

(* the byte at each place differs, so that a shifted read shows *)
Body(n, last) == [k \in 1..n |-> IF k = n THEN last ELSE (7 * k) % 256]
Answer(first, size, parcel, last) ==
    <<first, size, parcel>> \o Body(IF size > 0 THEN size + 2 ELSE 1, last)

MCIncoming ==
    {Answer(123, s, p, 125) : s \in {0, 1, 4, 255}, p \in {0, 252}}
      \cup {Answer(0, 4, 0, 125), Answer(123, 4, 0, 0), Answer(123, 0, 1, 7)}
=============================================================================
