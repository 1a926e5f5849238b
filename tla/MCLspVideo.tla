----------------------------- MODULE MCLspVideo -----------------------------
(* A generation of one datagram and three of two carry frames of three     *)
(* entries, three of which begin in one generation and end in the next;    *)
(* the sequence wraps in the third, a parity datagram comes after it, the  *)
(* fourth disagrees with itself about its size, and a fifth has a second   *)
(* L2 header and an entry that is refused.  The second frame announces     *)
(* more than it has.                                                       *)
EXTENDS LspVideo

D(number, generation, index, from, upto) ==
  [number |-> number, generation |-> generation, count |-> 2, index |-> index,
   l2 |-> FALSE, from |-> from, upto |-> upto]

Wrap == 8388608

Stream ==
  << [D(1, 254, 0, 1, 4) EXCEPT !.l2 = TRUE,    \* header, body, end, header
                                !.count = 1],
     D(2, 255, 0, 5, 5),                        \* body
     D(3, 255, 1, 6, 7),                        \* end, header
     D(4, 0, 0, 8, 8),                          \* body
     D(5, 0, 1, 9, 10),                         \* end, header; then parity
     D(7, 1, 0, 11, 11),                        \* body
     [D(8, 1, 1, 12, 12) EXCEPT !.count = 3],   \* end
     [D(9, 2, 0, 13, 14) EXCEPT !.count = 1,    \* header, refused
                                !.l2 = TRUE] >>

Heads == [h \in {1, 4, 7, 10, 13} |-> IF h = 4 THEN 4 ELSE 3]
Ends  == {3, 6, 9, 12}

=============================================================================
