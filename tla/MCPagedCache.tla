---------------------------- MODULE MCPagedCache ----------------------------
(* Three pages of two slots for TLC.  Slots -1 and 6 are out of range. *)
EXTENDS PagedCache

CONSTANTS t, u

MCTokens == {t, u}

MCWrites ==
  [tokens : {<<t>>, <<u>>}, slots : {<<s>> : s \in -1 .. 6}]
    \cup [tokens : {<<t, u>>}, slots : {<<r, s>> : r, s \in -1 .. 6}]
    \cup {[tokens |-> <<t, u>>, slots |-> <<0>>]}

Row(table, context) == [tables |-> <<table>>, contexts |-> <<context>>]

\* Shuffled, repeated and padded tables with every context, an invalid page in
\* a late row, and two requests that share a page.
MCReads ==
  {Row(table, c) : table \in {<<2, 0>>, <<1, 1>>, <<0, -1>>, <<1, 3>>}, c \in -1 .. 5}
    \cup {[tables |-> <<<<1, -1>>, <<2, 1>>>>, contexts |-> <<2, 3>>],
          [tables |-> <<<<0, -1>>, <<1, -1>>>>, contexts |-> <<2, 3>>],
          [tables |-> <<<<0, 1>>>>, contexts |-> <<2, 2>>]}
=============================================================================
