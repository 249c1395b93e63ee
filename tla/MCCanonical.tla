----------------------------- MODULE MCCanonical ------------------------------
(***************************************************************************)
(* Canonical on structs that are Equal although their lists are built      *)
(* differently: lists of structs without pointers, which canonicalList     *)
(* copies as they are, a list of words and a list of structs with one      *)
(* word, and bit lists, of which Equal compares the lengths.               *)
(***************************************************************************)
EXTENDS Canonical

\* One value, as the program of an older and of a newer schema builds it, and
\* another value.
DataLists == {L(ObjectSize(8, 0), <<S(<<1>>, <<>>)>>),
              L(ObjectSize(16, 0), <<S(<<1, 0>>, <<>>)>>),
              L(ObjectSize(16, 0), <<S(<<1, 1>>, <<>>)>>)}

MCTrees == {S(<<>>, <<t>>) : t \in DataLists \cup {W(<<1>>), Bools(<<1>>), Bools(<<0>>)}}
===============================================================================
